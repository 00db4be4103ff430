--------------------------- MODULE SecretStoreProofs ---------------------------
(***************************************************************************)
(* Theorems about SecretStore: its types, that every row opens and is the  *)
(* only one of its put, that the write lock explains every rejected put,   *)
(* and that the design keeps the promise of module SecretLog.  They hold   *)
(* for any number of engines, threads, names and calls, and every fault.   *)
(***************************************************************************)
EXTENDS SecretStore, TLAPS

USE DEF Goto, Return, Begin, history

LEMMA RowTypes ==
  /\ NoRow \in Row
  /\ \A n \in Name, hidden \in BOOLEAN, v \in Nat : NewRow(n, hidden, v) \in Row
  /\ \A r \in Row, id \in Nat : Sealed(r, id) \in Row
  /\ \A r \in Row, v \in Nat : [r EXCEPT !.version = v] \in Row
<1>1. NoRow \in Row
  BY DEF NoRow, NewRow, Row
<1>2. \A n \in Name, hidden \in BOOLEAN, v \in Nat : NewRow(n, hidden, v) \in Row
  BY DEF NewRow, Row
<1>3. ASSUME NEW r \in Row, NEW id \in Nat PROVE Sealed(r, id) \in Row
  BY DEF Sealed, record_aad, Row
<1>4. ASSUME NEW r \in Row, NEW v \in Nat PROVE [r EXCEPT !.version = v] \in Row
  BY DEF Row
<1> QED
  BY <1>1, <1>2, <1>3, <1>4

LEMMA InitTypes == Init => TypeOK
<1> SUFFICES ASSUME Init PROVE TypeOK
  OBVIOUS
<1>1. 0 \in 0..MaxCalls /\ NoRow \in Row
  BY RowTypes, SecretAssumption
<1> QED
  BY <1>1 DEF Init, TypeOK, Label

LEMMA StepTypes == TypeOK /\ [Next]_vars => TypeOK'
<1> SUFFICES ASSUME TypeOK, [Next]_vars PROVE TypeOK'
  OBVIOUS
<1> USE SecretAssumption, RowTypes DEF TypeOK, Label, Sealing
<1>1. ASSUME NEW t \in Thread, StartPut(t) PROVE TypeOK'
  <2>1. PICK n \in Name, hidden \in BOOLEAN :
          frame' = [frame EXCEPT ![t] = NewRow(n, hidden, calls')]
    BY <1>1 DEF StartPut
  <2>2. calls' \in 0..MaxCalls /\ calls' \in Nat
    BY <1>1 DEF StartPut
  <2>3. frame' \in [Thread -> Row]
    BY <2>1, <2>2
  <2> QED
    BY <1>1, <2>2, <2>3 DEF StartPut
<1>2. ASSUME NEW t \in Thread, MaxVersion(t) PROVE TypeOK'
  <2>1. PICK v \in Versions(frame[t].name) \cup {0} : frame' = [frame EXCEPT ![t].version = v + 1]
    BY <1>2 DEF MaxVersion
  <2>2. v \in Nat
    BY DEF Versions, Row
  <2>3. [frame[t] EXCEPT !.version = v + 1] \in Row
    <3>1. frame[t] \in Row /\ v + 1 \in Nat
      BY <2>2
    <3> QED
      BY <3>1 DEF Row
  <2>4. frame' = [frame EXCEPT ![t] = [frame[t] EXCEPT !.version = v + 1]]
    BY <2>1
  <2>5. frame' \in [Thread -> Row]
    BY <2>3, <2>4
  <2> QED
    BY <1>2, <2>5 DEF MaxVersion
<1>3. ASSUME NEW t \in Thread, Reserve(t) PROVE TypeOK'
  <2>1. next' \in Nat
    BY <1>3 DEF Reserve
  <2>2. Sealed(frame[t], next') \in Row
    BY <2>1
  <2>3. frame' \in [Thread -> Row]
    BY <1>3, <2>2 DEF Reserve
  <2> QED
    BY <1>3, <2>1, <2>3 DEF Reserve
<1>4. ASSUME NEW t \in Thread, Insert(t) PROVE TypeOK'
  BY <1>4 DEF Insert
<1>5. ASSUME NEW t \in Thread, Reject(t) PROVE TypeOK'
  BY <1>5 DEF Reject
<1>6. ASSUME NEW t \in Thread, Expire(t) PROVE TypeOK'
  BY <1>6 DEF Expire
<1>7. ASSUME NEW t \in Thread, AuditWritten(t) PROVE TypeOK'
  BY <1>7 DEF AuditWritten
<1>8. ASSUME NEW t \in Thread, StartGet(t) PROVE TypeOK'
  <2>1. PICK n \in Name, reveal \in BOOLEAN, apply \in BOOLEAN :
          got' = [got EXCEPT ![t] =
            {r \in {r \in rows : r.name = n /\ IsMaxVersion(n, r.version)} :
               /\ r.seal = record_aad(r.row_id, r.version)
               /\ reveal /\ apply /\ ~r.broker_only}]
    BY <1>8 DEF StartGet
  <2>2. got' \in [Thread -> SUBSET Row]
    BY <2>1
  <2> QED
    BY <1>8, <2>2 DEF StartGet
<1>9. ASSUME NEW t \in Thread, AuditRead(t) PROVE TypeOK'
  BY <1>9 DEF AuditRead
<1>10. ASSUME NEW t \in Thread, StoreError(t) PROVE TypeOK'
  BY <1>10 DEF StoreError
<1>11. ASSUME NEW e \in Engine, Crash(e) PROVE TypeOK'
  BY <1>11 DEF Crash
<1>12. CASE UNCHANGED vars
  BY <1>12 DEF vars
<1> QED
  BY <1>1, <1>2, <1>3, <1>4, <1>5, <1>6, <1>7, <1>8, <1>9, <1>10, <1>11, <1>12
     DEF Next, Step

(* Each variable keeps its type, for every value of the constants (lib.rs:490-650).   *)
THEOREM TypeCorrect == Spec => []TypeOK
  BY InitTypes, StepTypes, PTL DEF Spec

-----------------------------------------------------------------------------
(***************************************************************************)
(* The inductive invariant, in parts that each rest on those before.       *)
(***************************************************************************)
Choosing == {"reserve", "reserveAgain"}
Inserting == {"insert", "insertAgain"}
Putting == Sealing \cup {"auditWritten"}

(* A reserved id and a seal under it, before the insert and after.                    *)
SealsFit ==
  /\ \A t \in Thread : pc[t] \in Inserting =>
       /\ frame[t].row_id \in 1..next
       /\ frame[t].seal = record_aad(frame[t].row_id, frame[t].version)
  /\ EveryRowOpens

(* A put is known by its value, and has no row unless it repeats its insert, which    *)
(* carries the id of that row.                                                        *)
PutsAreDistinct ==
  /\ \A t \in Thread : pc[t] \in Putting => frame[t].value \in 1..calls
  /\ \A r \in rows : r.value \in 1..calls
  /\ \A t, u \in Thread : /\ pc[t] \in Putting /\ pc[u] \in Putting
                          /\ frame[t].value = frame[u].value
                          => t = u
  /\ \A t \in Thread, r \in rows : /\ pc[t] \in Sealing
                                   /\ r.value = frame[t].value
                                   => pc[t] = "insertAgain" /\ r.row_id = frame[t].row_id
  /\ OneRowPerPut

(* One put at a time in an engine; its version stays the next one and its id unused,  *)
(* unless its own row is in or another engine wrote.                                  *)
LockedPutsFit ==
  /\ \A t, u \in Thread : pc[t] \in Sealing /\ pc[u] \in Sealing /\ home[t] = home[u] => t = u
  /\ \A t \in Thread \ (lost \cup raced) :
       /\ pc[t] \in Choosing \cup Inserting => IsMaxVersion(frame[t].name, frame[t].version - 1)
       /\ pc[t] \in Inserting => \A r \in rows : r.row_id # frame[t].row_id
  /\ OnlyRacesAreRejected

(* What the steps of SecretLog need to know.                                          *)
RowsAreVersions ==
  /\ \A r, q \in rows : r.name = q.name /\ r.version = q.version => r = q
  /\ \A t \in Thread : pc[t] = "auditWritten" => frame[t] \in rows
  /\ \A t \in Thread : pc[t] # "auditRead" => got[t] = {}

SecretInv == SealsFit /\ PutsAreDistinct /\ LockedPutsFit /\ RowsAreVersions

LEMMA SealsStep == TypeOK /\ SealsFit /\ [Next]_vars => SealsFit'
<1> SUFFICES ASSUME TypeOK, SealsFit, [Next]_vars PROVE SealsFit'
  OBVIOUS
<1> USE DEF TypeOK, SealsFit, EveryRowOpens, Inserting
<1>1. ASSUME NEW t \in Thread, Reserve(t) PROVE SealsFit'
  <2>1. next' = next + 1 /\ UNCHANGED rows /\ \A u \in Thread \ {t} : pc'[u] = pc[u]
    BY <1>1 DEF Reserve
  <2>2. CASE frame' = [frame EXCEPT ![t] = Sealed(frame[t], next')]
    <3>1. frame'[t].row_id = next' /\ frame'[t].seal = record_aad(next', frame'[t].version)
      BY <2>2 DEF Sealed, Row
    <3>2. \A u \in Thread \ {t} : frame'[u] = frame[u]
      BY <2>2
    <3>3. 1..next \subseteq 1..next' /\ next' \in 1..next'
      BY <2>1
    <3> QED
      BY <2>1, <3>1, <3>2, <3>3
  <2>3. CASE UNCHANGED frame /\ pc' = [pc EXCEPT ![t] = "reserveAgain"]
    BY <2>1, <2>3
  <2> QED
    BY <1>1, <2>2, <2>3 DEF Reserve
<1>2. ASSUME NEW t \in Thread, Insert(t) PROVE SealsFit'
  <2>1. /\ rows' = rows \cup {frame[t]}
        /\ UNCHANGED <<next, frame>>
        /\ \A u \in Thread : pc'[u] \in Inserting => pc[u] \in Inserting
        /\ pc[t] \in Inserting
    BY <1>2 DEF Insert
  <2>2. \A q \in rows : q.row_id # frame[t].row_id
    BY <1>2 DEF Insert, Contract
  <2> QED
    BY <2>1, <2>2
<1>3. ASSUME UNCHANGED <<next, rows>>,
             \A u \in Thread : pc'[u] \in Inserting => pc[u] \in Inserting /\ frame'[u] = frame[u]
      PROVE  SealsFit'
  BY <1>3
<1>4. ASSUME NEW t \in Thread, StartPut(t) \/ MaxVersion(t) \/ Reject(t) \/ Expire(t)
                \/ AuditWritten(t) \/ StartGet(t) \/ AuditRead(t) \/ StoreError(t)
      PROVE  SealsFit'
  <2>1. /\ UNCHANGED <<next, rows>>
        /\ \A u \in Thread : pc'[u] \in Inserting => pc[u] \in Inserting /\ frame'[u] = frame[u]
    BY <1>4 DEF StartPut, MaxVersion, Reject, Expire, AuditWritten, StartGet, AuditRead, StoreError
  <2> QED
    BY <1>3, <2>1
<1>5. ASSUME NEW e \in Engine, Crash(e) PROVE SealsFit'
  <2>1. /\ UNCHANGED <<next, rows>>
        /\ \A u \in Thread : pc'[u] \in Inserting => pc[u] \in Inserting /\ frame'[u] = frame[u]
    BY <1>5 DEF Crash
  <2> QED
    BY <1>3, <2>1
<1>6. CASE UNCHANGED vars
  BY <1>3, <1>6 DEF vars
<1> QED
  BY <1>1, <1>2, <1>4, <1>5, <1>6 DEF Next, Step

LEMMA DistinctStep == TypeOK /\ PutsAreDistinct /\ [Next]_vars => PutsAreDistinct'
<1> SUFFICES ASSUME TypeOK, PutsAreDistinct, [Next]_vars PROVE PutsAreDistinct'
  OBVIOUS
<1> USE DEF TypeOK, PutsAreDistinct, OneRowPerPut, Putting, Sealing
<1>1. ASSUME NEW t \in Thread, StartPut(t) PROVE PutsAreDistinct'
  <2>1. /\ calls' = calls + 1
        /\ UNCHANGED rows
        /\ pc'[t] = "maxVersion"
        /\ \A u \in Thread \ {t} : pc'[u] = pc[u] /\ frame'[u] = frame[u]
    BY <1>1 DEF StartPut
  <2>2. frame'[t].value = calls'
    BY <1>1 DEF StartPut, NewRow
  <2>3. /\ \A u \in Thread : pc[u] \in Putting => frame[u].value # calls'
        /\ \A r \in rows : r.value # calls'
        /\ 1..calls \subseteq 1..calls'
        /\ calls' \in 1..calls'
    BY <2>1
  <2> QED
    BY <2>1, <2>2, <2>3
<1>2. ASSUME NEW t \in Thread, Insert(t) PROVE PutsAreDistinct'
  <2>1. /\ rows' = rows \cup {frame[t]}
        /\ UNCHANGED <<frame, calls>>
        /\ pc[t] \in Sealing
        /\ pc'[t] \in {"auditWritten", "insertAgain"}
        /\ \A u \in Thread \ {t} : pc'[u] = pc[u]
    BY <1>2 DEF Insert
  <2>2. \A q \in rows : q.row_id # frame[t].row_id
    BY <1>2 DEF Insert, Contract
  <2>3. \A q \in rows : q.value # frame[t].value
    BY <2>1, <2>2
  <2> QED
    BY <2>1, <2>3
<1>3. ASSUME UNCHANGED rows, calls' \in Nat, calls <= calls',
             \A u \in Thread :
               /\ pc'[u] \in Putting => pc[u] \in Putting /\ frame'[u].value = frame[u].value
               /\ pc'[u] \in Sealing => pc[u] \in Sealing
               /\ pc[u] = "insertAgain" =>
                    pc'[u] \notin Sealing \/ (pc'[u] = pc[u] /\ frame'[u].row_id = frame[u].row_id)
      PROVE  PutsAreDistinct'
  <2>1. 1..calls \subseteq 1..calls'
    BY <1>3
  <2> QED
    BY <1>3, <2>1
<1>4. ASSUME NEW t \in Thread, MaxVersion(t) \/ Reserve(t) \/ Reject(t) \/ Expire(t)
                \/ AuditWritten(t) \/ StartGet(t) \/ AuditRead(t) \/ StoreError(t)
      PROVE  PutsAreDistinct'
  <2>1. UNCHANGED rows /\ calls' \in Nat /\ calls <= calls'
    BY <1>4 DEF MaxVersion, Reserve, Reject, Expire, AuditWritten, StartGet, AuditRead, StoreError
  <2>2. /\ \A u \in Thread \ {t} : pc'[u] = pc[u] /\ frame'[u] = frame[u]
        /\ pc[t] = "insertAgain" => pc'[t] \notin Sealing
        /\ pc'[t] \in Sealing => pc[t] \in Sealing
        /\ pc'[t] \in Putting => pc[t] \in Putting
    BY <1>4 DEF MaxVersion, Reserve, Reject, Expire, AuditWritten, StartGet, AuditRead, StoreError
  <2>3. pc'[t] \in Putting => frame'[t].value = frame[t].value
    <3>1. CASE MaxVersion(t)
      BY <3>1 DEF MaxVersion, Row
    <3>2. CASE Reserve(t)
      <4>1. Sealed(frame[t], next').value = frame[t].value
        BY DEF Sealed, Row
      <4> QED
        BY <3>2, <4>1 DEF Reserve
    <3>3. CASE Reject(t) \/ Expire(t) \/ AuditWritten(t) \/ StartGet(t) \/ AuditRead(t)
               \/ StoreError(t)
      BY <3>3 DEF Reject, Expire, AuditWritten, StartGet, AuditRead, StoreError
    <3> QED
      BY <1>4, <3>1, <3>2, <3>3
  <2> QED
    BY <1>3, <2>1, <2>2, <2>3
<1>5. ASSUME NEW e \in Engine, Crash(e) PROVE PutsAreDistinct'
  <2>1. /\ UNCHANGED <<rows, calls>>
        /\ \A u \in Thread : pc'[u] = "idle" \/ (pc'[u] = pc[u] /\ frame'[u] = frame[u])
    BY <1>5 DEF Crash
  <2> QED
    BY <1>3, <2>1
<1>6. CASE UNCHANGED vars
  BY <1>3, <1>6 DEF vars
<1> QED
  BY <1>1, <1>2, <1>4, <1>5, <1>6 DEF Next, Step

(* The maximum of a name is a fact about the table alone. *)
LEMMA MaxVersionStays ==
  ASSUME UNCHANGED rows, NEW n, NEW v
  PROVE  IsMaxVersion(n, v)' <=> IsMaxVersion(n, v)
  BY DEF IsMaxVersion, Versions

LEMMA LockedStep == TypeOK /\ SealsFit /\ LockedPutsFit /\ [Next]_vars => LockedPutsFit'
<1> SUFFICES ASSUME TypeOK, SealsFit, LockedPutsFit, [Next]_vars PROVE LockedPutsFit'
  OBVIOUS
<1> USE DEF TypeOK, LockedPutsFit, OnlyRacesAreRejected, Choosing, Inserting, Sealing
<1>1. ASSUME NEW t \in Thread, StartPut(t) PROVE LockedPutsFit'
  <2>1. /\ UNCHANGED <<rows, lost, raced, unexplained>>
        /\ pc'[t] = "maxVersion"
        /\ \A u \in Thread \ {t} : pc'[u] = pc[u] /\ frame'[u] = frame[u]
        /\ \A u \in Thread : home[u] = home[t] => pc[u] \notin Sealing
    BY <1>1 DEF StartPut, LockFree
  <2> QED
    BY <2>1, MaxVersionStays
<1>2. ASSUME NEW t \in Thread, MaxVersion(t) PROVE LockedPutsFit'
  <2>1. /\ UNCHANGED <<rows, lost, raced, unexplained>>
        /\ pc[t] = "maxVersion" /\ pc'[t] = "reserve"
        /\ \A u \in Thread \ {t} : pc'[u] = pc[u] /\ frame'[u] = frame[u]
    BY <1>2 DEF MaxVersion
  <2>2. PICK v \in Versions(frame[t].name) \cup {0} :
          /\ IsMaxVersion(frame[t].name, v)
          /\ frame' = [frame EXCEPT ![t].version = v + 1]
    BY <1>2 DEF MaxVersion
  <2>3. v \in Nat
    BY DEF Versions, Row
  <2>4. frame'[t].name = frame[t].name /\ frame'[t].version - 1 = v
    BY <2>2, <2>3 DEF Row
  <2> QED
    BY <2>1, <2>2, <2>4, MaxVersionStays
<1>3. ASSUME NEW t \in Thread, Reserve(t) PROVE LockedPutsFit'
  <2>1. /\ UNCHANGED <<rows, lost, raced, unexplained>>
        /\ next' = next + 1
        /\ pc[t] \in Choosing /\ pc'[t] \in {"insert", "reserveAgain"}
        /\ \A u \in Thread \ {t} : pc'[u] = pc[u] /\ frame'[u] = frame[u]
    BY <1>3 DEF Reserve
  <2>2. /\ frame'[t].name = frame[t].name /\ frame'[t].version = frame[t].version
        /\ pc'[t] = "insert" => frame'[t].row_id = next'
    <3>1. CASE frame' = [frame EXCEPT ![t] = Sealed(frame[t], next')]
      <4>1. /\ Sealed(frame[t], next').name = frame[t].name
            /\ Sealed(frame[t], next').version = frame[t].version
            /\ Sealed(frame[t], next').row_id = next'
        BY DEF Sealed, Row
      <4> QED
        BY <3>1, <4>1
    <3>2. CASE UNCHANGED frame /\ pc' = [pc EXCEPT ![t] = "reserveAgain"]
      BY <3>2
    <3> QED
      BY <1>3, <3>1, <3>2 DEF Reserve
  <2>3. \A r \in rows : r.row_id # next'
    BY <2>1 DEF SealsFit, EveryRowOpens
  <2> QED
    BY <2>1, <2>2, <2>3, MaxVersionStays
<1>4. ASSUME NEW t \in Thread, Insert(t) PROVE LockedPutsFit'
  <2>1. /\ UNCHANGED <<frame, unexplained>>
        /\ pc[t] \in Inserting
        /\ \A u \in Thread \ {t} : pc'[u] = pc[u]
        /\ raced' = raced \cup {u \in Thread : pc[u] # "idle" /\ home[u] # home[t]}
        /\ \/ pc'[t] = "auditWritten" /\ lost' = lost
           \/ pc'[t] = "insertAgain" /\ lost' = lost \cup {t}
    BY <1>4 DEF Insert
  <2>2. ASSUME NEW u \in Thread \ (lost' \cup raced'), pc'[u] \in Choosing \cup Inserting
        PROVE  FALSE
    <3>1. u # t
      BY <2>1, <2>2
    <3>2. pc[u] \in Sealing /\ home[u] # home[t]
      BY <2>1, <2>2, <3>1
    <3> QED
      BY <2>1, <2>2, <3>2
  <2>3. \A u \in Thread : pc'[u] \in Sealing => pc[u] \in Sealing
    BY <2>1
  <2> QED
    BY <2>1, <2>2, <2>3
<1>5. ASSUME NEW t \in Thread, Reject(t) PROVE LockedPutsFit'
  <2>1. t \in lost \cup raced
    <3>1. SUFFICES ASSUME t \notin lost \cup raced PROVE Contract(frame[t])
      BY <1>5 DEF Reject
    <3>2. pc[t] \in Inserting
      BY <1>5 DEF Reject
    <3> QED
      BY <3>1, <3>2 DEF Contract, SealsFit
  <2>2. /\ UNCHANGED rows
        /\ lost' = lost \ {t} /\ raced' = raced \ {t}
        /\ pc'[t] = "idle"
        /\ unexplained' = (unexplained \/ t \notin lost \cup raced)
        /\ \A u \in Thread \ {t} : pc'[u] = pc[u] /\ frame'[u] = frame[u]
    BY <1>5 DEF Reject
  <2> QED
    BY <2>1, <2>2, MaxVersionStays
<1>6. ASSUME NEW t \in Thread, Expire(t) PROVE LockedPutsFit'
  <2>1. /\ UNCHANGED <<rows, frame, lost, raced, unexplained>>
        /\ \/ pc[t] = "reserve" /\ pc'[t] = "reserveAgain"
           \/ pc[t] = "insert" /\ pc'[t] = "insertAgain"
        /\ \A u \in Thread \ {t} : pc'[u] = pc[u]
    BY <1>6 DEF Expire
  <2> QED
    BY <2>1, MaxVersionStays
<1>7. ASSUME UNCHANGED <<rows, unexplained>>,
             \A u \in Thread : \/ pc'[u] \notin Sealing
                              \/ /\ pc'[u] = pc[u] /\ frame'[u] = frame[u]
                                 /\ u \in lost => u \in lost'
                                 /\ u \in raced => u \in raced'
      PROVE  LockedPutsFit'
  BY <1>7, MaxVersionStays
<1>8. ASSUME NEW t \in Thread, AuditWritten(t) \/ StartGet(t) \/ AuditRead(t) \/ StoreError(t)
      PROVE  LockedPutsFit'
  <2>1. /\ UNCHANGED <<rows, unexplained>>
        /\ lost \ {t} \subseteq lost' /\ raced \ {t} \subseteq raced'
        /\ pc'[t] \notin Sealing
        /\ \A u \in Thread \ {t} : pc'[u] = pc[u] /\ frame'[u] = frame[u]
    BY <1>8 DEF AuditWritten, StartGet, AuditRead, StoreError
  <2> QED
    BY <1>7, <2>1
<1>9. ASSUME NEW e \in Engine, Crash(e) PROVE LockedPutsFit'
  <2>1. /\ UNCHANGED <<rows, unexplained>>
        /\ \A u \in Thread :
             IF home[u] = e THEN pc'[u] = "idle"
             ELSE /\ pc'[u] = pc[u] /\ frame'[u] = frame[u]
                  /\ (u \in lost => u \in lost') /\ (u \in raced => u \in raced')
    BY <1>9 DEF Crash
  <2> QED
    BY <1>7, <2>1
<1>10. CASE UNCHANGED vars
  BY <1>7, <1>10 DEF vars
<1> QED
  BY <1>1, <1>2, <1>3, <1>4, <1>5, <1>6, <1>8, <1>9, <1>10 DEF Next, Step

LEMMA VersionsStep == TypeOK /\ RowsAreVersions /\ [Next]_vars => RowsAreVersions'
<1> SUFFICES ASSUME TypeOK, RowsAreVersions, [Next]_vars PROVE RowsAreVersions'
  OBVIOUS
<1> USE DEF TypeOK, RowsAreVersions
<1>1. ASSUME NEW t \in Thread, Insert(t) PROVE RowsAreVersions'
  <2>1. /\ rows' = rows \cup {frame[t]}
        /\ UNCHANGED <<frame, got>>
        /\ pc[t] # "auditRead"
        /\ \A u \in Thread \ {t} : pc'[u] = pc[u]
    BY <1>1 DEF Insert
  <2>2. \A q \in rows : q.name = frame[t].name => q.version # frame[t].version
    <3>1. \A w \in Versions(frame[t].name) : w <= frame[t].version - 1
      BY <1>1 DEF Insert, Contract, IsMaxVersion
    <3>2. \A q \in rows : q.name = frame[t].name => q.version \in Versions(frame[t].name)
      BY DEF Versions
    <3> QED
      BY <3>1, <3>2 DEF Row
  <2> QED
    BY <2>1, <2>2
<1>2. ASSUME NEW t \in Thread, StartGet(t) PROVE RowsAreVersions'
  <2>1. /\ UNCHANGED <<rows, frame>>
        /\ pc'[t] = "auditRead"
        /\ \A u \in Thread \ {t} : pc'[u] = pc[u] /\ got'[u] = got[u]
    BY <1>2 DEF StartGet
  <2> QED
    BY <2>1
<1>3. ASSUME UNCHANGED rows,
             \A u \in Thread : pc'[u] = "auditWritten" => pc[u] = "auditWritten" /\ frame'[u] = frame[u],
             \A u \in Thread : pc'[u] # "auditRead" =>
               got'[u] = {} \/ (got'[u] = got[u] /\ pc[u] # "auditRead")
      PROVE  RowsAreVersions'
  <2>1. ASSUME NEW u \in Thread, pc'[u] = "auditWritten" PROVE frame'[u] \in rows'
    <3>1. pc[u] = "auditWritten" /\ frame'[u] = frame[u] /\ rows' = rows
      BY <1>3, <2>1
    <3> QED
      BY <3>1
  <2>2. ASSUME NEW u \in Thread, pc'[u] # "auditRead" PROVE got'[u] = {}
    <3>1. CASE got'[u] = got[u] /\ pc[u] # "auditRead"
      BY <3>1
    <3> QED
      BY <1>3, <2>2, <3>1
  <2> QED
    BY <1>3, <2>1, <2>2
<1>4. ASSUME NEW t \in Thread, StartPut(t) \/ MaxVersion(t) \/ Reserve(t) \/ Reject(t) \/ Expire(t)
                \/ AuditWritten(t) \/ AuditRead(t) \/ StoreError(t)
      PROVE  RowsAreVersions'
  <2>1. /\ UNCHANGED rows
        /\ pc'[t] # "auditWritten"
        /\ got'[t] = {} \/ (got'[t] = got[t] /\ pc[t] # "auditRead")
        /\ \A u \in Thread \ {t} : pc'[u] = pc[u] /\ frame'[u] = frame[u] /\ got'[u] = got[u]
    BY <1>4 DEF StartPut, MaxVersion, Reserve, Reject, Expire, AuditWritten, AuditRead, StoreError
  <2> QED
    BY <1>3, <2>1
<1>5. ASSUME NEW e \in Engine, Crash(e) PROVE RowsAreVersions'
  <2>1. /\ UNCHANGED rows
        /\ \A u \in Thread : IF home[u] = e THEN pc'[u] = "idle" /\ got'[u] = {}
                            ELSE pc'[u] = pc[u] /\ frame'[u] = frame[u] /\ got'[u] = got[u]
    BY <1>5 DEF Crash
  <2> QED
    BY <1>3, <2>1
<1>6. CASE UNCHANGED vars
  BY <1>3, <1>6 DEF vars
<1> QED
  BY <1>1, <1>2, <1>4, <1>5, <1>6 DEF Next, Step

LEMMA Invariance == Spec => []SecretInv
<1>1. Init => SecretInv
  BY DEF Init, SecretInv, SealsFit, PutsAreDistinct, LockedPutsFit, RowsAreVersions, EveryRowOpens,
     OneRowPerPut, OnlyRacesAreRejected, Putting, Sealing, Choosing, Inserting
<1>2. TypeOK /\ SecretInv /\ [Next]_vars => SecretInv'
  BY SealsStep, DistinctStep, LockedStep, VersionsStep DEF SecretInv
<1> QED
  BY <1>1, <1>2, TypeCorrect, PTL DEF Spec

(* HF-2 (lib.rs:516-518) for every mix of engines, retries, lost answers and crashes: *)
(* every stored row opens under its own AAD, and ids are unique.                      *)
THEOREM RowsOpen == Spec => []EveryRowOpens
  BY Invariance, PTL DEF SecretInv, SealsFit

(* A put that is sent twice stores one row (secrets-store-libsql/src/store.rs:169).   *)
THEOREM NoDoubleInsert == Spec => []OneRowPerPut
  BY Invariance, PTL DEF SecretInv, PutsAreDistinct

(* The write lock leaves the store nothing to reject among the puts of one engine     *)
(* (lib.rs:497-503), but for a lost answer.                                           *)
THEOREM LockOrdersPuts == Spec => []OnlyRacesAreRejected
  BY Invariance, PTL DEF SecretInv, LockedPutsFit

-----------------------------------------------------------------------------
(* One operator that the steps of the refinement below share: a smaller set has the   *)
(* entries of its rows, and one more row one more entry.                              *)
LEMMA EntriesOfUnion ==
  ASSUME NEW R, NEW r
  PROVE  AsEntries(R \cup {r}) = AsEntries(R) \cup {AsEntry(r)}
  BY DEF AsEntries

(* What is a maximum of the table is one of its entries.                              *)
LEMMA NextEntry ==
  ASSUME TypeOK, NEW r \in Row, IsMaxVersion(r.name, r.version - 1)
  PROVE  Promise!IsNext(AsEntry(r))
<1>1. ASSUME NEW q \in rows, q.name = r.name PROVE q.version < r.version
  <2>1. q.version \in Versions(r.name)
    BY <1>1 DEF Versions
  <2>2. q.version \in Nat /\ r.version \in Nat
    BY DEF TypeOK, Row
  <2> QED
    BY <2>1, <2>2 DEF IsMaxVersion
<1>2. r.version = 1 \/ \E q \in rows : q.name = r.name /\ q.version = r.version - 1
  BY DEF IsMaxVersion, Versions, Row
<1>3. ASSUME NEW f \in AsEntries(rows), f.name = AsEntry(r).name PROVE f.version < AsEntry(r).version
  <2>1. PICK q \in rows : f = AsEntry(q)
    BY DEF AsEntries
  <2> QED
    BY <1>1, <1>3, <2>1 DEF AsEntry
<1>4. \/ AsEntry(r).version = 1
      \/ \E f \in AsEntries(rows) : f.name = AsEntry(r).name /\ f.version = AsEntry(r).version - 1
  <2>1. CASE r.version = 1
    BY <2>1 DEF AsEntry
  <2>2. ASSUME NEW q \in rows, q.name = r.name, q.version = r.version - 1
        PROVE  \E f \in AsEntries(rows) : f.name = AsEntry(r).name /\ f.version = AsEntry(r).version - 1
    <3>1. AsEntry(q) \in AsEntries(rows)
      BY DEF AsEntries
    <3> QED
      BY <2>2, <3>1 DEF AsEntry
  <2> QED
    BY <1>2, <2>1, <2>2
<1> QED
  BY <1>3, <1>4 DEF Promise!IsNext

LEMMA RefinesStep ==
  TypeOK /\ RowsAreVersions /\ [Next]_vars => [Promise!Next]_(Promise!vars)
<1> SUFFICES ASSUME TypeOK, RowsAreVersions, [Next]_vars
             PROVE  Promise!Next \/ UNCHANGED Promise!vars
  OBVIOUS
<1> USE DEF TypeOK, RowsAreVersions
<1>1. ASSUME NEW t \in Thread, Insert(t) PROVE Promise!Next
  <2>1. rows' = rows \cup {frame[t]} /\ UNCHANGED <<acked, got>>
    BY <1>1 DEF Insert
  <2>2. AsEntries(rows)' = AsEntries(rows) \cup {AsEntry(frame[t])}
    BY <2>1, EntriesOfUnion
  <2>3. Promise!IsNext(AsEntry(frame[t]))
    BY <1>1, NextEntry DEF Insert, Contract
  <2>4. AsEntry(frame[t]) \notin AsEntries(rows)
    BY <2>3 DEF Promise!IsNext, AsEntry, Row
  <2> QED
    BY <2>1, <2>2, <2>3, <2>4 DEF Promise!Next, Promise!Write
<1>2. ASSUME NEW t \in Thread, AuditWritten(t) PROVE Promise!Next
  <2>1. acked' = acked \cup {frame[t]} /\ UNCHANGED rows
    BY <1>2 DEF AuditWritten
  <2>2. AsEntries(acked)' = AsEntries(acked) \cup {AsEntry(frame[t])}
    BY <2>1, EntriesOfUnion
  <2>3. AsEntry(frame[t]) \in AsEntries(rows)
    BY <1>2 DEF AuditWritten, AsEntries
  <2>4. UNCHANGED got
    BY <1>2 DEF AuditWritten
  <2> QED
    BY <2>1, <2>2, <2>3, <2>4 DEF Promise!Next, Promise!Acknowledge
<1>3. ASSUME NEW t \in Thread, StartGet(t) PROVE Promise!Next \/ UNCHANGED Promise!vars
  <2>1. PICK n \in Name, reveal \in BOOLEAN, apply \in BOOLEAN :
          got' = [got EXCEPT ![t] =
            {r \in {r \in rows : r.name = n /\ IsMaxVersion(n, r.version)} :
               /\ r.seal = record_aad(r.row_id, r.version)
               /\ reveal /\ apply /\ ~r.broker_only}]
    BY <1>3 DEF StartGet
  <2>2. UNCHANGED <<rows, acked>>
    BY <1>3 DEF StartGet
  <2>3. got[t] = {}
    BY <1>3 DEF StartGet
  <2>4. CASE got'[t] = {}
    <3>1. UNCHANGED got
      BY <2>1, <2>3, <2>4
    <3> QED
      BY <2>2, <3>1 DEF Promise!vars
  <2>5. ASSUME NEW r \in got'[t] PROVE Promise!Next
    <3>1. r \in rows /\ r.name = n /\ IsMaxVersion(n, r.version) /\ ~r.broker_only
      BY <2>1, <2>5
    <3>2. \A q \in got'[t] : q \in rows /\ q.name = n /\ IsMaxVersion(n, q.version)
      BY <2>1
    <3>3. \A q \in rows : q.name = n => q.version <= r.version
      BY <3>1 DEF IsMaxVersion, Versions
    <3>4. \A q \in got'[t] : q.version = r.version
      <4>1. ASSUME NEW q \in got'[t] PROVE r.version <= q.version
        <5>1. r.version \in Versions(n) /\ IsMaxVersion(n, q.version)
          BY <3>1, <3>2, <4>1 DEF Versions
        <5> QED
          BY <5>1 DEF IsMaxVersion
      <4>2. \A q \in got'[t] : q.version <= r.version
        BY <3>2, <3>3
      <4>3. \A q \in rows : q.version \in Nat
        BY DEF Row
      <4> QED
        BY <3>1, <3>2, <4>1, <4>2, <4>3
    <3>5. got'[t] = {r}
      BY <2>5, <3>1, <3>2, <3>4
    <3>6. got' = [got EXCEPT ![t] = {r}]
      BY <2>1, <3>5
    <3>7. AsEntries({r}) = {AsEntry(r)}
      BY DEF AsEntries
    <3>8. [u \in Thread |-> AsEntries(got[u])]' =
            [[u \in Thread |-> AsEntries(got[u])] EXCEPT ![t] = {AsEntry(r)}]
      BY <3>6, <3>7
    <3>9. /\ AsEntry(r) \in AsEntries(rows)
          /\ Promise!IsLatest(AsEntry(r))
          /\ ~AsEntry(r).broker_only
      BY <3>1, <3>3 DEF Promise!IsLatest, AsEntries, AsEntry
    <3> QED
      BY <2>2, <3>8, <3>9 DEF Promise!Next, Promise!Reveal
  <2> QED
    BY <2>4, <2>5
<1>4. ASSUME UNCHANGED <<rows, acked>>, NEW T \in SUBSET Thread,
             got' = [u \in Thread |-> IF u \in T THEN {} ELSE got[u]]
      PROVE  Promise!Next
  <2>1. AsEntries({}) = {}
    BY DEF AsEntries
  <2>2. [u \in Thread |-> AsEntries(got[u])]' =
          [u \in Thread |-> IF u \in T THEN {} ELSE [w \in Thread |-> AsEntries(got[w])][u]]
    BY <1>4, <2>1
  <2> QED
    BY <1>4, <2>2 DEF Promise!Next, Promise!Forget
<1>5. ASSUME NEW t \in Thread, Reject(t) \/ AuditRead(t) \/ StoreError(t) PROVE Promise!Next
  <2>1. UNCHANGED <<rows, acked>> /\ got' = [got EXCEPT ![t] = {}]
    BY <1>5 DEF Reject, AuditRead, StoreError
  <2> DEFINE T == {t}
  <2>2. T \in SUBSET Thread /\ got' = [u \in Thread |-> IF u \in T THEN {} ELSE got[u]]
    BY <2>1
  <2> HIDE DEF T
  <2> QED
    BY <1>4, <2>1, <2>2
<1>6. ASSUME NEW e \in Engine, Crash(e) PROVE Promise!Next
  <2> DEFINE T == {t \in Thread : home[t] = e}
  <2>1. UNCHANGED <<rows, acked>> /\ T \in SUBSET Thread
    BY <1>6 DEF Crash
  <2>2. got' = [u \in Thread |-> IF u \in T THEN {} ELSE got[u]]
    BY <1>6 DEF Crash
  <2> HIDE DEF T
  <2> QED
    BY <1>4, <2>1, <2>2
<1>7. ASSUME UNCHANGED <<rows, acked, got>> PROVE UNCHANGED Promise!vars
  BY <1>7 DEF Promise!vars
<1>8. ASSUME NEW t \in Thread, StartPut(t) \/ MaxVersion(t) \/ Reserve(t) \/ Expire(t)
      PROVE  UNCHANGED Promise!vars
  <2>1. UNCHANGED <<rows, acked, got>>
    BY <1>8 DEF StartPut, MaxVersion, Reserve, Expire
  <2> QED
    BY <1>7, <2>1
<1>9. CASE UNCHANGED vars
  BY <1>7, <1>9 DEF vars
<1> QED
  BY <1>1, <1>2, <1>3, <1>5, <1>6, <1>8, <1>9 DEF Next, Step

(* The detailed design implements SecretLog, whatever crashes, fails or is sent twice: *)
(* versions are appended and kept, Ok means stored, and a get reveals the newest       *)
(* version only (lib.rs:490-650).                                                      *)
THEOREM Refinement == Spec => KeepsThePromise
<1>1. Init => Promise!Init
  BY DEF Init, Promise!Init, AsEntries
<1>2. TypeOK /\ SecretInv /\ [Next]_vars => [Promise!Next]_(Promise!vars)
  BY RefinesStep DEF SecretInv
<1> QED
  BY <1>1, <1>2, TypeCorrect, Invariance, PTL DEF Spec, KeepsThePromise, Promise!Spec
=============================================================================
