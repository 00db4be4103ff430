------------------------------ MODULE SecretStore ------------------------------
(***************************************************************************)
(* secret_put and secret_get (secrets-engine/src/lib.rs) over the libSQL   *)
(* store.  A put reserves a row id, seals the value under that id and its  *)
(* version, and inserts the row; the store checks the id and the version   *)
(* in the transaction of the insert.  A put excludes the other calls of    *)
(* its own engine by the vault write lock, but nothing excludes a second   *)
(* engine on the same database.  A statement whose stream expired is sent  *)
(* again, once, though the first may have been committed                   *)
(* (secrets-store-libsql/src/sync.rs).  The in-memory store is the case of *)
(* one engine and no fault.                                                *)
(*                                                                         *)
(* A value is the number of the put that was called with it; a seal is     *)
(* what it binds.  A locked vault refuses before anything else; that is    *)
(* left out here, and in module VaultSetup.                                *)
(***************************************************************************)
EXTENDS Integers

CONSTANTS
  Engine,    \* processes with the database open
  Thread,    \* their blocking threads
  home,      \* the engine of each thread
  Name,      \* secret names
  NoName,
  MaxCalls,  \* bound on the calls ever made
  Mishap     \* the faults the environment may inject

ASSUME SecretAssumption ==
  /\ home \in [Thread -> Engine]
  /\ NoName \notin Name
  /\ MaxCalls \in Nat
  /\ Mishap \subseteq {"crash", "storeError", "expiry"}

VARIABLES
  next,      \* store: row_id_counter.next_id
  rows,      \* store: the table secrets
  pc,        \* where each thread is in its call
  frame,     \* local: the row that the put builds
  got,       \* local: the row whose plaintext the get will return, if any
  calls,     \* the calls made so far
  acked,     \* history: the rows whose put returned Ok
  lost,      \* history: the threads whose insert was committed without an answer
  raced,     \* history: the threads of which another engine inserted a row meanwhile
  unexplained  \* history: the store rejected a put that neither of the two befell

history == <<acked, lost, raced, unexplained>>
vars == <<next, rows, pc, frame, got, calls, history>>

(* The row a put starts from: neither version nor id are known yet. *)
NewRow(n, hidden, value) ==
  [row_id |-> 0, name |-> n, version |-> 0, broker_only |-> hidden, seal |-> <<0, 0>>,
   value |-> value]
NoRow == NewRow(NoName, FALSE, 0)

Row == [row_id : Nat, name : Name \cup {NoName}, version : Nat, broker_only : BOOLEAN,
        seal : Nat \X Nat, value : Nat]

(* record_aad; the table is the same for all, and so is the DEK generation. *)
record_aad(row_id, version) == <<row_id, version>>

(* The row under its reserved id, sealed. *)
Sealed(r, id) == [r EXCEPT !.row_id = id, !.seal = record_aad(id, r.version)]

(* Inside the vault write lock. *)
Sealing == {"maxVersion", "reserve", "reserveAgain", "insert", "insertAgain"}
Label == Sealing \cup {"idle", "auditWritten", "auditRead"}

-----------------------------------------------------------------------------
Init ==
  /\ next = 0
  /\ rows = {}
  /\ pc = [t \in Thread |-> "idle"]
  /\ frame = [t \in Thread |-> NoRow]
  /\ got = [t \in Thread |-> {}]
  /\ calls = 0
  /\ acked = {}
  /\ lost = {}
  /\ raced = {}
  /\ unexplained = FALSE

Goto(t, label) == pc' = [pc EXCEPT ![t] = label]

Return(t) ==
  /\ Goto(t, "idle")
  /\ frame' = [frame EXCEPT ![t] = NoRow]
  /\ got' = [got EXCEPT ![t] = {}]
  /\ lost' = lost \ {t}
  /\ raced' = raced \ {t}

(* The vault lock of t's engine is free: a put holds it exclusively, and a get holds  *)
(* it shared for one step.                                                            *)
LockFree(t) == \A u \in Thread : home[u] = home[t] => pc[u] \notin Sealing

(* The bound on calls. *)
Begin(t) ==
  /\ pc[t] = "idle"
  /\ calls < MaxCalls
  /\ calls' = calls + 1

Versions(n) == {r.version : r \in {r \in rows : r.name = n}}

(* max_secret_version: 0 when there is none. *)
IsMaxVersion(n, v) ==
  /\ v \in Versions(n) \/ (v = 0 /\ Versions(n) = {})
  /\ \A w \in Versions(n) : w <= v

-----------------------------------------------------------------------------
(* Mutant: a put takes no lock. *)
StartPutUnlocked(t) ==
  /\ Begin(t)
  /\ \E n \in Name, hidden \in BOOLEAN :
       frame' = [frame EXCEPT ![t] = NewRow(n, hidden, calls')]
  /\ Goto(t, "maxVersion")
  /\ UNCHANGED <<next, rows, got, history>>

(* secret_put, once it has the write lock. *)
StartPut(t) ==
  /\ Begin(t)
  /\ LockFree(t)
  /\ \E n \in Name, hidden \in BOOLEAN :
       frame' = [frame EXCEPT ![t] = NewRow(n, hidden, calls')]
  /\ Goto(t, "maxVersion")
  /\ UNCHANGED <<next, rows, got, history>>

(* Mutant: the first version wraps around. *)
MaxVersionWraps(t) ==
  /\ pc[t] = "maxVersion"
  /\ \E v \in Versions(frame[t].name) \cup {0} :
       /\ IsMaxVersion(frame[t].name, v)
       /\ frame' = [frame EXCEPT ![t].version = v - 1]
  /\ Goto(t, "reserve")
  /\ UNCHANGED <<next, rows, got, calls, history>>

MaxVersion(t) ==
  /\ pc[t] = "maxVersion"
  /\ \E v \in Versions(frame[t].name) \cup {0} :
       /\ IsMaxVersion(frame[t].name, v)
       /\ frame' = [frame EXCEPT ![t].version = v + 1]
  /\ Goto(t, "reserve")
  /\ UNCHANGED <<next, rows, got, calls, history>>

(***************************************************************************)
(* reserve_secret_row_id, and the seal under that id.  When the answer is  *)
(* lost the id is skipped and another one drawn.                           *)
(***************************************************************************)
Reserve(t) ==
  /\ pc[t] \in {"reserve", "reserveAgain"}
  /\ next' = next + 1
  /\ \/ /\ frame' = [frame EXCEPT ![t] = Sealed(frame[t], next')]
        /\ Goto(t, "insert")
     \/ /\ "expiry" \in Mishap /\ pc[t] = "reserve"
        /\ Goto(t, "reserveAgain")
        /\ UNCHANGED frame
  /\ UNCHANGED <<rows, got, calls, history>>

(* The checks of put_secret: reserved, free, and the next version of its name. *)
Contract(r) ==
  /\ r.row_id \in 1..next
  /\ \A q \in rows : q.row_id # r.row_id
  /\ IsMaxVersion(r.name, r.version - 1)

(* Mutant: put_secret numbers the rows itself. *)
InsertRenumbered(t) ==
  /\ pc[t] \in {"insert", "insertAgain"}
  /\ Contract(frame[t])
  /\ next' = next + 1
  /\ rows' = rows \cup {[frame[t] EXCEPT !.row_id = next']}
  /\ raced' = raced \cup {u \in Thread : pc[u] # "idle" /\ home[u] # home[t]}
  /\ \/ Goto(t, "auditWritten") /\ UNCHANGED lost
     \/ /\ "expiry" \in Mishap /\ pc[t] = "insert"
        /\ Goto(t, "insertAgain")
        /\ lost' = lost \cup {t}
  /\ UNCHANGED <<frame, got, calls, acked, unexplained>>

(* Mutant: a repeated insert draws the next id and version instead of being rejected. *)
InsertRedone(t) ==
  LET again == pc[t] = "insertAgain"
      id == IF again THEN next + 1 ELSE frame[t].row_id
      v == frame[t].version + (IF again THEN 1 ELSE 0)
  IN
  /\ pc[t] \in {"insert", "insertAgain"}
  /\ IsMaxVersion(frame[t].name, v - 1)
  /\ next' = IF again THEN id ELSE next
  /\ rows' = rows \cup {Sealed([frame[t] EXCEPT !.version = v], id)}
  /\ \/ Return(t)
     \/ /\ "expiry" \in Mishap /\ ~again
        /\ Goto(t, "insertAgain")
        /\ UNCHANGED <<frame, got, lost, raced>>
  /\ UNCHANGED <<calls, acked, unexplained>>

(* put_secret in one transaction; its answer may be lost with the stream. *)
Insert(t) ==
  /\ pc[t] \in {"insert", "insertAgain"}
  /\ Contract(frame[t])
  /\ rows' = rows \cup {frame[t]}
  /\ raced' = raced \cup {u \in Thread : pc[u] # "idle" /\ home[u] # home[t]}
  /\ \/ Goto(t, "auditWritten") /\ UNCHANGED lost
     \/ /\ "expiry" \in Mishap /\ pc[t] = "insert"
        /\ Goto(t, "insertAgain")
        /\ lost' = lost \cup {t}
  /\ UNCHANGED <<next, frame, got, calls, acked, unexplained>>

(* Error::Contract, and the put returns it. *)
Reject(t) ==
  /\ pc[t] \in {"insert", "insertAgain"}
  /\ ~Contract(frame[t])
  /\ unexplained' = (unexplained \/ t \notin lost \cup raced)
  /\ Return(t)
  /\ UNCHANGED <<next, rows, calls, acked>>

(* The stream had expired before the statement took effect: reconnect and repeat. *)
Expire(t) ==
  /\ "expiry" \in Mishap
  /\ \/ pc[t] = "reserve" /\ Goto(t, "reserveAgain")
     \/ pc[t] = "insert" /\ Goto(t, "insertAgain")
  /\ UNCHANGED <<next, rows, frame, got, calls, history>>

(* The write lock is released; the row secret_written, and Ok. *)
AuditWritten(t) ==
  /\ pc[t] = "auditWritten"
  /\ acked' = acked \cup {frame[t]}
  /\ Return(t)
  /\ UNCHANGED <<next, rows, calls, unexplained>>

-----------------------------------------------------------------------------
(* Mutant: the version revealed is the first one. *)
StartGetFirst(t) ==
  /\ Begin(t)
  /\ LockFree(t)
  /\ \E r \in {r \in rows : r.version = 1} :
       got' = [got EXCEPT ![t] = IF r.broker_only THEN {} ELSE {r}]
  /\ Goto(t, "auditRead")
  /\ UNCHANGED <<next, rows, frame, history>>

(***************************************************************************)
(* secret_get under the shared vault lock: the newest row of the name, if  *)
(* it opens under the AAD of its id and version.  The plaintext is held    *)
(* back without reveal and apply, and when that row is broker-only.        *)
(***************************************************************************)
StartGet(t) ==
  /\ Begin(t)
  /\ LockFree(t)
  /\ \E n \in Name, reveal, apply \in BOOLEAN :
       LET latest == {r \in rows : r.name = n /\ IsMaxVersion(n, r.version)} IN
       got' = [got EXCEPT ![t] =
         {r \in latest : /\ r.seal = record_aad(r.row_id, r.version)
                         /\ reveal /\ apply /\ ~r.broker_only}]
  /\ Goto(t, "auditRead")
  /\ UNCHANGED <<next, rows, frame, history>>

(* The row secret_read with its outcome, and the answer. *)
AuditRead(t) ==
  /\ pc[t] = "auditRead"
  /\ Return(t)
  /\ UNCHANGED <<next, rows, calls, acked, unexplained>>

-----------------------------------------------------------------------------
(* A store call returns Err, whether or not it took effect, and the engine call with it. *)
StoreError(t) ==
  /\ "storeError" \in Mishap
  /\ pc[t] # "idle"
  /\ Return(t)
  /\ UNCHANGED <<next, rows, calls, acked, unexplained>>

(* A process dies, with its calls; the database does not. *)
Crash(e) ==
  /\ "crash" \in Mishap
  /\ LET T == {t \in Thread : home[t] = e} IN
     /\ \E t \in T : pc[t] # "idle"
     /\ pc' = [t \in Thread |-> IF t \in T THEN "idle" ELSE pc[t]]
     /\ frame' = [t \in Thread |-> IF t \in T THEN NoRow ELSE frame[t]]
     /\ got' = [t \in Thread |-> IF t \in T THEN {} ELSE got[t]]
     /\ lost' = lost \ T
     /\ raced' = raced \ T
  /\ UNCHANGED <<next, rows, calls, acked, unexplained>>

Step(t) ==
  \/ StartPut(t) \/ MaxVersion(t) \/ Reserve(t) \/ Insert(t) \/ Reject(t) \/ Expire(t)
  \/ AuditWritten(t) \/ StartGet(t) \/ AuditRead(t) \/ StoreError(t)

Next ==
  \/ \E t \in Thread : Step(t)
  \/ \E e \in Engine : Crash(e)

Spec == Init /\ [][Next]_vars

-----------------------------------------------------------------------------
(***************************************************************************)
(* Properties.                                                             *)
(***************************************************************************)

(* Every variable has its type. *)
TypeOK ==
  /\ next \in Nat
  /\ rows \subseteq Row
  /\ pc \in [Thread -> Label]
  /\ frame \in [Thread -> Row]
  /\ got \in [Thread -> SUBSET Row]
  /\ calls \in 0..MaxCalls
  /\ acked \subseteq Row
  /\ lost \subseteq Thread
  /\ raced \subseteq Thread
  /\ unexplained \in BOOLEAN

(* HF-2 (lib.rs:516-518, vault/store.rs:117-131): every stored row opens under the    *)
(* AAD of its own id and version, no two rows share an id, and an id is stored only   *)
(* after it was reserved, however calls, engines, retries and faults mix.             *)
EveryRowOpens ==
  /\ \A r \in rows : r.seal = record_aad(r.row_id, r.version) /\ r.row_id \in 1..next
  /\ \A r, q \in rows : r.row_id = q.row_id => r = q

(* "rather than double-inserting" (secrets-store-libsql/src/store.rs:169-171): one    *)
(* put stores at most one row, though its insert may be sent twice.                   *)
OneRowPerPut ==
  \A r, q \in rows : r.value = q.value => r = q

(* The write lock orders the puts of an engine (lib.rs:497-503): the store rejects a  *)
(* put only after its own answer was lost, or after another engine wrote meanwhile.   *)
OnlyRacesAreRejected == ~unexplained

(* The promise of module SecretLog, kept by this detailed design.                     *)
AsEntry(r) ==
  [name |-> r.name, version |-> r.version, value |-> r.value, broker_only |-> r.broker_only]
AsEntries(R) == {AsEntry(r) : r \in R}

Promise == INSTANCE SecretLog WITH
  entries <- AsEntries(rows),
  acked <- AsEntries(acked),
  seen <- [t \in Thread |-> AsEntries(got[t])]

(* Puts append versions and nothing is lost that was acknowledged; what a get reveals *)
(* is the newest version, which is not broker-only (lib.rs:490-650).                  *)
KeepsThePromise == Promise!Spec
=============================================================================
