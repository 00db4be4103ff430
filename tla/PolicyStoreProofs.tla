-------------------------- MODULE PolicyStoreProofs --------------------------
(***************************************************************************)
(* Proofs about PolicyStore, for any set of threads, relays and bearers,   *)
(* any bound on the calls and any mix of faults.                           *)
(*                                                                         *)
(* BearersKeepTheirRelay is not inductive: what a mint holds between the   *)
(* choice of the id and the save of the bearer matters.  LinkInv says that *)
(* it holds the id its relay has (SavingRow), or has if it has one         *)
(* (AskedRow), and that only one first save of a relay is under way        *)
(* (OneFirstSave).  RevokeReachesItsBearers rests on that link: a revoke   *)
(* finds its bearers by the policy id.                                     *)
(***************************************************************************)
EXTENDS PolicyStore, TLAPS

-----------------------------------------------------------------------------
(* The strengthening. *)

(* The largest id is there to be chosen. *)
HasMax == \E n \in {0} \cup {id[r] : r \in Relay} : \A r \in Relay : id[r] <= n

CallHasRelay == \A t \in Thread : pc[t] # "idle" => relay[t] \in Relay

NoQueryInMem == backend = "inmem" => \A t \in Thread : pc[t] \notin FirstSave

AskedIdIsProper == \A t \in Thread : pc[t] = "upsert" => rowId[t] # 0

TypeInv == TypeOK /\ HasMax /\ CallHasRelay /\ NoQueryInMem /\ AskedIdIsProper

BoundToRow ==
  \A k \in Minted : owner[k] \notin clashed =>
    id[owner[k]] # 0 /\ policy[k] = id[owner[k]]

SavingRow ==
  \A t \in Thread : pc[t] = "saveBearer" /\ relay[t] \notin clashed =>
    id[relay[t]] # 0 /\ rowId[t] = id[relay[t]]

AskedRow ==
  \A t \in Thread : pc[t] = "upsert" /\ relay[t] \notin clashed /\ id[relay[t]] # 0 =>
    rowId[t] = id[relay[t]]

MaxMeansNone ==
  \A t \in Thread : pc[t] = "selectMax" /\ relay[t] \notin clashed => id[relay[t]] = 0

OneFirstSave ==
  \A s, t \in Thread :
    /\ pc[s] \in FirstSave /\ pc[t] \in FirstSave
    /\ relay[s] = relay[t]
    /\ relay[t] \notin clashed
    /\ id[relay[t]] = 0
    => s = t

LinkInv ==
  /\ TypeInv
  /\ BoundToRow
  /\ SavingRow
  /\ AskedRow
  /\ MaxMeansNone
  /\ OneFirstSave

Revoking == {"loadPolicy", "flipPolicy", "listBearers", "saveRevoked"}

DueIsMinted ==
  \A t \in Thread : \A k \in due[t] : pc[t] \in Revoking /\ k \in Minted /\ owner[k] = relay[t]

DueIsReached ==
  \A t \in Thread : pc[t] = "saveRevoked" =>
    \A k \in due[t] : owner[k] \notin clashed => k \in off \cup todo[t]

DeadIsMinted == dead \subseteq Minted

RevokeInv ==
  /\ LinkInv
  /\ DueIsMinted
  /\ DueIsReached
  /\ DeadIsMinted
  /\ RevokeReachesItsBearers

-----------------------------------------------------------------------------
(***************************************************************************)
(* Types.                                                                  *)
(***************************************************************************)

(* The id handed to a new relay is larger than every id in use (store.rs:396-406). *)
LEMMA NextIdFresh ==
  ASSUME TypeOK, HasMax
  PROVE  NextId \in Nat \ {0} /\ \A r \in Relay : id[r] < NextId
<1> DEFINE IsMax(n) == \A r \in Relay : id[r] <= n
           S == {0} \cup {id[r] : r \in Relay}
           n0 == CHOOSE n \in S : IsMax(n)
<1>1. \E n \in S : IsMax(n)  BY DEF HasMax
<1>2. n0 \in S /\ IsMax(n0)
  <2> HIDE DEF IsMax, S
  <2> QED  BY <1>1
<1>3. S \subseteq Nat  BY DEF TypeOK
<1>4. NextId = 1 + n0  BY DEF NextId
<1>5. id \in [Relay -> Nat]  BY DEF TypeOK
<1> HIDE DEF n0, S
<1> QED  BY <1>2, <1>3, <1>4, <1>5

LEMMA TypeInit == Init => TypeInv
<1> USE StoreAssumption DEF Init, FirstSave, InStore
<1> SUFFICES ASSUME Init PROVE TypeInv  OBVIOUS
<1>1. TypeOK  BY DEF TypeOK
<1>2. HasMax  BY DEF HasMax
<1>3. CallHasRelay /\ NoQueryInMem /\ AskedIdIsProper
  BY DEF CallHasRelay, NoQueryInMem, AskedIdIsProper
<1> QED  BY <1>1, <1>2, <1>3 DEF TypeInv

(* A table that gained one proper, fresh id is as good as the one before. *)
LEMMA RowAdded ==
  ASSUME TypeOK, HasMax, NEW r \in Relay, id[r] = 0, NEW i \in Nat \ {0},
         \A q \in Relay : id[q] # i, id' = [id EXCEPT ![r] = i]
  PROVE  /\ id' \in [Relay -> Nat]
         /\ \A p, q \in Relay : id'[p] = id'[q] /\ p # q => id'[p] = 0
         /\ HasMax'
<1>1. id \in [Relay -> Nat] /\ id' \in [Relay -> Nat]  BY DEF TypeOK
<1>2. \A p, q \in Relay : id'[p] = id'[q] /\ p # q => id'[p] = 0
  BY <1>1 DEF TypeOK
<1>3. PICK n \in {0} \cup {id[q] : q \in Relay} : \A q \in Relay : id[q] <= n
  BY DEF HasMax
<1>4. n \in Nat  BY <1>1, <1>3
<1>5. HasMax'
  <2>1. CASE n <= i
    <3>1. id'[r] = i  BY <1>1
    <3>2. \A q \in Relay : id'[q] <= i  BY <1>1, <1>3, <1>4, <2>1
    <3> QED  BY <3>1, <3>2 DEF HasMax
  <2>2. CASE ~(n <= i)
    <3>1. PICK q \in Relay : n = id[q]  BY <1>3, <1>4, <2>2
    <3>2. id'[q] = n  BY <1>1, <3>1, <2>2
    <3>3. \A p \in Relay : id'[p] <= n  BY <1>1, <1>3, <1>4, <2>2
    <3> QED  BY <3>2, <3>3 DEF HasMax
  <2> QED  BY <2>1, <2>2
<1> QED  BY <1>1, <1>2, <1>5

LEMMA TypeStays == TypeInv /\ [Next]_vars => TypeInv'
<1> USE StoreAssumption
    DEF vars, tables, locals, history, FirstSave, InStore, Goto, Return, Begin,
        CallHasRelay, NoQueryInMem, AskedIdIsProper
<1> SUFFICES ASSUME TypeInv, [Next]_vars PROVE TypeInv'  OBVIOUS
<1> USE DEF TypeInv
<1>0. NextId \in Nat \ {0} /\ \A r \in Relay : id[r] < NextId  BY NextIdFresh
<1>1. ASSUME NEW t \in Thread, StartMint(t) PROVE TypeInv'
  <2>1. TypeOK'  BY <1>1 DEF StartMint, TypeOK
  <2>2. HasMax'  BY <1>1 DEF StartMint, HasMax
  <2> QED  BY <1>1, <2>1, <2>2 DEF StartMint, TypeOK
<1>2. ASSUME NEW t \in Thread, StartRevoke(t) PROVE TypeInv'
  <2>1. TypeOK'  BY <1>2 DEF StartRevoke, TypeOK, Minted
  <2>2. HasMax'  BY <1>2 DEF StartRevoke, HasMax
  <2> QED  BY <1>2, <2>1, <2>2 DEF StartRevoke, TypeOK
<1>3. ASSUME NEW t \in Thread, SaveAtOnce(t) PROVE TypeInv'
  <2>1. relay[t] \in Relay  BY <1>3 DEF SaveAtOnce, TypeOK
  <2>2. id[relay[t]] \in Nat  BY <2>1 DEF TypeOK
  <2>3. id' \in [Relay -> Nat] /\ HasMax'
        /\ \A p, q \in Relay : id'[p] = id'[q] /\ p # q => id'[p] = 0
    <3>1. CASE id[relay[t]] = 0
      <4>1. id' = [id EXCEPT ![relay[t]] = NextId]  BY <1>3, <3>1 DEF SaveAtOnce
      <4>2. \A q \in Relay : id[q] # NextId  BY <1>0 DEF TypeOK
      <4> QED  BY <1>0, <2>1, <3>1, <4>1, <4>2, RowAdded
    <3>2. CASE id[relay[t]] # 0
      <4>1. id' = id  BY <1>3, <2>1, <3>2 DEF SaveAtOnce, TypeOK
      <4> QED  BY <4>1 DEF TypeOK, HasMax
    <3> QED  BY <3>1, <3>2
  <2>4. rowId' \in [Thread -> Nat]  BY <1>0, <1>3, <2>2 DEF SaveAtOnce, TypeOK
  <2>5. TypeOK'  BY <1>3, <2>3, <2>4 DEF SaveAtOnce, TypeOK
  <2> QED  BY <1>3, <2>3, <2>5 DEF SaveAtOnce, TypeOK
<1>4. ASSUME NEW t \in Thread, SelectId(t) PROVE TypeInv'
  <2>1. relay[t] \in Relay  BY <1>4 DEF SelectId, TypeOK
  <2>2. TypeOK'  BY <1>4, <2>1 DEF SelectId, TypeOK
  <2>3. HasMax'  BY <1>4 DEF SelectId, HasMax
  <2> QED  BY <1>4, <2>1, <2>2, <2>3 DEF SelectId, TypeOK
<1>5. ASSUME NEW t \in Thread, SelectMax(t) PROVE TypeInv'
  <2>1. TypeOK'  BY <1>0, <1>5 DEF SelectMax, TypeOK
  <2>2. HasMax'  BY <1>5 DEF SelectMax, HasMax
  <2> QED  BY <1>0, <1>5, <2>1, <2>2 DEF SelectMax, TypeOK
<1>6. ASSUME NEW t \in Thread, Upsert(t) PROVE TypeInv'
  <2>1. relay[t] \in Relay /\ rowId[t] \in Nat \ {0}  BY <1>6 DEF Upsert, TypeOK
  <2>2. id' \in [Relay -> Nat] /\ HasMax'
        /\ \A p, q \in Relay : id'[p] = id'[q] /\ p # q => id'[p] = 0
    <3>1. CASE UNCHANGED id  BY <3>1 DEF TypeOK, HasMax
    <3>2. CASE /\ id[relay[t]] = 0
               /\ \A q \in Relay : id[q] # rowId[t]
               /\ id' = [id EXCEPT ![relay[t]] = rowId[t]]
      BY <2>1, <3>2, RowAdded
    <3> QED  BY <1>6, <3>1, <3>2 DEF Upsert
  <2>3. TypeOK'  BY <1>6, <2>1, <2>2 DEF Upsert, TypeOK
  <2> QED  BY <1>6, <2>2, <2>3 DEF Upsert, TypeOK
<1>7. ASSUME NEW t \in Thread, SaveBearer(t) PROVE TypeInv'
  <2>1. relay[t] \in Relay  BY <1>7 DEF SaveBearer, TypeOK
  <2>2. TypeOK'  BY <1>7, <2>1 DEF SaveBearer, TypeOK
  <2>3. HasMax'  BY <1>7 DEF SaveBearer, HasMax
  <2> QED  BY <1>7, <2>2, <2>3 DEF SaveBearer, TypeOK
<1>8. ASSUME NEW t \in Thread, LoadPolicy(t) \/ FlipPolicy(t) PROVE TypeInv'
  <2>1. relay[t] \in Relay  BY <1>8 DEF LoadPolicy, FlipPolicy, TypeOK
  <2>2. TypeOK'  BY <1>8, <2>1 DEF LoadPolicy, FlipPolicy, TypeOK
  <2>3. HasMax'  BY <1>8 DEF LoadPolicy, FlipPolicy, HasMax
  <2> QED  BY <1>8, <2>2, <2>3 DEF LoadPolicy, FlipPolicy, TypeOK
<1>9. ASSUME NEW t \in Thread, ListBearers(t) PROVE TypeInv'
  <2>1. TypeOK'  BY <1>9 DEF ListBearers, TypeOK, Minted
  <2>2. HasMax'  BY <1>9 DEF ListBearers, HasMax
  <2> QED  BY <1>9, <2>1, <2>2 DEF ListBearers, TypeOK
<1>10. ASSUME NEW t \in Thread, SaveRevoked(t) PROVE TypeInv'
  <2>1. TypeOK'  BY <1>10 DEF SaveRevoked, TypeOK
  <2>2. HasMax'  BY <1>10 DEF SaveRevoked, HasMax
  <2> QED  BY <1>10, <2>1, <2>2 DEF SaveRevoked, TypeOK
<1>11. ASSUME NEW t \in Thread, StoreError(t) PROVE TypeInv'
  <2>1. TypeOK'  BY <1>11 DEF StoreError, TypeOK
  <2>2. HasMax'  BY <1>11 DEF StoreError, HasMax
  <2> QED  BY <1>11, <2>1, <2>2 DEF StoreError, TypeOK
<1>12. CASE Crash
  <2>1. TypeOK'
    <3>1. CASE backend = "libsql"  BY <1>12, <3>1 DEF Crash, TypeOK
    <3>2. CASE backend # "libsql"  BY <1>12, <3>2 DEF Crash, TypeOK
    <3> QED  BY <3>1, <3>2
  <2>2. HasMax'
    <3>1. CASE backend = "libsql"  BY <1>12, <3>1 DEF Crash, HasMax
    <3>2. CASE backend # "libsql"  BY <1>12, <3>2 DEF Crash, HasMax
    <3> QED  BY <3>1, <3>2
  <2> QED  BY <1>12, <2>1, <2>2 DEF Crash, TypeOK
<1>13. CASE UNCHANGED vars  BY <1>13 DEF TypeOK, HasMax
<1> QED
  BY <1>1, <1>2, <1>3, <1>4, <1>5, <1>6, <1>7, <1>8, <1>9, <1>10, <1>11, <1>12, <1>13
  DEF Next, Step

(* Every reachable state has its types and its policy ids are unique: the two stores    *)
(* choose ids in different ways, neither ever hands one to two relays (store.rs:415-443, *)
(* secrets-store-libsql/src/store.rs:383-412).                                          *)
THEOREM TypeCorrect == Spec => []TypeOK
<1>1. TypeInv => TypeOK  BY DEF TypeInv
<1> QED  BY TypeInit, TypeStays, <1>1, PTL DEF Spec

-----------------------------------------------------------------------------
(***************************************************************************)
(* A bearer stays bound to its relay.                                      *)
(***************************************************************************)

LEMMA LinkInit == Init => LinkInv
<1> SUFFICES ASSUME Init PROVE LinkInv  OBVIOUS
<1>1. TypeInv  BY TypeInit
<1>2. Minted = {}  BY DEF Init, Minted
<1> QED
  BY <1>1, <1>2 DEF Init, LinkInv, BoundToRow, SavingRow, AskedRow, MaxMeansNone,
                    OneFirstSave, FirstSave

LEMMA LinkStays == LinkInv /\ [Next]_vars => LinkInv'
<1> USE StoreAssumption
    DEF vars, tables, locals, history, FirstSave, InStore, Goto, Return, Begin, Minted,
        BoundToRow, SavingRow, AskedRow, MaxMeansNone, OneFirstSave
<1> SUFFICES ASSUME LinkInv, [Next]_vars PROVE LinkInv'  OBVIOUS
<1> USE DEF LinkInv
<1>0. TypeInv' /\ TypeOK /\ TypeOK'  BY TypeStays DEF TypeInv
<1>a. CallHasRelay /\ NoQueryInMem /\ AskedIdIsProper  BY DEF TypeInv
<1>b. NextId \in Nat \ {0}  BY NextIdFresh DEF TypeInv
<1>1. ASSUME NEW t \in Thread, StartMint(t) PROVE LinkInv'
  BY <1>0, <1>1 DEF StartMint, TypeOK
<1>2. ASSUME NEW t \in Thread, StartRevoke(t) PROVE LinkInv'
  BY <1>0, <1>2 DEF StartRevoke, TypeOK
<1>3. ASSUME NEW t \in Thread, SaveAtOnce(t) PROVE LinkInv'
  <2> DEFINE r == relay[t]
  <2>1. r \in Relay  BY <1>0, <1>a, <1>3 DEF SaveAtOnce, CallHasRelay
  <2>2. id' \in [Relay -> Nat] /\ id'[r] # 0 /\ rowId'[t] = id'[r]
    BY <1>0, <1>b, <1>3, <2>1 DEF SaveAtOnce, TypeOK
  <2>3. \A q \in Relay : id[q] # 0 => id'[q] = id[q]
    BY <1>0, <1>3, <2>1 DEF SaveAtOnce, TypeOK
  <2>4. \A u \in Thread : u # t => rowId'[u] = rowId[u]
    BY <1>0, <1>3 DEF SaveAtOnce, TypeOK
  <2>5. \A u \in Thread : pc[u] \notin FirstSave  BY <1>a, <1>3 DEF SaveAtOnce, NoQueryInMem
  <2>6. pc' = [pc EXCEPT ![t] = "saveBearer"] /\ relay' = relay
        /\ clashed' = clashed /\ owner' = owner /\ policy' = policy
    BY <1>3 DEF SaveAtOnce
  <2> HIDE DEF r
  <2>7. BoundToRow'  BY <1>0, <2>3, <2>6 DEF TypeOK
  <2>8. SavingRow'
    BY <1>0, <1>a, <2>2, <2>3, <2>4, <2>6 DEF TypeOK, CallHasRelay, r
  <2>9. AskedRow' /\ MaxMeansNone' /\ OneFirstSave'
    BY <1>0, <2>5, <2>6 DEF TypeOK
  <2> QED  BY <1>0, <2>7, <2>8, <2>9
<1>4. ASSUME NEW t \in Thread, SelectId(t) PROVE LinkInv'
  <2>1. CASE id[relay[t]] # 0
    BY <1>0, <1>a, <1>4, <2>1 DEF SelectId, TypeOK, CallHasRelay
  <2>2. CASE id[relay[t]] = 0
    <3>1. /\ pc' = [pc EXCEPT ![t] = "selectMax"]
          /\ UNCHANGED <<id, policy, owner, relay, rowId>>
          /\ clashed \subseteq clashed'
          /\ relay[t] \notin clashed' =>
               \A u \in Thread : relay[u] = relay[t] => pc[u] \notin FirstSave
      BY <1>4, <2>2 DEF SelectId
    <3>2. BoundToRow' /\ SavingRow' /\ AskedRow' /\ MaxMeansNone'
      BY <1>0, <2>2, <3>1 DEF TypeOK
    <3>3. OneFirstSave'  BY <1>0, <2>2, <3>1 DEF TypeOK
    <3> QED  BY <1>0, <3>2, <3>3
  <2> QED  BY <2>1, <2>2
<1>5. ASSUME NEW t \in Thread, SelectMax(t) PROVE LinkInv'
  <2>1. BoundToRow'  BY <1>5 DEF SelectMax
  <2>2. SavingRow'  BY <1>0, <1>5 DEF SelectMax, TypeOK
  <2>3. AskedRow'  BY <1>0, <1>5 DEF SelectMax, TypeOK
  <2>4. MaxMeansNone'  BY <1>0, <1>5 DEF SelectMax, TypeOK
  <2>5. OneFirstSave'  BY <1>0, <1>5 DEF SelectMax, TypeOK
  <2> QED  BY <1>0, <2>1, <2>2, <2>3, <2>4, <2>5
<1>6. ASSUME NEW t \in Thread, Upsert(t) PROVE LinkInv'
  <2> DEFINE r == relay[t]
  <2>1. r \in Relay /\ rowId[t] \in Nat \ {0}
    BY <1>0, <1>a, <1>6 DEF Upsert, TypeOK, CallHasRelay, AskedIdIsProper
  <2>2. CASE id' = id /\ pc' = [pc EXCEPT ![t] = "idle"]
             /\ relay' = [relay EXCEPT ![t] = NoRelay]
             /\ rowId' = [rowId EXCEPT ![t] = 0]
    BY <1>0, <1>6, <2>2 DEF Upsert, TypeOK
  <2>3. CASE id' = id /\ id[r] # 0 /\ pc' = [pc EXCEPT ![t] = "saveBearer"]
             /\ relay' = relay /\ rowId' = rowId
    BY <1>0, <1>6, <2>3 DEF Upsert, TypeOK
  <2>4. CASE /\ id[r] = 0
             /\ id' = [id EXCEPT ![r] = rowId[t]]
             /\ pc' = [pc EXCEPT ![t] = "saveBearer"]
             /\ relay' = relay /\ rowId' = rowId
    <3>1. /\ \A q \in Relay : q # r => id'[q] = id[q]
          /\ id'[r] = rowId[t]
          /\ policy' = policy /\ owner' = owner /\ clashed' = clashed /\ pc[t] = "upsert"
      BY <1>0, <1>6, <2>1, <2>4 DEF Upsert, TypeOK
    <3> HIDE DEF r
    <3>2. BoundToRow'  BY <1>0, <2>4, <3>1 DEF TypeOK
    <3>3. SavingRow'  BY <1>0, <1>a, <2>1, <2>4, <3>1 DEF TypeOK, CallHasRelay, r
    <3>4. \A u \in Thread : u # t /\ pc[u] \in FirstSave /\ relay[u] \notin clashed
                              => relay[u] # r
      BY <2>4, <3>1 DEF r
    <3>5. AskedRow' /\ MaxMeansNone'
      BY <1>0, <1>a, <2>4, <3>1, <3>4 DEF TypeOK, CallHasRelay
    <3>6. OneFirstSave'
      BY <1>0, <1>a, <2>1, <2>4, <3>1 DEF TypeOK, CallHasRelay
    <3> QED  BY <1>0, <3>2, <3>3, <3>5, <3>6
  <2> QED  BY <1>6, <2>2, <2>3, <2>4 DEF Upsert
<1>7. ASSUME NEW t \in Thread, SaveBearer(t) PROVE LinkInv'
  <2>1. PICK k \in Token \ Minted : /\ policy' = [policy EXCEPT ![k] = rowId[t]]
                                    /\ owner' = [owner EXCEPT ![k] = relay[t]]
    BY <1>7 DEF SaveBearer
  <2>2. BoundToRow'  BY <1>0, <1>7, <2>1 DEF SaveBearer, TypeOK
  <2>3. SavingRow' /\ AskedRow' /\ MaxMeansNone'  BY <1>0, <1>7 DEF SaveBearer, TypeOK
  <2>4. OneFirstSave'  BY <1>0, <1>7 DEF SaveBearer, TypeOK
  <2> QED  BY <1>0, <2>2, <2>3, <2>4
<1>8. ASSUME NEW t \in Thread,
             LoadPolicy(t) \/ FlipPolicy(t) \/ ListBearers(t)
      PROVE LinkInv'
  BY <1>0, <1>8 DEF LoadPolicy, FlipPolicy, ListBearers, TypeOK
<1>9. ASSUME NEW t \in Thread, SaveRevoked(t) \/ StoreError(t) PROVE LinkInv'
  BY <1>0, <1>9 DEF SaveRevoked, StoreError, TypeOK
<1>10. CASE Crash
  <2>1. CASE backend = "libsql"  BY <1>0, <1>10, <2>1 DEF Crash
  <2>2. CASE backend # "libsql"  BY <1>0, <1>10, <2>2 DEF Crash
  <2> QED  BY <2>1, <2>2
<1>11. CASE UNCHANGED vars  BY <1>0, <1>11
<1> QED
  BY <1>1, <1>2, <1>3, <1>4, <1>5, <1>6, <1>7, <1>8, <1>9, <1>10, <1>11 DEF Next, Step

(* The policy id a bearer carries is its relay's, in every reachable state, whatever  *)
(* mints, revokes, failed calls and restarts did, unless two first saves of that      *)
(* relay overlapped (store.rs:417-420, lib.rs:1233-1236).                             *)
THEOREM Binding == Spec => []BearersKeepTheirRelay
<1>1. LinkInv => BearersKeepTheirRelay  BY DEF LinkInv, BoundToRow, BearersKeepTheirRelay
<1> QED  BY LinkInit, LinkStays, <1>1, PTL DEF Spec

-----------------------------------------------------------------------------
(***************************************************************************)
(* A revoke reaches its bearers.                                           *)
(***************************************************************************)

LEMMA RevokeInit == Init => RevokeInv
  BY LinkInit
  DEF Init, RevokeInv, DueIsMinted, DueIsReached, DeadIsMinted, RevokeReachesItsBearers

LEMMA RevokeStays == RevokeInv /\ [Next]_vars => RevokeInv'
<1> USE StoreAssumption
    DEF vars, tables, locals, history, FirstSave, InStore, Goto, Return, Begin, Minted,
        Revoking, DueIsMinted, DueIsReached, DeadIsMinted, RevokeReachesItsBearers
<1> SUFFICES ASSUME RevokeInv, [Next]_vars PROVE RevokeInv'  OBVIOUS
<1> USE DEF RevokeInv
<1>0. LinkInv' /\ TypeOK /\ TypeOK'  BY LinkStays DEF LinkInv, TypeInv
<1>a. CallHasRelay  BY DEF LinkInv, TypeInv
<1>1. ASSUME NEW t \in Thread, StartMint(t) PROVE RevokeInv'
  BY <1>0, <1>1 DEF StartMint, TypeOK
<1>2. ASSUME NEW t \in Thread, StartRevoke(t) PROVE RevokeInv'
  BY <1>0, <1>2 DEF StartRevoke, TypeOK
<1>3. ASSUME NEW t \in Thread, SaveAtOnce(t) \/ SelectId(t) \/ SelectMax(t) PROVE RevokeInv'
  <2>1. /\ pc[t] \notin Revoking /\ UNCHANGED <<policy, off, relay, todo, owner, due, dead>>
        /\ clashed \subseteq clashed'
        /\ \E l \in {"selectMax", "upsert", "saveBearer"} : pc' = [pc EXCEPT ![t] = l]
    BY <1>3 DEF SaveAtOnce, SelectId, SelectMax
  <2> QED  BY <1>0, <2>1 DEF TypeOK
<1>4. ASSUME NEW t \in Thread, Upsert(t) PROVE RevokeInv'
  <2>1. CASE Return(t)  BY <1>0, <1>4, <2>1 DEF Upsert, TypeOK
  <2>2. CASE Goto(t, "saveBearer") /\ UNCHANGED <<relay, rowId, todo, due>>
    BY <1>0, <1>4, <2>2 DEF Upsert, TypeOK
  <2> QED  BY <1>4, <2>1, <2>2 DEF Upsert
<1>5. ASSUME NEW t \in Thread, SaveBearer(t) PROVE RevokeInv'
  <2>1. PICK k \in Token \ Minted : /\ policy' = [policy EXCEPT ![k] = rowId[t]]
                                    /\ owner' = [owner EXCEPT ![k] = relay[t]]
    BY <1>5 DEF SaveBearer
  <2>2. DueIsMinted'  BY <1>0, <1>5, <2>1 DEF SaveBearer, TypeOK
  <2>3. DueIsReached'  BY <1>0, <1>5, <2>1 DEF SaveBearer, TypeOK
  <2>4. DeadIsMinted' /\ RevokeReachesItsBearers'
    BY <1>0, <1>a, <1>5, <2>1 DEF SaveBearer, TypeOK, CallHasRelay
  <2> QED  BY <1>0, <2>2, <2>3, <2>4
<1>6. ASSUME NEW t \in Thread, LoadPolicy(t) \/ FlipPolicy(t) PROVE RevokeInv'
  BY <1>0, <1>6 DEF LoadPolicy, FlipPolicy, TypeOK
<1>7. ASSUME NEW t \in Thread, ListBearers(t) PROVE RevokeInv'
  <2>1. \A k \in due[t] : owner[k] \notin clashed => k \in off \cup todo'[t]
    <3>1. todo'[t] = {k \in Minted : /\ id[relay[t]] # 0
                                     /\ policy[k] = id[relay[t]]
                                     /\ k \notin off}
      BY <1>0, <1>7 DEF ListBearers, TypeOK
    <3>2. \A k \in due[t] : k \in Minted /\ owner[k] = relay[t]  OBVIOUS
    <3>3. BoundToRow  BY DEF LinkInv
    <3> QED  BY <3>1, <3>2, <3>3 DEF BoundToRow
  <2>2. DueIsReached'  BY <1>0, <1>7, <2>1 DEF ListBearers, TypeOK
  <2>3. DueIsMinted'  BY <1>0, <1>7 DEF ListBearers, TypeOK
  <2>4. DeadIsMinted' /\ RevokeReachesItsBearers'  BY <1>7 DEF ListBearers
  <2> QED  BY <1>0, <2>2, <2>3, <2>4
<1>8. ASSUME NEW t \in Thread, SaveRevoked(t) PROVE RevokeInv'
  <2>1. CASE todo[t] = {} /\ dead' = dead \cup due[t] /\ Return(t) /\ UNCHANGED off
    BY <1>0, <1>8, <2>1 DEF SaveRevoked, TypeOK
  <2>2. ASSUME NEW k \in todo[t],
               off' = off \cup {k},
               todo' = [todo EXCEPT ![t] = todo[t] \ {k}],
               UNCHANGED <<pc, relay, rowId, due, dead>>
        PROVE RevokeInv'
    BY <1>0, <1>8, <2>2 DEF SaveRevoked, TypeOK
  <2> QED  BY <1>8, <2>1, <2>2 DEF SaveRevoked
<1>9. ASSUME NEW t \in Thread, StoreError(t) PROVE RevokeInv'
  BY <1>0, <1>9 DEF StoreError, TypeOK
<1>10. CASE Crash
  <2>1. CASE backend = "libsql"  BY <1>0, <1>10, <2>1 DEF Crash
  <2>2. CASE backend # "libsql"  BY <1>0, <1>10, <2>2 DEF Crash
  <2> QED  BY <2>1, <2>2
<1>11. CASE UNCHANGED vars  BY <1>0, <1>11
<1> QED
  BY <1>1, <1>2, <1>3, <1>4, <1>5, <1>6, <1>7, <1>8, <1>9, <1>10, <1>11 DEF Next, Step

(* Whatever was minted before a revoke that returned Ok is revoked for good, under any *)
(* interleaving of mints and revokes, unless two first saves of its relay overlapped   *)
(* (lib.rs:936-997).                                                                    *)
THEOREM Revocation == Spec => []RevokeReachesItsBearers
<1>1. RevokeInv => RevokeReachesItsBearers  BY DEF RevokeInv
<1> QED  BY RevokeInit, RevokeStays, <1>1, PTL DEF Spec
=============================================================================
