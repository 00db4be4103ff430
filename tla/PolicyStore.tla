----------------------------- MODULE PolicyStore -----------------------------
(***************************************************************************)
(* The link between a bearer and its relay.  A bearer row carries the row  *)
(* id of a relay policy; a swap looks the policy up by that id, a revoke   *)
(* looks the bearers up by it.  The id is chosen by save_relay_policy,     *)
(* which the in-memory store runs under its mutex in one step              *)
(* (secrets-engine/src/vault/store.rs) and the libSQL store as two queries *)
(* and an upsert, each a step of its own                                   *)
(* (secrets-store-libsql/src/store.rs).  Mints share the vault lock, and a *)
(* revoke does not take it: nothing in the engine orders them.             *)
(*                                                                         *)
(* What a policy says, and everything else a bearer row holds, is in       *)
(* module RelayBroker.                                                     *)
(***************************************************************************)
EXTENDS Integers, FiniteSets

CONSTANTS
  Thread,         \* threads of the blocking pool
  Relay, NoRelay, \* relay ids
  Token,          \* bearers that may be minted; a token id is never drawn twice
  MaxCalls,       \* bound on the calls ever made
  Mishap          \* the faults the environment may inject

ASSUME StoreAssumption ==
  /\ NoRelay \notin Relay
  /\ MaxCalls \in Nat
  /\ Mishap \subseteq {"crash", "storeError"}

VARIABLES
  backend,  \* "inmem" or "libsql", from the daemon's configuration
  id,       \* store: the row id of each relay's policy; 0 when there is none
  revoked,  \* store: the relays whose policy is revoked
  policy,   \* store: the policy id each bearer carries; 0 when there is no such bearer
  off,      \* store: the revoked bearers
  pc,       \* where each thread is in its call
  relay,    \* local: the relay of the call
  rowId,    \* local: the id that save_relay_policy settled on
  todo,     \* local: the bearers a revoke has still to flip
  calls,    \* the calls made so far
  owner,    \* history: the relay each bearer was minted for
  due,      \* history: per thread, the bearers its revoke has to reach
  dead,     \* history: bearers due to some revoke that returned Ok
  clashed   \* history: relays of which two first saves overlapped

tables == <<id, revoked, policy, off>>
locals == <<relay, rowId, todo>>
history == <<owner, due, dead, clashed>>
vars == <<backend, tables, pc, locals, calls, history>>

Minted == {k \in Token : owner[k] # NoRelay}

(* Between the query that found no row and the insert of one. *)
FirstSave == {"selectMax", "upsert"}
InStore == FirstSave \cup {"selectId", "saveBearer", "loadPolicy", "flipPolicy",
                           "listBearers", "saveRevoked"}

-----------------------------------------------------------------------------
Init ==
  /\ backend \in {"inmem", "libsql"}
  /\ id = [r \in Relay |-> 0]
  /\ revoked = {}
  /\ policy = [k \in Token |-> 0]
  /\ off = {}
  /\ pc = [t \in Thread |-> "idle"]
  /\ relay = [t \in Thread |-> NoRelay]
  /\ rowId = [t \in Thread |-> 0]
  /\ todo = [t \in Thread |-> {}]
  /\ calls = 0
  /\ owner = [k \in Token |-> NoRelay]
  /\ due = [t \in Thread |-> {}]
  /\ dead = {}
  /\ clashed = {}

Goto(t, label) == pc' = [pc EXCEPT ![t] = label]

(* The end of a call: its frame is gone. *)
Return(t) ==
  /\ Goto(t, "idle")
  /\ relay' = [relay EXCEPT ![t] = NoRelay]
  /\ rowId' = [rowId EXCEPT ![t] = 0]
  /\ todo' = [todo EXCEPT ![t] = {}]
  /\ due' = [due EXCEPT ![t] = {}]

(* The bound on calls. *)
Begin(t, label) ==
  /\ pc[t] = "idle"
  /\ calls < MaxCalls
  /\ calls' = calls + 1
  /\ \E r \in Relay : relay' = [relay EXCEPT ![t] = r]
  /\ Goto(t, label)
  /\ UNCHANGED <<backend, tables, rowId, todo>>

-----------------------------------------------------------------------------
(* mint_bearer_core from its save_relay_policy (with id 0) on. *)
StartMint(t) ==
  /\ Begin(t, "selectId")
  /\ UNCHANGED history

(* The id after the largest one in use, which is 0 in an empty table. *)
NextId == 1 + CHOOSE n \in {0} \cup {id[r] : r \in Relay} : \A r \in Relay : id[r] <= n

(* InMemStore: the row is found or made, and written, under the mutex. *)
SaveAtOnce(t) ==
  /\ backend = "inmem"
  /\ pc[t] = "selectId"
  /\ LET r == relay[t]
         i == IF id[r] = 0 THEN NextId ELSE id[r]
     IN /\ id' = [id EXCEPT ![r] = i]
        /\ revoked' = revoked \ {r}
        /\ rowId' = [rowId EXCEPT ![t] = i]
  /\ Goto(t, "saveBearer")
  /\ UNCHANGED <<backend, policy, off, relay, todo, calls, history>>

(* Mutant: a policy that was saved before is given a fresh id. *)
SelectIdAlwaysFresh(t) ==
  /\ backend = "libsql"
  /\ pc[t] = "selectId"
  /\ Goto(t, "selectMax")
  /\ UNCHANGED <<backend, tables, locals, calls, history>>

(* LibSqlStore: SELECT id .. WHERE relay_id; *)
SelectId(t) ==
  /\ backend = "libsql"
  /\ pc[t] = "selectId"
  /\ LET r == relay[t]
     IN \/ /\ id[r] # 0
           /\ rowId' = [rowId EXCEPT ![t] = id[r]]
           /\ Goto(t, "upsert")
           /\ UNCHANGED clashed
        \/ /\ id[r] = 0
           /\ Goto(t, "selectMax")
           /\ clashed' = IF \E u \in Thread : relay[u] = r /\ pc[u] \in FirstSave
                         THEN clashed \cup {r} ELSE clashed
           /\ UNCHANGED rowId
  /\ UNCHANGED <<backend, tables, relay, todo, calls, owner, due, dead>>

(* SELECT MAX(id); *)
SelectMax(t) ==
  /\ pc[t] = "selectMax"
  /\ rowId' = [rowId EXCEPT ![t] = NextId]
  /\ Goto(t, "upsert")
  /\ UNCHANGED <<backend, tables, relay, todo, calls, history>>

(* Mutant: the table has no primary key. *)
UpsertUnchecked(t) ==
  /\ pc[t] = "upsert"
  /\ id' = [id EXCEPT ![relay[t]] = IF @ = 0 THEN rowId[t] ELSE @]
  /\ revoked' = revoked \ {relay[t]}
  /\ Goto(t, "saveBearer")
  /\ UNCHANGED <<backend, policy, off, locals, calls, history>>

(***************************************************************************)
(* INSERT .. ON CONFLICT(relay_id) DO UPDATE leaves the id of a row that   *)
(* is there; the insert of an id that another relay has violates the       *)
(* primary key.  What is returned is the id that was asked for.            *)
(***************************************************************************)
Upsert(t) ==
  /\ pc[t] = "upsert"
  /\ LET r == relay[t]
     IN \/ /\ id[r] = 0
           /\ \E q \in Relay : id[q] = rowId[t]
           /\ Return(t)
           /\ UNCHANGED <<id, revoked>>
        \/ /\ \/ id[r] # 0 /\ UNCHANGED id
              \/ /\ id[r] = 0
                 /\ \A q \in Relay : id[q] # rowId[t]
                 /\ id' = [id EXCEPT ![r] = rowId[t]]
           /\ revoked' = revoked \ {r}
           /\ Goto(t, "saveBearer")
           /\ UNCHANGED <<relay, rowId, todo, due>>
  /\ UNCHANGED <<backend, policy, off, calls, owner, dead, clashed>>

(* save_bearer with the id that save_relay_policy returned. *)
SaveBearer(t) ==
  /\ pc[t] = "saveBearer"
  /\ \E k \in Token \ Minted :
       /\ policy' = [policy EXCEPT ![k] = rowId[t]]
       /\ owner' = [owner EXCEPT ![k] = relay[t]]
  /\ Return(t)
  /\ UNCHANGED <<backend, id, revoked, off, calls, dead, clashed>>

-----------------------------------------------------------------------------
(* relay_revoke with apply on an unlocked vault; due to it is what is minted by now. *)
StartRevoke(t) ==
  /\ Begin(t, "loadPolicy")
  /\ \E r \in Relay :
       /\ relay'[t] = r
       /\ due' = [due EXCEPT ![t] = {k \in Minted : owner[k] = r}]
  /\ UNCHANGED <<owner, dead, clashed>>

LoadPolicy(t) ==
  /\ pc[t] = "loadPolicy"
  /\ \/ id[relay[t]] = 0 /\ Goto(t, "listBearers")
     \/ id[relay[t]] # 0 /\ Goto(t, "flipPolicy")
  /\ UNCHANGED <<backend, tables, locals, calls, history>>

(* The row comes back with its own id, which every store keeps. *)
FlipPolicy(t) ==
  /\ pc[t] = "flipPolicy"
  /\ revoked' = revoked \cup {relay[t]}
  /\ Goto(t, "listBearers")
  /\ UNCHANGED <<backend, id, policy, off, locals, calls, history>>

(* The live bearers that carry the id of the relay's policy. *)
ListBearers(t) ==
  /\ pc[t] = "listBearers"
  /\ todo' = [todo EXCEPT ![t] =
                {k \in Minted : /\ id[relay[t]] # 0
                                /\ policy[k] = id[relay[t]]
                                /\ k \notin off}]
  /\ Goto(t, "saveRevoked")
  /\ UNCHANGED <<backend, tables, relay, rowId, calls, history>>

(* Mutant: the revoke ends after the first row. *)
SaveRevokedFirstOnly(t) ==
  /\ pc[t] = "saveRevoked"
  /\ \/ todo[t] = {} /\ UNCHANGED off
     \/ \E k \in todo[t] : off' = off \cup {k}
  /\ dead' = dead \cup due[t]
  /\ Return(t)
  /\ UNCHANGED <<backend, id, revoked, policy, calls, owner, clashed>>

(* reseal and save_bearer, row by row; when none is left the revoke returns Ok. *)
SaveRevoked(t) ==
  /\ pc[t] = "saveRevoked"
  /\ \/ /\ todo[t] = {}
        /\ dead' = dead \cup due[t]
        /\ Return(t)
        /\ UNCHANGED off
     \/ \E k \in todo[t] :
          /\ off' = off \cup {k}
          /\ todo' = [todo EXCEPT ![t] = todo[t] \ {k}]
          /\ UNCHANGED <<pc, relay, rowId, due, dead>>
  /\ UNCHANGED <<backend, id, revoked, policy, calls, owner, clashed>>

-----------------------------------------------------------------------------
(* A store call, or the resealing of a row once the vault is locked, returns Err. *)
StoreError(t) ==
  /\ "storeError" \in Mishap
  /\ pc[t] \in InStore
  /\ Return(t)
  /\ UNCHANGED <<backend, tables, calls, owner, dead, clashed>>

(* The process dies: the calls are gone, and what the in-memory store held. *)
Crash ==
  /\ "crash" \in Mishap
  /\ \E t \in Thread : pc[t] # "idle"
  /\ pc' = [t \in Thread |-> "idle"]
  /\ relay' = [t \in Thread |-> NoRelay]
  /\ rowId' = [t \in Thread |-> 0]
  /\ todo' = [t \in Thread |-> {}]
  /\ due' = [t \in Thread |-> {}]
  /\ IF backend = "libsql" THEN UNCHANGED <<tables, owner, dead>>
     ELSE /\ id' = [r \in Relay |-> 0]
          /\ revoked' = {}
          /\ policy' = [k \in Token |-> 0]
          /\ off' = {}
          /\ owner' = [k \in Token |-> NoRelay]
          /\ dead' = {}
  /\ UNCHANGED <<backend, calls, clashed>>

Step(t) ==
  \/ SaveAtOnce(t) \/ SelectId(t) \/ SelectMax(t) \/ Upsert(t) \/ SaveBearer(t)
  \/ LoadPolicy(t) \/ FlipPolicy(t) \/ ListBearers(t) \/ SaveRevoked(t)

Next ==
  \/ \E t \in Thread : StartMint(t) \/ StartRevoke(t) \/ Step(t) \/ StoreError(t)
  \/ Crash

Spec == Init /\ [][Next]_vars

-----------------------------------------------------------------------------
(***************************************************************************)
(* Properties.                                                             *)
(***************************************************************************)

(* Every variable has its type, and no two relays share a policy id (the primary key *)
(* of relay_policies, schema.rs:63-68; vault/store.rs:427).                          *)
TypeOK ==
  /\ backend \in {"inmem", "libsql"}
  /\ id \in [Relay -> Nat]
  /\ \A r, q \in Relay : id[r] = id[q] /\ r # q => id[r] = 0
  /\ revoked \subseteq Relay
  /\ policy \in [Token -> Nat]
  /\ off \subseteq Token
  /\ pc \in [Thread -> {"idle"} \cup InStore]
  /\ relay \in [Thread -> Relay \cup {NoRelay}]
  /\ rowId \in [Thread -> Nat]
  /\ todo \in [Thread -> SUBSET Token]
  /\ calls \in 0..MaxCalls
  /\ owner \in [Token -> Relay \cup {NoRelay}]
  /\ due \in [Thread -> SUBSET Token]
  /\ dead \subseteq Token
  /\ clashed \subseteq Relay

(* A bearer stays bound to the relay it was minted for (vault/store.rs:417-420,       *)
(* lib.rs:1233-1236): the policy id it carries is that of its relay and of no other,  *)
(* in both stores, however mints, revokes, failed calls and restarts mix, unless two  *)
(* first saves of that very relay overlapped in the libSQL store.                     *)
BearersKeepTheirRelay ==
  \A k \in Minted : owner[k] \notin clashed => policy[k] = id[owner[k]]

(* relay_revoke reaches every live bearer of its relay (lib.rs:936-938): once it      *)
(* returned Ok, whatever was minted for the relay before it began is revoked, and no  *)
(* later mint, revoke or restart revives it.                                          *)
RevokeReachesItsBearers ==
  \A k \in dead : owner[k] \notin clashed => k \in off

(* What the libSQL store says without that condition (secrets-store-libsql/src/       *)
(* store.rs:384): "so live bearers' policy_id is never orphaned".                     *)
NoBearerIsOrphaned ==
  \A k \in Minted : \E r \in Relay : id[r] = policy[k]
=============================================================================
