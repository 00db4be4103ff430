------------------------------- MODULE SecretLog -------------------------------
(***************************************************************************)
(* What the secret API promises its callers, without row ids, sealing,     *)
(* locks or retries: the values of a name are versions 1, 2, 3, .. that    *)
(* are written once and never change, a put that returned Ok is among them *)
(* for good, and what is revealed is the newest version there is, and only *)
(* when that one may be revealed.                                          *)
(***************************************************************************)
EXTENDS Integers

CONSTANT Thread

VARIABLES
  entries,  \* the versions there are: records with name, version, value and broker_only
  acked,    \* the entries whose put returned Ok
  seen      \* what each thread's get holds, at most one entry

vars == <<entries, acked, seen>>

(* e is newer than every entry of its name, and the next one. *)
IsNext(e) ==
  /\ \A f \in entries : f.name = e.name => f.version < e.version
  /\ e.version = 1 \/ \E f \in entries : f.name = e.name /\ f.version = e.version - 1

IsLatest(e) ==
  /\ e \in entries
  /\ \A f \in entries : f.name = e.name => f.version <= e.version

Init ==
  /\ entries = {}
  /\ acked = {}
  /\ seen = [t \in Thread |-> {}]

Write ==
  /\ \E e \in entries' \ entries : IsNext(e) /\ entries' = entries \cup {e}
  /\ UNCHANGED <<acked, seen>>

Acknowledge ==
  /\ \E e \in entries : acked' = acked \cup {e}
  /\ UNCHANGED <<entries, seen>>

Reveal(t) ==
  /\ \E e \in entries : IsLatest(e) /\ ~e.broker_only /\ seen' = [seen EXCEPT ![t] = {e}]
  /\ UNCHANGED <<entries, acked>>

(* A get returns, or its process dies. *)
Forget ==
  /\ \E T \in SUBSET Thread : seen' = [t \in Thread |-> IF t \in T THEN {} ELSE seen[t]]
  /\ UNCHANGED <<entries, acked>>

Next == Write \/ Acknowledge \/ Forget \/ \E t \in Thread : Reveal(t)

Spec == Init /\ [][Next]_vars
=============================================================================
