---------------------------- MODULE RelayBrokerProofs ----------------------------
(***************************************************************************)
(* Theorems about RelayBroker, for any number of threads, relays, bearers, *)
(* budgets and calls and every fault: its types, that the limits of a live *)
(* policy are those of the last mint, that a revoke which returned Ok is   *)
(* final and reported as such, that budgets hold, that the whole           *)
(* implements BearerLedger, that nobody waits in a circle and that every   *)
(* call takes a bounded number of steps.  Safety rests on what a thread    *)
(* has read and on what no step undoes (Grow): a row that exists stays and *)
(* keeps its relay, a revoked bearer stays revoked, the largest budget of  *)
(* a relay never shrinks.                                                  *)
(***************************************************************************)
EXTENDS RelayBroker, FiniteSetTheorems, TLAPS

USE DEF Goto, Release, SetVerdict, Begin, Refuse, rows, locals, perCall, overall

(* What a step of one thread may be. *)
Does(t) == Start(t) \/ Step(t) \/ StoreError(t)

Swapping == {"swapPolicy", "swapUsb", "decide", "openKey", "send"}
ForRelay == {"mintLock", "mintUsb", "savePolicy", "saveBearer",
             "loadPolicy", "flipPolicy", "listBearers"} \cup Swapping
ForToken == {"loadBearer", "saveRevoked", "swapLock", "swapBearer"} \cup Swapping

(* A thread has what it is about to use, and a row of a bearer names its relay. *)
Bound ==
  /\ TypeOK
  /\ \A t \in Thread : pc[t] \in ForRelay => relay[t] \in Relay
  /\ \A t \in Thread : pc[t] \in ForToken => token[t] \in Token
  /\ \A k \in Token : bearer[k].state # "none" => bearer[k].relay \in Relay
  /\ \A k \in Token : bearer[k].state = "none" => bearer[k] = NoBearer
  /\ \A t \in Thread : \A k \in todo[t] : bearer[k].state # "none"
  /\ \A t \in Thread : pc[t] = "saveRevoked" => token[t] \in todo[t]

-----------------------------------------------------------------------------
(* A step of one thread leaves the others alone. *)
LEMMA Others ==
  ASSUME Bound, NEW t \in Thread, Does(t), NEW u \in Thread, u # t
  PROVE  /\ pc'[u] = pc[u] /\ op'[u] = op[u] /\ relay'[u] = relay[u] /\ token'[u] = token[u]
         /\ quota'[u] = quota[u] /\ found'[u] = found[u] /\ todo'[u] = todo[u]
         /\ verdict'[u] = verdict[u] /\ listed'[u] = listed[u]
         /\ u \in late' <=> u \in late
<1> USE DEF Bound, TypeOK
<1>1. CASE StartMint(t) \/ StartRevoke(t) \/ StartRevokeBearer(t) \/ StartSwap(t) \/
        StartLock(t) \/ StartUnlock(t)
  BY <1>1 DEF StartMint, StartRevoke, StartRevokeBearer, StartSwap, StartLock, StartUnlock
<1>2. CASE MintLock(t) \/ MintUsb(t) \/ SavePolicy(t)
  BY <1>2 DEF MintLock, Return, MintUsb, SavePolicy
<1>3. CASE SaveBearer(t) \/ LoadPolicy(t) \/ FlipPolicy(t)
  BY <1>3 DEF SaveBearer, SavedBearer, LoadPolicy, FlipPolicy
<1>4. CASE ListBearers(t) \/ LoadBearer(t)
  BY <1>4 DEF ListBearers, Listed, LoadBearer
<1>5. CASE Reseal(t) \/ SaveRevoked(t)
  BY <1>5 DEF Reseal, Return, SaveRevoked, Revoked
<1>6. CASE SwapLock(t) \/ SwapBearer(t) \/ SwapPolicy(t) \/ SwapUsb(t)
  BY <1>6 DEF SwapLock, SwapBearer, SwapPolicy, SwapUsb
<1>7. CASE Decide(t) \/ OpenKey(t) \/ Send(t)
  BY <1>7 DEF Decide, OpenKey, Send
<1>8. CASE QueueWriter(t) \/ LockVault(t) \/ UnlockRead(t) \/ Commit(t)
  BY <1>8 DEF QueueWriter, LockVault, UnlockRead, Return, Commit
<1>9. CASE Append(t) \/ Advance(t) \/ StoreError(t)
  BY <1>9 DEF Append, Advance, Return, StoreError
<1> QED
  BY <1>1, <1>2, <1>3, <1>4, <1>5, <1>6, <1>7, <1>8, <1>9 DEF Does, Start, Step

(* What no step undoes. *)
LEMMA Grow ==
  ASSUME Bound, NEW t \in Thread, Does(t)
  PROVE  /\ \A k \in Token : bearer[k].state # "none" =>
              bearer'[k].state # "none" /\ bearer'[k].relay = bearer[k].relay
         /\ \A k \in Token : bearer[k].state = "revoked" => bearer'[k].state = "revoked"
         /\ \A r \in Relay : policy[r].state # "none" => policy'[r].state # "none"
         /\ \A r \in Relay : granted[r] <= granted'[r]
         /\ dead \subseteq dead'
<1> USE BrokerAssumption DEF Bound, TypeOK, States, ForRelay, ForToken, Swapping, NoBearer
<1>1. CASE StartMint(t) \/ StartRevoke(t) \/ StartRevokeBearer(t) \/ StartSwap(t) \/
        StartLock(t) \/ StartUnlock(t)
  BY <1>1 DEF StartMint, StartRevoke, StartRevokeBearer, StartSwap, StartLock, StartUnlock
<1>2. CASE MintLock(t) \/ MintUsb(t) \/ LoadPolicy(t)
  BY <1>2 DEF MintLock, Return, MintUsb, LoadPolicy
<1>3. CASE SavePolicy(t)
  <2>1. \A m, n \in Nat : m <= Larger(m, n) /\ Larger(m, n) \in Nat
    BY DEF Larger
  <2>2. /\ granted' = [granted EXCEPT ![relay[t]] = Larger(granted[relay[t]], quota[t])]
        /\ policy' = [policy EXCEPT ![relay[t]] = [state |-> "live", quota |-> quota[t]]]
        /\ UNCHANGED <<bearer, dead>>
    BY <1>3 DEF SavePolicy
  <2>3. \A r \in Relay : granted[r] <= granted'[r]
    <3>1. /\ relay[t] \in Relay /\ granted[relay[t]] \in Nat /\ quota[t] \in Nat
          /\ granted[relay[t]] <= Larger(granted[relay[t]], quota[t])
      BY <1>3, <2>1 DEF SavePolicy
    <3>2. \A r \in Relay :
            granted'[r] = IF r = relay[t] THEN Larger(granted[relay[t]], quota[t]) ELSE granted[r]
      BY <2>2
    <3> QED
      BY <3>1, <3>2
  <2>4. \A r \in Relay : policy[r].state # "none" => policy'[r].state # "none"
    BY <2>2
  <2> QED
    BY <2>2, <2>3, <2>4
<1>4. CASE SaveBearer(t)
  BY <1>4 DEF SaveBearer, SavedBearer
<1>5. CASE FlipPolicy(t)
  BY <1>5 DEF FlipPolicy
<1>6. CASE ListBearers(t) \/ LoadBearer(t)
  BY <1>6 DEF ListBearers, Listed, LoadBearer
<1>7. CASE Reseal(t)
  BY <1>7 DEF Reseal, Return
<1>8. CASE SaveRevoked(t)
  BY <1>8 DEF SaveRevoked, Revoked
<1>9. CASE SwapLock(t) \/ SwapBearer(t) \/ SwapPolicy(t) \/ SwapUsb(t)
  BY <1>9 DEF SwapLock, SwapBearer, SwapPolicy, SwapUsb
<1>10. CASE Decide(t)
  BY <1>10 DEF Decide
<1>11. CASE OpenKey(t)
  BY <1>11 DEF OpenKey
<1>12. CASE Send(t)
  BY <1>12 DEF Send
<1>13. CASE QueueWriter(t) \/ LockVault(t) \/ UnlockRead(t) \/ Commit(t)
  BY <1>13 DEF QueueWriter, LockVault, UnlockRead, Return, Commit
<1>14. CASE Append(t) \/ Advance(t)
  BY <1>14 DEF Append, Advance, Return
<1>15. CASE StoreError(t)
  BY <1>15 DEF StoreError, Return
<1> QED
  BY <1>1, <1>2, <1>3, <1>4, <1>5, <1>6, <1>7, <1>8, <1>9, <1>10, <1>11, <1>12, <1>13, <1>14,
     <1>15 DEF Does, Start, Step

LEMMA StepRows ==
  ASSUME Bound, NEW t \in Thread, Does(t)
  PROVE  /\ policy' \in [Relay -> [state : States, quota : Nat]]
         /\ bearer' \in [Token -> [state : States, relay : Relay \cup {NoRelay}, sealed : States]]
         /\ \A k \in Token : bearer'[k].state # "none" => bearer'[k].relay \in Relay
         /\ \A k \in Token : bearer'[k].state = "none" => bearer'[k] = NoBearer
<1> USE BrokerAssumption DEF Bound, TypeOK, States, ForRelay, ForToken, Swapping, NoBearer
<1>1. CASE StartMint(t) \/ StartRevoke(t) \/ StartRevokeBearer(t) \/ StartSwap(t) \/
        StartLock(t) \/ StartUnlock(t)
  BY <1>1 DEF StartMint, StartRevoke, StartRevokeBearer, StartSwap, StartLock, StartUnlock
<1>2. CASE MintLock(t) \/ MintUsb(t) \/ LoadPolicy(t)
  BY <1>2 DEF MintLock, Return, MintUsb, LoadPolicy
<1>3. CASE SavePolicy(t)
  BY <1>3 DEF SavePolicy
<1>4. CASE SaveBearer(t)
  BY <1>4 DEF SaveBearer, SavedBearer
<1>5. CASE FlipPolicy(t)
  BY <1>5 DEF FlipPolicy
<1>6. CASE ListBearers(t) \/ LoadBearer(t)
  BY <1>6 DEF ListBearers, Listed, LoadBearer
<1>7. CASE Reseal(t)
  BY <1>7 DEF Reseal, Return
<1>8. CASE SaveRevoked(t)
  <2>1. /\ token[t] \in Token /\ bearer[token[t]].state # "none"
        /\ bearer[token[t]] \in
              [state : States, relay : Relay \cup {NoRelay}, sealed : States]
    BY <1>8 DEF SaveRevoked
  <2>2. /\ Revoked(bearer[token[t]]) \in
              [state : States, relay : Relay \cup {NoRelay}, sealed : States]
        /\ Revoked(bearer[token[t]]).state = "revoked"
        /\ Revoked(bearer[token[t]]).relay = bearer[token[t]].relay
    BY <2>1 DEF Revoked
  <2>3. bearer' = [bearer EXCEPT ![token[t]] = Revoked(bearer[token[t]])] /\ UNCHANGED policy
    BY <1>8 DEF SaveRevoked
  <2> QED
    BY <2>1, <2>2, <2>3
<1>9. CASE SwapLock(t) \/ SwapBearer(t) \/ SwapPolicy(t) \/ SwapUsb(t)
  BY <1>9 DEF SwapLock, SwapBearer, SwapPolicy, SwapUsb
<1>10. CASE Decide(t)
  BY <1>10 DEF Decide
<1>11. CASE OpenKey(t)
  BY <1>11 DEF OpenKey
<1>12. CASE Send(t)
  BY <1>12 DEF Send
<1>13. CASE QueueWriter(t) \/ LockVault(t) \/ UnlockRead(t) \/ Commit(t)
  BY <1>13 DEF QueueWriter, LockVault, UnlockRead, Return, Commit
<1>14. CASE Append(t) \/ Advance(t)
  BY <1>14 DEF Append, Advance, Return
<1>15. CASE StoreError(t)
  BY <1>15 DEF StoreError, Return
<1> QED
  BY <1>1, <1>2, <1>3, <1>4, <1>5, <1>6, <1>7, <1>8, <1>9, <1>10, <1>11, <1>12, <1>13, <1>14,
     <1>15 DEF Does, Start, Step

LEMMA StepCounts ==
  ASSUME Bound, NEW t \in Thread, Does(t)
  PROVE  /\ used' \in [Token -> Nat] /\ sent' \in [Token -> Nat]
         /\ granted' \in [Relay -> Nat] /\ latest' \in [Relay -> Nat]
         /\ calls' \in 0..MaxCalls /\ dead' \subseteq Token
<1> USE BrokerAssumption DEF Bound, TypeOK, ForRelay, ForToken, Swapping, Larger
<1>1. CASE StartMint(t) \/ StartRevoke(t) \/ StartRevokeBearer(t) \/ StartSwap(t) \/
        StartLock(t) \/ StartUnlock(t)
  BY <1>1 DEF StartMint, StartRevoke, StartRevokeBearer, StartSwap, StartLock, StartUnlock
<1>2. CASE MintLock(t) \/ MintUsb(t) \/ LoadPolicy(t)
  BY <1>2 DEF MintLock, Return, MintUsb, LoadPolicy
<1>3. CASE SavePolicy(t)
  BY <1>3 DEF SavePolicy
<1>4. CASE SaveBearer(t)
  BY <1>4 DEF SaveBearer, SavedBearer
<1>5. CASE FlipPolicy(t)
  BY <1>5 DEF FlipPolicy
<1>6. CASE ListBearers(t) \/ LoadBearer(t)
  BY <1>6 DEF ListBearers, Listed, LoadBearer
<1>7. CASE Reseal(t)
  BY <1>7 DEF Reseal, Return
<1>8. CASE SaveRevoked(t)
  BY <1>8 DEF SaveRevoked, Revoked
<1>9. CASE SwapLock(t) \/ SwapBearer(t) \/ SwapPolicy(t) \/ SwapUsb(t)
  BY <1>9 DEF SwapLock, SwapBearer, SwapPolicy, SwapUsb
<1>10. CASE Decide(t)
  BY <1>10 DEF Decide
<1>11. CASE OpenKey(t)
  BY <1>11 DEF OpenKey
<1>12. CASE Send(t)
  BY <1>12 DEF Send
<1>13. CASE QueueWriter(t) \/ LockVault(t) \/ UnlockRead(t) \/ Commit(t)
  BY <1>13 DEF QueueWriter, LockVault, UnlockRead, Return, Commit
<1>14. CASE Append(t) \/ Advance(t)
  BY <1>14 DEF Append, Advance, Return
<1>15. CASE StoreError(t)
  BY <1>15 DEF StoreError, Return
<1> QED
  BY <1>1, <1>2, <1>3, <1>4, <1>5, <1>6, <1>7, <1>8, <1>9, <1>10, <1>11, <1>12, <1>13, <1>14,
     <1>15 DEF Does, Start, Step

LEMMA ReturnLocals ==
  ASSUME Bound, NEW t \in Thread, Return(t)
  PROVE  /\ op' \in [Thread -> Ops] /\ relay' \in [Thread -> Relay \cup {NoRelay}]
         /\ token' \in [Thread -> Token \cup {NoToken}] /\ quota' \in [Thread -> Nat]
         /\ found' \in [Thread -> States \cup {"ungated"}] /\ todo' \in [Thread -> SUBSET Token]
         /\ verdict' \in [Thread -> Verdicts]
         /\ late' \subseteq Thread /\ logged' \subseteq Thread
         /\ listed' \in [Thread -> SUBSET Token]
<1>1. /\ op' = [op EXCEPT ![t] = "none"] /\ relay' = [relay EXCEPT ![t] = NoRelay]
      /\ token' = [token EXCEPT ![t] = NoToken] /\ quota' = [quota EXCEPT ![t] = 0]
      /\ found' = [found EXCEPT ![t] = "none"] /\ todo' = [todo EXCEPT ![t] = {}]
      /\ verdict' = [verdict EXCEPT ![t] = "none"]
      /\ late' = late \ {t} /\ logged' = logged \ {t} /\ listed' = [listed EXCEPT ![t] = {}]
  BY DEF Return
<1> QED
  BY <1>1 DEF Bound, TypeOK, Ops, States, Verdicts

LEMMA StepLocals ==
  ASSUME Bound, NEW t \in Thread, Does(t)
  PROVE  /\ op' \in [Thread -> Ops] /\ relay' \in [Thread -> Relay \cup {NoRelay}]
         /\ token' \in [Thread -> Token \cup {NoToken}] /\ quota' \in [Thread -> Nat]
         /\ found' \in [Thread -> States \cup {"ungated"}] /\ todo' \in [Thread -> SUBSET Token]
         /\ verdict' \in [Thread -> Verdicts]
         /\ late' \subseteq Thread /\ logged' \subseteq Thread
         /\ listed' \in [Thread -> SUBSET Token]
<1> USE BrokerAssumption DEF Bound, TypeOK, States, Verdicts, Ops, ForRelay, ForToken, Swapping
<1>1. CASE StartMint(t)
  BY <1>1 DEF StartMint
<1>2. CASE StartRevoke(t)
  BY <1>2 DEF StartRevoke
<1>3. CASE StartRevokeBearer(t)
  BY <1>3 DEF StartRevokeBearer
<1>4. CASE StartSwap(t)
  BY <1>4 DEF StartSwap
<1>5. CASE StartLock(t)
  BY <1>5 DEF StartLock
<1>6. CASE StartUnlock(t)
  BY <1>6 DEF StartUnlock
<1>7. CASE MintLock(t)
  <2>1. CASE Return(t)
    BY <2>1, ReturnLocals
  <2>2. CASE UNCHANGED <<locals, perCall>>
    BY <2>2
  <2> QED
    BY <1>7, <2>1, <2>2 DEF MintLock
<1>8. CASE MintUsb(t)
  BY <1>8 DEF MintUsb
<1>9. CASE SavePolicy(t)
  BY <1>9 DEF SavePolicy
<1>10. CASE SaveBearer(t)
  BY <1>10 DEF SaveBearer, SavedBearer
<1>11. CASE LoadPolicy(t)
  BY <1>11 DEF LoadPolicy
<1>12. CASE FlipPolicy(t)
  BY <1>12 DEF FlipPolicy
<1>13. CASE ListBearers(t)
  BY <1>13 DEF ListBearers, Listed
<1>14. CASE LoadBearer(t)
  BY <1>14 DEF LoadBearer, Listed
<1>15. CASE Reseal(t)
  <2>1. CASE Return(t)
    BY <2>1, ReturnLocals
  <2>2. CASE /\ \E k \in todo[t] : token' = [token EXCEPT ![t] = k]
             /\ UNCHANGED <<readers, op, relay, quota, found, todo, verdict, perCall>>
    BY <2>2
  <2> QED
    BY <1>15, <2>1, <2>2 DEF Reseal
<1>16. CASE SaveRevoked(t)
  BY <1>16 DEF SaveRevoked, Revoked
<1>17. CASE SwapLock(t)
  BY <1>17 DEF SwapLock
<1>18. CASE SwapBearer(t)
  <2>1. /\ bearer[token[t]].state \in States
        /\ bearer[token[t]].relay \in Relay \cup {NoRelay}
    BY <1>18 DEF SwapBearer
  <2>2. /\ relay' \in [Thread -> Relay \cup {NoRelay}]
        /\ found' \in [Thread -> States \cup {"ungated"}]
    BY <1>18, <2>1 DEF SwapBearer
  <2> QED
    BY <1>18, <2>2 DEF SwapBearer
<1>19. CASE SwapPolicy(t)
  <2>1. policy[relay[t]].quota \in Nat
    BY <1>19 DEF SwapPolicy
  <2>2. /\ quota' \in [Thread -> Nat]
        /\ found' \in [Thread -> States \cup {"ungated"}]
    BY <1>19, <2>1 DEF SwapPolicy
  <2> QED
    BY <1>19, <2>2 DEF SwapPolicy
<1>20. CASE SwapUsb(t)
  BY <1>20 DEF SwapUsb
<1>21. CASE Decide(t)
  <2>1. Decisions(found[t], used[token[t]] + 1, quota[t]) \subseteq Verdicts
    BY DEF Decisions
  <2>2. PICK v \in Verdicts : verdict' = [verdict EXCEPT ![t] = v]
    BY <1>21, <2>1 DEF Decide
  <2> QED
    BY <1>21, <2>2 DEF Decide
<1>22. CASE OpenKey(t)
  BY <1>22 DEF OpenKey
<1>23. CASE Send(t)
  BY <1>23 DEF Send
<1>24. CASE QueueWriter(t)
  BY <1>24 DEF QueueWriter
<1>25. CASE LockVault(t)
  BY <1>25 DEF LockVault
<1>26. CASE UnlockRead(t)
  <2>1. CASE Return(t)
    BY <2>1, ReturnLocals
  <2>2. CASE /\ \E kind \in {"unlock", "refused"} : op' = [op EXCEPT ![t] = kind]
             /\ UNCHANGED <<readers, relay, token, quota, found, todo, verdict, perCall>>
    BY <2>2
  <2> QED
    BY <1>26, <2>1, <2>2 DEF UnlockRead
<1>27. CASE Commit(t)
  BY <1>27 DEF Commit
<1>28. CASE Append(t)
  BY <1>28 DEF Append
<1>29. CASE Advance(t)
  <2>1. CASE Return(t)
    BY <2>1, ReturnLocals
  <2>2. CASE UNCHANGED <<locals, perCall>>
    BY <2>2
  <2> QED
    BY <1>29, <2>1, <2>2 DEF Advance
<1>30. CASE StoreError(t)
  <2>1. CASE Return(t)
    BY <2>1, ReturnLocals
<2>2. CASE Refuse(t, "internal") /\ UNCHANGED <<op, relay, token, quota, found, todo,
        perCall>>
    BY <2>2
  <2> QED
    BY <1>30, <2>1, <2>2 DEF StoreError
<1> QED
  BY <1>1, <1>2, <1>3, <1>4, <1>5, <1>6, <1>7, <1>8, <1>9, <1>10, <1>11, <1>12, <1>13, <1>14,
     <1>15, <1>16, <1>17, <1>18, <1>19, <1>20, <1>21, <1>22, <1>23, <1>24, <1>25, <1>26,
     <1>27, <1>28, <1>29, <1>30 DEF Does, Start, Step

LEMMA StepLabels ==
  ASSUME Bound, NEW t \in Thread, Does(t)
  PROVE  /\ pc' \in [Thread -> Labels] /\ vault' \in {"locked", "unlocked"}
         /\ readers' = {u \in Thread : pc'[u] \in Holding}
         /\ readers' # {} => vault' = "unlocked"
<1> USE DEF Bound, TypeOK, Labels, Holding, InStore, Writing
<1>1. CASE StartMint(t)
  BY <1>1 DEF StartMint
<1>2. CASE StartRevoke(t)
  BY <1>2 DEF StartRevoke
<1>3. CASE StartRevokeBearer(t)
  BY <1>3 DEF StartRevokeBearer
<1>4. CASE StartSwap(t)
  BY <1>4 DEF StartSwap
<1>5. CASE StartLock(t)
  BY <1>5 DEF StartLock
<1>6. CASE StartUnlock(t)
  BY <1>6 DEF StartUnlock
<1>7. CASE MintLock(t)
  <2>1. pc[t] = "mintLock" /\ t \notin readers /\ UNCHANGED vault
    BY <1>7 DEF MintLock
  <2>2. CASE readers' = readers \ {t} /\ pc' = [pc EXCEPT ![t] = "idle"]
    BY <2>1, <2>2
  <2>3. CASE /\ vault = "unlocked" /\ readers' = readers \cup {t}
             /\ pc' = [pc EXCEPT ![t] = "mintUsb"]
    BY <2>1, <2>3
  <2> QED
    BY <1>7, <2>2, <2>3 DEF MintLock, Return
<1>8. CASE MintUsb(t)
  BY <1>8 DEF MintUsb
<1>9. CASE SavePolicy(t)
  BY <1>9 DEF SavePolicy
<1>10. CASE SaveBearer(t)
  BY <1>10 DEF SaveBearer, SavedBearer
<1>11. CASE LoadPolicy(t)
  BY <1>11 DEF LoadPolicy
<1>12. CASE FlipPolicy(t)
  BY <1>12 DEF FlipPolicy
<1>13. CASE ListBearers(t)
  BY <1>13 DEF ListBearers, Listed
<1>14. CASE LoadBearer(t)
  BY <1>14 DEF LoadBearer, Listed
<1>15. CASE Reseal(t)
  BY <1>15 DEF Reseal, Return
<1>16. CASE SaveRevoked(t)
  BY <1>16 DEF SaveRevoked, Revoked
<1>17. CASE SwapLock(t)
  <2>1. pc[t] = "swapLock" /\ t \notin readers /\ UNCHANGED vault
    BY <1>17 DEF SwapLock
  <2>2. CASE readers' = readers \ {t} /\ pc' = [pc EXCEPT ![t] = "append"]
    BY <2>1, <2>2
  <2>3. CASE /\ vault = "unlocked" /\ readers' = readers \cup {t}
             /\ pc' = [pc EXCEPT ![t] = "swapBearer"]
    BY <2>1, <2>3
  <2> QED
    BY <1>17, <2>2, <2>3 DEF SwapLock
<1>18. CASE SwapBearer(t)
  BY <1>18 DEF SwapBearer
<1>19. CASE SwapPolicy(t)
  BY <1>19 DEF SwapPolicy
<1>20. CASE SwapUsb(t)
  BY <1>20 DEF SwapUsb
<1>21. CASE Decide(t)
  BY <1>21 DEF Decide
<1>22. CASE OpenKey(t)
  BY <1>22 DEF OpenKey
<1>23. CASE Send(t)
  BY <1>23 DEF Send
<1>24. CASE QueueWriter(t)
  BY <1>24 DEF QueueWriter
<1>25. CASE LockVault(t)
  <2>1. /\ readers = {} /\ readers' = {} /\ vault' = "locked"
        /\ pc' = [pc EXCEPT ![t] = "append"]
    BY <1>25 DEF LockVault, MayWrite
  <2> QED
    BY <2>1
<1>26. CASE UnlockRead(t)
  BY <1>26 DEF UnlockRead, Return
<1>27. CASE Commit(t)
  BY <1>27 DEF Commit
<1>28. CASE Append(t)
  BY <1>28 DEF Append
<1>29. CASE Advance(t)
  BY <1>29 DEF Advance, Return
<1>30. CASE StoreError(t)
  BY <1>30 DEF StoreError, Return
<1> QED
  BY <1>1, <1>2, <1>3, <1>4, <1>5, <1>6, <1>7, <1>8, <1>9, <1>10, <1>11, <1>12, <1>13, <1>14,
     <1>15, <1>16, <1>17, <1>18, <1>19, <1>20, <1>21, <1>22, <1>23, <1>24, <1>25, <1>26,
     <1>27, <1>28, <1>29, <1>30 DEF Does, Start, Step

LEMMA StepFrame ==
  ASSUME Bound, NEW t \in Thread, Does(t)
  PROVE  /\ pc'[t] \in ForRelay => relay'[t] \in Relay
         /\ pc'[t] \in ForToken => token'[t] \in Token
         /\ pc'[t] = "saveRevoked" => token'[t] \in todo'[t]
         /\ \A k \in todo'[t] : bearer'[k].state # "none"
<1> USE BrokerAssumption DEF Bound, TypeOK, NoBearer, ForRelay, ForToken, Swapping
<1>1. CASE StartMint(t)
  BY <1>1 DEF StartMint
<1>2. CASE StartRevoke(t)
  BY <1>2 DEF StartRevoke
<1>3. CASE StartRevokeBearer(t)
  BY <1>3 DEF StartRevokeBearer
<1>4. CASE StartSwap(t)
  BY <1>4 DEF StartSwap
<1>5. CASE StartLock(t)
  BY <1>5 DEF StartLock
<1>6. CASE StartUnlock(t)
  BY <1>6 DEF StartUnlock
<1>7. CASE MintLock(t)
  BY <1>7 DEF MintLock, Return
<1>8. CASE MintUsb(t)
  BY <1>8 DEF MintUsb
<1>9. CASE SavePolicy(t)
  BY <1>9 DEF SavePolicy
<1>10. CASE SaveBearer(t)
  BY <1>10 DEF SaveBearer, SavedBearer
<1>11. CASE LoadPolicy(t)
  BY <1>11 DEF LoadPolicy
<1>12. CASE FlipPolicy(t)
  BY <1>12 DEF FlipPolicy
<1>13. CASE ListBearers(t)
  BY <1>13 DEF ListBearers, Listed
<1>14. CASE LoadBearer(t)
  BY <1>14 DEF LoadBearer, Listed
<1>15. CASE Reseal(t)
  BY <1>15 DEF Reseal, Return
<1>16. CASE SaveRevoked(t)
  BY <1>16 DEF SaveRevoked, Revoked
<1>17. CASE SwapLock(t)
  BY <1>17 DEF SwapLock
<1>18. CASE SwapBearer(t)
  BY <1>18 DEF SwapBearer
<1>19. CASE SwapPolicy(t)
  BY <1>19 DEF SwapPolicy
<1>20. CASE SwapUsb(t)
  BY <1>20 DEF SwapUsb
<1>21. CASE Decide(t)
  BY <1>21 DEF Decide
<1>22. CASE OpenKey(t)
  BY <1>22 DEF OpenKey
<1>23. CASE Send(t)
  BY <1>23 DEF Send
<1>24. CASE QueueWriter(t)
  BY <1>24 DEF QueueWriter
<1>25. CASE LockVault(t)
  BY <1>25 DEF LockVault
<1>26. CASE UnlockRead(t)
  BY <1>26 DEF UnlockRead, Return
<1>27. CASE Commit(t)
  BY <1>27 DEF Commit
<1>28. CASE Append(t)
  BY <1>28 DEF Append
<1>29. CASE Advance(t)
  BY <1>29 DEF Advance, Return
<1>30. CASE StoreError(t)
  BY <1>30 DEF StoreError, Return
<1> QED
  BY <1>1, <1>2, <1>3, <1>4, <1>5, <1>6, <1>7, <1>8, <1>9, <1>10, <1>11, <1>12, <1>13, <1>14,
     <1>15, <1>16, <1>17, <1>18, <1>19, <1>20, <1>21, <1>22, <1>23, <1>24, <1>25, <1>26,
     <1>27, <1>28, <1>29, <1>30 DEF Does, Start, Step

LEMMA StepBound ==
  ASSUME Bound, NEW t \in Thread, Does(t)
  PROVE  Bound'
<1>1. TypeOK'
  BY StepRows, StepCounts, StepLocals, StepLabels DEF TypeOK
<1>2. ASSUME NEW u \in Thread, u # t
      PROVE  /\ pc'[u] \in ForRelay => relay'[u] \in Relay
             /\ pc'[u] \in ForToken => token'[u] \in Token
             /\ pc'[u] = "saveRevoked" => token'[u] \in todo'[u]
             /\ \A k \in todo'[u] : bearer'[k].state # "none"
  BY <1>2, Others, Grow DEF Bound, TypeOK
<1> QED
  BY <1>1, <1>2, StepRows, StepFrame DEF Bound

LEMMA CrashBound == Bound /\ Crash => Bound'
<1> SUFFICES ASSUME Bound, Crash PROVE Bound'
  OBVIOUS
<1> USE DEF Bound
<1>1. /\ pc' = [t \in Thread |-> "idle"] /\ todo' = [t \in Thread |-> {}]
      /\ UNCHANGED <<policy, bearer, calls, dead, granted, latest>>
      /\ readers' = {} /\ vault' = "locked"
  BY DEF Crash
<1>2. TypeOK'
  <2>1. /\ pc' \in [Thread -> Labels] /\ readers' = {t \in Thread : pc'[t] \in Holding}
        /\ todo' \in [Thread -> SUBSET Token]
    BY <1>1 DEF Labels, Holding
  <2>2. /\ used' \in [Token -> Nat] /\ sent' \in [Token -> Nat]
        /\ op' \in [Thread -> Ops] /\ relay' \in [Thread -> Relay \cup {NoRelay}]
        /\ token' \in [Thread -> Token \cup {NoToken}] /\ quota' \in [Thread -> Nat]
        /\ found' \in [Thread -> States \cup {"ungated"}] /\ verdict' \in [Thread -> Verdicts]
        /\ late' \subseteq Thread /\ logged' \subseteq Thread
        /\ listed' \in [Thread -> SUBSET Token]
    BY DEF Crash, Ops, States, Verdicts
  <2> QED
    BY <1>1, <2>1, <2>2 DEF TypeOK
<1> QED
  BY <1>1, <1>2 DEF ForRelay, ForToken, Swapping

LEMMA InitBound == Init => Bound
<1> SUFFICES ASSUME Init PROVE Bound
  OBVIOUS
<1> USE BrokerAssumption
<1>1. PICK owner \in [Given -> Relay], budget \in [Relay -> Quota] :
       /\ policy = [r \in Relay |-> IF \E k \in Given : owner[k] = r
                                  THEN [state |-> "live", quota |-> budget[r]] ELSE NoPolicy]
       /\ bearer = [k \in Token |-> IF k \in Given
                                   THEN [state |-> "live", relay |-> owner[k], sealed |-> "live"]
                                   ELSE NoBearer]
  BY DEF Init
<1>2. /\ policy \in [Relay -> [state : States, quota : Nat]]
      /\ bearer \in [Token -> [state : States, relay : Relay \cup {NoRelay}, sealed : States]]
      /\ \A k \in Token : bearer[k].state # "none" => bearer[k].relay \in Relay
      /\ \A k \in Token : bearer[k].state = "none" => bearer[k] = NoBearer
  BY <1>1 DEF NoPolicy, NoBearer, States
<1>3. granted \in [Relay -> Nat] /\ latest \in [Relay -> Nat]
  BY <1>2 DEF Init
<1>4. /\ pc \in [Thread -> Labels] /\ readers = {t \in Thread : pc[t] \in Holding}
      /\ calls \in 0..MaxCalls
  BY DEF Init, Labels, Holding
<1>5. TypeOK
  BY <1>2, <1>3, <1>4 DEF Init, TypeOK, Ops, States, Verdicts
<1> QED
  BY <1>2, <1>5 DEF Init, Bound, ForRelay, ForToken, Swapping

LEMMA AlwaysBound == Spec => []Bound
<1>1. Bound /\ UNCHANGED vars => Bound'
  BY DEF Bound, TypeOK, vars
<1>2. Bound /\ [Next]_vars => Bound'
  BY <1>1, StepBound, CrashBound DEF Next, Does
<1> QED
  BY <1>2, InitBound, PTL DEF Spec

(* Every variable keeps its type, and the vault lock is held shared exactly where the  *)
(* guard lives, never over a locked vault (lib.rs mint_bearer_core, relay_swap_prepare). *)
THEOREM TypeCorrect == Spec => []TypeOK
  BY AlwaysBound, PTL DEF Bound

-----------------------------------------------------------------------------
(* Rows are sealed as they stand and a bearer has a policy; a policy has no more than  *)
(* the largest budget of its relay, and while it is live that of the last mint.        *)
Rows ==
  /\ \A k \in Token : bearer[k].sealed = bearer[k].state
  /\ \A k \in Token : bearer[k].state # "none" => policy[bearer[k].relay].state # "none"
  /\ \A r \in Relay : policy[r].quota <= granted[r]
  /\ \A t \in Thread : pc[t] = "saveBearer" => policy[relay[t]].state # "none"
  /\ \A t \in Thread : pc[t] = "flipPolicy" => quota[t] <= granted[relay[t]]
  /\ LiveLimitsAreLatest

LEMMA RowsStep ==
  ASSUME Bound, Rows, NEW t \in Thread, Does(t)
  PROVE  Rows'
<1> USE BrokerAssumption DEF Bound, TypeOK, Rows, LiveLimitsAreLatest
<1>1. ASSUME NEW u \in Thread, u # t
      PROVE  /\ pc'[u] = "saveBearer" => policy'[relay'[u]].state # "none"
             /\ pc'[u] = "flipPolicy" => quota'[u] <= granted'[relay'[u]]
  <2>1. pc'[u] = pc[u] /\ relay'[u] = relay[u] /\ quota'[u] = quota[u]
    BY <1>1, Others
  <2>2. pc[u] \in {"saveBearer", "flipPolicy"} => relay[u] \in Relay
    BY DEF ForRelay
  <2>3. granted' \in [Relay -> Nat]
    BY StepCounts
  <2> QED
    BY <2>1, <2>2, <2>3, Grow
<1>2. ASSUME UNCHANGED <<policy, bearer, granted, latest>>,
             pc'[t] \notin {"saveBearer", "flipPolicy"}
      PROVE  Rows'
  BY <1>1, <1>2
<1>3. CASE Start(t)
  <2>1. /\ UNCHANGED <<policy, bearer, granted, latest>>
        /\ pc'[t] \notin {"saveBearer", "flipPolicy"}
    BY <1>3 DEF Start, StartMint, StartRevoke, StartRevokeBearer, StartSwap, StartLock,
       StartUnlock
  <2> QED
    BY <1>2, <2>1
<1>4. CASE SavePolicy(t)
  <2>1. relay[t] \in Relay /\ quota[t] \in Nat /\ granted[relay[t]] \in Nat
    BY <1>4 DEF SavePolicy, ForRelay
  <2>2. /\ \A r \in Relay : policy'[r] = IF r = relay[t] THEN [state |-> "live", quota |-> quota[t]]
                                                    ELSE policy[r]
        /\ \A r \in Relay : latest'[r] = IF r = relay[t] THEN quota[t] ELSE latest[r]
        /\ \A r \in Relay : granted'[r] = IF r = relay[t] THEN Larger(granted[r], quota[t])
                                                     ELSE granted[r]
        /\ bearer' = bearer /\ pc'[t] = "saveBearer" /\ relay'[t] = relay[t]
    BY <1>4 DEF SavePolicy
  <2>3. quota[t] <= Larger(granted[relay[t]], quota[t])
    BY <2>1 DEF Larger
  <2>4. \A r \in Relay : /\ policy'[r].quota <= granted'[r]
                         /\ policy'[r].state = "live" => policy'[r].quota = latest'[r]
    BY <2>1, <2>2, <2>3
  <2>5. \A k \in Token : /\ bearer'[k].sealed = bearer'[k].state
                         /\ bearer'[k].state # "none" => policy'[bearer'[k].relay].state # "none"
    BY <2>2
  <2>6. policy'[relay'[t]].state # "none"
    BY <2>1, <2>2
  <2> QED
    BY <1>1, <2>2, <2>4, <2>5, <2>6
<1>5. CASE SaveBearer(t)
  <2>1. relay[t] \in Relay /\ policy[relay[t]].state # "none"
    BY <1>5 DEF SaveBearer, ForRelay
  <2>2. PICK k \in Token : bearer' =
          [bearer EXCEPT ![k] = [state |-> "live", relay |-> relay[t], sealed |-> "live"]]
    BY <1>5 DEF SaveBearer, SavedBearer
  <2>3. UNCHANGED <<policy, granted, latest>> /\ pc'[t] = "append"
    BY <1>5 DEF SaveBearer
  <2> QED
    BY <1>1, <2>1, <2>2, <2>3
<1>6. CASE LoadPolicy(t)
  <2>1. /\ relay[t] \in Relay /\ relay'[t] = relay[t] /\ quota'[t] = policy[relay[t]].quota
        /\ UNCHANGED <<policy, bearer, granted, latest>>
        /\ pc'[t] # "saveBearer"
    BY <1>6 DEF LoadPolicy, ForRelay
  <2> QED
    BY <1>1, <2>1
<1>7. CASE FlipPolicy(t)
  <2>1. /\ relay[t] \in Relay /\ quota[t] <= granted[relay[t]]
        /\ policy' = [policy EXCEPT ![relay[t]] = [state |-> "revoked", quota |-> quota[t]]]
        /\ UNCHANGED <<bearer, granted, latest>>
        /\ pc'[t] = "listBearers"
    BY <1>7 DEF FlipPolicy, ForRelay
  <2> QED
    BY <1>1, <2>1
<1>8. CASE SaveRevoked(t)
  <2>1. /\ token[t] \in Token /\ bearer[token[t]].state # "none"
        /\ UNCHANGED <<policy, granted, latest>>
        /\ pc'[t] \notin {"saveBearer", "flipPolicy"}
        /\ bearer' = [bearer EXCEPT ![token[t]] = Revoked(bearer[token[t]])]
    BY <1>8 DEF SaveRevoked, ForToken
  <2>2. /\ Revoked(bearer[token[t]]).state = "revoked" /\ Revoked(bearer[token[t]]).sealed = "revoked"
        /\ Revoked(bearer[token[t]]).relay = bearer[token[t]].relay
    BY <2>1 DEF Revoked
  <2> QED
    BY <1>1, <2>1, <2>2
<1>9. CASE MintLock(t) \/ MintUsb(t) \/ ListBearers(t) \/ LoadBearer(t) \/ Reseal(t)
        \/ SwapLock(t) \/ SwapBearer(t) \/ SwapPolicy(t) \/ SwapUsb(t)
        \/ Decide(t) \/ OpenKey(t) \/ Send(t) \/ QueueWriter(t) \/ LockVault(t)
        \/ UnlockRead(t) \/ Commit(t) \/ Append(t) \/ Advance(t) \/ StoreError(t)
  <2>1. UNCHANGED <<policy, bearer, granted, latest>>
    BY <1>9 DEF MintLock, MintUsb, ListBearers, LoadBearer, Reseal, SwapLock, SwapBearer,
       SwapPolicy, SwapUsb, Decide, OpenKey, Send, QueueWriter, LockVault, UnlockRead, Commit,
       Append, Advance, StoreError
  <2>2. pc'[t] \notin {"saveBearer", "flipPolicy"}
    BY <1>9 DEF MintLock, MintUsb, ListBearers, LoadBearer, Listed, Reseal, Return, SwapLock,
       SwapBearer, SwapPolicy, SwapUsb, Decide, OpenKey, Send, QueueWriter, LockVault, UnlockRead,
       Commit, Append, Advance, StoreError
  <2> QED
    BY <1>2, <2>1, <2>2
<1> QED
  BY <1>3, <1>4, <1>5, <1>6, <1>7, <1>8, <1>9 DEF Does, Step

LEMMA AlwaysRows == Spec => [](Bound /\ Rows)
<1>1. Init => Rows
  <2> SUFFICES ASSUME Init PROVE Rows
    OBVIOUS
  <2>1. PICK owner \in [Given -> Relay], budget \in [Relay -> Quota] :
         /\ policy = [r \in Relay |-> IF \E k \in Given : owner[k] = r
                                    THEN [state |-> "live", quota |-> budget[r]] ELSE NoPolicy]
         /\ bearer = [k \in Token |-> IF k \in Given
                                     THEN [state |-> "live", relay |-> owner[k], sealed |-> "live"]
                                     ELSE NoBearer]
    BY DEF Init
  <2>2. /\ \A k \in Token : bearer[k].sealed = bearer[k].state
        /\ \A k \in Token : bearer[k].state # "none" => policy[bearer[k].relay].state # "none"
    BY <2>1, BrokerAssumption DEF NoBearer
  <2>3. \A r \in Relay : policy[r].quota \in Nat
    BY InitBound DEF Bound, TypeOK
  <2> QED
    BY <2>2, <2>3 DEF Init, Rows, LiveLimitsAreLatest
<1>2. Rows /\ UNCHANGED vars => Rows'
  BY DEF Rows, LiveLimitsAreLatest, vars
<1>3. Rows /\ Crash => Rows'
  BY DEF Rows, LiveLimitsAreLatest, Crash
<1>4. Bound /\ Rows /\ [Next]_vars => Rows'
  BY <1>2, <1>3, RowsStep DEF Next, Does
<1> QED
  BY <1>1, <1>4, AlwaysBound, PTL DEF Spec

(* A policy that lets swaps through has the budget of the last mint, whatever a revoke *)
(* wrote back (lib.rs:966-969).                                                        *)
THEOREM LimitsAreLatest == Spec => []LiveLimitsAreLatest
  BY AlwaysRows, PTL DEF Rows

-----------------------------------------------------------------------------
(* What a revoke has listed and no longer has to flip is revoked, and so is all that   *)
(* some revoke reported on.                                                            *)
Revoking == {"loadPolicy", "flipPolicy", "listBearers", "loadBearer", "reseal", "saveRevoked"}

Dying ==
  /\ \A t \in Thread : pc[t] \in Revoking => op[t] = "revoke"
  /\ \A t \in Thread : todo[t] # {} => pc[t] \in {"reseal", "saveRevoked"}
  /\ \A t \in Thread : \A k \in listed[t] \ todo[t] : bearer[k].state = "revoked"
  /\ \A k \in dead : bearer[k].state = "revoked"

LEMMA RevokingStep ==
  ASSUME Bound, Dying, NEW t \in Thread, Does(t)
  PROVE  pc'[t] \in Revoking => op'[t] = "revoke"
<1> USE DEF Bound, TypeOK, Dying, Revoking
<1>1. CASE StartMint(t) \/ StartRevoke(t) \/ StartRevokeBearer(t) \/ StartSwap(t) \/
        StartLock(t) \/ StartUnlock(t)
  BY <1>1 DEF StartMint, StartRevoke, StartRevokeBearer, StartSwap, StartLock, StartUnlock
<1>2. CASE MintLock(t) \/ MintUsb(t) \/ SavePolicy(t) \/ SaveBearer(t)
  BY <1>2 DEF MintLock, Return, MintUsb, SavePolicy, SaveBearer, SavedBearer
<1>3. CASE LoadPolicy(t) \/ FlipPolicy(t) \/ ListBearers(t) \/ LoadBearer(t)
  BY <1>3 DEF LoadPolicy, FlipPolicy, ListBearers, Listed, LoadBearer
<1>4. CASE Reseal(t) \/ SaveRevoked(t)
  BY <1>4 DEF Reseal, Return, SaveRevoked, Revoked
<1>5. CASE SwapLock(t) \/ SwapBearer(t) \/ SwapPolicy(t) \/ SwapUsb(t)
  BY <1>5 DEF SwapLock, SwapBearer, SwapPolicy, SwapUsb
<1>6. CASE Decide(t) \/ OpenKey(t) \/ Send(t)
  BY <1>6 DEF Decide, OpenKey, Send
<1>7. CASE QueueWriter(t) \/ LockVault(t) \/ UnlockRead(t) \/ Commit(t)
  BY <1>7 DEF QueueWriter, LockVault, UnlockRead, Return, Commit
<1>8. CASE Append(t) \/ Advance(t) \/ StoreError(t)
  BY <1>8 DEF Append, Advance, Return, StoreError
<1> QED
  BY <1>1, <1>2, <1>3, <1>4, <1>5, <1>6, <1>7, <1>8 DEF Does, Start, Step

LEMMA DyingStep ==
  ASSUME Bound, Dying, NEW t \in Thread, Does(t)
  PROVE  Dying'
<1> USE BrokerAssumption DEF Bound, TypeOK, Dying
<1>1. ASSUME NEW u \in Thread, u # t
      PROVE  /\ pc'[u] \in Revoking => op'[u] = "revoke"
             /\ todo'[u] # {} => pc'[u] \in {"reseal", "saveRevoked"}
             /\ \A k \in listed'[u] \ todo'[u] : bearer'[k].state = "revoked"
  <2>1. todo'[u] = todo[u] /\ listed'[u] = listed[u] /\ pc'[u] = pc[u] /\ op'[u] = op[u]
    BY <1>1, Others
  <2> QED
    BY <2>1, Grow
<1>2. ASSUME dead' = dead,
             todo'[t] # {} => pc'[t] \in {"reseal", "saveRevoked"},
             \A k \in listed'[t] \ todo'[t] : k \in Token /\ bearer'[k].state = "revoked"
      PROVE  Dying'
  BY <1>1, <1>2, RevokingStep, Grow
<1>3. ASSUME todo'[t] = todo[t], listed'[t] = listed[t], dead' = dead,
             pc[t] \notin {"reseal", "saveRevoked"}
      PROVE  Dying'
  BY <1>2, <1>3, Grow
<1>4. ASSUME Return(t), dead' = dead
      PROVE  Dying'
  <2>1. todo'[t] = {} /\ listed'[t] = {}
    BY <1>4 DEF Return
  <2> QED
    BY <1>2, <1>4, <2>1
<1>5. CASE Start(t)
  <2>1. UNCHANGED <<todo, listed, dead>> /\ pc[t] = "idle"
    BY <1>5 DEF Start, StartMint, StartRevoke, StartRevokeBearer, StartSwap, StartLock,
       StartUnlock
  <2> QED
    BY <1>3, <2>1
<1>6. CASE SavePolicy(t) \/ SaveBearer(t) \/ LoadPolicy(t) \/ FlipPolicy(t) \/ MintUsb(t)
        \/ SwapLock(t) \/ SwapBearer(t) \/ SwapPolicy(t) \/ SwapUsb(t)
  <2>1. UNCHANGED <<todo, listed, dead>> /\ pc[t] \notin {"reseal", "saveRevoked"}
    BY <1>6 DEF SavePolicy, SaveBearer, LoadPolicy, FlipPolicy, MintUsb, SwapLock, SwapBearer,
       SwapPolicy, SwapUsb
  <2> QED
    BY <1>3, <2>1
<1>7. CASE Decide(t) \/ OpenKey(t) \/ Send(t) \/ QueueWriter(t) \/ LockVault(t) \/ Commit(t)
        \/ Append(t)
  <2>1. UNCHANGED <<todo, listed, dead>> /\ pc[t] \notin {"reseal", "saveRevoked"}
    BY <1>7 DEF Decide, OpenKey, Send, QueueWriter, LockVault, Commit, Append
  <2> QED
    BY <1>3, <2>1
<1>8. CASE MintLock(t) \/ UnlockRead(t)
  <2>1. dead' = dead /\ pc[t] \notin {"reseal", "saveRevoked"}
    BY <1>8 DEF MintLock, UnlockRead
  <2>2. Return(t) \/ UNCHANGED <<todo, listed>>
    BY <1>8 DEF MintLock, UnlockRead
  <2> QED
    BY <1>3, <1>4, <2>1, <2>2
<1>9. ASSUME NEW ks \in SUBSET Token, Listed(t, ks), dead' = dead, bearer' = bearer,
             \A k \in ks : bearer[k].state # "none"
      PROVE  Dying'
  <2>1. /\ listed'[t] = ks /\ todo'[t] = {k \in ks : bearer[k].state = "live"}
        /\ todo'[t] # {} => pc'[t] = "reseal"
    BY <1>9 DEF Listed
  <2>2. \A k \in ks \ todo'[t] : bearer'[k].state = "revoked"
    BY <1>9, <2>1 DEF States
  <2> QED
    BY <1>2, <1>9, <2>1, <2>2
<1>10. CASE ListBearers(t)
  <2>1. /\ Listed(t, {k \in Token : bearer[k].relay = relay[t]})
        /\ dead' = dead /\ bearer' = bearer /\ relay[t] \in Relay
    BY <1>10 DEF ListBearers, ForRelay
  <2>2. \A k \in Token : bearer[k].relay = relay[t] => bearer[k].state # "none"
    BY <2>1 DEF NoBearer
  <2> QED
    BY <1>9, <2>1, <2>2
<1>11. CASE LoadBearer(t)
  <2>1. /\ Listed(t, {k \in {token[t]} : bearer[k] # NoBearer})
        /\ dead' = dead /\ bearer' = bearer /\ token[t] \in Token
    BY <1>11 DEF LoadBearer, ForToken
  <2> QED
    BY <1>9, <2>1
<1>12. CASE Reseal(t)
  <2>1. \/ Return(t)
        \/ UNCHANGED <<todo, listed>> /\ pc'[t] = "saveRevoked"
    BY <1>12 DEF Reseal
  <2>2. dead' = dead /\ bearer' = bearer
    BY <1>12 DEF Reseal
  <2> QED
    BY <1>2, <1>4, <2>1, <2>2
<1>13. CASE SaveRevoked(t)
  <2>1. /\ token[t] \in todo[t] /\ todo'[t] = todo[t] \ {token[t]}
        /\ listed'[t] = listed[t] /\ dead' = dead
        /\ todo'[t] # {} => pc'[t] = "reseal"
        /\ bearer' = [bearer EXCEPT ![token[t]] = Revoked(bearer[token[t]])]
    BY <1>13 DEF SaveRevoked
  <2>2. token[t] \in Token /\ bearer'[token[t]].state = "revoked"
    BY <2>1 DEF Revoked
  <2> QED
    BY <1>2, <2>1, <2>2, Grow
<1>14. CASE Advance(t)
  <2>1. CASE UNCHANGED locals /\ UNCHANGED perCall /\ dead' = dead
    BY <1>3, <1>14, <2>1 DEF Advance
  <2>2. CASE dead' = dead \cup listed[t] /\ Return(t)
    <3>1. todo[t] = {} /\ bearer' = bearer
      BY <1>14 DEF Advance
    <3>2. \A k \in dead' : bearer'[k].state = "revoked"
      BY <2>2, <3>1
    <3>3. todo'[t] = {} /\ listed'[t] = {}
      BY <2>2 DEF Return
    <3> QED
      BY <1>1, <3>2, <3>3, RevokingStep
  <2> QED
    BY <1>14, <2>1, <2>2 DEF Advance
<1>15. CASE StoreError(t)
  <2>1. CASE Return(t)
    BY <1>4, <1>15, <2>1 DEF StoreError
  <2>2. CASE Refuse(t, "internal") /\ UNCHANGED <<todo, listed>> /\ op[t] = "swap"
    <3>1. dead' = dead /\ todo[t] = {}
      BY <1>15, <2>2 DEF StoreError, Revoking
    <3> QED
      BY <1>2, <2>2, <3>1, Grow
  <2> QED
    BY <1>15, <2>1, <2>2 DEF StoreError
<1> QED
  BY <1>5, <1>6, <1>7, <1>8, <1>10, <1>11, <1>12, <1>13, <1>14, <1>15 DEF Does, Step

LEMMA AlwaysDying == Spec => [](Bound /\ Rows /\ Dying)
<1>1. Init => Dying
  BY DEF Init, Dying, Revoking
<1>2. Dying /\ UNCHANGED vars => Dying'
  BY DEF Dying, vars
<1>3. Dying /\ Crash => Dying'
  <2> SUFFICES ASSUME Dying, Crash PROVE Dying'
    OBVIOUS
  <2>1. /\ pc' = [t \in Thread |-> "idle"] /\ todo' = [t \in Thread |-> {}]
        /\ listed' = [t \in Thread |-> {}] /\ UNCHANGED <<bearer, dead>>
    BY DEF Crash
  <2> QED
    BY <2>1 DEF Dying, Revoking
<1>4. Bound /\ Dying /\ [Next]_vars => Dying'
  BY <1>2, <1>3, DyingStep DEF Next, Does
<1> QED
  BY <1>1, <1>4, AlwaysRows, PTL DEF Spec

-----------------------------------------------------------------------------
(* What a swap has read of the bearer and the policy still stands. *)
Reading ==
  /\ \A t \in Thread : pc[t] \in Swapping =>
       bearer[token[t]].state # "none" /\ bearer[token[t]].relay = relay[t]
  /\ \A t \in Thread : pc[t] \in {"swapUsb", "decide"} => quota[t] <= granted[relay[t]]

LEMMA ReadingStep ==
  ASSUME Bound, Rows, Reading, NEW t \in Thread, Does(t)
  PROVE  Reading'
<1> USE BrokerAssumption DEF Bound, TypeOK, Rows, Reading
<1>1. ASSUME NEW u \in Thread, u # t
      PROVE  /\ pc'[u] \in Swapping =>
                  bearer'[token'[u]].state # "none" /\ bearer'[token'[u]].relay = relay'[u]
             /\ pc'[u] \in {"swapUsb", "decide"} => quota'[u] <= granted'[relay'[u]]
  <2>1. /\ pc'[u] = pc[u] /\ relay'[u] = relay[u] /\ quota'[u] = quota[u]
        /\ token'[u] = token[u]
    BY <1>1, Others
  <2>2. pc[u] \in Swapping => relay[u] \in Relay /\ token[u] \in Token
    BY DEF ForRelay, ForToken
  <2>3. granted' \in [Relay -> Nat]
    BY StepCounts
  <2>4. pc[u] \in {"swapUsb", "decide"} => pc[u] \in Swapping
    BY DEF Swapping
  <2> QED
    BY <2>1, <2>2, <2>3, <2>4, Grow
<1>2. ASSUME pc'[t] \notin Swapping
      PROVE  Reading'
  BY <1>1, <1>2 DEF Swapping
<1>3. CASE Start(t)
  <2>1. pc'[t] \notin Swapping
    BY <1>3 DEF Start, StartMint, StartRevoke, StartRevokeBearer, StartSwap, StartLock,
       StartUnlock, Swapping
  <2> QED
    BY <1>2, <2>1
<1>4. CASE MintLock(t) \/ MintUsb(t) \/ SavePolicy(t) \/ SaveBearer(t) \/ LoadPolicy(t)
        \/ FlipPolicy(t) \/ ListBearers(t) \/ LoadBearer(t) \/ Reseal(t) \/ SaveRevoked(t)
  <2>1. pc'[t] \notin Swapping
    BY <1>4 DEF MintLock, MintUsb, SavePolicy, SaveBearer, LoadPolicy, FlipPolicy, ListBearers,
       LoadBearer, Listed, Reseal, SaveRevoked, Return, Swapping
  <2> QED
    BY <1>2, <2>1
<1>5. CASE SwapLock(t) \/ Send(t) \/ QueueWriter(t) \/ LockVault(t) \/ UnlockRead(t)
        \/ Commit(t) \/ Append(t) \/ Advance(t) \/ StoreError(t)
  <2>1. pc'[t] \notin Swapping
    BY <1>5 DEF SwapLock, Send, QueueWriter, LockVault, UnlockRead, Commit, Append, Advance,
       StoreError, Return, Swapping
  <2> QED
    BY <1>2, <2>1
<1>6. CASE SwapBearer(t)
  <2>1. CASE pc'[t] = "append"
    BY <1>2, <2>1 DEF Swapping
<2>2. CASE bearer[token[t]] # NoBearer /\ relay' = [relay EXCEPT ![t] =
        bearer[token[t]].relay]
    <3>1. /\ token[t] \in Token /\ UNCHANGED <<bearer, token>> /\ pc'[t] \in {"append", "swapPolicy"}
      BY <1>6 DEF SwapBearer, ForToken
    <3>2. relay'[t] = bearer[token[t]].relay /\ bearer[token[t]].state # "none"
      BY <2>2, <3>1
    <3> QED
      BY <1>1, <3>1, <3>2
  <2> QED
    BY <1>6, <2>1, <2>2 DEF SwapBearer
<1>7. CASE SwapPolicy(t)
  <2>1. /\ relay[t] \in Relay /\ UNCHANGED <<policy, bearer, token, relay, granted>>
        /\ bearer[token[t]].state # "none" /\ bearer[token[t]].relay = relay[t]
    BY <1>7 DEF SwapPolicy, ForRelay, Swapping
  <2>2. pc'[t] = "append" \/ quota'[t] = policy[relay[t]].quota
    BY <1>7 DEF SwapPolicy
  <2> QED
    BY <1>1, <1>2, <2>1, <2>2 DEF Swapping
<1>8. CASE SwapUsb(t) \/ Decide(t) \/ OpenKey(t)
  <2>1. /\ UNCHANGED <<bearer, token, relay, quota, granted>>
        /\ pc[t] \in Swapping
        /\ pc'[t] \in {"swapUsb", "decide"} => pc[t] \in {"swapUsb", "decide"}
    BY <1>8 DEF SwapUsb, Decide, OpenKey, Swapping
  <2> QED
    BY <1>1, <2>1
<1> QED
  BY <1>3, <1>4, <1>5, <1>6, <1>7, <1>8 DEF Does, Step

(* A swap that began on a dead bearer reads that it is revoked and is told so. *)
Late ==
  /\ \A t \in Thread : pc[t] = "idle" => verdict[t] = "none"
  /\ \A t \in late :
       /\ op[t] = "swap" /\ token[t] \in dead
       /\ pc[t] \in {"swapLock", "swapBearer", "swapPolicy", "swapUsb", "decide", "append", "advance"}
       /\ pc[t] \in {"swapPolicy", "swapUsb", "decide"} => found[t] = "revoked"
       /\ pc[t] \notin {"append", "advance"} => verdict[t] = "none"
       /\ verdict[t] \in {"none", "revoked", "internal"}

LEMMA IdleStep ==
  ASSUME Bound, Late, NEW t \in Thread, Does(t)
  PROVE  pc'[t] = "idle" => verdict'[t] = "none"
<1> USE DEF Bound, TypeOK, Late
<1>1. CASE StartMint(t) \/ StartRevoke(t) \/ StartRevokeBearer(t) \/ StartSwap(t) \/
        StartLock(t) \/ StartUnlock(t)
  BY <1>1 DEF StartMint, StartRevoke, StartRevokeBearer, StartSwap, StartLock, StartUnlock
<1>2. CASE MintLock(t) \/ MintUsb(t) \/ LoadPolicy(t)
  BY <1>2 DEF MintLock, Return, MintUsb, LoadPolicy
<1>3. CASE SavePolicy(t)
  BY <1>3 DEF SavePolicy
<1>4. CASE SaveBearer(t)
  BY <1>4 DEF SaveBearer, SavedBearer
<1>5. CASE FlipPolicy(t)
  BY <1>5 DEF FlipPolicy
<1>6. CASE ListBearers(t) \/ LoadBearer(t)
  BY <1>6 DEF ListBearers, Listed, LoadBearer
<1>7. CASE Reseal(t)
  BY <1>7 DEF Reseal, Return
<1>8. CASE SaveRevoked(t)
  BY <1>8 DEF SaveRevoked, Revoked
<1>9. CASE SwapLock(t) \/ SwapBearer(t) \/ SwapPolicy(t) \/ SwapUsb(t)
  BY <1>9 DEF SwapLock, SwapBearer, SwapPolicy, SwapUsb
<1>10. CASE Decide(t)
  BY <1>10 DEF Decide
<1>11. CASE OpenKey(t)
  BY <1>11 DEF OpenKey
<1>12. CASE Send(t)
  BY <1>12 DEF Send
<1>13. CASE QueueWriter(t) \/ LockVault(t) \/ UnlockRead(t) \/ Commit(t)
  BY <1>13 DEF QueueWriter, LockVault, UnlockRead, Return, Commit
<1>14. CASE Append(t) \/ Advance(t)
  BY <1>14 DEF Append, Advance, Return
<1>15. CASE StoreError(t)
  BY <1>15 DEF StoreError, Return
<1> QED
  BY <1>1, <1>2, <1>3, <1>4, <1>5, <1>6, <1>7, <1>8, <1>9, <1>10, <1>11, <1>12, <1>13, <1>14,
     <1>15 DEF Does, Start, Step

LEMMA LateStep ==
  ASSUME Bound, Rows, Dying, Reading, Late, NEW t \in Thread, Does(t)
  PROVE  Late'
<1> USE BrokerAssumption DEF Bound, TypeOK, Late
<1> DEFINE Told ==
      /\ op'[t] = "swap" /\ token'[t] \in dead'
      /\ pc'[t] \in {"swapLock", "swapBearer", "swapPolicy", "swapUsb", "decide", "append", "advance"}
      /\ pc'[t] \in {"swapPolicy", "swapUsb", "decide"} => found'[t] = "revoked"
      /\ pc'[t] \notin {"append", "advance"} => verdict'[t] = "none"
      /\ verdict'[t] \in {"none", "revoked", "internal"}
<1>1. ASSUME t \in late' => Told
      PROVE  Late'
  <2>1. ASSUME NEW u \in late', u # t
        PROVE  /\ u \in late /\ u \in Thread
               /\ pc'[u] = pc[u] /\ op'[u] = op[u] /\ token'[u] = token[u]
               /\ found'[u] = found[u] /\ verdict'[u] = verdict[u]
    BY <2>1, Others, StepLocals
  <2>2. ASSUME NEW u \in Thread, u # t, pc'[u] = "idle" PROVE verdict'[u] = "none"
    BY <2>2, Others
  <2> QED
    BY <1>1, <2>1, <2>2, IdleStep, Grow
<1>2. CASE StartSwap(t)
  <2>1. /\ op'[t] = "swap" /\ pc'[t] = "swapLock" /\ verdict'[t] = "none"
        /\ t \in late' => token'[t] \in dead'
    BY <1>2 DEF StartSwap
  <2> QED
    BY <1>1, <2>1
<1>3. CASE t \notin late /\ ~StartSwap(t)
  <2>1. t \notin late'
    BY <1>3 DEF Does, Start, Step, StartMint, StartRevoke, StartRevokeBearer, StartLock,
       StartUnlock, MintLock, MintUsb, SavePolicy, SaveBearer, LoadPolicy, FlipPolicy, ListBearers,
       LoadBearer, Reseal, SaveRevoked, SwapLock, SwapBearer, SwapPolicy, SwapUsb, Decide, OpenKey,
       Send, QueueWriter, LockVault, UnlockRead, Commit, Append, Advance, StoreError, Return
  <2> QED
    BY <1>1, <2>1
<1>4. CASE t \in late /\ SwapLock(t)
  BY <1>1, <1>4 DEF SwapLock
<1>5. CASE t \in late /\ SwapBearer(t)
  <2>1. /\ token[t] \in Token /\ bearer[token[t]].state = "revoked"
        /\ bearer[token[t]].sealed = "revoked" /\ bearer[token[t]] # NoBearer
    BY <1>5 DEF Dying, Rows, NoBearer
  <2>2. /\ pc[t] = "swapBearer" /\ pc'[t] = "swapPolicy" /\ found'[t] = "revoked"
        /\ UNCHANGED <<op, token, dead, verdict>>
    BY <1>5, <2>1 DEF SwapBearer
  <2> QED
    BY <1>1, <1>5, <2>2
<1>6. CASE t \in late /\ SwapPolicy(t)
  <2>1. /\ token[t] \in Token /\ relay[t] \in Relay
        /\ bearer[token[t]].state # "none" /\ bearer[token[t]].relay = relay[t]
    BY <1>6 DEF SwapPolicy, Reading, Swapping, ForRelay, ForToken
  <2>2. policy[relay[t]].state # "none"
    BY <2>1 DEF Rows
  <2>3. /\ pc'[t] = "swapUsb" /\ UNCHANGED <<op, token, dead, verdict>>
        /\ found'[t] \in {found[t], "revoked"}
    BY <1>6, <2>2 DEF SwapPolicy
  <2> QED
    BY <1>1, <1>6, <2>3 DEF SwapPolicy
<1>7. CASE t \in late /\ SwapUsb(t)
  BY <1>1, <1>7 DEF SwapUsb
<1>8. CASE t \in late /\ Decide(t)
  <2>1. found[t] = "revoked"
    BY <1>8 DEF Decide
  <2>2. Decisions(found[t], used[token[t]] + 1, quota[t]) = {"revoked"}
    BY <2>1 DEF Decisions
  <2>3. Refuse(t, "revoked") /\ UNCHANGED <<op, token, dead>>
    BY <1>8, <2>2 DEF Decide
  <2> QED
    BY <1>1, <1>8, <2>3
<1>9. CASE t \in late /\ Append(t)
  BY <1>1, <1>9 DEF Append
<1>10. CASE t \in late /\ Advance(t)
  <2>1. t \notin late'
    BY <1>10 DEF Advance, Return
  <2> QED
    BY <1>1, <2>1
<1>11. CASE t \in late /\ StoreError(t)
  <2>1. t \notin late' \/ (Refuse(t, "internal") /\ UNCHANGED <<op, token, dead>>)
    BY <1>11 DEF StoreError, Return
  <2> QED
    BY <1>1, <1>11, <2>1
<1>12. ASSUME t \in late, ~StartSwap(t)
       PROVE  SwapLock(t) \/ SwapBearer(t) \/ SwapPolicy(t) \/ SwapUsb(t) \/ Decide(t)
                \/ Append(t) \/ Advance(t) \/ StoreError(t)
  BY <1>12 DEF Does, Start, Step, StartMint, StartRevoke, StartRevokeBearer, StartLock,
     StartUnlock, MintLock, MintUsb, SavePolicy, SaveBearer, LoadPolicy, FlipPolicy, ListBearers,
     LoadBearer, Reseal, SaveRevoked, OpenKey, Send, QueueWriter, LockVault, UnlockRead, Commit
<1> QED
  BY <1>2, <1>3, <1>4, <1>5, <1>6, <1>7, <1>8, <1>9, <1>10, <1>11, <1>12

LEMMA AlwaysLate == Spec => [](Bound /\ Rows /\ Dying /\ Reading /\ Late)
<1>1. Init => Reading /\ Late
  BY DEF Init, Reading, Late, Swapping
<1>2. Reading /\ Late /\ UNCHANGED vars => (Reading /\ Late)'
  BY DEF Reading, Late, vars
<1>3. ASSUME Reading, Late, Crash PROVE (Reading /\ Late)'
  <2>1. /\ pc' = [t \in Thread |-> "idle"] /\ late' = {} /\ verdict' = [t \in Thread |-> "none"]
    BY <1>3 DEF Crash
  <2> QED
    BY <2>1 DEF Reading, Late, Swapping
<1>4. Bound /\ Rows /\ Dying /\ Reading /\ Late /\ [Next]_vars => (Reading /\ Late)'
  BY <1>2, <1>3, ReadingStep, LateStep DEF Next, Does
<1> QED
  BY <1>1, <1>4, AlwaysDying, PTL DEF Spec

(* A swap that begins after a revoke covering its bearer returned Ok is denied as      *)
(* revoked or fails internally (lib.rs:936-939, 970-974).                              *)
THEOREM RevocationIsFinal == Spec => []RevokedIsReported
<1>1. Late => RevokedIsReported
  BY DEF Late, RevokedIsReported
<1> QED
  BY <1>1, AlwaysLate, PTL

-----------------------------------------------------------------------------
(***************************************************************************)
(* Budgets.  A request that is on its way counts as sent; the counter has  *)
(* counted all of them, and the last of them was within the budget.        *)
(***************************************************************************)
OnItsWay(k) == {t \in Thread : token[t] = k /\ pc[t] \in {"openKey", "send"}}

Spent(k) == sent[k] + Cardinality(OnItsWay(k))

Allowance(k) == IF bearer[k].state = "none" THEN 0 ELSE granted[bearer[k].relay]

Spending == \A k \in Token : Spent(k) <= used[k] /\ Spent(k) <= Allowance(k)

LEMMA Finite ==
  /\ \A k : IsFiniteSet(OnItsWay(k)) /\ Cardinality(OnItsWay(k)) \in Nat
<1>1. \A k : OnItsWay(k) \in SUBSET Thread
  BY DEF OnItsWay
<1> QED
  BY <1>1, BrokerAssumption, FS_Subset, FS_CardinalityType

LEMMA AllowanceGrows ==
  ASSUME Bound, NEW t \in Thread, Does(t), NEW k \in Token
  PROVE  Allowance(k) \in Nat /\ Allowance(k)' \in Nat /\ Allowance(k) <= Allowance(k)'
<1>1. granted' \in [Relay -> Nat] /\ granted \in [Relay -> Nat]
  BY StepCounts DEF Bound, TypeOK
<1>2. bearer'[k].state # "none" => bearer'[k].relay \in Relay
  BY StepRows
<1>3. bearer[k].state # "none" => bearer[k].relay \in Relay
  BY DEF Bound
<1> QED
  BY <1>1, <1>2, <1>3, Grow DEF Allowance

(* A step that lets no further request through spends nothing. *)
LEMMA NothingSpent ==
  ASSUME Bound, Spending, NEW t \in Thread, Does(t), sent' = sent, used' = used,
         \A k \in Token : OnItsWay(k)' \subseteq OnItsWay(k)
  PROVE  Spending'
<1> SUFFICES ASSUME NEW k \in Token
             PROVE  Spent(k)' <= used'[k] /\ Spent(k)' <= Allowance(k)'
  BY DEF Spending
<1>1. Cardinality(OnItsWay(k)') <= Cardinality(OnItsWay(k))
  BY Finite, FS_Subset
<1>2. Cardinality(OnItsWay(k)') \in Nat /\ Cardinality(OnItsWay(k)) \in Nat
  BY Finite, FS_Subset, FS_CardinalityType
<1>3. sent[k] \in Nat /\ used[k] \in Nat
  BY DEF Bound, TypeOK
<1> QED
  BY <1>1, <1>2, <1>3, AllowanceGrows DEF Spending, Spent

LEMMA SpendingStep ==
  ASSUME Bound, Rows, Reading, Spending, NEW t \in Thread, Does(t)
  PROVE  Spending'
<1> USE DEF Bound, TypeOK
<1>1. ASSUME token'[t] = token[t] \/ pc'[t] \notin {"openKey", "send"},
             pc'[t] \in {"openKey", "send"} => pc[t] \in {"openKey", "send"}
      PROVE  \A k \in Token : OnItsWay(k)' \subseteq OnItsWay(k)
  BY <1>1, Others DEF OnItsWay
<1>2. CASE Start(t)
  <2>1. pc'[t] \notin {"openKey", "send"} /\ UNCHANGED <<sent, used>>
    BY <1>2 DEF Start, StartMint, StartRevoke, StartRevokeBearer, StartSwap, StartLock,
       StartUnlock
  <2> QED
    BY <1>1, <2>1, NothingSpent
<1>3. CASE MintLock(t) \/ MintUsb(t) \/ SavePolicy(t) \/ SaveBearer(t) \/ LoadPolicy(t)
        \/ FlipPolicy(t) \/ ListBearers(t) \/ LoadBearer(t) \/ Reseal(t) \/ SaveRevoked(t)
  <2>1. pc'[t] \notin {"openKey", "send"} /\ UNCHANGED <<sent, used>>
    BY <1>3 DEF MintLock, MintUsb, SavePolicy, SaveBearer, LoadPolicy, FlipPolicy, ListBearers,
       LoadBearer, Listed, Reseal, SaveRevoked, Return
  <2> QED
    BY <1>1, <2>1, NothingSpent
<1>4. CASE SwapLock(t) \/ SwapBearer(t) \/ SwapPolicy(t) \/ SwapUsb(t) \/ QueueWriter(t)
        \/ LockVault(t) \/ UnlockRead(t) \/ Commit(t) \/ Append(t) \/ Advance(t) \/ StoreError(t)
  <2>1. pc'[t] \notin {"openKey", "send"} /\ UNCHANGED <<sent, used>>
    BY <1>4 DEF SwapLock, SwapBearer, SwapPolicy, SwapUsb, QueueWriter, LockVault, UnlockRead,
       Commit, Append, Advance, StoreError, Return
  <2> QED
    BY <1>1, <2>1, NothingSpent
<1>5. CASE OpenKey(t)
  <2>1. pc[t] = "openKey" /\ UNCHANGED <<sent, used, token>>
    BY <1>5 DEF OpenKey
  <2> QED
    BY <1>1, <2>1, NothingSpent
<1>6. CASE Send(t)
  <2>1. /\ pc[t] = "send" /\ pc'[t] = "append" /\ UNCHANGED <<used, token, bearer, granted>>
        /\ sent' = [sent EXCEPT ![token[t]] = sent[token[t]] + 1]
        /\ token[t] \in Token
    BY <1>6 DEF Send, ForToken, Swapping
  <2>2. ASSUME NEW k \in Token PROVE Spent(k)' <= Spent(k) /\ Spent(k)' \in Nat
    <3>1. CASE k # token[t]
      <4>1. OnItsWay(k)' = OnItsWay(k)
        BY <2>1, <3>1, Others DEF OnItsWay
      <4> QED
        BY <2>1, <3>1, <4>1, Finite DEF Spent
    <3>2. CASE k = token[t]
      <4>1. OnItsWay(k)' = OnItsWay(k) \ {t} /\ t \in OnItsWay(k)
        BY <2>1, <3>2, Others DEF OnItsWay
      <4>2. Cardinality(OnItsWay(k)') = Cardinality(OnItsWay(k)) - 1
        BY <4>1, Finite, FS_RemoveElement
      <4>3. sent'[k] = sent[k] + 1 /\ Cardinality(OnItsWay(k)) \in Nat
        BY <2>1, <3>2, Finite
      <4>4. Cardinality(OnItsWay(k)') \in Nat
        BY <4>1, Finite, FS_RemoveElement, FS_CardinalityType
      <4> QED
        BY <4>2, <4>3, <4>4 DEF Spent
    <3> QED
      BY <3>1, <3>2
  <2>3. \A k \in Token : Allowance(k)' = Allowance(k)
    BY <2>1 DEF Allowance
  <2>4. \A k \in Token : Spent(k) \in Nat /\ used[k] \in Nat /\ Allowance(k) \in Nat
    BY Finite, AllowanceGrows DEF Spent
  <2> QED
    BY <2>1, <2>2, <2>3, <2>4 DEF Spending
<1>7. CASE Decide(t)
  <2>1. /\ pc[t] = "decide" /\ UNCHANGED <<sent, token, bearer, granted>>
        /\ used' = [used EXCEPT ![token[t]] = used[token[t]] + 1]
        /\ token[t] \in Token /\ relay[t] \in Relay
        /\ bearer[token[t]].state # "none" /\ bearer[token[t]].relay = relay[t]
        /\ quota[t] <= granted[relay[t]]
    BY <1>7 DEF Decide, ForToken, ForRelay, Swapping, Reading
  <2>2. \A k \in Token : Spent(k) \in Nat /\ used[k] \in Nat /\ Allowance(k) \in Nat
    BY Finite, AllowanceGrows DEF Spent
  <2>3. \A k \in Token : Allowance(k)' = Allowance(k)
    BY <2>1 DEF Allowance
  <2>4. CASE pc'[t] = "append"
    <3>1. \A k \in Token : OnItsWay(k)' = OnItsWay(k)
      BY <2>1, <2>4, Others DEF OnItsWay
    <3>2. \A k \in Token : Spent(k)' = Spent(k) /\ used[k] <= used'[k] /\ used'[k] \in Nat
      BY <2>1, <3>1 DEF Spent
    <3> QED
      BY <2>2, <2>3, <3>2 DEF Spending
  <2>5. CASE pc'[t] = "openKey" /\ "allow" \in Decisions(found[t], used[token[t]] + 1, quota[t])
    <3>1. used[token[t]] + 1 <= quota[t]
      BY <2>1, <2>5 DEF Decisions
    <3>2. used[token[t]] + 1 <= Allowance(token[t])
      BY <2>1, <3>1 DEF Allowance
    <3>3. /\ OnItsWay(token[t])' = OnItsWay(token[t]) \cup {t} /\ t \notin OnItsWay(token[t])
          /\ \A k \in Token \ {token[t]} : OnItsWay(k)' = OnItsWay(k)
      BY <2>1, <2>5, Others DEF OnItsWay
    <3>4. Cardinality(OnItsWay(token[t])') = Cardinality(OnItsWay(token[t])) + 1
      <4>1. ASSUME NEW S, IsFiniteSet(S), t \notin S
            PROVE  Cardinality(S \cup {t}) = Cardinality(S) + 1
        BY <4>1, FS_AddElement
      <4> QED
        BY <3>3, <4>1, Finite
    <3>5. Spent(token[t])' = Spent(token[t]) + 1
      BY <2>1, <3>4, Finite DEF Spent
    <3>6. \A k \in Token \ {token[t]} : Spent(k)' = Spent(k) /\ used'[k] = used[k]
      BY <2>1, <3>3 DEF Spent
    <3>7. used'[token[t]] = used[token[t]] + 1
      BY <2>1
    <3>8. Spent(token[t]) <= used[token[t]]
      BY <2>1 DEF Spending
    <3> QED
      BY <2>1, <2>2, <2>3, <3>2, <3>5, <3>6, <3>7, <3>8 DEF Spending
  <2> QED
    BY <1>7, <2>4, <2>5 DEF Decide
<1> QED
  BY <1>2, <1>3, <1>4, <1>5, <1>6, <1>7 DEF Does, Step

LEMMA AlwaysSpending == Spec => []Spending
<1>1. ASSUME Bound, \A k \in Token : sent[k] = 0, \A t \in Thread : pc[t] = "idle"
      PROVE  Spending
  <2>1. \A k : OnItsWay(k) = {}
    BY <1>1 DEF OnItsWay
  <2>2. \A k \in Token : Spent(k) = 0
    BY <1>1, <2>1, FS_EmptySet DEF Spent
  <2> QED
    BY <1>1, <2>2 DEF Spending, Allowance, Bound, TypeOK
<1>2. Init => Spending
  BY <1>1, InitBound DEF Init
<1>3. ASSUME Bound, Crash PROVE Spending'
  <2>1. Bound' /\ (\A k \in Token : sent'[k] = 0) /\ (\A t \in Thread : pc'[t] = "idle")
    BY <1>3, CrashBound DEF Crash
  <2>2. \A k : OnItsWay(k)' = {}
    BY <2>1 DEF OnItsWay
  <2>3. \A k \in Token : Spent(k)' = 0
    BY <2>1, <2>2, FS_EmptySet DEF Spent
  <2> QED
    BY <2>1, <2>3 DEF Spending, Allowance, Bound, TypeOK
<1>4. Spending /\ UNCHANGED vars => Spending'
  BY DEF Spending, Spent, OnItsWay, Allowance, vars
<1>5. Bound /\ Rows /\ Reading /\ Spending /\ [Next]_vars => Spending'
  BY <1>3, <1>4, SpendingStep DEF Next, Does
<1> QED
  BY <1>2, <1>5, AlwaysLate, PTL DEF Spec

(* Swaps that run at the same time never send more requests than the largest budget    *)
(* their relay was ever given (decide.rs:228-235), while the process lives.            *)
THEOREM BudgetsHold == Spec => []BudgetHolds
<1>1. Bound /\ Spending => BudgetHolds
  <2> SUFFICES ASSUME Bound, Spending, NEW k \in Token, bearer[k] # NoBearer
               PROVE  sent[k] <= granted[bearer[k].relay]
    BY DEF BudgetHolds
  <2>1. bearer[k].state # "none" /\ bearer[k].relay \in Relay
    BY DEF Bound
  <2>2. sent[k] \in Nat /\ granted[bearer[k].relay] \in Nat
    BY <2>1 DEF Bound, TypeOK
  <2> QED
    BY <2>1, <2>2, Finite DEF Spending, Spent, Allowance
<1> QED
  BY <1>1, AlwaysBound, AlwaysSpending, PTL

-----------------------------------------------------------------------------
(***************************************************************************)
(* The promise of BearerLedger.  A swap has a verdict from its decision    *)
(* on, and only a revoke has listed bearers.                               *)
(***************************************************************************)
Deciding == {"swapLock", "swapBearer", "swapPolicy", "swapUsb", "decide"}
Allowed == {"openKey", "send"}
Auditing == {"append", "advance"}

InKind(t) ==
  /\ pc[t] \in Deciding \cup Allowed => op[t] = "swap"
  /\ op[t] = "swap" => pc[t] \in Deciding \cup Allowed \cup Auditing /\ token[t] \in Token
  /\ pc[t] = "idle" => op[t] = "none"
  /\ listed[t] # {} => op[t] = "revoke" /\ pc[t] \in {"reseal", "saveRevoked"} \cup Auditing
  /\ verdict[t] # "none" <=> op[t] = "swap" /\ pc[t] \in Allowed \cup Auditing
  /\ pc[t] \in Allowed => verdict[t] = "allow"

Kinds == \A t \in Thread : InKind(t)

LEMMA KindsStep ==
  ASSUME Bound, Dying, Kinds, NEW t \in Thread, Does(t)
  PROVE  Kinds'
<1> USE DEF InKind, Deciding, Allowed, Auditing
<1>1. InKind(t) /\ (pc[t] \in Revoking => op[t] = "revoke")
  BY DEF Kinds, Dying
<1>2. SUFFICES InKind(t)'
  <2>1. ASSUME NEW u \in Thread, u # t PROVE InKind(u)'
    BY <2>1, Others DEF Kinds
  <2> QED
    BY <2>1 DEF Kinds
<1> USE DEF Bound, TypeOK
<1>3. CASE StartMint(t) \/ StartRevoke(t) \/ StartRevokeBearer(t) \/ StartSwap(t)
  BY <1>1, <1>3 DEF StartMint, StartRevoke, StartRevokeBearer, StartSwap
<1>4. CASE StartLock(t) \/ StartUnlock(t)
  BY <1>1, <1>4 DEF StartLock, StartUnlock
<1>5. CASE Return(t)
  BY <1>1, <1>5 DEF Return
<1>6. CASE MintLock(t) \/ Reseal(t) \/ UnlockRead(t)
  <2>1. CASE MintLock(t)
    BY <1>1, <2>1 DEF MintLock, Return
  <2>2. CASE Reseal(t)
    BY <1>1, <2>2 DEF Reseal, Return
  <2>3. CASE UnlockRead(t)
    BY <1>1, <2>3 DEF UnlockRead, Return
  <2> QED
    BY <1>6, <2>1, <2>2, <2>3
<1>7. CASE MintUsb(t) \/ SavePolicy(t) \/ SaveBearer(t)
  <2>1. CASE MintUsb(t)
    BY <1>1, <2>1 DEF MintUsb
  <2>2. CASE SavePolicy(t)
    BY <1>1, <2>2 DEF SavePolicy
  <2>3. CASE SaveBearer(t)
    BY <1>1, <2>3 DEF SaveBearer
  <2> QED
    BY <1>7, <2>1, <2>2, <2>3
<1>8. CASE LoadPolicy(t) \/ FlipPolicy(t) \/ SaveRevoked(t)
  BY <1>1, <1>8 DEF LoadPolicy, FlipPolicy, SaveRevoked
<1>9. CASE ListBearers(t) \/ LoadBearer(t)
  BY <1>1, <1>9 DEF ListBearers, LoadBearer, Listed, Revoking
<1>10. CASE SwapLock(t) \/ SwapBearer(t) \/ SwapPolicy(t) \/ SwapUsb(t)
  BY <1>1, <1>10 DEF SwapLock, SwapBearer, SwapPolicy, SwapUsb
<1>11. CASE Decide(t)
  <2>1. \A v \in Decisions(found[t], used[token[t]] + 1, quota[t]) : v # "none"
    BY DEF Decisions
  <2> QED
    BY <1>1, <1>11, <2>1 DEF Decide
<1>12. CASE OpenKey(t) \/ Send(t)
  BY <1>1, <1>12 DEF OpenKey, Send
<1>13. CASE QueueWriter(t) \/ LockVault(t) \/ Commit(t) \/ Append(t)
  <2>1. CASE QueueWriter(t)
    BY <1>1, <2>1 DEF QueueWriter
  <2>2. CASE LockVault(t)
    BY <1>1, <2>2 DEF LockVault
  <2>3. CASE Commit(t)
    BY <1>1, <2>3 DEF Commit
  <2>4. CASE Append(t)
    BY <1>1, <2>4 DEF Append
  <2> QED
    BY <1>13, <2>1, <2>2, <2>3, <2>4
<1>14. CASE Advance(t)
  BY <1>1, <1>5, <1>14 DEF Advance
<1>15. CASE StoreError(t)
  BY <1>1, <1>5, <1>15 DEF StoreError, InStore
<1> QED
  BY <1>3, <1>4, <1>6, <1>7, <1>8, <1>9, <1>10, <1>11, <1>12, <1>13, <1>14, <1>15 DEF Does, Start, Step

LEMMA AlwaysKinds == Spec => [](Bound /\ Rows /\ Dying /\ Reading /\ Late /\ Kinds)
<1>1. Init => Kinds
  BY DEF Init, Kinds, InKind, Deciding, Allowed, Auditing
<1>2. Kinds /\ UNCHANGED vars => Kinds'
  BY DEF Kinds, InKind, vars
<1>3. ASSUME Crash PROVE Kinds'
  <2>1. /\ pc' = [t \in Thread |-> "idle"] /\ op' = [t \in Thread |-> "none"]
        /\ verdict' = [t \in Thread |-> "none"] /\ listed' = [t \in Thread |-> {}]
    BY <1>3 DEF Crash
  <2> QED
    BY <2>1 DEF Kinds, InKind, Deciding, Allowed, Auditing
<1>4. Bound /\ Dying /\ Kinds /\ [Next]_vars => Kinds'
  BY <1>2, <1>3, KindsStep DEF Next, Does
<1> QED
  BY <1>1, <1>4, AlwaysLate, PTL DEF Spec

(* A step of one thread leaves the swaps of the others alone. *)
LEMMA OtherSwaps ==
  ASSUME Bound, NEW t \in Thread, Does(t)
  PROVE  \A u \in Thread : u # t =>
           Asked(u)' = Asked(u) /\ Answer(u)' = Answer(u) /\ (u \in late' <=> u \in late)
BY Others DEF Asked, Answer

(* A step that shows nothing of a swap. *)
LEMMA Unseen ==
  ASSUME Bound, NEW t \in Thread, Does(t), UNCHANGED <<dead, sent, granted>>,
         \A k \in Token : bearer'[k].relay = bearer[k].relay,
         Asked(t)' = Asked(t), Answer(t)' = Answer(t), late' = late
  PROVE  UNCHANGED Promise!vars
BY OtherSwaps DEF Promise!vars

(* The end of a call is the end of a swap that has an answer, or shows nothing. *)
LEMMA ReturnEnds ==
  ASSUME Bound, Late, Kinds, NEW t \in Thread, Does(t), Return(t),
         op[t] = "swap" => pc[t] \in Auditing
  PROVE  /\ Asked(t)' = NoToken /\ Answer(t)' = "none" /\ late' = late \ {t}
         /\ op[t] = "swap" => Answer(t) # "none"
         /\ op[t] # "swap" => Asked(t) = NoToken /\ Answer(t) = "none" /\ t \notin late
<1>1. op'[t] = "none" /\ pc'[t] = "idle" /\ verdict'[t] = "none" /\ late' = late \ {t}
  BY DEF Return, Bound, TypeOK
<1>2. InKind(t)
  BY DEF Kinds
<1> QED
  BY <1>1, <1>2 DEF Asked, Answer, InKind, Late, Auditing, Allowed

LEMMA EndsOrUnseen ==
  ASSUME Bound, Late, Kinds, NEW t \in Thread, Does(t), Return(t),
         op[t] = "swap" => pc[t] \in Auditing,
         UNCHANGED <<bearer, dead, sent, granted>>
  PROVE  Promise!Next \/ UNCHANGED Promise!vars
<1>1. CASE op[t] = "swap"
  <2>1. Promise!End(t)
    BY <1>1, ReturnEnds, OtherSwaps DEF Promise!End
  <2> QED
    BY <2>1 DEF Promise!Next
<1>2. CASE op[t] # "swap"
  BY <1>2, ReturnEnds, Unseen
<1> QED
  BY <1>1, <1>2

(* A refusal is an answer, if it may be given. *)
LEMMA RefuseAnswers ==
  ASSUME Bound, Bound', Late', Kinds, NEW t \in Thread, Does(t), op[t] = "swap",
         NEW v \in Verdicts \ {"none", "allow"}, Refuse(t, v),
         \/ pc[t] \in Deciding \cup Allowed
         \/ verdict[t] # "allow" /\ v = "internal",
         v = "unknown" => bearer[token[t]].relay = NoRelay,
         UNCHANGED <<bearer, dead, sent, granted, op, token, late>>
  PROVE  Promise!Next
<1>1. /\ pc'[t] = "append" /\ verdict'[t] = v /\ op'[t] = op[t] /\ token'[t] = token[t]
  BY DEF Bound, TypeOK
<1>2. InKind(t)
  BY DEF Kinds
<1>3. /\ Asked(t)' = Asked(t) /\ Asked(t) = token[t] /\ token[t] \in Token
      /\ Answer(t)' = v
      /\ Answer(t) = "none" \/ (Answer(t) # "allow" /\ v = "internal")
  BY <1>1, <1>2 DEF Asked, Answer, InKind, Deciding, Allowed, Auditing
<1>4. v \in Promise!Denials
  BY DEF Promise!Denials, Verdicts
<1>5. t \in late => v \in {"revoked", "internal"}
  BY <1>1 DEF Late
<1>6. Promise!Refuse(t)
  <2>1. [u \in Thread |-> Answer(u)]' = [[u \in Thread |-> Answer(u)] EXCEPT ![t] = v]
    BY <1>3, OtherSwaps
  <2>2. UNCHANGED [u \in Thread |-> Asked(u)]
    BY <1>3, OtherSwaps
  <2> HIDE DEF Refuse
  <2> QED
    BY <1>3, <1>4, <1>5, <2>1, <2>2 DEF Promise!Refuse
<1> QED
  BY <1>6 DEF Promise!Next

LEMMA RefinesInit == Init => Promise!Init
<1> SUFFICES ASSUME Init PROVE Promise!Init
  OBVIOUS
<1>1. TypeOK
  BY InitBound DEF Bound
<1>2. /\ dead = {} /\ late = {} /\ sent = [k \in Token |-> 0]
      /\ \A t \in Thread : Asked(t) = NoToken /\ Answer(t) = "none"
  BY DEF Init, Asked, Answer
<1> QED
  BY <1>1, <1>2 DEF Promise!Init, TypeOK

LEMMA SendServes ==
  ASSUME Bound, Reading, Late, Kinds, Spending, NEW t \in Thread, Send(t)
  PROVE  Promise!Next
<1> DEFINE k == token[t]
<1>1. /\ pc[t] = "send" /\ k \in Token /\ op[t] = "swap" /\ t \notin late
      /\ bearer[k].state # "none"
  BY DEF Send, Kinds, InKind, Allowed, Late, Reading, Swapping
<1>2. /\ sent' = [sent EXCEPT ![k] = sent[k] + 1]
      /\ UNCHANGED <<bearer, dead, granted, op, token, late>>
      /\ pc'[t] = "append" /\ verdict'[t] \in {"allow", "internal"}
  BY DEF Send, Bound, TypeOK
<1>3. Does(t)
  BY DEF Does, Step
<1>4. bearer[k].relay \in Relay /\ sent[k] < granted[bearer[k].relay]
  <2>1. bearer[k].relay \in Relay /\ granted[bearer[k].relay] \in Nat /\ sent[k] \in Nat
    BY <1>1 DEF Bound, TypeOK
  <2>2. sent[k] + Cardinality(OnItsWay(k)) <= granted[bearer[k].relay]
    BY <1>1 DEF Spending, Spent, Allowance
  <2>3. t \in OnItsWay(k)
    BY <1>1 DEF OnItsWay
  <2>4. Cardinality(OnItsWay(k)) \in Nat /\ Cardinality(OnItsWay(k)) # 0
    BY <2>3, Finite, FS_EmptySet
  <2> QED
    BY <2>1, <2>2, <2>4
<1>5. /\ Asked(t) = k /\ Asked(t)' = Asked(t) /\ Answer(t) = "none"
      /\ Answer(t)' \in {"allow", "internal"}
  BY <1>1, <1>2 DEF Asked, Answer
<1>6. Promise!Serve(t)
  <2>1. PICK a \in {"allow", "internal"} : a = Answer(t)'
    BY <1>5
  <2>2. [u \in Thread |-> Answer(u)]' = [[u \in Thread |-> Answer(u)] EXCEPT ![t] = a]
    BY <1>3, <2>1, OtherSwaps
  <2>3. UNCHANGED [u \in Thread |-> Asked(u)]
    BY <1>3, <1>5, OtherSwaps
  <2>4. UNCHANGED <<[j \in Token |-> bearer[j].relay], granted, dead, late>>
    BY <1>2
  <2>5. NoRelay \notin Relay
    BY BrokerAssumption
  <2> QED
    BY <1>1, <1>2, <1>4, <1>5, <2>2, <2>3, <2>4, <2>5 DEF Promise!Serve
<1> QED
  BY <1>6 DEF Promise!Next

(* Every step of a thread is a step of the ledger, or shows nothing. *)
LEMMA RefinesStep ==
  ASSUME Bound, Rows, Dying, Reading, Late, Kinds, Spending, Bound', Late', NEW t \in Thread, Does(t)
  PROVE  Promise!Next \/ UNCHANGED Promise!vars
<1> USE DEF Deciding, Allowed, Auditing
<1>1. InKind(t) /\ TypeOK
  BY DEF Kinds, Bound
<1>2. ASSUME UNCHANGED <<dead, sent, granted, bearer>>, late' = late, verdict'[t] = verdict[t],
             op'[t] = op[t] /\ (op[t] = "swap" => token'[t] = token[t]),
             pc[t] \in Allowed <=> pc'[t] \in Allowed
      PROVE  UNCHANGED Promise!vars
  BY <1>2, Unseen DEF Asked, Answer
<1>3. CASE StartMint(t) \/ StartRevoke(t) \/ StartRevokeBearer(t) \/ StartLock(t) \/ StartUnlock(t)
  <2>1. /\ UNCHANGED <<dead, sent, granted, bearer, late, verdict>>
        /\ op[t] # "swap" /\ op'[t] # "swap"
        /\ pc[t] \notin Allowed /\ pc'[t] \notin Allowed
    BY <1>1, <1>3 DEF TypeOK, InKind, StartMint, StartRevoke, StartRevokeBearer, StartLock,
       StartUnlock
  <2> QED
    BY <2>1, Unseen DEF Asked, Answer
<1>4. CASE StartSwap(t)
  <2>1. PICK k \in Token :
          /\ token' = [token EXCEPT ![t] = k]
          /\ late' = IF k \in dead THEN late \cup {t} ELSE late
    BY <1>4 DEF StartSwap
  <2>2. /\ UNCHANGED <<dead, sent, granted, bearer, verdict>>
        /\ pc[t] = "idle" /\ pc'[t] = "swapLock" /\ op[t] = "none" /\ op'[t] = "swap"
    BY <1>1, <1>4 DEF InKind, TypeOK, StartSwap
  <2>3. Asked(t) = NoToken /\ Asked(t)' = k /\ Answer(t)' = Answer(t)
    BY <1>1, <2>1, <2>2 DEF Asked, Answer, TypeOK
  <2>4. [u \in Thread |-> Asked(u)]' = [[u \in Thread |-> Asked(u)] EXCEPT ![t] = k]
    BY <2>3, OtherSwaps
  <2>5. UNCHANGED [u \in Thread |-> Answer(u)]
    BY <2>3, OtherSwaps
  <2>6. Promise!Ask(t)
    BY <2>1, <2>2, <2>3, <2>4, <2>5 DEF Promise!Ask
  <2> QED
    BY <2>6 DEF Promise!Next
<1>5. CASE SavePolicy(t)
  <2>1. relay[t] \in Relay
    BY <1>5 DEF SavePolicy, Bound, ForRelay
  <2>2. /\ granted' = [granted EXCEPT ![relay[t]] = Larger(granted[relay[t]], quota[t])]
        /\ UNCHANGED <<dead, sent, bearer, late, verdict, op, token>>
        /\ pc[t] = "savePolicy" /\ pc'[t] = "saveBearer"
    BY <1>1, <1>5 DEF SavePolicy, TypeOK
  <2>3. granted[relay[t]] <= granted'[relay[t]]
    BY <2>1, Grow
  <2>4. granted' = [granted EXCEPT ![relay[t]] = granted'[relay[t]]]
    BY <1>1, <2>1, <2>2 DEF TypeOK
  <2>5. UNCHANGED <<[u \in Thread |-> Asked(u)], [u \in Thread |-> Answer(u)]>>
    BY <2>2, OtherSwaps DEF Asked, Answer
  <2>6. Promise!Raise
    BY <2>1, <2>2, <2>3, <2>4, <2>5 DEF Promise!Raise
  <2> QED
    BY <2>6 DEF Promise!Next
<1>6. CASE SaveBearer(t)
  <2>1. relay[t] \in Relay
    BY <1>6 DEF SaveBearer, Bound, ForRelay
  <2>2. PICK k \in Token :
          /\ bearer[k] = NoBearer
          /\ bearer' = [bearer EXCEPT ![k] = [state |-> "live", relay |-> relay[t], sealed |-> "live"]]
    BY <1>6 DEF SaveBearer, SavedBearer
  <2>3. /\ UNCHANGED <<dead, sent, granted, late, verdict, op, token>>
        /\ pc[t] = "saveBearer" /\ pc'[t] = "append"
    BY <1>1, <1>6 DEF SaveBearer, TypeOK
  <2>4. /\ [j \in Token |-> bearer[j].relay][k] = NoRelay
        /\ [j \in Token |-> bearer[j].relay]' = [[j \in Token |-> bearer[j].relay] EXCEPT ![k] = relay[t]]
    <3>1. \A j \in Token : bearer'[j].relay = IF j = k THEN relay[t] ELSE bearer[j].relay
      BY <1>1, <2>2 DEF TypeOK
    <3>2. bearer[k].relay = NoRelay
      BY <2>2 DEF NoBearer
    <3> QED
      BY <3>1, <3>2
  <2>5. UNCHANGED <<[u \in Thread |-> Asked(u)], [u \in Thread |-> Answer(u)]>>
    BY <2>3, OtherSwaps DEF Asked, Answer
  <2>6. Promise!Issue
    BY <2>1, <2>3, <2>4, <2>5 DEF Promise!Issue
  <2> QED
    BY <2>6 DEF Promise!Next
<1>7. CASE SaveRevoked(t)
  <2>1. /\ bearer' = [bearer EXCEPT ![token[t]] = Revoked(bearer[token[t]])]
        /\ UNCHANGED <<dead, sent, granted, late, verdict, op, token>>
        /\ pc[t] = "saveRevoked" /\ pc'[t] \in {"append", "reseal"}
    BY <1>1, <1>7 DEF SaveRevoked, TypeOK
  <2>2. Revoked(bearer[token[t]]).relay = bearer[token[t]].relay
    BY <1>1, <2>1 DEF Revoked, Bound, ForToken, TypeOK
  <2>3. \A k \in Token : bearer'[k].relay = bearer[k].relay
    BY <1>1, <2>1, <2>2 DEF TypeOK
  <2> QED
    BY <2>1, <2>3, Unseen DEF Asked, Answer
<1>8. CASE MintLock(t) \/ Reseal(t) \/ UnlockRead(t)
  <2>1. CASE Return(t)
    <3>1. UNCHANGED <<bearer, dead, sent, granted>> /\ op[t] # "swap"
      BY <1>1, <1>8 DEF MintLock, Reseal, UnlockRead, InKind
    <3> QED
      BY <2>1, <3>1, EndsOrUnseen
  <2>2. CASE ~ Return(t)
    <3>1. /\ UNCHANGED <<bearer, dead, sent, granted, verdict, late>>
          /\ op[t] # "swap" /\ op'[t] # "swap"
          /\ pc[t] \notin Allowed /\ pc'[t] \notin Allowed
      BY <1>1, <1>8, <2>2 DEF MintLock, Reseal, UnlockRead, InKind, TypeOK
    <3> QED
      BY <3>1, Unseen DEF Asked, Answer
  <2> QED
    BY <2>1, <2>2
<1>9. CASE MintUsb(t) \/ LoadPolicy(t) \/ FlipPolicy(t) \/ ListBearers(t) \/ LoadBearer(t)
        \/ QueueWriter(t) \/ LockVault(t) \/ Commit(t) \/ Append(t)
  <2>1. UNCHANGED <<bearer, dead, sent, granted, verdict, late, token>>
    BY <1>9 DEF MintUsb, LoadPolicy, FlipPolicy, ListBearers, LoadBearer, QueueWriter, LockVault,
       Commit, Append
  <2>2. pc[t] \notin Allowed /\ pc'[t] \notin Allowed
    BY <1>1, <1>9 DEF TypeOK, MintUsb, LoadPolicy, FlipPolicy, ListBearers, LoadBearer, Listed,
       QueueWriter, LockVault, Commit, Append
  <2>3. op'[t] = op[t] \/ (op[t] # "swap" /\ op'[t] # "swap")
    BY <1>1, <1>9 DEF TypeOK, InKind, MintUsb, LoadPolicy, FlipPolicy, ListBearers, LoadBearer,
       QueueWriter, LockVault, Commit, Append
  <2> QED
    BY <2>1, <2>2, <2>3, Unseen DEF Asked, Answer
<1>10. CASE SwapLock(t) \/ SwapBearer(t) \/ SwapPolicy(t) \/ Decide(t) \/ OpenKey(t)
  <2>1. UNCHANGED <<bearer, dead, sent, granted, op, token, late>> /\ op[t] = "swap"
    BY <1>1, <1>10 DEF SwapLock, SwapBearer, SwapPolicy, Decide, OpenKey, InKind
  <2>2. pc[t] \in Deciding \cup Allowed
    BY <1>10 DEF SwapLock, SwapBearer, SwapPolicy, Decide, OpenKey
  <2>3. ASSUME NEW v \in Verdicts \ {"none", "allow"}, Refuse(t, v),
               v = "unknown" => bearer[token[t]].relay = NoRelay
        PROVE  Promise!Next
    <3> HIDE DEF Refuse
    <3> QED
      BY <2>1, <2>2, <2>3, RefuseAnswers
  <2>4. /\ token[t] \in Token
        /\ bearer[token[t]] = NoBearer => bearer[token[t]].relay = NoRelay
        /\ bearer[token[t]].sealed = bearer[token[t]].state
    BY <1>1, <2>1 DEF InKind, NoBearer, Rows
  <2>5. CASE \E v \in {"internal", "revoked", "budget", "gate", "other"} : Refuse(t, v)
    <3> HIDE DEF Refuse
    <3> QED
      BY <2>3, <2>5 DEF Verdicts
  <2>6. CASE SwapBearer(t) /\ Refuse(t, "unknown")
    <3>1. bearer[token[t]] = NoBearer
      <4>1. pc' = [pc EXCEPT ![t] = "append"] /\ pc[t] = "swapBearer"
        BY <2>6 DEF SwapBearer
      <4>2. ~ (pc' = [pc EXCEPT ![t] = "swapPolicy"])
        BY <1>1, <4>1 DEF TypeOK
      <4> QED
        BY <2>4, <2>6, <4>2 DEF SwapBearer
    <3> HIDE DEF Refuse
    <3> QED
      BY <2>3, <2>4, <2>6, <3>1 DEF Verdicts
  <2>7. CASE SwapPolicy(t) /\ Refuse(t, "unknown")
    <3>1. policy[relay[t]].state # "none"
      BY <2>7 DEF SwapPolicy, Reading, Rows, Swapping, Bound, ForToken
    <3> QED
      BY <1>1, <2>7, <3>1 DEF SwapPolicy, TypeOK
  <2>8. CASE /\ UNCHANGED verdict \/ (verdict'[t] = "allow" /\ pc'[t] = "openKey")
             /\ pc'[t] \in Allowed \/ (pc[t] \notin Allowed /\ pc'[t] \notin Allowed)
    <3>1. Asked(t)' = Asked(t) /\ Answer(t)' = Answer(t)
      BY <1>1, <2>1, <2>2, <2>8 DEF Asked, Answer, InKind
    <3> QED
      BY <2>1, <3>1, Unseen
  <2>9. CASE SwapLock(t)
    BY <1>1, <2>5, <2>8, <2>9 DEF SwapLock, TypeOK
  <2>10. CASE SwapBearer(t)
    BY <1>1, <2>6, <2>8, <2>10 DEF SwapBearer, TypeOK
  <2>11. CASE SwapPolicy(t)
    BY <1>1, <2>7, <2>8, <2>11 DEF SwapPolicy, TypeOK
  <2>12. CASE Decide(t)
    <3>1. PICK v \in Decisions(found[t], used[token[t]] + 1, quota[t]) :
            \/ v # "allow" /\ Refuse(t, v)
            \/ v = "allow" /\ SetVerdict(t, v) /\ Goto(t, "openKey") /\ UNCHANGED readers
      BY <2>12 DEF Decide
    <3>2. v \in {"allow", "internal", "revoked", "budget", "gate", "other"}
      BY <3>1 DEF Decisions
    <3>3. CASE v # "allow"
      BY <2>5, <3>1, <3>2, <3>3
    <3>4. CASE v = "allow"
      BY <1>1, <2>8, <2>12, <3>1, <3>4 DEF TypeOK, Decide
    <3> QED
      BY <3>3, <3>4
  <2>13. CASE OpenKey(t)
    BY <1>1, <2>5, <2>8, <2>13 DEF OpenKey, TypeOK
  <2> QED
    BY <1>10, <2>9, <2>10, <2>11, <2>12, <2>13
<1>11. CASE SwapUsb(t)
  BY <1>1, <1>2, <1>11 DEF SwapUsb, TypeOK
<1>12. CASE Send(t)
  BY <1>12, SendServes
<1>13. CASE Advance(t)
  <2>1. UNCHANGED <<bearer, sent, granted>> /\ pc[t] = "advance"
    BY <1>13 DEF Advance
  <2>2. CASE op[t] = "unlock"
    BY <1>1, <1>2, <1>13, <2>1, <2>2 DEF Advance, TypeOK
  <2>3. CASE op[t] # "unlock" /\ listed[t] = {}
    <3>1. Return(t) /\ dead' = dead
      BY <1>13, <2>3 DEF Advance
    <3> QED
      BY <2>1, <3>1, EndsOrUnseen
  <2>4. CASE op[t] # "unlock" /\ listed[t] # {}
    <3>1. Return(t) /\ dead' = dead \cup listed[t] /\ op[t] # "swap"
      BY <1>1, <1>13, <2>4 DEF Advance, InKind
    <3>2. ASSUME NEW k \in dead' PROVE k \in Token /\ bearer[k].relay # NoRelay
      <4>1. k \in Token
        BY <1>1, <3>1, <3>2 DEF TypeOK
      <4>2. bearer[k].state # "none"
        BY <3>1, <3>2 DEF Dying, Bound
      <4> QED
        BY <4>1, <4>2, BrokerAssumption DEF Bound
    <3>3. /\ UNCHANGED <<[u \in Thread |-> Asked(u)], [u \in Thread |-> Answer(u)]>>
          /\ late' = late
      BY <3>1, ReturnEnds, OtherSwaps
    <3>4. Promise!Report
      BY <2>1, <3>1, <3>2, <3>3 DEF Promise!Report
    <3> QED
      BY <3>4 DEF Promise!Next
  <2> QED
    BY <2>2, <2>3, <2>4
<1>14. CASE StoreError(t)
  <2>1. UNCHANGED <<bearer, dead, sent, granted>> /\ pc[t] \in InStore \cup {"advance"}
    BY <1>14 DEF StoreError
  <2>2. CASE Return(t) /\ (op[t] = "swap" => pc[t] \in Auditing)
    BY <2>1, <2>2, EndsOrUnseen
  <2>3. CASE /\ op[t] = "swap" /\ Refuse(t, "internal") /\ UNCHANGED <<op, token, late>>
             /\ ~ (pc[t] \in Auditing /\ verdict[t] \in {"allow", "internal"})
    <3>1. pc[t] \in Deciding \cup Allowed \/ verdict[t] # "allow"
      BY <1>1, <2>3 DEF InKind
    <3> HIDE DEF Refuse
    <3> QED
      BY <2>1, <2>3, <3>1, RefuseAnswers DEF Verdicts
  <2> QED
    BY <1>14, <2>2, <2>3 DEF StoreError
<1> QED
  BY <1>3, <1>4, <1>5, <1>6, <1>7, <1>8, <1>9, <1>10, <1>11, <1>12, <1>13, <1>14 DEF Does, Start, Step

(* The broker keeps its promise (BearerLedger): initial states map to initial states,  *)
(* and every step to a step of the ledger or to a stutter.                             *)
THEOREM Refinement == Spec => KeepsThePromise
<1>1. ASSUME Crash PROVE Promise!Next
  <2>1. /\ sent' = [k \in Token |-> 0] /\ late' = {}
        /\ op' = [t \in Thread |-> "none"] /\ verdict' = [t \in Thread |-> "none"]
        /\ pc' = [t \in Thread |-> "idle"]
        /\ UNCHANGED <<bearer, granted, dead>>
    BY <1>1 DEF Crash
  <2>2. \A t \in Thread : Asked(t)' = NoToken /\ Answer(t)' = "none"
    BY <2>1 DEF Asked, Answer
  <2>3. Promise!Restart
    BY <2>1, <2>2 DEF Promise!Restart
  <2> QED
    BY <2>3 DEF Promise!Next
<1>2. UNCHANGED vars => UNCHANGED Promise!vars
  BY DEF vars, Promise!vars, Asked, Answer
<1> DEFINE Holds == Bound /\ Rows /\ Dying /\ Reading /\ Late /\ Kinds /\ Spending
<1>3. Holds /\ Holds' /\ [Next]_vars => [Promise!Next]_(Promise!vars)
  BY <1>1, <1>2, RefinesStep DEF Next, Does
<1> QED
  BY <1>3, RefinesInit, AlwaysKinds, AlwaysSpending, PTL DEF Spec, KeepsThePromise, Promise!Spec
-----------------------------------------------------------------------------
(***************************************************************************)
(* No circle of waiting.  A thread waits for the lock only where it does   *)
(* not hold it, so a reader never waits; and a queued writer waits for     *)
(* readers alone.                                                          *)
(***************************************************************************)
LEMMA NoCircle == TypeOK => WaitersWaitForRunners
<1> SUFFICES ASSUME TypeOK, NEW t \in Thread, Waits(t)
             PROVE  \E u \in Thread :
                      (u \in readers \/ pc[u] \in {"lockQueued", "commitQueued"}) /\ ~Waits(u)
  BY DEF WaitersWaitForRunners
<1>1. CASE ~MayWrite
  <2>1. PICK u \in Thread : u \in readers /\ pc[u] \in Holding
    BY <1>1 DEF MayWrite, TypeOK
  <2>2. ~Waits(u)
    BY <2>1 DEF Waits, Holding
  <2> QED
    BY <2>1, <2>2
<1>2. CASE MayWrite
  <2>1. ~MayRead
    BY <1>2 DEF Waits
  <2>2. PICK u \in Thread : pc[u] \in {"lockQueued", "commitQueued"}
    BY <2>1 DEF MayRead
  <2>3. ~Waits(u)
    BY <1>2, <2>2 DEF Waits
  <2> QED
    BY <2>2, <2>3
<1> QED
  BY <1>1, <1>2

(* Whoever waits for the vault lock waits for a thread that goes on (lib.rs:805-807,   *)
(* 939-946: the guard is dropped before the audit takes the lock again).               *)
THEOREM NobodyWaitsInACircle == Spec => []WaitersWaitForRunners
  BY NoCircle, TypeCorrect, PTL

-----------------------------------------------------------------------------
(***************************************************************************)
(* No call goes in circles.  A thread on its way to the commit of an       *)
(* unlock is at one of few labels, so that no other call is taken for one  *)
(* that has still to commit.                                               *)
(***************************************************************************)
InUnlock(t) ==
  op[t] = "unlock" => pc[t] \in {"unlockRead", "commit", "commitQueued"} \cup Auditing

Unlocking == \A t \in Thread : InUnlock(t)

LEMMA UnlockingStep ==
  ASSUME Bound, Unlocking, NEW t \in Thread, Does(t)
  PROVE  Unlocking'
<1> USE DEF InUnlock, Auditing
<1>1. InUnlock(t)
  BY DEF Unlocking
<1>2. SUFFICES InUnlock(t)'
  <2>1. ASSUME NEW u \in Thread, u # t PROVE InUnlock(u)'
    BY <2>1, Others DEF Unlocking
  <2> QED
    BY <2>1 DEF Unlocking
<1> USE DEF Bound, TypeOK
<1>3. CASE Return(t)
  BY <1>3 DEF Return
<1>4. CASE StartMint(t) \/ StartRevoke(t) \/ StartRevokeBearer(t) \/ StartSwap(t) \/
        StartLock(t) \/ StartUnlock(t)
  BY <1>4 DEF StartMint, StartRevoke, StartRevokeBearer, StartSwap, StartLock, StartUnlock
<1>5. CASE MintLock(t) \/ Reseal(t) \/ UnlockRead(t)
  <2>1. CASE MintLock(t)
    BY <1>1, <2>1 DEF MintLock, Return
  <2>2. CASE Reseal(t)
    BY <1>1, <2>2 DEF Reseal, Return
  <2>3. CASE UnlockRead(t)
    BY <1>1, <2>3 DEF UnlockRead, Return
  <2> QED
    BY <1>5, <2>1, <2>2, <2>3
<1>6. CASE MintUsb(t) \/ SavePolicy(t) \/ SaveBearer(t)
  BY <1>1, <1>6 DEF MintUsb, SavePolicy, SaveBearer
<1>7. CASE LoadPolicy(t) \/ FlipPolicy(t) \/ ListBearers(t) \/ LoadBearer(t) \/ SaveRevoked(t)
  BY <1>1, <1>7 DEF LoadPolicy, FlipPolicy, ListBearers, LoadBearer, Listed, SaveRevoked
<1>8. CASE SwapLock(t) \/ SwapBearer(t) \/ SwapPolicy(t) \/ SwapUsb(t)
  BY <1>1, <1>8 DEF SwapLock, SwapBearer, SwapPolicy, SwapUsb
<1>9. CASE Decide(t) \/ OpenKey(t) \/ Send(t)
  BY <1>1, <1>9 DEF Decide, OpenKey, Send
<1>10. CASE QueueWriter(t) \/ LockVault(t) \/ Commit(t) \/ Append(t)
  BY <1>1, <1>10 DEF QueueWriter, LockVault, Commit, Append
<1>11. CASE Advance(t)
  BY <1>1, <1>3, <1>11 DEF Advance
<1>12. CASE StoreError(t)
  BY <1>1, <1>3, <1>12 DEF StoreError
<1> QED
  BY <1>4, <1>5, <1>6, <1>7, <1>8, <1>9, <1>10, <1>11, <1>12 DEF Does, Start, Step

LEMMA AlwaysUnlocking == Spec => []Unlocking
<1>1. Init => Unlocking
  BY DEF Init, Unlocking, InUnlock
<1>2. Unlocking /\ UNCHANGED vars => Unlocking'
  BY DEF Unlocking, InUnlock, vars
<1>3. ASSUME Crash PROVE Unlocking'
  BY <1>3 DEF Crash, Unlocking, InUnlock
<1>4. Bound /\ Unlocking /\ [Next]_vars => Unlocking'
  BY <1>2, <1>3, UnlockingStep DEF Next, Does
<1> QED
  BY <1>1, <1>4, AlwaysBound, PTL DEF Spec

(* The weights of the labels, one by one. *)
LEMMA Weights ==
  /\ StepsFrom["idle"] = 0 /\ StepsFrom["advance"] = 1 /\ StepsFrom["append"] = 2
  /\ StepsFrom["commitQueued"] = 2 /\ StepsFrom["commit"] = 3
  /\ StepsFrom["lockQueued"] = 3 /\ StepsFrom["lockVault"] = 4 /\ StepsFrom["unlockRead"] = 6
  /\ StepsFrom["mintLock"] = 6 /\ StepsFrom["mintUsb"] = 5
  /\ StepsFrom["savePolicy"] = 4 /\ StepsFrom["saveBearer"] = 3
  /\ StepsFrom["loadPolicy"] = 6 /\ StepsFrom["flipPolicy"] = 5
  /\ StepsFrom["listBearers"] = 4 /\ StepsFrom["loadBearer"] = 4
  /\ StepsFrom["reseal"] = 3 /\ StepsFrom["saveRevoked"] = 2
  /\ StepsFrom["swapLock"] = 9 /\ StepsFrom["swapBearer"] = 8 /\ StepsFrom["swapPolicy"] = 7
  /\ StepsFrom["swapUsb"] = 6 /\ StepsFrom["decide"] = 5
  /\ StepsFrom["openKey"] = 4 /\ StepsFrom["send"] = 3
  BY DEF StepsFrom

(* There are finitely many bearers to flip, and each flip leaves one less. *)
LEMMA Flips ==
  /\ Cardinality(Token) \in Nat
  /\ \A ks \in SUBSET Token : Cardinality(ks) \in Nat /\ Cardinality(ks) <= Cardinality(Token)
  /\ \A ks \in SUBSET Token : \A k \in ks : Cardinality(ks \ {k}) = Cardinality(ks) - 1
  /\ Cardinality({}) = 0
<1>1. \A ks \in SUBSET Token : IsFiniteSet(ks)
  BY BrokerAssumption, FS_Subset
<1> QED
  BY <1>1, BrokerAssumption, FS_Subset, FS_CardinalityType, FS_RemoveElement, FS_EmptySet

(* A call under way has a step to take, and no more than so many. *)
LEMMA LeftIsBounded ==
  ASSUME Bound, NEW t \in Thread
  PROVE  /\ Left(t) \in 0..(2 * Cardinality(Token) + 9)
         /\ pc[t] # "idle" => Left(t) > 0
<1>1. Bearers(t) \in Nat /\ Bearers(t) <= Cardinality(Token)
  BY Flips DEF Bearers, Bound, TypeOK
<1>2. pc[t] \in Labels
  BY DEF Bound, TypeOK
<1>3. /\ StepsFrom[pc[t]] \in 0..9
      /\ pc[t] # "idle" => StepsFrom[pc[t]] > 0
      /\ pc[t] \in Auditing => StepsFrom[pc[t]] <= 2
  BY <1>2, Weights DEF Labels, Holding, InStore, Writing, Auditing
<1>4. AfterAudit(t) \in 0..3 /\ (pc[t] \notin Auditing => AfterAudit(t) = 0)
  BY DEF AfterAudit, Auditing
<1> QED
  BY <1>1, <1>3, <1>4, Flips DEF Left

(* The end of a call leaves nothing to do. *)
LEMMA ReturnShortens ==
  ASSUME Bound, NEW t \in Thread, pc[t] # "idle", Return(t)
  PROVE  Left(t)' < Left(t)
<1>1. pc'[t] = "idle" /\ todo'[t] = {}
  BY DEF Return, Bound, TypeOK
<1>2. Left(t)' = 0
  BY <1>1, Weights, Flips DEF Left, AfterAudit, Bearers
<1> QED
  BY <1>2, LeftIsBounded, Flips

LEMMA StepShortens ==
  ASSUME Bound, Dying, Kinds, Unlocking, NEW t \in Thread, Step(t) \/ StoreError(t)
  PROVE  Left(t)' < Left(t)
<1>1. /\ InKind(t) /\ InUnlock(t) /\ (pc[t] \in Revoking => op[t] = "revoke")
      /\ pc[t] \notin {"reseal", "saveRevoked"} => todo[t] = {}
  BY DEF Kinds, Unlocking, Dying
<1> USE Weights, Flips DEF Left, AfterAudit, Bearers
<1>2. /\ Cardinality(todo[t]) \in Nat
      /\ pc[t] \notin {"reseal", "saveRevoked"} => Cardinality(todo[t]) = 0
  BY <1>1 DEF Bound, TypeOK
<1>3. ASSUME todo'[t] = todo[t] PROVE Cardinality(todo'[t]) = Cardinality(todo[t])
  BY <1>3
<1>4. CASE Return(t)
  <2>1. pc[t] # "idle"
    BY DEF Step, StoreError, InStore, MintLock, MintUsb, SavePolicy, SaveBearer, LoadPolicy,
           FlipPolicy, ListBearers, LoadBearer, Reseal, SaveRevoked, SwapLock, SwapBearer,
           SwapPolicy, SwapUsb, Decide, OpenKey, Send, QueueWriter, LockVault, UnlockRead,
           Commit, Append, Advance
  <2> QED
    BY <1>4, <2>1, ReturnShortens
<1> USE DEF Bound, TypeOK
<1>5. CASE MintLock(t)
  <2>1. CASE pc[t] = "mintLock" /\ pc'[t] = "mintUsb" /\ todo'[t] = todo[t]
    BY <1>2, <1>3, <2>1
  <2> QED
    BY <1>4, <1>5, <2>1 DEF MintLock
<1>6. CASE MintUsb(t) \/ SavePolicy(t)
  <2>1. /\ \/ pc[t] = "mintUsb" /\ pc'[t] = "savePolicy"
           \/ pc[t] = "mintUsb" /\ pc'[t] = "append" /\ op'[t] = "refused"
           \/ pc[t] = "savePolicy" /\ pc'[t] = "saveBearer"
        /\ todo'[t] = todo[t]
    BY <1>6 DEF MintUsb, SavePolicy
  <2>2. CASE pc[t] = "mintUsb" /\ pc'[t] = "savePolicy"
    BY <1>2, <1>3, <2>1, <2>2
  <2>3. CASE pc[t] = "mintUsb" /\ pc'[t] = "append" /\ op'[t] = "refused"
    BY <1>2, <1>3, <2>1, <2>3
  <2>4. CASE pc[t] = "savePolicy" /\ pc'[t] = "saveBearer"
    BY <1>2, <1>3, <2>1, <2>4
  <2> QED
    BY <2>1, <2>2, <2>3, <2>4
<1>7. CASE SaveBearer(t)
  <2>1. /\ pc[t] = "saveBearer" /\ pc'[t] = "append" /\ op'[t] = op[t]
        /\ todo'[t] = todo[t]
    BY <1>7 DEF SaveBearer
  <2>2. op'[t] \notin {"swap", "unlock"}
    BY <1>1, <2>1 DEF InKind, InUnlock, Deciding, Allowed, Auditing
  <2> QED
    BY <1>2, <1>3, <2>1, <2>2
<1>8. CASE LoadPolicy(t) \/ FlipPolicy(t)
  <2>1. \/ pc[t] = "loadPolicy" /\ pc'[t] \in {"listBearers", "flipPolicy"}
        \/ pc[t] = "flipPolicy" /\ pc'[t] = "listBearers"
    BY <1>8 DEF LoadPolicy, FlipPolicy
  <2> QED
    BY <2>1
<1>9. CASE ListBearers(t) \/ LoadBearer(t)
  <2>1. /\ pc[t] \in {"listBearers", "loadBearer"} /\ op'[t] = op[t] /\ op[t] = "revoke"
        /\ \/ pc'[t] = "append" /\ todo'[t] = {}
           \/ pc'[t] = "reseal"
    BY <1>1, <1>9 DEF ListBearers, LoadBearer, Listed, Revoking
  <2>2. todo'[t] \in SUBSET Token
    BY <1>9, StepLocals DEF Does, Step
  <2>3. Cardinality(todo'[t]) \in Nat /\ Cardinality(todo'[t]) <= Cardinality(Token)
    BY <2>2
  <2> QED
    BY <2>1, <2>3
<1>10. CASE Reseal(t)
  <2>1. CASE pc[t] = "reseal" /\ pc'[t] = "saveRevoked" /\ todo'[t] = todo[t]
    BY <1>2, <1>3, <2>1
  <2> QED
    BY <1>4, <1>10, <2>1 DEF Reseal
<1>11. CASE SaveRevoked(t)
  <2>1. /\ pc[t] = "saveRevoked" /\ op'[t] = op[t] /\ op[t] = "revoke"
        /\ todo'[t] = todo[t] \ {token[t]} /\ token[t] \in todo[t]
        /\ pc'[t] \in {"append", "reseal"}
    BY <1>1, <1>11 DEF SaveRevoked, Revoking
  <2>2. todo[t] \in SUBSET Token
    OBVIOUS
  <2>3. Cardinality(todo[t] \ {token[t]}) = Cardinality(todo[t]) - 1
    BY <2>1, <2>2, Flips, Zenon
  <2>4. Cardinality(todo'[t]) = Cardinality(todo[t]) - 1
    BY <2>1, <2>3, Zenon
  <2> QED
    BY <1>2, <2>1, <2>4
<1>12. CASE SwapLock(t) \/ SwapBearer(t) \/ SwapPolicy(t) \/ SwapUsb(t)
  <2>1. /\ \/ pc[t] = "swapLock" /\ pc'[t] \in {"append", "swapBearer"}
           \/ pc[t] = "swapBearer" /\ pc'[t] \in {"append", "swapPolicy"}
           \/ pc[t] = "swapPolicy" /\ pc'[t] \in {"append", "swapUsb"}
           \/ pc[t] = "swapUsb" /\ pc'[t] = "decide"
        /\ op'[t] = op[t] /\ op[t] = "swap" /\ todo'[t] = todo[t]
    BY <1>1, <1>12 DEF SwapLock, SwapBearer, SwapPolicy, SwapUsb, InKind, Deciding
  <2>2. /\ Left(t) = StepsFrom[pc[t]]
        /\ pc'[t] # "append" => Left(t)' = StepsFrom[pc'[t]]
        /\ pc'[t] = "append" => Left(t)' <= 4
    BY <1>2, <1>3, <2>1
  <2> QED
    BY <2>1, <2>2
<1>13. CASE Decide(t) \/ OpenKey(t) \/ Send(t)
  <2>1. /\ \/ pc[t] = "decide" /\ pc'[t] \in {"append", "openKey"}
           \/ pc[t] = "openKey" /\ pc'[t] = "append" /\ verdict'[t] = "internal"
           \/ pc[t] = "openKey" /\ pc'[t] = "send"
           \/ pc[t] = "send" /\ pc'[t] = "append" /\ verdict'[t] \in {"allow", "internal"}
        /\ op'[t] = op[t] /\ op[t] = "swap" /\ todo'[t] = todo[t]
    BY <1>1, <1>13 DEF Decide, OpenKey, Send, InKind, Deciding, Allowed
  <2>2. CASE pc[t] = "decide"
    BY <1>2, <1>3, <2>1, <2>2
  <2>3. CASE pc[t] = "openKey"
    BY <1>2, <1>3, <2>1, <2>3
  <2>4. CASE pc[t] = "send"
    BY <1>2, <1>3, <2>1, <2>4
  <2> QED
    BY <2>1, <2>2, <2>3, <2>4
<1>14. CASE QueueWriter(t) \/ LockVault(t) \/ Commit(t)
  <2>1. /\ \/ pc[t] = "lockVault" /\ pc'[t] = "lockQueued"
           \/ pc[t] = "commit" /\ pc'[t] = "commitQueued"
           \/ pc[t] \in {"lockVault", "lockQueued"} /\ pc'[t] = "append" /\ op'[t] = op[t]
           \/ pc[t] \in {"commit", "commitQueued"} /\ pc'[t] = "advance" /\ op'[t] = "unlocked"
        /\ todo'[t] = todo[t]
    BY <1>14 DEF QueueWriter, LockVault, Commit
  <2>2. pc[t] \in {"lockVault", "lockQueued"} => op[t] \notin {"swap", "unlock"}
    BY <1>1 DEF InKind, InUnlock, Deciding, Allowed, Auditing
  <2>3. CASE pc'[t] \in {"lockQueued", "commitQueued"}
    BY <1>2, <1>3, <2>1, <2>3
  <2>4. CASE pc'[t] = "append"
    <3>1. pc[t] \in {"lockVault", "lockQueued"} /\ op'[t] \notin {"swap", "unlock"}
      BY <2>1, <2>2, <2>4
    <3>2. Left(t)' = 2
      BY <1>2, <1>3, <2>1, <2>4, <3>1
    <3>3. Left(t) > 2
      BY <1>2, <3>1
    <3> QED
      BY <3>2, <3>3
  <2>5. CASE pc'[t] = "advance"
    BY <1>2, <1>3, <2>1, <2>5
  <2> QED
    BY <2>1, <2>3, <2>4, <2>5
<1>15. CASE UnlockRead(t)
  <2>1. CASE /\ pc[t] = "unlockRead" /\ pc'[t] = "append" /\ todo'[t] = todo[t]
             /\ op'[t] \in {"unlock", "refused"}
    BY <1>2, <1>3, <2>1
  <2> QED
    BY <1>4, <1>15, <2>1 DEF UnlockRead
<1>16. CASE Append(t)
  <2>1. /\ pc[t] = "append" /\ pc'[t] = "advance" /\ op'[t] = op[t] /\ verdict'[t] = verdict[t]
        /\ todo'[t] = todo[t]
    BY <1>16 DEF Append
  <2> QED
    BY <1>2, <1>3, <2>1
<1>17. CASE Advance(t)
  <2>1. CASE /\ pc[t] = "advance" /\ pc'[t] = "commit" /\ op[t] = "unlock" /\ todo'[t] = todo[t]
    BY <1>2, <1>3, <2>1
  <2> QED
    BY <1>4, <1>17, <2>1 DEF Advance
<1>18. CASE StoreError(t)
  <2>1. CASE /\ op[t] = "swap" /\ pc[t] \in InStore \cup {"advance"}
             /\ ~(pc[t] \in {"append", "advance"} /\ verdict[t] \in {"allow", "internal"})
             /\ pc'[t] = "append" /\ verdict'[t] = "internal"
             /\ op'[t] = op[t] /\ todo'[t] = todo[t]
    <3>1. pc[t] \in {"swapBearer", "swapPolicy", "swapUsb", "openKey"} \cup Auditing
      BY <1>1, <2>1 DEF InKind, InStore, Deciding, Allowed, Auditing
    <3>2. Left(t)' = 2
      BY <1>2, <1>3, <2>1, <3>1 DEF Auditing
    <3>3. Left(t) > 2
      BY <1>2, <2>1, <3>1 DEF Auditing
    <3> QED
      BY <3>2, <3>3
  <2> QED
    BY <1>4, <1>18, <2>1 DEF StoreError
<1> QED
  BY <1>5, <1>6, <1>7, <1>8, <1>9, <1>10, <1>11, <1>12, <1>13, <1>14, <1>15, <1>16, <1>17,
     <1>18 DEF Step

(* What a call has left is never more than 2 * |Token| + 9 steps; it shrinks with each of *)
(* them and never grows by another's (lib.rs:975-985, 1065-1076): with                    *)
(* NobodyWaitsInACircle, the safety half of EveryCallReturns.                             *)
THEOREM CallsTerminate ==
  Spec => CallsGetShorter /\ [](\A t \in Thread : Left(t) <= 2 * Cardinality(Token) + 9)
<1> DEFINE Shorter == \A t \in Thread :
             /\ Step(t) \/ StoreError(t) => Left(t)' < Left(t)
             /\ pc[t] # "idle" => Left(t)' <= Left(t)
           Holds == Bound /\ Dying /\ Kinds /\ Unlocking
           Counts == \A t \in Thread : Left(t) \in Nat
           Bounded == \A t \in Thread : Left(t) <= 2 * Cardinality(Token) + 9
<1>1. ASSUME Holds, Counts, Counts', [Next]_vars PROVE Shorter
  <2>1. ASSUME NEW t \in Thread, Step(t) \/ StoreError(t) PROVE Left(t)' < Left(t)
    BY <1>1, <2>1, StepShortens
  <2>2. ASSUME NEW t \in Thread, pc[t] # "idle" PROVE Left(t)' <= Left(t)
    <3>1. Left(t) \in Nat /\ Left(t)' \in Nat
      BY <1>1
    <3>2. CASE UNCHANGED vars
      BY <3>1, <3>2 DEF vars, Left, AfterAudit, Bearers
    <3>3. CASE Crash
      <4>1. Left(t)' = 0
        BY <3>3, Weights, Flips DEF Crash, Left, AfterAudit, Bearers
      <4> QED
        BY <3>1, <4>1
    <3>4. ASSUME NEW u \in Thread, Does(u), u # t PROVE Left(t)' <= Left(t)
      BY <1>1, <3>1, <3>4, Others DEF Left, AfterAudit, Bearers
    <3>5. CASE Step(t) \/ StoreError(t)
      BY <2>1, <3>1, <3>5
    <3>6. ~Start(t)
      BY <2>2 DEF Start, StartMint, StartRevoke, StartRevokeBearer, StartSwap, StartLock,
                  StartUnlock
    <3> QED
      BY <1>1, <3>2, <3>3, <3>4, <3>5, <3>6 DEF Next, Does
  <2> QED
    BY <2>1, <2>2
<1>2. Bound => Counts /\ Bounded
  BY LeftIsBounded, Flips
<1>3. Spec => [](Holds /\ Counts /\ Bounded)
  BY <1>2, AlwaysKinds, AlwaysUnlocking, PTL
<1> QED
  BY <1>1, <1>3, PTL DEF Spec, CallsGetShorter

=============================================================================
