--------------------------- MODULE EventStreamProofs ---------------------------
(***************************************************************************)
(* Theorems about EventStream, for any number of RPCs at a time: its       *)
(* types, that a stream which ends without an error belongs to a call that *)
(* was done, that Lock.Status tells the truth after a lock or unlock that  *)
(* nothing overlapped, and that an RPC takes a bounded number of steps.    *)
(* The first two and the last rest on what was sent at every point of a    *)
(* call (Sent, InCall), the third on who may have changed the vault since  *)
(* the flag was last right (Changes).                                      *)
(***************************************************************************)
EXTENDS EventStream, TLAPS

USE DEF Goto, Answer, Send, InEngine, Over, Switch, engine, channel, history, Failure

(* What a step of one RPC may be. *)
Step(c) ==
  \/ \E k \in Switch \cup {"add"} : Begin(c, k)
  \/ Task(c) \/ Supervise(c) \/ Listen(c) \/ HangUp(c)
  \/ StoreFails(c) \/ Panic(c)

(* The items sent so far, none of them lost, if the client is there. *)
Sent(c, items) ==
  \/ client[c] = "gone" /\ stream[c] = <<>>
  \/ client[c] # "gone" /\ heard[c] = <<>> /\ stream[c] = items
  \/ client[c] # "gone" /\ heard[c] = items /\ stream[c] = <<>>

(* What the blocking thread, its supervisor and the client of an RPC have done. *)
InCall(c) ==
  /\ pc[c] = "idle" <=> kind[c] = "none"
  /\ pc[c] \in {"enter", "probe", "put"} => emitted[c] = 0
  /\ pc[c] = "commit" => emitted[c] = 1
  /\ pc[c] = "after" => emitted[c] \in {0, 1}
  /\ pc[c] \in {"answered", "drain", "done"} =>
       \/ result[c] = "ok" /\ emitted[c] \in {0, 2}
       \/ result[c] = "err" /\ emitted[c] \in {0, 1}
  /\ pc[c] = "panicked" => result[c] = "panic"
  /\ forwarded[c] <= emitted[c]

InStream(c) ==
  /\ pc[c] \in InEngine \cup {"idle"} => forwarded[c] = 0 /\ Sent(c, <<>>)
  /\ pc[c] = "drain" => Sent(c, IF forwarded[c] = 2 THEN <<2>> ELSE <<>>)
  /\ pc[c] = "done" /\ result[c] = "ok" =>
       Sent(c, IF emitted[c] = 2 THEN <<2>> ELSE <<>>)
  /\ pc[c] = "done" /\ result[c] = "err" => Sent(c, <<Failure>>)
  /\ pc[c] = "panicked" => Sent(c, IF sup[c] = "over" THEN <<Failure>> ELSE <<>>)
  /\ sup[c] = "over" => pc[c] \in Over
  /\ client[c] = "ended" => pc[c] \in Over /\ sup[c] = "over" /\ stream[c] = <<>>

(* No call has more than one item to send. *)
Items == {<<>>, <<2>>, <<Failure>>}

Types ==
  /\ unlocked \in BOOLEAN
  /\ poisoned \in BOOLEAN
  /\ flag \in BOOLEAN
  /\ kind \in [Call -> Switch \cup {"none", "add"}]
  /\ pc \in [Call -> Label]
  /\ result \in [Call -> {"none", "ok", "err", "panic"}]
  /\ emitted \in [Call -> 0..2]
  /\ forwarded \in [Call -> 0..2]
  /\ sup \in [Call -> {"waiting", "over"}]
  /\ stream \in [Call -> Items]
  /\ client \in [Call -> {"none", "reading", "ended", "gone"}]
  /\ heard \in [Call -> Items]
  /\ calls \in 0..MaxCalls
  /\ contested \subseteq Call
  /\ settled \in BOOLEAN

StreamInv == Types /\ \A c \in Call : InCall(c) /\ InStream(c)

-----------------------------------------------------------------------------
LEMMA ItemFacts ==
  /\ Items \subseteq Seq(0..2)
  /\ \A items \in Items : Len(items) <= 1
  /\ <<>> # <<2>> /\ <<>> # <<Failure>> /\ <<2>> # <<Failure>>
  /\ Append(<<>>, 2) = <<2>> /\ Head(<<2>>) = 2 /\ Tail(<<2>>) = <<>>
  /\ Append(<<>>, 0) = <<0>> /\ Head(<<0>>) = 0 /\ Tail(<<0>>) = <<>>
BY DEF Items

LEMMA InitStream == Init => StreamInv
<1> USE StreamAssumption DEF Init, StreamInv, Types, InCall, InStream, Sent, Label
<1>1. ASSUME Init PROVE Types
  <2>1. 0 \in 0..MaxCalls /\ 0 \in 0..2 /\ <<>> \in Items
    BY DEF Items
  <2>2. /\ kind \in [Call -> Switch \cup {"none", "add"}]
        /\ pc \in [Call -> Label]
        /\ result \in [Call -> {"none", "ok", "err", "panic"}]
        /\ sup \in [Call -> {"waiting", "over"}]
        /\ client \in [Call -> {"none", "reading", "ended", "gone"}]
    BY <1>1
  <2>3. /\ emitted \in [Call -> 0..2] /\ forwarded \in [Call -> 0..2]
        /\ stream \in [Call -> Items] /\ heard \in [Call -> Items]
    BY <1>1, <2>1
  <2>4. /\ calls \in 0..MaxCalls /\ contested \subseteq Call
        /\ {unlocked, poisoned, flag, settled} \subseteq BOOLEAN
    BY <1>1, <2>1
  <2> QED
    BY <2>2, <2>3, <2>4 DEF Types
<1>2. ASSUME Init, NEW c \in Call PROVE InCall(c) /\ InStream(c)
  BY <1>2
<1> QED
  BY <1>1, <1>2

(* An RPC has sent one item at most, and its client has it or will get it. *)
LEMMA OneItem ==
  ASSUME StreamInv, NEW c \in Call
  PROVE  \E items \in Items : Sent(c, items)
<1>1. pc[c] \in InEngine \cup Over \cup {"idle", "drain"}
  BY DEF StreamInv, Types, Label
<1> QED
  BY <1>1 DEF StreamInv, Types, InCall, InStream, Items

(* What the client reads next is all it will have read. *)
LEMMA Reading ==
  ASSUME StreamInv, NEW c \in Call, Receive(c)
  PROVE  /\ heard[c] = <<>> /\ stream[c] \in Items /\ stream[c] # <<>>
         /\ heard' = [heard EXCEPT ![c] = stream[c]]
         /\ stream' = [stream EXCEPT ![c] = <<>>]
<1>1. PICK items \in Items : Sent(c, items)
  BY OneItem
<1>2. heard[c] = <<>> /\ stream[c] = items /\ stream[c] # <<>>
  BY <1>1 DEF Sent, Receive
<1>3. Append(heard[c], Head(stream[c])) = stream[c] /\ Tail(stream[c]) = <<>>
  <2>1. CASE items = <<2>>
    BY <1>2, <2>1, ItemFacts
  <2>2. CASE items = <<0>>
    BY <1>2, <2>2, ItemFacts
  <2> QED
    BY <1>2, <2>1, <2>2 DEF Items
<1> QED
  BY <1>2, <1>3 DEF Receive

(* A step of one RPC leaves the others alone. *)
LEMMA Others ==
  ASSUME StreamInv, NEW c \in Call, Step(c), NEW d \in Call, d # c
  PROVE  /\ kind'[d] = kind[d] /\ pc'[d] = pc[d] /\ result'[d] = result[d]
         /\ emitted'[d] = emitted[d] /\ forwarded'[d] = forwarded[d] /\ sup'[d] = sup[d]
         /\ stream'[d] = stream[d] /\ client'[d] = client[d] /\ heard'[d] = heard[d]
<1> USE DEF StreamInv, Types
<1>1. CASE \E k \in Switch \cup {"add"} : Begin(c, k)
  BY <1>1 DEF Begin
<1>2. CASE EnterUnlock(c) \/ Probe(c) \/ Commit(c) \/ EnterLock(c) \/ EnterAdd(c)
  BY <1>2 DEF EnterUnlock, Probe, Commit, EnterLock, EnterAdd
<1>3. CASE Put(c) \/ After(c) \/ StoreFails(c) \/ StoreFlag(c) \/ FindPoisoned(c) \/ Panic(c)
  BY <1>3 DEF Put, After, StoreFails, StoreFlag, FindPoisoned, Panic, Unwind
<1>4. CASE Forward(c) \/ GiveUp(c) \/ Finish(c) \/ Supervise(c)
  BY <1>4 DEF Forward, GiveUp, Finish, Supervise
<1>5. CASE Receive(c) \/ End(c) \/ HangUp(c)
  BY <1>5 DEF Receive, End, HangUp
<1> QED
  BY <1>1, <1>2, <1>3, <1>4, <1>5 DEF Step, Task, Listen

(* Every step gives the variables values of their types, *)
LEMMA StepTypes ==
  ASSUME StreamInv, NEW c \in Call, Step(c)
  PROVE  Types'
<1> USE StreamAssumption DEF StreamInv, Types, InCall, Label
<1>1. CASE \E k \in Switch \cup {"add"} : Begin(c, k)
  BY <1>1, ItemFacts DEF Begin, Items
<1>2. CASE EnterUnlock(c)
  BY <1>2 DEF EnterUnlock
<1>3. CASE Probe(c)
  BY <1>3 DEF Probe
<1>4. CASE Commit(c)
  BY <1>4 DEF Commit
<1>5. CASE EnterLock(c)
  BY <1>5 DEF EnterLock
<1>6. CASE EnterAdd(c)
  BY <1>6 DEF EnterAdd
<1>7. CASE Put(c)
  BY <1>7 DEF Put
<1>8. CASE After(c)
  BY <1>8 DEF After
<1>9. CASE StoreFails(c)
  BY <1>9 DEF StoreFails
<1>10. CASE StoreFlag(c)
  <2>1. flag' \in BOOLEAN /\ settled' \in BOOLEAN
    BY <1>10, Zenon DEF StoreFlag
  <2> QED
    BY <1>10, <2>1 DEF StoreFlag
<1>11. CASE FindPoisoned(c)
  BY <1>11 DEF FindPoisoned, Unwind
<1>12. CASE Panic(c)
  <2>1. poisoned' \in BOOLEAN
    BY <1>12, Zenon DEF Panic
  <2> QED
    BY <1>12, <2>1 DEF Panic, Unwind
<1>13. CASE Forward(c)
  <2>1. stream' = stream \/ \E i \in {0, 2} : stream[c] = <<>> /\ stream' = [stream EXCEPT ![c] = Append(@, i)]
    BY <1>13 DEF Forward, InStream, Sent, HasTwin
  <2>2. stream' \in [Call -> Items]
    <3>1. Append(<<>>, 0) \in Items /\ Append(<<>>, 2) \in Items
      BY ItemFacts DEF Items
    <3>2. stream' = stream \/ \E v \in Items : stream' = [stream EXCEPT ![c] = v]
      BY <2>1, <3>1
    <3> QED
      BY <3>2
  <2> QED
    BY <1>13, <2>2, forwarded[c] + 1 \in 0..2 DEF Forward
<1>14. CASE GiveUp(c)
  BY <1>14 DEF GiveUp
<1>15. CASE Finish(c)
  <2>1. stream' = stream \/ \E i \in {0, 2} : stream[c] = <<>> /\ stream' = [stream EXCEPT ![c] = Append(@, i)]
    BY <1>15 DEF Finish, InStream, Sent
  <2>2. stream' \in [Call -> Items]
    <3>1. Append(<<>>, 0) \in Items /\ Append(<<>>, 2) \in Items
      BY ItemFacts DEF Items
    <3>2. stream' = stream \/ \E v \in Items : stream' = [stream EXCEPT ![c] = v]
      BY <2>1, <3>1
    <3> QED
      BY <3>2
  <2> QED
    BY <1>15, <2>2 DEF Finish
<1>16. CASE Supervise(c)
  <2>1. stream' = stream \/ \E i \in {0, 2} : stream[c] = <<>> /\ stream' = [stream EXCEPT ![c] = Append(@, i)]
    BY <1>16 DEF Supervise, InStream, Sent
  <2>2. stream' \in [Call -> Items]
    <3>1. Append(<<>>, 0) \in Items /\ Append(<<>>, 2) \in Items
      BY ItemFacts DEF Items
    <3>2. stream' = stream \/ \E v \in Items : stream' = [stream EXCEPT ![c] = v]
      BY <2>1, <3>1
    <3> QED
      BY <3>2
  <2> QED
    BY <1>16, <2>2 DEF Supervise
<1>17. CASE Receive(c)
  <2>1. heard' \in [Call -> Items] /\ stream' \in [Call -> Items]
    BY <1>17, Reading DEF Items
  <2> QED
    BY <1>17, <2>1 DEF Receive
<1>18. CASE End(c)
  BY <1>18 DEF End
<1>19. CASE HangUp(c)
  BY <1>19, ItemFacts DEF HangUp, Items
<1> QED
  BY <1>1, <1>2, <1>3, <1>4, <1>5, <1>6, <1>7, <1>8, <1>9, <1>10, <1>11, <1>12, <1>13, <1>14,
     <1>15, <1>16, <1>17, <1>18, <1>19 DEF Step, Task, Listen

(* what happened in the call is what its thread says, *)
LEMMA StepInCall ==
  ASSUME StreamInv, NEW c \in Call, Step(c)
  PROVE  InCall(c)'
<1> USE DEF StreamInv, Types, InCall, InStream, Label
<1>1. CASE \E k \in Switch \cup {"add"} : Begin(c, k)
  BY <1>1 DEF Begin
<1>2. CASE EnterUnlock(c) \/ Probe(c)
  BY <1>2 DEF EnterUnlock, Probe
<1>3. CASE Commit(c) \/ EnterLock(c) \/ EnterAdd(c)
  BY <1>3 DEF Commit, EnterLock, EnterAdd
<1>4. CASE Put(c) \/ After(c) \/ StoreFails(c)
  BY <1>4 DEF Put, After, StoreFails
<1>5. CASE StoreFlag(c) \/ FindPoisoned(c) \/ Panic(c)
  BY <1>5 DEF StoreFlag, FindPoisoned, Panic, Unwind
<1>6. CASE Forward(c) \/ GiveUp(c) \/ Finish(c) \/ Supervise(c)
  BY <1>6 DEF Forward, GiveUp, Finish, Supervise
<1>7. CASE Receive(c) \/ End(c) \/ HangUp(c)
  BY <1>7 DEF Receive, End, HangUp
<1> QED
  BY <1>1, <1>2, <1>3, <1>4, <1>5, <1>6, <1>7 DEF Step, Task, Listen

(* and what was sent is what was forwarded, or the error. *)
LEMMA StepInStream ==
  ASSUME StreamInv, NEW c \in Call, Step(c)
  PROVE  InStream(c)'
<1> USE DEF StreamInv, Types, InCall, InStream, Sent, Label
<1>1. CASE \E k \in Switch \cup {"add"} : Begin(c, k)
  BY <1>1 DEF Begin
<1>2. CASE EnterUnlock(c) \/ Probe(c)
  BY <1>2 DEF EnterUnlock, Probe
<1>3. CASE Commit(c)
  BY <1>3 DEF Commit
<1>14. CASE EnterLock(c)
  BY <1>14 DEF EnterLock
<1>15. CASE EnterAdd(c)
  BY <1>15 DEF EnterAdd
<1>4. CASE Put(c) \/ After(c) \/ StoreFails(c)
  BY <1>4 DEF Put, After, StoreFails
<1>5. CASE StoreFlag(c)
  BY <1>5 DEF StoreFlag
<1>6. CASE FindPoisoned(c) \/ Panic(c)
  BY <1>6 DEF FindPoisoned, Panic, Unwind
<1>7. CASE Forward(c)
  BY <1>7, ItemFacts DEF Forward, HasTwin, Items
<1>8. CASE GiveUp(c)
  BY <1>8 DEF GiveUp
<1>9. CASE Finish(c)
  BY <1>9, ItemFacts DEF Finish, Items
<1>10. CASE Supervise(c)
  BY <1>10, ItemFacts DEF Supervise, Items
<1>11. CASE Receive(c)
  <2>1. PICK items \in Items : Sent(c, items) /\ stream[c] = items /\ heard[c] = <<>>
    BY <1>11, Reading, OneItem
  <2>2. heard'[c] = items /\ stream'[c] = <<>> /\ client[c] = "reading" /\ UNCHANGED client
    <3>1. heard'[c] = items /\ stream'[c] = <<>>
      BY <1>11, <2>1, Reading
    <3> QED
      BY <1>11, <3>1 DEF Receive
  <2>3. \A i \in Items : Sent(c, i) => Sent(c, i)'
    BY <1>11, <2>1, <2>2, Reading DEF Receive
  <2> QED
    BY <1>11, <2>2, <2>3 DEF Receive, Items
<1>12. CASE End(c)
  BY <1>12 DEF End
<1>13. CASE HangUp(c)
  BY <1>13 DEF HangUp
<1> QED
  BY <1>1, <1>2, <1>3, <1>4, <1>5, <1>6, <1>7, <1>8, <1>9, <1>10, <1>11, <1>12, <1>13,
     <1>14, <1>15 DEF Step, Task, Listen

LEMMA AlwaysStreamInv == Spec => []StreamInv
<1>1. ASSUME StreamInv, NEW c \in Call, Step(c) PROVE StreamInv'
  <2>1. ASSUME NEW d \in Call, d # c PROVE InCall(d)' /\ InStream(d)'
    BY <1>1, <2>1, Others DEF StreamInv, InCall, InStream, Sent
  <2> QED
    BY <1>1, <2>1, StepTypes, StepInCall, StepInStream DEF StreamInv
<1>2. StreamInv /\ UNCHANGED vars => StreamInv'
  BY DEF StreamInv, Types, InCall, InStream, Sent, vars
<1>3. StreamInv /\ [Next]_vars => StreamInv'
  BY <1>1, <1>2 DEF Next, Step
<1> QED
  BY <1>3, InitStream, PTL DEF Spec

(* Every variable keeps its type, and a stream never holds more than one item. *)
THEOREM TypeCorrect == Spec => []TypeOK
<1>1. StreamInv => TypeOK
  BY ItemFacts DEF StreamInv, Types, TypeOK
<1> QED
  BY <1>1, AlwaysStreamInv, PTL

(* A stream that ended without an error belongs to a call that was done. *)
THEOREM NoMaskedFailure == Spec => []CleanEndMeansDone
<1>1. ASSUME StreamInv, NEW c \in Call, client[c] = "ended",
             \A i \in DOMAIN heard[c] : heard[c][i] # Failure
      PROVE  result[c] = "ok" /\ heard[c] = IF emitted[c] = 2 THEN <<2>> ELSE <<>>
  <2>1. pc[c] \in Over /\ sup[c] = "over" /\ stream[c] = <<>>
    BY <1>1 DEF StreamInv, InStream
  <2>2. ~Sent(c, <<0>>)
    BY <1>1, <2>1 DEF Sent
  <2>3. pc[c] = "done" /\ result[c] = "ok"
    BY <1>1, <2>1, <2>2 DEF StreamInv, InCall, InStream
  <2> QED
    BY <1>1, <2>1, <2>3 DEF StreamInv, InStream, Sent
<1>2. StreamInv => CleanEndMeansDone
  BY <1>1 DEF CleanEndMeansDone
<1> QED
  BY <1>2, AlwaysStreamInv, PTL

-----------------------------------------------------------------------------
(* A lock or unlock under way. *)
Changing(c) == kind[c] \in Switch /\ pc[c] \in InEngine

Matches(c) == unlocked <=> kind[c] = "unlock"

(* Overlapping ones are contested; one that is not left the vault as it says, and the  *)
(* flag is due since the vault changed.                                                *)
Changes ==
  /\ \A c, d \in Call : Changing(c) /\ Changing(d) /\ c # d => c \in contested
  /\ \A c \in Call : pc[c] \in {"probe", "commit"} => kind[c] = "unlock"
  /\ \A c \in Call : pc[c] = "put" => kind[c] = "add"
  /\ \A c \in Call : Changing(c) /\ pc[c] = "after" => ~settled
  /\ \A c \in Call : Changing(c) /\ pc[c] = "after" /\ c \notin contested => Matches(c)
  /\ \A c \in Call : /\ Changing(c) /\ pc[c] = "answered" /\ result[c] = "ok"
                     /\ settled \/ c \notin contested
                     => Matches(c)
  /\ settled => (flag <=> unlocked)

LEMMA ChangesStep ==
  ASSUME StreamInv, Changes, NEW c \in Call, Step(c)
  PROVE  Changes'
<1> USE DEF StreamInv, Types, Changes, Changing, Matches
<1>1. CASE \E k \in Switch \cup {"add"} : Begin(c, k)
  BY <1>1 DEF Begin
<1>2. CASE EnterUnlock(c)
  BY <1>2 DEF EnterUnlock
<1>3. CASE Probe(c)
  BY <1>3 DEF Probe
<1>4. CASE Commit(c)
  BY <1>4 DEF Commit
<1>5. CASE EnterLock(c)
  BY <1>5 DEF EnterLock
<1>6. CASE EnterAdd(c)
  BY <1>6 DEF EnterAdd
<1>7. CASE Put(c)
  BY <1>7 DEF Put
<1>8. CASE After(c)
  BY <1>8 DEF After
<1>9. CASE StoreFails(c)
  BY <1>9 DEF StoreFails
<1>10. CASE StoreFlag(c)
  BY <1>10 DEF StoreFlag
<1>11. CASE FindPoisoned(c)
  BY <1>11 DEF FindPoisoned, Unwind
<1>12. CASE Panic(c)
  BY <1>12 DEF Panic, Unwind
<1>13. CASE Forward(c) \/ GiveUp(c) \/ Finish(c) \/ Supervise(c)
  BY <1>13 DEF Forward, GiveUp, Finish, Supervise
<1>14. CASE Receive(c) \/ End(c) \/ HangUp(c)
  BY <1>14 DEF Receive, End, HangUp
<1> QED
  BY <1>1, <1>2, <1>3, <1>4, <1>5, <1>6, <1>7, <1>8, <1>9, <1>10, <1>11, <1>12, <1>13, <1>14
     DEF Step, Task, Listen

(* Lock.Status answers with the state of the vault, from the answer of a lock or       *)
(* unlock that none overlapped until the vault changes again.                          *)
THEOREM StatusIsTrue == Spec => []FlagFollowsVault
<1>1. Init => Changes
  BY DEF Init, Changes, Changing, Matches
<1>2. Changes /\ UNCHANGED vars => Changes'
  BY DEF Changes, Changing, Matches, vars
<1>3. StreamInv /\ Changes /\ [Next]_vars => Changes'
  BY <1>2, ChangesStep DEF Next, Step
<1>4. StreamInv /\ Changes => FlagFollowsVault
  BY DEF StreamInv, Types, Changes, FlagFollowsVault
<1> QED
  BY <1>1, <1>3, <1>4, AlwaysStreamInv, PTL DEF Spec
-----------------------------------------------------------------------------
(***************************************************************************)
(* How many steps an RPC has still to take at the most: those of its       *)
(* thread, each event left in the queue for two, as its twin has to be     *)
(* received too; the supervisor for two; an item on the stream; and the    *)
(* end of the stream.                                                      *)
(***************************************************************************)
InThread ==
  [enter |-> 11, probe |-> 10, commit |-> 9, put |-> 9, after |-> 8, answered |-> 7,
   drain |-> 2, done |-> 0, panicked |-> 0, idle |-> 0]
Queued(c) == IF pc[c] = "drain" THEN 2 * (emitted[c] - forwarded[c]) ELSE 0
Watched(c) == IF sup[c] = "waiting" THEN 2 ELSE 0
OnStream(c) == IF stream[c] = <<>> THEN 0 ELSE 1
Open(c) == IF client[c] = "reading" THEN 1 ELSE 0
Left(c) == InThread[pc[c]] + Queued(c) + Watched(c) + OnStream(c) + Open(c)

GoesOn(c) ==
  Task(c) \/ Supervise(c) \/ Listen(c) \/ HangUp(c) \/ StoreFails(c) \/ Panic(c)

LEMMA Weights ==
  /\ InThread["enter"] = 11 /\ InThread["probe"] = 10 /\ InThread["commit"] = 9
  /\ InThread["put"] = 9 /\ InThread["after"] = 8 /\ InThread["answered"] = 7
  /\ InThread["drain"] = 2 /\ InThread["done"] = 0 /\ InThread["panicked"] = 0
  /\ InThread["idle"] = 0
  BY DEF InThread

LEMMA LeftIsBounded ==
  ASSUME StreamInv, NEW c \in Call
  PROVE  Left(c) \in 0..15
<1>1. /\ InThread[pc[c]] \in 0..11 /\ (pc[c] = "drain" => InThread[pc[c]] = 2)
      /\ Queued(c) \in 0..4 /\ (pc[c] # "drain" => Queued(c) = 0)
  BY Weights DEF StreamInv, Types, Label, InCall, Queued
<1>2. Watched(c) \in {0, 2} /\ OnStream(c) \in {0, 1} /\ Open(c) \in {0, 1}
  BY DEF Watched, OnStream, Open
<1> QED
  BY <1>1, <1>2 DEF Left

LEMMA GoesOnShortens ==
  ASSUME StreamInv, NEW c \in Call, GoesOn(c)
  PROVE  Left(c)' < Left(c)
<1>1. /\ OnStream(c) \in {0, 1} /\ OnStream(c)' \in {0, 1}
      /\ Open(c) \in {0, 1} /\ Watched(c) \in {0, 2}
      /\ emitted[c] \in 0..2 /\ forwarded[c] \in 0..2 /\ forwarded[c] <= emitted[c]
  BY DEF OnStream, Open, Watched, StreamInv, Types, InCall
<1>2. ASSUME stream'[c] = stream[c], client'[c] = client[c], sup'[c] = sup[c]
      PROVE  OnStream(c)' = OnStream(c) /\ Open(c)' = Open(c) /\ Watched(c)' = Watched(c)
  BY <1>2 DEF OnStream, Open, Watched
<1> USE Weights DEF StreamInv, Types, Left
(* The engine call, to its answer or a panic. *)
<1>3. CASE \/ EnterUnlock(c) \/ Probe(c) \/ Commit(c) \/ EnterLock(c) \/ EnterAdd(c)
           \/ Put(c) \/ After(c) \/ StoreFails(c) \/ FindPoisoned(c) \/ Panic(c)
  <2>1. /\ \/ pc[c] = "enter" /\ pc'[c] \in {"probe", "put", "after", "answered", "panicked"}
           \/ pc[c] = "probe" /\ pc'[c] \in {"commit", "answered", "panicked"}
           \/ pc[c] \in {"commit", "put"} /\ pc'[c] \in {"after", "answered", "panicked"}
           \/ pc[c] = "after" /\ pc'[c] \in {"answered", "panicked"}
        /\ stream'[c] = stream[c] /\ client'[c] = client[c] /\ sup'[c] = sup[c]
    <3>1. CASE EnterUnlock(c) \/ Probe(c) \/ Commit(c) \/ EnterLock(c) \/ EnterAdd(c)
      BY <3>1 DEF EnterUnlock, Probe, Commit, EnterLock, EnterAdd
    <3>2. CASE Put(c) \/ After(c) \/ StoreFails(c)
      BY <3>2 DEF Put, After, StoreFails
    <3>3. CASE FindPoisoned(c) \/ Panic(c)
      BY <3>3 DEF FindPoisoned, Panic, Unwind
    <3> QED
      BY <1>3, <3>1, <3>2, <3>3
  <2>2. /\ pc[c] # "drain" /\ pc'[c] # "drain"
        /\ InThread[pc'[c]] < InThread[pc[c]]
        /\ InThread[pc'[c]] \in Nat /\ InThread[pc[c]] \in Nat
    BY <2>1
  <2>3. Queued(c) = 0 /\ Queued(c)' = 0
    BY <2>2 DEF Queued
  <2> QED
    BY <1>1, <1>2, <2>1, <2>2, <2>3
<1>4. CASE StoreFlag(c)
  <2>1. /\ pc[c] = "answered" /\ pc'[c] = "drain"
        /\ emitted'[c] = emitted[c] /\ forwarded'[c] = forwarded[c]
        /\ stream'[c] = stream[c] /\ client'[c] = client[c] /\ sup'[c] = sup[c]
    BY <1>4 DEF StoreFlag
  <2> QED
    BY <1>1, <1>2, <2>1 DEF Queued
(* The queue. *)
<1>5. CASE Forward(c)
  <2>1. /\ pc[c] = "drain" /\ pc'[c] = "drain" /\ emitted'[c] = emitted[c]
        /\ forwarded'[c] = forwarded[c] + 1
        /\ client'[c] = client[c] /\ sup'[c] = sup[c]
    BY <1>5 DEF Forward
  <2>2. Open(c)' = Open(c) /\ Watched(c)' = Watched(c)
    BY <2>1 DEF Open, Watched
  <2>3. Queued(c)' = Queued(c) - 2 /\ Queued(c) \in Int
    BY <1>1, <2>1 DEF Queued
  <2> QED
    BY <1>1, <2>1, <2>2, <2>3
<1>6. CASE Finish(c) \/ GiveUp(c)
  <2>1. /\ pc[c] = "drain" /\ pc'[c] = "done"
        /\ client'[c] = client[c] /\ sup'[c] = sup[c]
    BY <1>6 DEF Finish, GiveUp
  <2>2. Open(c)' = Open(c) /\ Watched(c)' = Watched(c)
    BY <2>1 DEF Open, Watched
  <2>3. Queued(c) \in Nat /\ Queued(c)' = 0
    BY <1>1, <2>1 DEF Queued
  <2> QED
    BY <1>1, <2>1, <2>2, <2>3
(* The supervisor and the client. *)
<1>7. CASE Supervise(c)
  <2>1. /\ pc'[c] = pc[c] /\ pc[c] # "drain" /\ client'[c] = client[c]
        /\ sup[c] = "waiting" /\ sup'[c] = "over"
    BY <1>7 DEF Supervise
  <2>2. /\ Queued(c) = 0 /\ Queued(c)' = 0 /\ Open(c)' = Open(c)
        /\ Watched(c) = 2 /\ Watched(c)' = 0
    BY <2>1 DEF Queued, Open, Watched
  <2>3. InThread[pc[c]] \in Nat /\ InThread[pc'[c]] = InThread[pc[c]]
    BY <2>1 DEF Label
  <2> QED
    BY <1>1, <2>2, <2>3
<1>8. CASE Receive(c) \/ End(c) \/ HangUp(c)
  <2>1. /\ pc'[c] = pc[c] /\ emitted'[c] = emitted[c] /\ forwarded'[c] = forwarded[c]
        /\ sup'[c] = sup[c] /\ client[c] = "reading"
        /\ \/ client'[c] = "reading" /\ stream[c] # <<>> /\ stream'[c] = <<>>
           \/ client'[c] # "reading" /\ (stream'[c] = stream[c] \/ stream'[c] = <<>>)
    <3>1. CASE Receive(c)
      BY <3>1, Reading DEF Receive
    <3>2. CASE End(c) \/ HangUp(c)
      BY <3>2 DEF End, HangUp
    <3> QED
      BY <1>8, <3>1, <3>2
  <2>2. Queued(c)' = Queued(c) /\ Watched(c)' = Watched(c)
    BY <2>1 DEF Queued, Watched
  <2>3. Open(c)' + OnStream(c)' < Open(c) + OnStream(c) /\ Open(c)' \in {0, 1}
    BY <2>1 DEF Open, OnStream
  <2>4. Queued(c) \in Int
    BY <1>1 DEF Queued
  <2>5. InThread[pc[c]] \in Nat /\ InThread[pc'[c]] = InThread[pc[c]]
    BY <2>1 DEF Label
  <2> QED
    BY <1>1, <2>2, <2>3, <2>4, <2>5
<1> QED
  BY <1>3, <1>4, <1>5, <1>6, <1>7, <1>8 DEF GoesOn, Task, Listen

(* An RPC does not go in circles (audit.rs run_streaming): from its request on it takes no *)
(* more than 15 steps, those of its client and its failures included, and nothing that     *)
(* befalls another RPC adds to them.                                                       *)
THEOREM RpcsTerminate ==
  Spec => /\ [](\A c \in Call : Left(c) \in 0..15)
          /\ [][\A c \in Call :
                  /\ GoesOn(c) => Left(c)' < Left(c)
                  /\ ~(\E k \in Switch \cup {"add"} : Begin(c, k)) => Left(c)' <= Left(c)]_vars
<1> DEFINE Shorter == \A c \in Call :
             /\ GoesOn(c) => Left(c)' < Left(c)
             /\ ~(\E k \in Switch \cup {"add"} : Begin(c, k)) => Left(c)' <= Left(c)
           Counts == \A c \in Call : Left(c) \in 0..15
<1>1. ASSUME StreamInv, Counts, Counts', [Next]_vars PROVE Shorter
  <2>1. ASSUME NEW c \in Call, GoesOn(c) PROVE Left(c)' < Left(c)
    BY <1>1, <2>1, GoesOnShortens
  <2>2. ASSUME NEW c \in Call, ~(\E k \in Switch \cup {"add"} : Begin(c, k))
        PROVE  Left(c)' <= Left(c)
    <3>1. Left(c) \in Nat /\ Left(c)' \in Nat
      <4>1. Left(c) \in 0..15 /\ Left(c)' \in 0..15
        BY <1>1
      <4> QED
        BY <4>1
    <3>2. CASE UNCHANGED vars
      BY <3>1, <3>2 DEF vars, Left, Queued, Watched, OnStream, Open
    <3>3. ASSUME NEW d \in Call, Step(d), d # c PROVE Left(c)' <= Left(c)
      <4>1. Left(c)' = Left(c)
        BY <1>1, <3>3, Others DEF Left, Queued, Watched, OnStream, Open
      <4> QED
        BY <3>1, <4>1
    <3>4. CASE Step(c)
      BY <2>1, <2>2, <3>1, <3>4 DEF Step, GoesOn
    <3> QED
      BY <1>1, <3>2, <3>3, <3>4 DEF Next, Step
  <2> QED
    BY <2>1, <2>2
<1>2. StreamInv => Counts
  BY LeftIsBounded
<1>3. Spec => [](StreamInv /\ Counts)
  BY <1>2, AlwaysStreamInv, PTL
<1> QED
  BY <1>1, <1>3, PTL DEF Spec

=============================================================================
