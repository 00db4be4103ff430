------------------------------ MODULE EventStream ------------------------------
(***************************************************************************)
(* The streaming RPCs of the daemon (secretd/src/audit.rs: run_streaming;  *)
(* grpc.rs: Vault.Add, Lock.Unlock, Lock.LockNow, Lock.Status).  Each runs *)
(* its engine call on a blocking thread.  The call queues its events on an *)
(* unbounded channel; when it has returned, the thread forwards those that *)
(* the protocol knows over the response stream, and ends that with the     *)
(* error of the call, if any.  A supervisor waits for the thread and tells *)
(* the client when it panicked.  Clients read at their own pace, or not at *)
(* all, or hang up.  Unlock and LockNow leave their outcome in a flag,     *)
(* which is what Lock.Status answers from.                                 *)
(*                                                                         *)
(* An event is its number within the call: 1 is the audit row, 2 what was  *)
(* done.  Of the engine the model keeps the vault lock, the lock state,    *)
(* the events and the outcome.  The room in a response stream, 64 items,   *)
(* is left out: TypeOK bounds them by one.                                 *)
(***************************************************************************)
EXTENDS Integers, Sequences

CONSTANTS
  Call,      \* as many RPCs as there are at a time
  Patient,   \* those whose client reads its stream to the end
  MaxCalls,  \* bound on the RPCs ever made
  Mishap     \* the faults the environment may inject

ASSUME StreamAssumption ==
  /\ Patient \subseteq Call
  /\ MaxCalls \in Nat
  /\ Mishap \subseteq {"storeError", "panic"}

VARIABLES
  unlocked,   \* engine: the vault holds the DEK
  poisoned,   \* engine: a call panicked while it held the vault lock exclusively
  flag,       \* DaemonState.unlocked
  kind,       \* which RPC a call is
  pc,         \* where its blocking thread is
  result,     \* what the engine call returned
  emitted,    \* how many events it queued
  forwarded,  \* how many of them the thread took from the queue
  sup,        \* whether the supervisor still holds its sender
  stream,     \* the response stream
  client,     \* what the client does
  heard,      \* what it has received
  calls,      \* the RPCs made so far
  contested,  \* history: the locks and unlocks that overlapped another one
  settled     \* history: the last change of the vault was answered, uncontested

engine == <<unlocked, poisoned, result, emitted>>
channel == <<forwarded, sup, stream, client, heard>>
history == <<calls, contested, settled>>
vars == <<engine, flag, kind, pc, channel, history>>

Failure == 0   \* the terminal Err(Status) item

(* Mutant: every event goes to the client. *)
HasTwinAlways(event) == TRUE

(* event_to_proto: audit records have no twin in the protocol. *)
HasTwin(event) == event = 2

InEngine == {"enter", "probe", "commit", "put", "after", "answered"}
Over == {"done", "panicked"}
Label == InEngine \cup Over \cup {"idle", "drain"}
Switch == {"unlock", "lock"}

-----------------------------------------------------------------------------
Init ==
  /\ unlocked = FALSE
  /\ poisoned = FALSE
  /\ flag = FALSE
  /\ kind = [c \in Call |-> "none"]
  /\ pc = [c \in Call |-> "idle"]
  /\ result = [c \in Call |-> "none"]
  /\ emitted = [c \in Call |-> 0]
  /\ forwarded = [c \in Call |-> 0]
  /\ sup = [c \in Call |-> "waiting"]
  /\ stream = [c \in Call |-> <<>>]
  /\ client = [c \in Call |-> "none"]
  /\ heard = [c \in Call |-> <<>>]
  /\ calls = 0
  /\ contested = {}
  /\ settled = TRUE

Goto(c, label) == pc' = [pc EXCEPT ![c] = label]

(* Mutant: a put keeps the lock over its audit row. *)
LockFreeLate ==
  ~poisoned /\ \A c \in Call : pc[c] # "put" /\ ~(pc[c] = "after" /\ kind[c] = "add")

(* The vault lock can be had: no put holds it, the other calls hold it for one step. *)
LockFree == ~poisoned /\ \A c \in Call : pc[c] # "put"

(* The engine call returns with this outcome and its last events. *)
Answer(c, outcome, events) ==
  /\ result' = [result EXCEPT ![c] = outcome]
  /\ emitted' = [emitted EXCEPT ![c] = @ + events]
  /\ Goto(c, "answered")

-----------------------------------------------------------------------------
(***************************************************************************)
(* A request: the handler starts the thread and the supervisor, and        *)
(* returns the stream.  What an RPC that is over leaves behind is reused.  *)
(***************************************************************************)
Begin(c, k) ==
  /\ calls < MaxCalls
  /\ calls' = calls + 1
  /\ client[c] # "reading"
  /\ kind[c] # "none" => pc[c] \in Over /\ sup[c] = "over"
  /\ kind' = [kind EXCEPT ![c] = k]
  /\ Goto(c, "enter")
  /\ result' = [result EXCEPT ![c] = "none"]
  /\ emitted' = [emitted EXCEPT ![c] = 0]
  /\ forwarded' = [forwarded EXCEPT ![c] = 0]
  /\ sup' = [sup EXCEPT ![c] = "waiting"]
  /\ stream' = [stream EXCEPT ![c] = <<>>]
  /\ client' = [client EXCEPT ![c] = "reading"]
  /\ heard' = [heard EXCEPT ![c] = <<>>]
  /\ contested' =
       LET others == {d \in Call : kind[d] \in Switch /\ pc[d] \in InEngine} IN
       IF k \in Switch /\ others # {} THEN contested \cup others \cup {c} ELSE contested
  /\ UNCHANGED <<unlocked, poisoned, flag, settled>>

(* unlock: an open vault is Ok at once, *)
EnterUnlock(c) ==
  /\ pc[c] = "enter" /\ kind[c] = "unlock"
  /\ LockFree
  /\ IF unlocked
     THEN Answer(c, "ok", 0)
     ELSE Goto(c, "probe") /\ UNCHANGED <<result, emitted>>
  /\ UNCHANGED <<unlocked, poisoned, flag, kind, channel, history>>

(* the factor or a check of the store may refuse, otherwise the vault can be opened:   *)
(* either way an audit row is written and mirrored, *)
Probe(c) ==
  /\ pc[c] = "probe"
  /\ LockFree
  /\ \/ Answer(c, "err", 1)
     \/ /\ emitted' = [emitted EXCEPT ![c] = 1]
        /\ Goto(c, "commit")
        /\ UNCHANGED result
  /\ UNCHANGED <<unlocked, poisoned, flag, kind, channel, history>>

(* and the DEK becomes resident. *)
Commit(c) ==
  /\ pc[c] = "commit"
  /\ LockFree
  /\ unlocked' = TRUE
  /\ settled' = FALSE
  /\ Goto(c, "after")
  /\ UNCHANGED <<poisoned, result, emitted, flag, kind, channel, calls, contested>>

(* lock: the DEK is wiped first. *)
EnterLock(c) ==
  /\ pc[c] = "enter" /\ kind[c] = "lock"
  /\ LockFree
  /\ unlocked' = FALSE
  /\ settled' = FALSE
  /\ Goto(c, "after")
  /\ UNCHANGED <<poisoned, result, emitted, flag, kind, channel, calls, contested>>

(* secret_put: a locked vault refuses; otherwise the lock is kept while the row is     *)
(* sealed and stored.                                                                  *)
EnterAdd(c) ==
  /\ pc[c] = "enter" /\ kind[c] = "add"
  /\ LockFree
  /\ IF unlocked
     THEN Goto(c, "put") /\ UNCHANGED <<result, emitted>>
     ELSE Answer(c, "err", 0)
  /\ UNCHANGED <<unlocked, poisoned, flag, kind, channel, history>>

Put(c) ==
  /\ pc[c] = "put"
  /\ Goto(c, "after")
  /\ UNCHANGED <<engine, flag, kind, channel, history>>

(* The audit row of lock or secret_put, or the anchor that unlock advances, for which  *)
(* the vault is read; then the event of what was done.                                 *)
After(c) ==
  /\ pc[c] = "after"
  /\ LockFree
  /\ Answer(c, "ok", 2 - emitted[c])
  /\ UNCHANGED <<unlocked, poisoned, flag, kind, channel, history>>

(* The store fails, or is not initialised, with nothing written, with the secret       *)
(* stored, or with the vault changed already.                                          *)
StoreFails(c) ==
  /\ "storeError" \in Mishap
  /\ pc[c] \in {"probe", "put", "after"}
  /\ Answer(c, "err", 0)
  /\ UNCHANGED <<unlocked, poisoned, flag, kind, channel, history>>

(* Mutant: the flag is stored whatever the outcome. *)
StoreFlagAnyway(c) ==
  /\ pc[c] = "answered"
  /\ flag' = IF kind[c] \in Switch THEN kind[c] = "unlock" ELSE flag
  /\ settled' = (settled \/ (result[c] = "ok" /\ kind[c] \in Switch /\ c \notin contested))
  /\ contested' = contested \ {c}
  /\ Goto(c, "drain")
  /\ UNCHANGED <<engine, kind, channel, calls>>

(* The closure of the handler: an Ok of unlock or lock is mirrored in the flag. *)
StoreFlag(c) ==
  /\ pc[c] = "answered"
  /\ flag' = IF result[c] = "ok" /\ kind[c] \in Switch THEN kind[c] = "unlock" ELSE flag
  /\ settled' = (settled \/ (result[c] = "ok" /\ kind[c] \in Switch /\ c \notin contested))
  /\ contested' = contested \ {c}
  /\ Goto(c, "drain")
  /\ UNCHANGED <<engine, kind, channel, calls>>

(* The thread panics: its events are dropped with the queue. *)
Unwind(c) ==
  /\ result' = [result EXCEPT ![c] = "panic"]
  /\ contested' = contested \ {c}
  /\ Goto(c, "panicked")
  /\ UNCHANGED <<unlocked, emitted, flag, kind, channel, calls, settled>>

(* The engine panics; in a put that poisons the vault lock, *)
Panic(c) ==
  /\ "panic" \in Mishap
  /\ pc[c] \in InEngine \ {"answered"}
  /\ poisoned' = (poisoned \/ pc[c] = "put")
  /\ Unwind(c)

(* and then every call that wants the lock panics. *)
FindPoisoned(c) ==
  /\ poisoned
  /\ pc[c] \in {"enter", "probe", "commit", "after"}
  /\ Unwind(c)
  /\ UNCHANGED poisoned

-----------------------------------------------------------------------------
Send(c, item) == stream' = [stream EXCEPT ![c] = Append(@, item)]

(* The thread takes the next event from the queue and forwards its twin; *)
Forward(c) ==
  /\ pc[c] = "drain"
  /\ forwarded[c] < emitted[c]
  /\ forwarded' = [forwarded EXCEPT ![c] = @ + 1]
  /\ IF HasTwin(forwarded'[c]) THEN client[c] # "gone" /\ Send(c, forwarded'[c]) ELSE UNCHANGED stream
  /\ UNCHANGED <<engine, flag, kind, pc, sup, client, heard, history>>

(* when the client has hung up, it stops there; *)
GiveUp(c) ==
  /\ pc[c] = "drain"
  /\ forwarded[c] < emitted[c]
  /\ HasTwin(forwarded[c] + 1)
  /\ client[c] = "gone"
  /\ Goto(c, "done")
  /\ UNCHANGED <<engine, flag, kind, channel, history>>

(* after the last one, an error of the call follows, if the client is there. *)
Finish(c) ==
  /\ pc[c] = "drain"
  /\ forwarded[c] = emitted[c]
  /\ IF result[c] = "err" /\ client[c] # "gone" THEN Send(c, Failure) ELSE UNCHANGED stream
  /\ Goto(c, "done")
  /\ UNCHANGED <<engine, flag, kind, forwarded, sup, client, heard, history>>

(* Mutant: the supervisor drops its sender without a word. *)
SuperviseSilently(c) ==
  /\ sup[c] = "waiting"
  /\ pc[c] \in Over
  /\ sup' = [sup EXCEPT ![c] = "over"]
  /\ UNCHANGED <<engine, flag, kind, pc, forwarded, stream, client, heard, history>>

(* Mutant: the supervisor drops its sender after a panic only. *)
SuperviseForever(c) ==
  /\ sup[c] = "waiting"
  /\ pc[c] = "panicked"
  /\ IF client[c] # "gone" THEN Send(c, Failure) ELSE UNCHANGED stream
  /\ sup' = [sup EXCEPT ![c] = "over"]
  /\ UNCHANGED <<engine, flag, kind, pc, forwarded, client, heard, history>>

(* The supervisor has joined the thread: it reports a panic, and drops its sender. *)
Supervise(c) ==
  /\ sup[c] = "waiting"
  /\ pc[c] \in Over
  /\ IF pc[c] = "panicked" /\ client[c] # "gone"
     THEN Send(c, Failure)
     ELSE UNCHANGED stream
  /\ sup' = [sup EXCEPT ![c] = "over"]
  /\ UNCHANGED <<engine, flag, kind, pc, forwarded, client, heard, history>>

-----------------------------------------------------------------------------
Receive(c) ==
  /\ client[c] = "reading"
  /\ stream[c] # <<>>
  /\ heard' = [heard EXCEPT ![c] = Append(@, Head(stream[c]))]
  /\ stream' = [stream EXCEPT ![c] = Tail(@)]
  /\ UNCHANGED <<engine, flag, kind, pc, forwarded, sup, client, history>>

(* The stream ends when it is empty and both senders are dropped. *)
End(c) ==
  /\ client[c] = "reading"
  /\ stream[c] = <<>>
  /\ pc[c] \in Over
  /\ sup[c] = "over"
  /\ client' = [client EXCEPT ![c] = "ended"]
  /\ UNCHANGED <<engine, flag, kind, pc, forwarded, sup, stream, heard, history>>

HangUp(c) ==
  /\ c \notin Patient
  /\ client[c] = "reading"
  /\ client' = [client EXCEPT ![c] = "gone"]
  /\ stream' = [stream EXCEPT ![c] = <<>>]
  /\ UNCHANGED <<engine, flag, kind, pc, forwarded, sup, heard, history>>

-----------------------------------------------------------------------------
(* What the runtime runs: the blocking thread of a call, and its supervisor. *)
Task(c) ==
  \/ EnterUnlock(c) \/ Probe(c) \/ Commit(c) \/ EnterLock(c) \/ EnterAdd(c) \/ Put(c)
  \/ After(c) \/ StoreFlag(c) \/ FindPoisoned(c)
  \/ Forward(c) \/ Finish(c) \/ GiveUp(c)

Listen(c) == Receive(c) \/ End(c)

Next ==
  \E c \in Call :
    \/ \E k \in Switch \cup {"add"} : Begin(c, k)
    \/ Task(c) \/ Supervise(c) \/ Listen(c) \/ HangUp(c)
    \/ StoreFails(c) \/ Panic(c)

(* Threads and supervisors run on, and need no failure for it; only patient clients    *)
(* are sure to read on.                                                                *)
Fairness ==
  /\ \A c \in Call : WF_vars(Task(c)) /\ WF_vars(Supervise(c))
  /\ \A c \in Patient : WF_vars(Listen(c))

Spec == Init /\ [][Next]_vars /\ Fairness

-----------------------------------------------------------------------------
(***************************************************************************)
(* Properties.                                                             *)
(***************************************************************************)

(* Every variable has its type, and no call has more than one item to send.  *)
TypeOK ==
  /\ unlocked \in BOOLEAN
  /\ poisoned \in BOOLEAN
  /\ flag \in BOOLEAN
  /\ kind \in [Call -> Switch \cup {"none", "add"}]
  /\ pc \in [Call -> Label]
  /\ result \in [Call -> {"none", "ok", "err", "panic"}]
  /\ emitted \in [Call -> 0..2]
  /\ forwarded \in [Call -> 0..2]
  /\ sup \in [Call -> {"waiting", "over"}]
  /\ stream \in [Call -> Seq(0..2)]
  /\ client \in [Call -> {"none", "reading", "ended", "gone"}]
  /\ heard \in [Call -> Seq(0..2)]
  /\ calls \in 0..MaxCalls
  /\ contested \subseteq Call
  /\ settled \in BOOLEAN
  /\ \A c \in Call : Len(stream[c]) <= 1

(* "a streaming RPC surfaces an engine panic as an error rather than masking it as a  *)
(* clean empty-success stream" (audit.rs:30-31): a client that read to the end without*)
(* an error item knows that the call returned Ok, and what it did, if anything.       *)
CleanEndMeansDone ==
  \A c \in Call :
    client[c] = "ended" /\ (\A i \in DOMAIN heard[c] : heard[c][i] # Failure) =>
      /\ result[c] = "ok"
      /\ heard[c] = IF emitted[c] = 2 THEN <<2>> ELSE <<>>

(* "Mirror of the last successful Unlock/Lock outcome" (grpc.rs:31): Lock.Status tells *)
(* the truth from the answer of a lock or unlock that overlapped no other until the    *)
(* vault changes again, whatever other calls failed, panicked or overlapped before.    *)
FlagFollowsVault ==
  settled => flag = unlocked

(* "release the write lock before audit so we never hold a lock across a store write   *)
(* that itself takes a lock" (lib.rs:546-547): whatever fails, panics or hangs up, no  *)
(* engine call waits for another, or for a client, for ever.                           *)
CallsFinish ==
  \A c \in Call : (pc[c] \in InEngine) ~> (pc[c] \notin InEngine)

(* A client that reads on sees its stream end, whatever befalls the call.              *)
StreamsEnd ==
  \A c \in Patient : (client[c] = "reading") ~> (client[c] = "ended")
=============================================================================
