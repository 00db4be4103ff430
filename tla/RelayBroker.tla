----------------------------- MODULE RelayBroker -----------------------------
(***************************************************************************)
(* The credential broker of the secrets engine: minting, revoking and      *)
(* swapping relay bearers while the vault is locked and unlocked and the   *)
(* USB key may be absent whenever it is probed (secrets-engine/src/lib.rs, *)
(* `mint_bearer_core`, `relay_revoke`, `relay_revoke_bearer`,              *)
(* `relay_swap`, `relay_swap_prepare`, `lock`, `unlock`).                  *)
(*                                                                         *)
(* Calls run on a pool of blocking threads and share the store, the RAM    *)
(* counters and the vault's RwLock.  One store call, one lock operation or *)
(* one probe is one step.  The RwLock is the one of the Rust standard      *)
(* library on Linux: a queued writer holds new readers back, so a thread   *)
(* that took the lock shared twice could wait for itself.                  *)
(*                                                                         *)
(* Time, hosts, paths and peers are left out: a swap may always be denied  *)
(* for one of them ("other").  The store saves a policy in one step and    *)
(* keeps its row id, as the in-memory one does.                            *)
(***************************************************************************)
EXTENDS Integers, FiniteSets

CONSTANTS
  Thread,           \* threads of the blocking pool
  Relay, NoRelay,   \* relay ids
  Token, NoToken,   \* bearers that may be minted; a token id is never drawn twice
  Given,            \* the bearers minted before
  Quota,            \* the request budgets a mint may ask for
  MaxCalls,         \* bound on the calls ever made
  Mishap            \* the faults the environment may inject

ASSUME BrokerAssumption ==
  /\ IsFiniteSet(Thread)
  /\ IsFiniteSet(Token)
  /\ NoRelay \notin Relay
  /\ NoToken \notin Token
  /\ Given \subseteq Token
  /\ Quota \subseteq Nat
  /\ MaxCalls \in Nat
  /\ Mishap \subseteq {"crash", "storeError"}

VARIABLES
  policy,    \* store: per relay, its state and request budget
  bearer,    \* store: per token, its state, its relay, and the state its row MAC covers
  used,      \* RAM: requests counted per token (Broker::counters)
  vault,     \* "locked" or "unlocked" (the DEK is resident)
  readers,   \* threads holding the vault lock shared
  pc,        \* where each thread is in its call
  op,        \* the call each thread is in
  relay,     \* local: the relay of a mint or revoke, or of the bearer a swap loaded
  token,     \* local: the bearer a revoke or swap is about
  quota,     \* local: the budget a mint asks for, or of the policy a call loaded
  found,     \* local: the state of what a call loaded
  todo,      \* local: the bearers a revoke has still to flip
  verdict,   \* local: how a swap was decided
  calls,     \* the calls made so far
  dead,      \* history: bearers some revoke reported on with Ok
  late,      \* history: threads whose swap began on a dead bearer
  listed,    \* history: per thread, the bearers its revoke found
  logged,    \* history: threads whose call has its audit row
  sent,      \* history: per token, the requests this process sent upstream
  granted,   \* history: per relay, the largest budget ever saved
  latest     \* history: per relay, the budget saved by the last mint

rows == <<policy, bearer>>
locals == <<op, relay, token, quota, found, todo, verdict>>
perCall == <<late, listed, logged>>
overall == <<dead, sent, granted, latest>>
vars == <<rows, used, vault, readers, pc, locals, calls, perCall, overall>>

NoPolicy == [state |-> "none", quota |-> 0]
NoBearer == [state |-> "none", relay |-> NoRelay, sealed |-> "none"]

(* The labels at which the vault lock is held shared; those of the store and USB calls. *)
Holding == {"mintUsb", "savePolicy", "saveBearer",
            "swapBearer", "swapPolicy", "swapUsb", "decide", "openKey"}
InStore == {"mintUsb", "savePolicy", "saveBearer",
            "loadPolicy", "flipPolicy", "listBearers", "loadBearer", "saveRevoked",
            "swapBearer", "swapPolicy", "swapUsb", "openKey", "append"}
Writing == {"lockVault", "lockQueued", "commit", "commitQueued"}
Labels == {"idle", "mintLock", "reseal", "swapLock", "send", "advance", "unlockRead"}
            \cup Holding \cup InStore \cup Writing

States == {"none", "live", "revoked"}
Verdicts == {"none", "allow", "revoked", "unknown", "budget", "gate", "other", "internal"}
Ops == {"none", "mint", "revoke", "swap", "lock", "unlock", "unlocked", "refused"}

-----------------------------------------------------------------------------
(* No call is running; earlier calls left the bearers Given to relays with live policies. *)
Init ==
  /\ \E owner \in [Given -> Relay], budget \in [Relay -> Quota] :
       /\ policy = [r \in Relay |-> IF \E k \in Given : owner[k] = r
                                  THEN [state |-> "live", quota |-> budget[r]] ELSE NoPolicy]
       /\ bearer = [k \in Token |-> IF k \in Given
                                   THEN [state |-> "live", relay |-> owner[k], sealed |-> "live"]
                                   ELSE NoBearer]
  /\ granted = [r \in Relay |-> policy[r].quota]
  /\ latest = granted
  /\ used = [k \in Token |-> 0]
  /\ vault \in {"locked", "unlocked"}
  /\ readers = {}
  /\ pc = [t \in Thread |-> "idle"]
  /\ op = [t \in Thread |-> "none"]
  /\ relay = [t \in Thread |-> NoRelay]
  /\ token = [t \in Thread |-> NoToken]
  /\ quota = [t \in Thread |-> 0]
  /\ found = [t \in Thread |-> "none"]
  /\ todo = [t \in Thread |-> {}]
  /\ verdict = [t \in Thread |-> "none"]
  /\ calls = 0
  /\ dead = {} /\ late = {} /\ logged = {}
  /\ listed = [t \in Thread |-> {}]
  /\ sent = [k \in Token |-> 0]

Goto(t, label) == pc' = [pc EXCEPT ![t] = label]
Release(t) == readers' = readers \ {t}
SetVerdict(t, v) == verdict' = [verdict EXCEPT ![t] = v]

(* The end of a call: its guards are dropped and its frame is gone. *)
Return(t) ==
  /\ Goto(t, "idle")
  /\ Release(t)
  /\ op' = [op EXCEPT ![t] = "none"]
  /\ relay' = [relay EXCEPT ![t] = NoRelay]
  /\ token' = [token EXCEPT ![t] = NoToken]
  /\ quota' = [quota EXCEPT ![t] = 0]
  /\ found' = [found EXCEPT ![t] = "none"]
  /\ todo' = [todo EXCEPT ![t] = {}]
  /\ SetVerdict(t, "none")
  /\ late' = late \ {t}
  /\ logged' = logged \ {t}
  /\ listed' = [listed EXCEPT ![t] = {}]

(* RwLock::read waits for queued writers; RwLock::write waits for readers. *)
MayRead == \A t \in Thread : pc[t] \notin {"lockQueued", "commitQueued"}
MayWrite == readers = {}

(* The bound on calls. *)
Begin(t, kind, label) ==
  /\ pc[t] = "idle"
  /\ calls < MaxCalls
  /\ calls' = calls + 1
  /\ op' = [op EXCEPT ![t] = kind]
  /\ Goto(t, label)

-----------------------------------------------------------------------------
(* mint_bearer_core.  Bound: a token is left for every mint under way. *)
StartMint(t) ==
  /\ Begin(t, "mint", "mintLock")
  /\ Cardinality({k \in Token : bearer[k] = NoBearer}) > Cardinality({u \in Thread : op[u] = "mint"})
  /\ \E r \in Relay : relay' = [relay EXCEPT ![t] = r]
  /\ \E q \in Quota : quota' = [quota EXCEPT ![t] = q]
  /\ UNCHANGED <<rows, used, vault, readers, token, found, todo, verdict, perCall, overall>>

(* The lock is held shared from here to the save of the bearer. *)
MintLock(t) ==
  /\ pc[t] = "mintLock"
  /\ MayRead
  /\ \/ vault = "locked" /\ Return(t)
     \/ /\ vault = "unlocked"
        /\ readers' = readers \cup {t}
        /\ Goto(t, "mintUsb")
        /\ UNCHANGED <<locals, perCall>>
  /\ UNCHANGED <<rows, used, vault, calls, overall>>

(* The USB key may come and go: a probe has either answer.  Without the key, or when *)
(* the TTL clamp refuses, the mint is an audited refusal.                             *)
MintUsb(t) ==
  /\ pc[t] = "mintUsb"
  /\ \/ /\ Goto(t, "savePolicy")
        /\ UNCHANGED <<readers, op>>
     \/ /\ Release(t)
        /\ Goto(t, "append")
        /\ op' = [op EXCEPT ![t] = "refused"]
  /\ UNCHANGED <<rows, used, vault, relay, token, quota, found, todo, verdict, calls,
                 perCall, overall>>

Larger(m, n) == IF m > n THEN m ELSE n

(* save_relay_policy: an upsert by relay id, with the flags of a fresh policy. *)
SavePolicy(t) ==
  /\ pc[t] = "savePolicy"
  /\ policy' = [policy EXCEPT ![relay[t]] = [state |-> "live", quota |-> quota[t]]]
  /\ granted' = [granted EXCEPT ![relay[t]] = Larger(@, quota[t])]
  /\ latest' = [latest EXCEPT ![relay[t]] = quota[t]]
  /\ Goto(t, "saveBearer")
  /\ UNCHANGED <<bearer, used, vault, readers, locals, calls, perCall, dead, sent>>

SavedBearer(t) ==
  \E k \in {j \in Token : bearer[j] = NoBearer} :
    bearer' = [bearer EXCEPT ![k] = [state |-> "live", relay |-> relay[t], sealed |-> "live"]]

(* Mutant: the guard lives on through the audit. *)
SaveBearerHoldingLock(t) ==
  /\ pc[t] = "saveBearer"
  /\ SavedBearer(t)
  /\ Goto(t, "append")
  /\ UNCHANGED <<policy, used, vault, readers, locals, calls, perCall, overall>>

(* save_bearer of the new row, sealed as it is; then the lock is dropped. *)
SaveBearer(t) ==
  /\ pc[t] = "saveBearer"
  /\ SavedBearer(t)
  /\ Release(t)
  /\ Goto(t, "append")
  /\ UNCHANGED <<policy, used, vault, locals, calls, perCall, overall>>

-----------------------------------------------------------------------------
(* relay_revoke with apply: the policy first, then every live bearer under it. *)
StartRevoke(t) ==
  /\ Begin(t, "revoke", "loadPolicy")
  /\ \E r \in Relay : relay' = [relay EXCEPT ![t] = r]
  /\ UNCHANGED <<rows, used, vault, readers, token, quota, found, todo, verdict, perCall,
                 overall>>

LoadPolicy(t) ==
  /\ pc[t] = "loadPolicy"
  /\ LET p == policy[relay[t]] IN
       /\ quota' = [quota EXCEPT ![t] = p.quota]
       /\ \/ p.state = "none" /\ Goto(t, "listBearers")
          \/ p.state # "none" /\ Goto(t, "flipPolicy")
  /\ UNCHANGED <<rows, used, vault, readers, op, relay, token, found, todo, verdict, calls,
                 perCall, overall>>

(* Mutant: the loaded row is written back as it was. *)
FlipPolicyNot(t) ==
  /\ pc[t] = "flipPolicy"
  /\ policy' = [policy EXCEPT ![relay[t]] = [state |-> "live", quota |-> quota[t]]]
  /\ Goto(t, "listBearers")
  /\ UNCHANGED <<bearer, used, vault, readers, locals, calls, perCall, overall>>

(* save_relay_policy of the row that was loaded, with `revoked` set. *)
FlipPolicy(t) ==
  /\ pc[t] = "flipPolicy"
  /\ policy' = [policy EXCEPT ![relay[t]] = [state |-> "revoked", quota |-> quota[t]]]
  /\ Goto(t, "listBearers")
  /\ UNCHANGED <<bearer, used, vault, readers, locals, calls, perCall, overall>>

Listed(t, ks) ==
  /\ listed' = [listed EXCEPT ![t] = ks]
  /\ todo' = [todo EXCEPT ![t] = {k \in ks : bearer[k].state = "live"}]
  /\ \/ todo'[t] = {} /\ Goto(t, "append")
     \/ todo'[t] # {} /\ Goto(t, "reseal")

(* Mutant: with the policy flipped, its bearers are left as they are. *)
ListNoBearers(t) ==
  /\ pc[t] = "listBearers"
  /\ listed' = [listed EXCEPT ![t] = {k \in Token : bearer[k].relay = relay[t]}]
  /\ Goto(t, "append")
  /\ UNCHANGED <<rows, used, vault, readers, locals, calls, late, logged, overall>>

ListBearers(t) ==
  /\ pc[t] = "listBearers"
  /\ Listed(t, {k \in Token : bearer[k].relay = relay[t]})
  /\ UNCHANGED <<rows, used, vault, readers, op, relay, token, quota, found, verdict,
                 calls, late, logged, overall>>

(* relay_revoke_bearer with apply. *)
StartRevokeBearer(t) ==
  /\ Begin(t, "revoke", "loadBearer")
  /\ \E k \in Token : token' = [token EXCEPT ![t] = k]
  /\ UNCHANGED <<rows, used, vault, readers, relay, quota, found, todo, verdict, perCall,
                 overall>>

LoadBearer(t) ==
  /\ pc[t] = "loadBearer"
  /\ Listed(t, {k \in {token[t]} : bearer[k] # NoBearer})
  /\ UNCHANGED <<rows, used, vault, readers, op, relay, token, quota, found, verdict,
                 calls, late, logged, overall>>

(* reseal_bearer_row: the lock shared for the time of one MAC; a locked vault is an Err. *)
Reseal(t) ==
  /\ pc[t] = "reseal"
  /\ MayRead
  /\ \/ vault = "locked" /\ Return(t)
     \/ /\ vault = "unlocked"
        /\ \E k \in todo[t] : token' = [token EXCEPT ![t] = k]
        /\ Goto(t, "saveRevoked")
        /\ UNCHANGED <<readers, op, relay, quota, found, todo, verdict, perCall>>
  /\ UNCHANGED <<rows, used, vault, calls, overall>>

Revoked(b) == [b EXCEPT !.state = "revoked", !.sealed = "revoked"]

(* Mutant: the bearers are listed again, until none is live. *)
SaveRevokedAndRelist(t) ==
  /\ pc[t] = "saveRevoked"
  /\ bearer' = [bearer EXCEPT ![token[t]] = Revoked(bearer[token[t]])]
  /\ todo' = [todo EXCEPT ![t] = {k \in Token : bearer'[k].relay = relay[t] /\ bearer'[k].state = "live"}]
  /\ \/ todo'[t] = {} /\ Goto(t, "append")
     \/ todo'[t] # {} /\ Goto(t, "reseal")
  /\ UNCHANGED <<policy, used, vault, readers, op, relay, token, quota, found, verdict,
                 calls, perCall, overall>>

SaveRevoked(t) ==
  /\ pc[t] = "saveRevoked"
  /\ bearer' = [bearer EXCEPT ![token[t]] = Revoked(bearer[token[t]])]
  /\ todo' = [todo EXCEPT ![t] = todo[t] \ {token[t]}]
  /\ \/ todo'[t] = {} /\ Goto(t, "append")
     \/ todo'[t] # {} /\ Goto(t, "reseal")
  /\ UNCHANGED <<policy, used, vault, readers, op, relay, token, quota, found, verdict,
                 calls, perCall, overall>>

-----------------------------------------------------------------------------
(* relay_swap.  The lock is held shared for the whole of relay_swap_prepare. *)
StartSwap(t) ==
  /\ Begin(t, "swap", "swapLock")
  /\ \E k \in Token :
       /\ token' = [token EXCEPT ![t] = k]
       /\ late' = IF k \in dead THEN late \cup {t} ELSE late
  /\ UNCHANGED <<rows, used, vault, readers, relay, quota, found, todo, verdict, listed,
                 logged, overall>>

(* A refusal is audited once the lock is dropped. *)
Refuse(t, v) ==
  /\ SetVerdict(t, v)
  /\ Release(t)
  /\ Goto(t, "append")

SwapLock(t) ==
  /\ pc[t] = "swapLock"
  /\ MayRead
  /\ \/ vault = "locked" /\ Refuse(t, "internal")
     \/ /\ vault = "unlocked"
        /\ readers' = readers \cup {t}
        /\ Goto(t, "swapBearer")
        /\ UNCHANGED verdict
  /\ UNCHANGED <<rows, used, vault, op, relay, token, quota, found, todo, calls, perCall,
                 overall>>

(* load_bearer and the two MAC checks: an absent row and one whose MAC fails look alike. *)
SwapBearer(t) ==
  /\ pc[t] = "swapBearer"
  /\ LET b == bearer[token[t]] IN
       \/ /\ b = NoBearer \/ b.sealed # b.state
          /\ Refuse(t, "unknown")
          /\ UNCHANGED <<relay, found>>
       \/ /\ b # NoBearer /\ b.sealed = b.state
          /\ relay' = [relay EXCEPT ![t] = b.relay]
          /\ found' = [found EXCEPT ![t] = b.state]
          /\ Goto(t, "swapPolicy")
          /\ UNCHANGED <<readers, verdict>>
  /\ UNCHANGED <<rows, used, vault, op, token, quota, todo, calls, perCall, overall>>

(* find_policy_by_id. *)
SwapPolicy(t) ==
  /\ pc[t] = "swapPolicy"
  /\ LET p == policy[relay[t]] IN
       \/ /\ p.state = "none"
          /\ Refuse(t, "unknown")
          /\ UNCHANGED <<quota, found>>
       \/ /\ p.state # "none"
          /\ quota' = [quota EXCEPT ![t] = p.quota]
          /\ found' = [found EXCEPT ![t] = IF p.state = "live" THEN found[t] ELSE "revoked"]
          /\ Goto(t, "swapUsb")
          /\ UNCHANGED <<readers, verdict>>
  /\ UNCHANGED <<rows, used, vault, op, relay, token, todo, calls, perCall, overall>>

SwapUsb(t) ==
  /\ pc[t] = "swapUsb"
  /\ \E state \in {found[t], IF found[t] = "live" THEN "ungated" ELSE found[t]} :
       found' = [found EXCEPT ![t] = state]
  /\ Goto(t, "decide")
  /\ UNCHANGED <<rows, used, vault, readers, op, relay, token, quota, todo, verdict, calls,
                 perCall, overall>>

(* Mutant: the request at hand is not counted. *)
DecisionsPreBump(state, n, q) ==
  IF state = "revoked" THEN {"revoked"}
  ELSE {"other", IF n > q + 1 THEN "budget" ELSE IF state = "ungated" THEN "gate" ELSE "allow"}

(* decide: its clauses in order, those the model leaves out being "other". *)
Decisions(state, n, q) ==
  IF state = "revoked" THEN {"revoked"}
  ELSE {"other", IF n > q THEN "budget" ELSE IF state = "ungated" THEN "gate" ELSE "allow"}

(* Broker::bump, then the decision on the count it returned. *)
Decide(t) ==
  /\ pc[t] = "decide"
  /\ used' = [used EXCEPT ![token[t]] = used[token[t]] + 1]
  /\ \E v \in Decisions(found[t], used[token[t]] + 1, quota[t]) :
       \/ v # "allow" /\ Refuse(t, v)
       \/ v = "allow" /\ SetVerdict(t, v) /\ Goto(t, "openKey") /\ UNCHANGED readers
  /\ UNCHANGED <<rows, vault, op, relay, token, quota, found, todo, calls, perCall, overall>>

(* open_real_key, which fails when the secret is not in the vault; every lock is dropped. *)
OpenKey(t) ==
  /\ pc[t] = "openKey"
  /\ \/ Refuse(t, "internal")
     \/ /\ Release(t)
        /\ Goto(t, "send")
        /\ UNCHANGED verdict
  /\ UNCHANGED <<rows, used, vault, op, relay, token, quota, found, todo, calls, perCall,
                 overall>>

(* Mutant: a request whose answer failed is sent again. *)
SendRetried(t) ==
  /\ pc[t] = "send"
  /\ sent' = [sent EXCEPT ![token[t]] = sent[token[t]] + 1]
  /\ \E label \in {"send", "append"} : Goto(t, label)
  /\ UNCHANGED <<rows, used, vault, readers, locals, calls, perCall, dead, granted, latest>>

(* Upstream::send answers, or fails after the key was handed over. *)
Send(t) ==
  /\ pc[t] = "send"
  /\ sent' = [sent EXCEPT ![token[t]] = sent[token[t]] + 1]
  /\ \E v \in {"allow", "internal"} : SetVerdict(t, v)
  /\ Goto(t, "append")
  /\ UNCHANGED <<rows, used, vault, readers, op, relay, token, quota, found, todo, calls,
                 perCall, dead, granted, latest>>

-----------------------------------------------------------------------------
(* lock and unlock. *)
StartLock(t) ==
  /\ Begin(t, "lock", "lockVault")
  /\ UNCHANGED <<rows, used, vault, readers, relay, token, quota, found, todo, verdict,
                 perCall, overall>>

StartUnlock(t) ==
  /\ Begin(t, "unlock", "unlockRead")
  /\ UNCHANGED <<rows, used, vault, readers, relay, token, quota, found, todo, verdict,
                 perCall, overall>>

(* RwLock::write that finds readers queues up. *)
QueueWriter(t) ==
  /\ ~MayWrite
  /\ \/ pc[t] = "lockVault" /\ Goto(t, "lockQueued")
     \/ pc[t] = "commit" /\ Goto(t, "commitQueued")
  /\ UNCHANGED <<rows, used, vault, readers, locals, calls, perCall, overall>>

LockVault(t) ==
  /\ pc[t] \in {"lockVault", "lockQueued"}
  /\ MayWrite
  /\ vault' = "locked"
  /\ Goto(t, "append")
  /\ UNCHANGED <<rows, used, readers, locals, calls, perCall, overall>>

(* The fast path of unlock; below it the factor is right, or it is refused. *)
UnlockRead(t) ==
  /\ pc[t] = "unlockRead"
  /\ MayRead
  /\ \/ vault = "unlocked" /\ Return(t)
     \/ /\ vault = "locked"
        /\ Goto(t, "append")
        /\ \E kind \in {"unlock", "refused"} : op' = [op EXCEPT ![t] = kind]
        /\ UNCHANGED <<readers, relay, token, quota, found, todo, verdict, perCall>>
  /\ UNCHANGED <<rows, used, vault, calls, overall>>

(* The audit row of the unlock is durable: the DEK becomes resident. *)
Commit(t) ==
  /\ pc[t] \in {"commit", "commitQueued"}
  /\ MayWrite
  /\ vault' = "unlocked"
  /\ op' = [op EXCEPT ![t] = "unlocked"]
  /\ Goto(t, "advance")
  /\ UNCHANGED <<rows, used, readers, relay, token, quota, found, todo, verdict, calls,
                 perCall, overall>>

-----------------------------------------------------------------------------
(* audit: the row, then the anchor under the shared lock (module AuditAnchor). *)
Append(t) ==
  /\ pc[t] = "append"
  /\ logged' = logged \cup {t}
  /\ Goto(t, "advance")
  /\ UNCHANGED <<rows, used, vault, readers, locals, calls, late, listed, overall>>

(* What follows the audit: unlock still has to commit, the others return Ok or refuse. *)
Advance(t) ==
  /\ pc[t] = "advance"
  /\ MayRead
  /\ \/ /\ op[t] = "unlock"
        /\ Goto(t, "commit")
        /\ UNCHANGED <<readers, locals, perCall, dead>>
     \/ /\ op[t] # "unlock"
        /\ dead' = dead \cup listed[t]
        /\ Return(t)
  /\ UNCHANGED <<rows, used, vault, calls, sent, granted, latest>>

(***************************************************************************)
(* A store call returns Err and `?` hands it up.  relay_swap turns it into *)
(* an audited internal refusal, and ignores what becomes of that row and   *)
(* of the row of a request it has sent.                                    *)
(***************************************************************************)
StoreError(t) ==
  /\ "storeError" \in Mishap
  /\ pc[t] \in InStore \/ (pc[t] = "advance" /\ vault = "unlocked" /\ MayRead)
  /\ \/ /\ op[t] # "swap" \/ (pc[t] \in {"append", "advance"} /\ verdict[t] \in {"allow", "internal"})
        /\ Return(t)
     \/ /\ op[t] = "swap"
        /\ ~(pc[t] \in {"append", "advance"} /\ verdict[t] \in {"allow", "internal"})
        /\ Refuse(t, "internal")
        /\ UNCHANGED <<op, relay, token, quota, found, todo, perCall>>
  /\ UNCHANGED <<rows, used, vault, calls, overall>>

(* The process dies and is started again: locked, with fresh counters. *)
Crash ==
  /\ "crash" \in Mishap
  /\ vault = "unlocked" \/ \E t \in Thread : pc[t] # "idle"
  /\ vault' = "locked"
  /\ readers' = {}
  /\ used' = [k \in Token |-> 0]
  /\ sent' = [k \in Token |-> 0]
  /\ pc' = [t \in Thread |-> "idle"]
  /\ op' = [t \in Thread |-> "none"]
  /\ relay' = [t \in Thread |-> NoRelay]
  /\ token' = [t \in Thread |-> NoToken]
  /\ quota' = [t \in Thread |-> 0]
  /\ found' = [t \in Thread |-> "none"]
  /\ todo' = [t \in Thread |-> {}]
  /\ verdict' = [t \in Thread |-> "none"]
  /\ late' = {} /\ logged' = {}
  /\ listed' = [t \in Thread |-> {}]
  /\ UNCHANGED <<rows, calls, dead, granted, latest>>

-----------------------------------------------------------------------------
Start(t) ==
  \/ StartMint(t) \/ StartRevoke(t) \/ StartRevokeBearer(t)
  \/ StartSwap(t) \/ StartLock(t) \/ StartUnlock(t)

Step(t) ==
  \/ MintLock(t) \/ MintUsb(t) \/ SavePolicy(t) \/ SaveBearer(t)
  \/ LoadPolicy(t) \/ FlipPolicy(t) \/ ListBearers(t)
  \/ LoadBearer(t) \/ Reseal(t) \/ SaveRevoked(t)
  \/ SwapLock(t) \/ SwapBearer(t) \/ SwapPolicy(t) \/ SwapUsb(t)
  \/ Decide(t) \/ OpenKey(t) \/ Send(t)
  \/ QueueWriter(t) \/ LockVault(t) \/ UnlockRead(t) \/ Commit(t)
  \/ Append(t) \/ Advance(t)

Next ==
  \/ \E t \in Thread : Start(t) \/ Step(t) \/ StoreError(t)
  \/ Crash

Spec == Init /\ [][Next]_vars

(* A call that was started keeps running, the upstream answers or fails, and a lock *)
(* that is free goes to a thread that waits for it.                                 *)
FairSpec == Spec /\ \A t \in Thread : WF_vars(Step(t))

-----------------------------------------------------------------------------
(***************************************************************************)
(* Properties.                                                             *)
(***************************************************************************)

(* Every variable has its type; the vault lock is held shared exactly where the guard *)
(* `v` lives (lib.rs mint_bearer_core, relay_swap_prepare), never while writing.      *)
TypeOK ==
  /\ policy \in [Relay -> [state : States, quota : Nat]]
  /\ bearer \in [Token -> [state : States, relay : Relay \cup {NoRelay}, sealed : States]]
  /\ used \in [Token -> Nat]
  /\ vault \in {"locked", "unlocked"}
  /\ pc \in [Thread -> Labels]
  /\ readers = {t \in Thread : pc[t] \in Holding}
  /\ readers # {} => vault = "unlocked"
  /\ op \in [Thread -> Ops]
  /\ relay \in [Thread -> Relay \cup {NoRelay}]
  /\ token \in [Thread -> Token \cup {NoToken}]
  /\ quota \in [Thread -> Nat]
  /\ found \in [Thread -> States \cup {"ungated"}]
  /\ todo \in [Thread -> SUBSET Token]
  /\ verdict \in [Thread -> Verdicts]
  /\ calls \in 0..MaxCalls
  /\ dead \subseteq Token
  /\ late \subseteq Thread
  /\ logged \subseteq Thread
  /\ listed \in [Thread -> SUBSET Token]
  /\ sent \in [Token -> Nat]
  /\ granted \in [Relay -> Nat]
  /\ latest \in [Relay -> Nat]

(* Revocation is final and says so (lib.rs:936-939, 970-974): a swap that begins after *)
(* a revoke covering its bearer returned Ok is denied as revoked or fails internally,  *)
(* never allowed and never mistaken for a forged bearer, although a later mint of the  *)
(* same relay makes its policy live again.                                             *)
RevokedIsReported ==
  \A t \in late : verdict[t] \in {"none", "revoked", "internal"}

(* Concurrent swaps never send more requests than the largest budget their relay was *)
(* ever given (decide.rs:228-235), as long as the process lives.                     *)
BudgetHolds ==
  \A k \in Token : bearer[k] # NoBearer => sent[k] <= granted[bearer[k].relay]

(* A policy that lets swaps through has the budget of the last mint, although a revoke *)
(* writes back a policy row it loaded before (lib.rs:966-969, 758-761).                *)
LiveLimitsAreLatest ==
  \A r \in Relay : policy[r].state = "live" => policy[r].quota = latest[r]

(* What is under way for the caller of a swap: its bearer, and the answer once there is *)
(* one; an allowed swap has none before its request was sent.                           *)
Asked(t) == IF op[t] = "swap" THEN token[t] ELSE NoToken
Answer(t) == IF pc[t] \in {"openKey", "send"} THEN "none" ELSE verdict[t]

Promise == INSTANCE BearerLedger WITH
  owner <- [k \in Token |-> bearer[k].relay],
  cap <- granted,
  reported <- dead,
  asked <- [t \in Thread |-> Asked(t)],
  barred <- late,
  answer <- [t \in Thread |-> Answer(t)]

(* The promise of module BearerLedger, kept by this design with its locks, stale reads,  *)
(* failing calls and restarts: a swap sends at most once, only if it was let through,    *)
(* never returns without an answer, and is not told that a bearer is unknown which was   *)
(* issued (lib.rs:1072-1160, 1192-1244).                                                 *)
KeepsThePromise == Promise!Spec

(* What a thread needs for its next step: RwLock::read and RwLock::write may wait. *)
Waits(t) ==
  \/ pc[t] \in {"mintLock", "reseal", "swapLock", "unlockRead", "advance"} /\ ~MayRead
  \/ pc[t] \in {"lockQueued", "commitQueued"} /\ ~MayWrite

(* A thread that waits for the vault lock waits for one that goes on (lib.rs:805-807,     *)
(* 939-946: the lock is dropped before the audit takes it again): the holder of the lock, *)
(* or a writer ahead in the queue, is never itself waiting in a circle.                   *)
WaitersWaitForRunners ==
  \A t \in Thread : Waits(t) =>
    \E u \in Thread : (u \in readers \/ pc[u] \in {"lockQueued", "commitQueued"}) /\ ~Waits(u)

(* The steps a call has still to take at the most: by its label; a denial or an unlock has *)
(* more to come after its audit row; a revoke takes two steps for each of its bearers.     *)
StepsFrom ==
  [idle |-> 0, advance |-> 1, append |-> 2, commitQueued |-> 2, commit |-> 3,
   lockQueued |-> 3, lockVault |-> 4, unlockRead |-> 6,
   mintLock |-> 6, mintUsb |-> 5, savePolicy |-> 4, saveBearer |-> 3,
   loadPolicy |-> 6, flipPolicy |-> 5, listBearers |-> 4, loadBearer |-> 4,
   reseal |-> 3, saveRevoked |-> 2,
   swapLock |-> 9, swapBearer |-> 8, swapPolicy |-> 7, swapUsb |-> 6, decide |-> 5,
   openKey |-> 4, send |-> 3]
AfterAudit(t) ==
  IF pc[t] \notin {"append", "advance"} THEN 0
  ELSE IF op[t] = "unlock" THEN 3
  ELSE IF op[t] = "swap" /\ verdict[t] \notin {"allow", "internal"} THEN 2
  ELSE 0
Bearers(t) ==
  IF pc[t] \in {"loadPolicy", "flipPolicy", "listBearers", "loadBearer"} THEN Cardinality(Token)
  ELSE Cardinality(todo[t])
Left(t) == StepsFrom[pc[t]] + AfterAudit(t) + 2 * Bearers(t)

(* No call goes in circles (lib.rs:975-985, 1065-1076): each of its steps, a failing one  *)
(* among them, makes what it has left shorter, and no step of another thread makes it     *)
(* longer: not a mint under a relay being revoked, nor a refusal whose own audit fails.   *)
CallsGetShorter ==
  [][\A t \in Thread :
       /\ Step(t) \/ StoreError(t) => Left(t)' < Left(t)
       /\ pc[t] # "idle" => Left(t)' <= Left(t)]_vars

(* Every call returns (lib.rs:805-807, 939-946: no vault lock is held across an audit, *)
(* which takes it again): no thread waits for itself behind a queued writer.           *)
EveryCallReturns ==
  \A t \in Thread : pc[t] # "idle" ~> pc[t] = "idle"

(* What the documents say without condition.  DESIGN-NOTES.md:55: swap outcomes are  *)
(* written durably before the call returns.                                          *)
SwapIsAuditedBeforeReturn ==
  [][\A t \in Thread :
       op[t] = "swap" /\ verdict[t] = "allow" /\ pc'[t] = "idle" => t \in logged]_vars
=============================================================================
