----------------------------- MODULE BearerClock -----------------------------
(***************************************************************************)
(* How long a bearer lives.  A mint stamps it with the wall clock and with *)
(* CLOCK_BOOTTIME, and a swap compares both with what the clocks say then  *)
(* (`mint_bearer_core` and `relay_swap_prepare` in                         *)
(* secrets-engine/src/lib.rs, `clamp_ttl` in broker/policy.rs, the         *)
(* expiry, rate and rollback clauses of `decide` in broker/decide.rs,      *)
(* `Broker::bump` in broker/mod.rs, the clocks in seam.rs).                *)
(*                                                                         *)
(* `up` is the true time, which nobody can read.  The wall clock runs with *)
(* it and is stepped at will; the boot clock runs with it and starts again *)
(* at a reboot.  A call reads both clocks in its first step and uses what  *)
(* it read in later ones.  The store is the durable one; every mint is for *)
(* one relay and asks for the same rate.                                   *)
(***************************************************************************)
EXTENDS Integers, Sequences, FiniteSets

CONSTANTS
  Thread,            \* threads of the blocking pool
  Token, NoToken,    \* bearers that may be minted
  Second, Minute,    \* their lengths in ticks of the true time
  MaxBearerTtl,      \* MAX_BEARER_TTL_SECS, in seconds
  Asks,              \* what mints ask for: the policy's ttl and the requested one, in seconds
  Rate,              \* rate_per_min of the relay
  InitWall,          \* the wall clock at vault init
  Steps,             \* the amounts by which the wall clock may be stepped
  MaxTime,           \* bound on the true time
  Mishap,            \* what may happen: "step", "reboot", "restart"
  CallCost, MishapCost, \* what a call and a mishap take
  MaxSpent           \* of the bound on both together

ASSUME ClockAssumption ==
  /\ IsFiniteSet(Thread) /\ Thread # {}
  /\ NoToken \notin Token
  /\ Second \in Nat \ {0} /\ Minute \in Nat \ {0}
  /\ MaxBearerTtl \in Nat \ {0}
  /\ Asks \subseteq [policy : Int, requested : Int]
  /\ Steps \subseteq Int
  /\ Rate \in Nat \ {0}
  /\ InitWall \in Nat \ {0}
  /\ MaxTime \in Nat /\ {CallCost, MishapCost} \subseteq Nat \ {0} /\ MaxSpent \in Nat
  /\ Mishap \subseteq {"step", "reboot", "restart"}

VARIABLES
  up,       \* the true time
  wall,     \* the wall clock
  bootAt,   \* the true time of the last boot
  bearer,   \* store: the stamps of each bearer
  policyTtl,\* store: the ttl of the relay's policy; 0 before the first mint
  counter,  \* RAM: the rate window of each bearer (BearerCounters)
  pc,       \* where each thread is in its call
  snap,     \* local: what the call read off the clocks, and the true time when it did
  ask,      \* local: the ttls a mint was asked for
  token,    \* local: the bearer a swap presents
  loaded,   \* local: the policy ttl a swap loaded
  verdict,  \* local: how a swap was decided
  spent,    \* what the calls and mishaps so far cost
  back,     \* history: by how much the wall clock was ever set back
  served    \* history: per bearer, the swaps allowed since the counters were last lost,
            \* the wall clock stepped, or a call counted that began before that step:
            \* by whom, when they read the clock, their window and their place in it

clocks == <<up, wall, bootAt, back>>
store == <<bearer, policyTtl>>
locals == <<snap, ask, token, loaded, verdict>>
vars == <<clocks, store, counter, pc, locals, spent, served>>

NoBearer == [issued |-> 0]
NoSnap == [at |-> 0]
NoAsk == [requested |-> 0]

Minted == {k \in Token : bearer[k] # NoBearer}

-----------------------------------------------------------------------------
Init ==
  /\ up = 0
  /\ wall = InitWall
  /\ bootAt = 0
  /\ bearer = [k \in Token |-> NoBearer]
  /\ policyTtl = 0
  /\ counter = [k \in Token |-> [start |-> 0, n |-> 0]]
  /\ pc = [t \in Thread |-> "idle"]
  /\ snap = [t \in Thread |-> NoSnap]
  /\ ask = [t \in Thread |-> NoAsk]
  /\ token = [t \in Thread |-> NoToken]
  /\ loaded = [t \in Thread |-> 0]
  /\ verdict = [t \in Thread |-> "none"]
  /\ spent = 0
  /\ back = 0
  /\ served = [k \in Token |-> <<>>]

Goto(t, label) == pc' = [pc EXCEPT ![t] = label]

(* Clock::now, then Clock::boottime_ms. *)
ReadClocks(t) ==
  snap' = [snap EXCEPT ![t] = [at |-> up, wall |-> wall, boot |-> up - bootAt,
                               bootAt |-> bootAt, back |-> back]]

(* The bound on calls and mishaps. *)
Spend(n) ==
  /\ spent + n <= MaxSpent
  /\ spent' = spent + n

Begin(t, label) ==
  /\ pc[t] = "idle"
  /\ Spend(CallCost)
  /\ ReadClocks(t)
  /\ Goto(t, label)

Return(t) ==
  /\ Goto(t, "idle")
  /\ snap' = [snap EXCEPT ![t] = NoSnap]
  /\ ask' = [ask EXCEPT ![t] = NoAsk]
  /\ token' = [token EXCEPT ![t] = NoToken]
  /\ loaded' = [loaded EXCEPT ![t] = 0]
  /\ verdict' = [verdict EXCEPT ![t] = "none"]

-----------------------------------------------------------------------------
(* mint_bearer_core reads the clocks before it waits for the vault lock. *)
StartMint(t) ==
  /\ Begin(t, "savePolicy")
  /\ \E a \in Asks : ask' = [ask EXCEPT ![t] = a]
  /\ UNCHANGED <<clocks, store, counter, token, loaded, verdict, served>>

Least(S) == CHOOSE n \in S : \A m \in S : n <= m

(* clamp_ttl, without the refusal *)
ClampedTtl(a) == Least({a.requested, a.policy, MaxBearerTtl})

(* Mutant: a ttl that is not positive is not refused. *)
SavePolicyUnrefused(t) ==
  /\ pc[t] = "savePolicy"
  /\ policyTtl' = ask[t].policy
  /\ Goto(t, "saveBearer")
  /\ UNCHANGED <<clocks, bearer, counter, locals, spent, served>>

(* save_relay_policy replaces the relay's policy, unless the clamp refuses. *)
SavePolicy(t) ==
  /\ pc[t] = "savePolicy"
  /\ \/ /\ ClampedTtl(ask[t]) <= 0
        /\ Return(t)
        /\ UNCHANGED policyTtl
     \/ /\ ClampedTtl(ask[t]) > 0
        /\ policyTtl' = ask[t].policy
        /\ Goto(t, "saveBearer")
        /\ UNCHANGED locals
  /\ UNCHANGED <<clocks, bearer, counter, spent, served>>

(* Whole seconds of the wall clock at the mint, and the clamped ttl. *)
SaveBearer(t) ==
  /\ pc[t] = "saveBearer"
  /\ \E k \in Token \ Minted :
       bearer' = [bearer EXCEPT ![k] =
         [issued |-> snap[t].wall,
          boot |-> snap[t].boot,
          expires |-> (snap[t].wall \div Second + ClampedTtl(ask[t])) * Second,
          asked |-> ask[t],
          minted |-> snap[t]]]
  /\ Return(t)
  /\ UNCHANGED <<clocks, policyTtl, counter, spent, served>>

-----------------------------------------------------------------------------
(* relay_swap_prepare up to the load of the bearer's row. *)
StartSwap(t) ==
  /\ Begin(t, "loadPolicy")
  /\ \E k \in Minted : token' = [token EXCEPT ![t] = k]
  /\ UNCHANGED <<clocks, store, counter, ask, loaded, verdict, served>>

LoadPolicy(t) ==
  /\ pc[t] = "loadPolicy"
  /\ loaded' = [loaded EXCEPT ![t] = policyTtl]
  /\ Goto(t, "decide")
  /\ UNCHANGED <<clocks, store, counter, snap, ask, token, verdict, spent, served>>

(* Mutant: a copy of the counters is bumped. *)
BumpedCopy(c, now) == [start |-> now, n |-> 1]

(* Broker::bump, the rate window *)
Bumped(c, now) ==
  IF c.start = 0 \/ now - c.start >= Minute
  THEN [start |-> now, n |-> 1]
  ELSE [c EXCEPT !.n = @ + 1]

Skew == Minute

(* Mutant: the boot clock is only compared with the wall clock. *)
VerdictWithoutBootTtl(b, s, ttl, n) ==
  IF s.wall >= b.expires THEN "BearerExpired"
  ELSE IF s.wall >= b.issued + ttl * Second THEN "PolicyExpired"
  ELSE IF n >= Rate THEN "RateLimited"
  ELSE IF \/ s.wall < InitWall \/ s.wall < b.issued
          \/ s.boot < b.boot THEN "ClockRollback"
  ELSE IF (s.wall - b.issued) - (s.boot - b.boot) \notin -Skew..Skew THEN "ClockRollback"
  ELSE "Allow"

(* Mutant: any divergence of the two clocks counts as a rollback. *)
VerdictWithoutSkew(b, s, ttl, n) ==
  IF s.wall >= b.expires THEN "BearerExpired"
  ELSE IF s.wall >= b.issued + ttl * Second THEN "PolicyExpired"
  ELSE IF n >= Rate THEN "RateLimited"
  ELSE IF s.wall - b.issued # s.boot - b.boot THEN "ClockRollback"
  ELSE "Allow"

(* The clauses of decide about time, in their order; the first that fails decides. *)
Verdict(b, s, ttl, n) ==
  IF s.wall >= b.expires THEN "BearerExpired"
  ELSE IF s.wall >= b.issued + ttl * Second THEN "PolicyExpired"
  ELSE IF n >= Rate THEN "RateLimited"
  ELSE IF \/ s.wall < InitWall \/ s.wall < b.issued
          \/ s.boot < b.boot THEN "ClockRollback"
  ELSE IF s.boot - b.boot >= b.expires - b.issued THEN "BearerExpired"
  ELSE IF (s.wall - b.issued) - (s.boot - b.boot) \notin -Skew..Skew THEN "ClockRollback"
  ELSE "Allow"

(* The wall clock was stepped since the call read it. *)
Stepped(t) == snap[t].wall - snap[t].at # wall - up

(* The counter is bumped with the time read at the start, then the pure decide. *)
Decide(t) ==
  /\ pc[t] = "decide"
  /\ LET k == token[t]
         c == Bumped(counter[k], snap[t].wall)
         v == Verdict(bearer[k], snap[t], loaded[t], c.n)
     IN /\ counter' = [counter EXCEPT ![k] = c]
        /\ verdict' = [verdict EXCEPT ![t] = v]
        /\ served' = [served EXCEPT ![k] =
             IF Stepped(t) THEN <<>>
             ELSE IF v = "Allow"
             THEN Append(@, [by |-> t, at |-> snap[t].at, start |-> c.start, n |-> c.n])
             ELSE @]
  /\ Goto(t, "decided")
  /\ UNCHANGED <<clocks, store, snap, ask, token, loaded, spent>>

(* The request is sent or refused, and the call returns. *)
Finish(t) ==
  /\ pc[t] = "decided"
  /\ Return(t)
  /\ UNCHANGED <<clocks, store, counter, spent, served>>

-----------------------------------------------------------------------------
Tick ==
  /\ up < MaxTime
  /\ up' = up + 1
  /\ wall' = wall + 1
  /\ UNCHANGED <<bootAt, back, store, counter, pc, locals, spent, served>>

Suffer(what) ==
  /\ what \in Mishap
  /\ Spend(MishapCost)
  /\ served' = [k \in Token |-> <<>>]

(* The wall clock is set: by hand, by NTP, by a hypervisor. *)
StepWall ==
  /\ Suffer("step")
  /\ \E d \in Steps :
       /\ wall + d > 0
       /\ wall' = wall + d
       /\ back' = back + (IF d < 0 THEN -d ELSE 0)
  /\ UNCHANGED <<up, bootAt, store, counter, pc, locals>>

(* The calls and the counters are gone. *)
ProcessDies ==
  /\ counter' = [k \in Token |-> [start |-> 0, n |-> 0]]
  /\ pc' = [t \in Thread |-> "idle"]
  /\ snap' = [t \in Thread |-> NoSnap]
  /\ ask' = [t \in Thread |-> NoAsk]
  /\ token' = [t \in Thread |-> NoToken]
  /\ loaded' = [t \in Thread |-> 0]
  /\ verdict' = [t \in Thread |-> "none"]

Restart ==
  /\ Suffer("restart")
  /\ ProcessDies
  /\ UNCHANGED <<up, wall, bootAt, back, store>>

Reboot ==
  /\ Suffer("reboot")
  /\ ProcessDies
  /\ bootAt # up
  /\ bootAt' = up
  /\ UNCHANGED <<up, wall, back, store>>

Next ==
  \/ \E t \in Thread :
       \/ StartMint(t) \/ SavePolicy(t) \/ SaveBearer(t)
       \/ StartSwap(t) \/ LoadPolicy(t) \/ Decide(t) \/ Finish(t)
  \/ Tick \/ StepWall \/ Restart \/ Reboot

Spec == Init /\ [][Next]_vars

-----------------------------------------------------------------------------
(***************************************************************************)
(* Properties.                                                             *)
(***************************************************************************)

Serving == [by : Thread, at : 0..MaxTime, start : Nat, n : Nat]
Snap == [at : 0..MaxTime, wall : Nat, boot : 0..MaxTime, bootAt : 0..MaxTime, back : Nat]

(* Every variable has its type, and what is stored was stamped with clocks that were    *)
(* read: a bearer expires after it was issued (broker/policy.rs:97-108).                *)
TypeOK ==
  /\ up \in 0..MaxTime
  /\ wall \in Nat
  /\ bootAt \in 0..up
  /\ bearer \in [Token -> {NoBearer} \cup
       [issued : Nat, boot : 0..MaxTime, expires : Nat, asked : Asks, minted : Snap]]
  /\ \A k \in Minted : bearer[k].expires > bearer[k].issued
  /\ policyTtl \in {0} \cup {a.policy : a \in Asks}
  /\ counter \in [Token -> [start : Nat, n : Nat]]
  /\ pc \in [Thread -> {"idle", "savePolicy", "saveBearer", "loadPolicy", "decide", "decided"}]
  /\ snap \in [Thread -> {NoSnap} \cup Snap]
  /\ ask \in [Thread -> {NoAsk} \cup Asks]
  /\ token \in [Thread -> Token \cup {NoToken}]
  /\ loaded \in [Thread -> {0} \cup {a.policy : a \in Asks}]
  /\ verdict \in [Thread -> {"none", "Allow", "BearerExpired", "PolicyExpired",
                             "RateLimited", "ClockRollback"}]
  /\ spent \in 0..MaxSpent
  /\ back \in Nat
  /\ served \in [Token -> Seq(Serving)]

(* Of a swap that was decided: *)
Of(t) == bearer[token[t]]
Lived(t) == snap[t].at - Of(t).minted.at
Drift(t) == (snap[t].wall - Of(t).minted.wall) - Lived(t)
Rebooted(t) == snap[t].bootAt # Of(t).minted.bootAt
SetBack(t) == snap[t].back - Of(t).minted.back
Limits(t) == {Of(t).asked.policy, Of(t).asked.requested, MaxBearerTtl}

(* A bearer dies on time by either clock alone (decide.rs:122-135, 254-282): no swap is *)
(* allowed once more time went by since the mint than any of its three limits, except   *)
(* that after a reboot it may live longer by what the wall clock was set back.          *)
BearerDiesOnTime ==
  \A t \in Thread : verdict[t] = "Allow" =>
    \A n \in Limits(t) :
      Lived(t) < n * Second + (IF Rebooted(t) THEN SetBack(t) ELSE 0)

(* The two clocks do not turn an honest user down (decide.rs:269-282): while the machine *)
(* stays up, the wall clock was never set back and it drifted from the boot clock by at  *)
(* most the skew, no swap is taken for a rollback, and none is found expired but in the  *)
(* last second of the bearer's life or after it, the drift counted.                      *)
HonestClockIsServed ==
  \A t \in Thread :
    /\ verdict[t] \in {"ClockRollback", "BearerExpired"}
    /\ ~Rebooted(t)
    /\ snap[t].back = 0
    /\ Drift(t) <= Skew
    => /\ verdict[t] = "BearerExpired"
       /\ \E n \in Limits(t) : Lived(t) + Drift(t) + Second > n * Second

(* The requests allowed in the minute from x on. *)
ServedFrom(k, x) == {i \in DOMAIN served[k] : served[k][i].at \in x..(x + Minute - 1)}

(* The windows of `bump` do not slide (broker/mod.rs:211-226), whatever the comments call *)
(* them (201-202), so two of them may meet in one minute, and a slow call may count in a  *)
(* later window than the one it began in: but no minute sees more than two windows' worth *)
(* and the calls of the other threads, while the wall clock is not stepped and no call    *)
(* that began before a step opens a window.                                               *)
RateIsBounded ==
  \A k \in Token : \A x \in 0..up :
    Cardinality(ServedFrom(k, x)) <= 2 * (Rate - 1) + Cardinality(Thread) - 1
=============================================================================
