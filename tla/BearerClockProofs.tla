---------------------------- MODULE BearerClockProofs ----------------------------
(***************************************************************************)
(* Theorems about BearerClock, for any lengths of a second and a minute,   *)
(* any ttls, rate and steps of the wall clock: its types, that a bearer    *)
(* dies on time, that honest clocks are not turned down, and that the rate *)
(* holds.  The clocks read by a mint and by a later swap are related by    *)
(* Before: the wall clock went at least as far as the true time, less what *)
(* it was set back.  The requests served are related by Windows: each was  *)
(* let through in a window of one minute, and no window lets more through  *)
(* than the rate.                                                          *)
(***************************************************************************)
EXTENDS BearerClock, FiniteSetTheorems, TLAPS

USE DEF Goto, Spend, Begin, clocks, store, locals

Swapping == {"loadPolicy", "decide", "decided"}
Bearer == [issued : Nat, boot : 0..MaxTime, expires : Nat, asked : Asks, minted : Snap]

(* What the clocks say now. *)
Now == [at |-> up, wall |-> wall, boot |-> up - bootAt, bootAt |-> bootAt, back |-> back]

Before(s, r) ==
  /\ s.at <= r.at /\ s.back <= r.back
  /\ r.at - s.at - (r.back - s.back) <= r.wall - s.wall

(* A reading of the clocks that was taken. *)
Taken(s) ==
  /\ s \in Snap /\ s.wall > 0
  /\ s.boot = s.at - s.bootAt
  /\ InitWall - s.back <= s.wall
  /\ Before(s, Now)

(* What a mint wrote into its row. *)
Stamped(b) ==
  /\ b \in Bearer /\ Taken(b.minted)
  /\ b.issued = b.minted.wall /\ b.boot = b.minted.boot
  /\ ClampedTtl(b.asked) > 0
  /\ b.expires = (b.issued \div Second + ClampedTtl(b.asked)) * Second

(* What a call under way has read and decided. *)
InCall(t) ==
  /\ pc[t] \in {"savePolicy", "saveBearer"} \cup Swapping => Taken(snap[t])
  /\ pc[t] \in {"savePolicy", "saveBearer"} => ask[t] \in Asks
  /\ pc[t] = "saveBearer" => ClampedTtl(ask[t]) > 0
  /\ pc[t] \in Swapping => token[t] \in Minted /\ Before(bearer[token[t]].minted, snap[t])
  /\ verdict[t] # "none" =>
       /\ pc[t] = "decided"
       /\ \E n \in Nat : verdict[t] = Verdict(bearer[token[t]], snap[t], loaded[t], n)

Clocked ==
  /\ TypeOK
  /\ Taken(Now)
  /\ \A k \in Minted : Stamped(bearer[k])
  /\ \A t \in Thread : InCall(t)

-----------------------------------------------------------------------------
(* clamp_ttl is one of the three limits, and none is less. *)
LEMMA ClampIsLeast ==
  ASSUME NEW a \in Asks
  PROVE  /\ ClampedTtl(a) \in {a.requested, a.policy, MaxBearerTtl}
         /\ ClampedTtl(a) \in Int
         /\ \A n \in {a.requested, a.policy, MaxBearerTtl} : n \in Int /\ ClampedTtl(a) <= n
<1> DEFINE S == {a.requested, a.policy, MaxBearerTtl}
<1>1. a.requested \in Int /\ a.policy \in Int /\ MaxBearerTtl \in Int
  BY ClockAssumption
<1>2. \E n \in S : \A m \in S : n <= m
  BY <1>1
<1>3. ClampedTtl(a) \in S /\ \A m \in S : ClampedTtl(a) <= m
  BY <1>2 DEF ClampedTtl, Least
<1> QED
  BY <1>1, <1>3

LEMMA Scale ==
  ASSUME NEW m \in Int, NEW n \in Int, m <= n
  PROVE  m * Second \in Int /\ n * Second \in Int /\ m * Second <= n * Second
<1>1. Second \in Nat /\ Second > 0
  BY ClockAssumption
<1> QED
  BY <1>1

(* A bearer is stored with an expiry less than a second before the clamped ttl is up. *)
LEMMA Expiry ==
  ASSUME NEW w \in Nat, NEW ttl \in Int
  PROVE  /\ (w \div Second + ttl) * Second \in Int
         /\ (w \div Second + ttl) * Second <= w + ttl * Second
         /\ (w \div Second + ttl) * Second > w + ttl * Second - Second
<1>1. Second \in Nat /\ Second > 0
  BY ClockAssumption
<1>2. PICK q \in Nat : q = w \div Second /\ q * Second <= w /\ w < q * Second + Second
  <2>1. /\ w \div Second \in Nat
        /\ w - (w \div Second) * Second \in 0..(Second - 1)
    BY <1>1
  <2>2. (w \div Second) * Second \in Int
    BY <1>1, <2>1
  <2> QED
    BY <1>1, <2>1, <2>2
<1>3. (q + ttl) * Second = q * Second + ttl * Second
  BY <1>1
<1>4. q * Second \in Int /\ ttl * Second \in Int
  BY <1>1
<1> QED
  BY <1>1, <1>2, <1>3, <1>4

Reading(s) == s.at \in Int /\ s.wall \in Int /\ s.back \in Int

LEMMA BeforeIsTransitive ==
  ASSUME NEW r, NEW s, NEW q, Reading(r), Reading(s), Reading(q), Before(r, s), Before(s, q)
  PROVE  Before(r, q)
BY DEF Before, Reading

(* Readings stay behind the clocks as these go on. *)
LEMMA StaysTaken ==
  ASSUME Clocked, Before(Now, Now'), Reading(Now'), NEW s, Taken(s)
  PROVE  Taken(s)'
<1>1. Reading(s) /\ Reading(Now)
  BY DEF Taken, Snap, Reading, Clocked
<1>2. Before(s, Now')
  BY <1>1, BeforeIsTransitive DEF Taken
<1> QED
  BY <1>2 DEF Taken, Snap

LEMMA InitClocked == Init => Clocked
<1> SUFFICES ASSUME Init PROVE Clocked
  OBVIOUS
<1> USE ClockAssumption DEF Init
<1>1. TypeOK
  <2>1. served \in [Token -> Seq(Serving)]
    OBVIOUS
  <2>2. /\ bearer \in [Token -> {NoBearer} \cup
              [issued : Nat, boot : 0..MaxTime, expires : Nat, asked : Asks, minted : Snap]]
        /\ Minted = {}
    BY DEF Minted
  <2> QED
    BY <2>1, <2>2 DEF TypeOK
<1>2. Taken(Now)
  BY DEF Taken, Now, Snap, Before
<1>3. Minted = {}
  BY DEF Minted
<1> QED
  BY <1>1, <1>2, <1>3 DEF Clocked, InCall, Swapping

LEMMA WallGoesOn ==
  ASSUME NEW u \in Int, NEW v \in Int, NEW w \in Int, NEW x \in Int, NEW b \in Int, NEW c \in Int,
         InitWall \in Int, u <= v, v - u - (c - b) <= x - w, InitWall - b <= w
  PROVE  InitWall - c <= x
OBVIOUS

(* The true time goes on, and the wall clock with it but for what it is set back. *)
LEMMA ClocksGoOn ==
  ASSUME Clocked, [Next]_vars
  PROVE  Before(Now, Now') /\ Reading(Now') /\ Taken(Now)'
<1>0. InitWall \in Nat /\ MaxTime \in Nat
  BY ClockAssumption
<1>1. /\ up \in 0..MaxTime /\ wall \in Nat /\ wall > 0 /\ back \in Nat /\ bootAt \in 0..up
      /\ InitWall - back <= wall
  BY DEF Taken, Now, Clocked, TypeOK
<1>2. ASSUME up' \in 0..MaxTime, up <= up', wall' \in Nat, wall' > 0, back' \in Nat, back <= back',
             bootAt' \in 0..up', up' - up - (back' - back) <= wall' - wall
      PROVE  Before(Now, Now') /\ Reading(Now') /\ Taken(Now)'
  <2>1. /\ Now.at = up /\ Now.wall = wall /\ Now.back = back
        /\ Now'.at = up' /\ Now'.wall = wall' /\ Now'.back = back'
        /\ Now'.boot = up' - bootAt' /\ Now'.bootAt = bootAt'
    BY DEF Now
  <2>2. up' - bootAt' \in 0..MaxTime /\ bootAt' \in 0..MaxTime
    <3>1. ASSUME NEW u \in 0..MaxTime, NEW b \in 0..u
          PROVE  u - b \in 0..MaxTime /\ b \in 0..MaxTime
      BY <1>0
    <3> QED
      BY <1>0, <1>2, <3>1
  <2>3. Now' \in Snap
    BY <1>0, <1>2, <2>2 DEF Now, Snap
  <2> QED
    <3>1. /\ up \in Int /\ wall \in Int /\ back \in Int
          /\ up' \in Int /\ wall' \in Int /\ back' \in Int
      BY <1>1, <1>2
    <3>2. /\ up <= up' /\ back <= back' /\ wall' > 0
          /\ up' - up - (back' - back) <= wall' - wall
      BY <1>2
    <3>3. InitWall \in Int /\ InitWall - back <= wall
      BY <1>0, <1>1
    <3>4. InitWall - back' <= wall'
      BY <3>1, <3>2, <3>3, WallGoesOn
    <3>5. Reading(Now') /\ Before(Now, Now')
      BY <2>1, <3>1, <3>2 DEF Reading, Before
    <3>6. Before(Now', Now')
      BY <3>5 DEF Before, Reading
    <3>7. /\ Now'.wall > 0 /\ InitWall - Now'.back <= Now'.wall
          /\ Now'.boot = Now'.at - Now'.bootAt
      BY <2>1, <3>2, <3>4
    <3> QED
      BY <2>3, <3>5, <3>6, <3>7 DEF Taken
<1>3. CASE UNCHANGED clocks
  BY <1>1, <1>2, <1>3
<1>4. CASE Tick
  BY <1>0, <1>1, <1>2, <1>4 DEF Tick
<1>5. CASE StepWall
  <2>1. PICK d \in Steps : wall + d > 0 /\ wall' = wall + d /\ back' = back + (IF d < 0 THEN -d ELSE 0)
    BY <1>5 DEF StepWall
  <2>2. UNCHANGED <<up, bootAt>> /\ d \in Int
    BY <1>5, ClockAssumption DEF StepWall
  <2>3. /\ wall' \in Nat /\ wall' > 0 /\ back' \in Nat /\ back <= back'
        /\ wall' - wall >= 0 - (back' - back)
    BY <1>1, <2>1, <2>2
  <2> QED
    BY <1>1, <1>2, <2>2, <2>3
<1>6. CASE Restart \/ Reboot
  <2>1. UNCHANGED <<up, wall, back>> /\ bootAt' \in {bootAt, up}
    BY <1>6 DEF Restart, Reboot
  <2> QED
    BY <1>1, <1>2, <2>1
<1> QED
  BY <1>3, <1>4, <1>5, <1>6 DEF Next, vars, StartMint, SavePolicy, SaveBearer, StartSwap, LoadPolicy,
     Decide, Finish

(* What every step keeps of the clocks, *)
LEMMA OldReadings ==
  ASSUME Clocked, [Next]_vars, NEW s, Taken(s)
  PROVE  Taken(s)'
BY ClocksGoOn, StaysTaken

(* and of the bearers: they stay as they were minted. *)
LEMMA OldBearers ==
  ASSUME Clocked, [Next]_vars, NEW k \in Minted
  PROVE  k \in Minted' /\ bearer'[k] = bearer[k] /\ Stamped(bearer[k])'
<1>1. bearer'[k] = bearer[k]
  <2>1. CASE bearer' = bearer
    BY <2>1
  <2>2. CASE \E t \in Thread : SaveBearer(t)
    BY <2>2 DEF SaveBearer, Clocked, TypeOK
  <2> QED
    BY <2>1, <2>2 DEF Next, vars, StartMint, SavePolicy, StartSwap, LoadPolicy, Decide, Finish,
       Tick, StepWall, Restart, Reboot
<1>2. Stamped(bearer[k]) /\ Taken(bearer[k].minted)
  BY DEF Clocked, Stamped
<1>3. Stamped(bearer[k])'
  BY <1>1, <1>2, OldReadings DEF Stamped
<1> QED
  BY <1>1, <1>3 DEF Minted

(* A mint stores what the clamp let through. *)
LEMMA NewBearer ==
  ASSUME Clocked, [Next]_vars, NEW t \in Thread, SaveBearer(t)
  PROVE  \E k \in Token, b \in Bearer :
           /\ bearer' = [bearer EXCEPT ![k] = b]
           /\ b.expires > b.issued /\ b.issued > 0
           /\ Stamped(b)'
<1>1. PICK s, a : s = snap[t] /\ a = ask[t]
  OBVIOUS
<1>2. Taken(s) /\ a \in Asks /\ ClampedTtl(a) > 0 /\ Taken(s)'
  <2>1. Taken(s) /\ a \in Asks /\ ClampedTtl(a) > 0
    BY <1>1 DEF SaveBearer, Clocked, InCall
  <2> QED
    BY <2>1, OldReadings
<1>3. ClampedTtl(a) \in Int /\ s \in Snap /\ s.wall \in Nat /\ s.wall > 0
  BY <1>2, ClampIsLeast DEF Taken, Snap
<1>4. PICK e : e = (s.wall \div Second + ClampedTtl(a)) * Second
  OBVIOUS
<1>5. e \in Int /\ e > s.wall
  <2>1. e \in Int /\ e > s.wall + ClampedTtl(a) * Second - Second
    BY <1>3, <1>4, Expiry
  <2>2. 1 * Second <= ClampedTtl(a) * Second /\ ClampedTtl(a) * Second \in Int
    BY <1>2, <1>3, Scale
  <2>3. 1 * Second = Second /\ Second \in Int
    BY ClockAssumption
  <2> QED
    BY <1>3, <2>1, <2>2, <2>3
<1> DEFINE b == [issued |-> s.wall, boot |-> s.boot, expires |-> e, asked |-> a, minted |-> s]
<1>6. PICK k \in Token : bearer' = [bearer EXCEPT ![k] = b]
  BY <1>1, <1>4 DEF SaveBearer
<1>7. b \in Bearer
  BY <1>2, <1>3, <1>5 DEF Bearer, Snap
<1>8. Stamped(b)'
  BY <1>2, <1>4, <1>7 DEF Stamped
<1>9. b.expires > b.issued /\ b.issued > 0
  BY <1>3, <1>5
<1> QED
  BY <1>6, <1>7, <1>8, <1>9

Frames ==
  /\ pc \in [Thread -> {"idle", "savePolicy", "saveBearer", "loadPolicy", "decide", "decided"}]
  /\ snap \in [Thread -> {NoSnap} \cup Snap]
  /\ ask \in [Thread -> {NoAsk} \cup Asks]
  /\ token \in [Thread -> Token \cup {NoToken}]
  /\ loaded \in [Thread -> {0} \cup {a.policy : a \in Asks}]
  /\ verdict \in [Thread -> {"none", "Allow", "BearerExpired", "PolicyExpired",
                             "RateLimited", "ClockRollback"}]

Tables ==
  /\ bearer \in [Token -> {NoBearer} \cup Bearer]
  /\ \A k \in Minted : bearer[k].expires > bearer[k].issued
  /\ policyTtl \in {0} \cup {a.policy : a \in Asks}
  /\ counter \in [Token -> [start : Nat, n : Nat]]
  /\ served \in [Token -> Seq(Serving)]
  /\ spent \in 0..MaxSpent

LEMMA StepFrames ==
  ASSUME Clocked, [Next]_vars
  PROVE  Frames'
<1> USE DEF Frames, Clocked, TypeOK
<1>1. Now \in Snap
  BY DEF Taken
<1>2. ASSUME NEW t \in Thread, StartMint(t) \/ StartSwap(t) PROVE Frames'
  <2>1. snap' = [snap EXCEPT ![t] = Now]
    BY <1>2 DEF StartMint, StartSwap, ReadClocks, Now
  <2>2. snap' \in [Thread -> {NoSnap} \cup Snap]
    BY <1>1, <2>1
  <2>3. CASE StartMint(t)
    BY <2>2, <2>3 DEF StartMint
  <2>4. CASE StartSwap(t)
    BY <2>2, <2>4 DEF StartSwap, Minted
  <2> QED
    BY <1>2, <2>3, <2>4
<1>3. ASSUME NEW t \in Thread, Return(t) PROVE Frames'
  BY <1>3 DEF Return
<1>4. ASSUME NEW t \in Thread, SavePolicy(t) PROVE Frames'
  <2>1. Return(t) \/ (UNCHANGED locals /\ Goto(t, "saveBearer"))
    BY <1>4 DEF SavePolicy
  <2> QED
    BY <1>3, <2>1
<1>5. ASSUME NEW t \in Thread, SaveBearer(t) \/ Finish(t) PROVE Frames'
  BY <1>3, <1>5 DEF SaveBearer, Finish
<1>6. ASSUME NEW t \in Thread, LoadPolicy(t) PROVE Frames'
  BY <1>6 DEF LoadPolicy
<1>7. ASSUME NEW t \in Thread, Decide(t) PROVE Frames'
  <2>1. PICK n : verdict' = [verdict EXCEPT ![t] = Verdict(bearer[token[t]], snap[t], loaded[t], n)]
    BY <1>7 DEF Decide
  <2>2. Verdict(bearer[token[t]], snap[t], loaded[t], n) \in
          {"Allow", "BearerExpired", "PolicyExpired", "RateLimited", "ClockRollback"}
    BY DEF Verdict
  <2> QED
    BY <1>7, <2>1, <2>2 DEF Decide
<1>8. CASE Tick \/ StepWall
  BY <1>8 DEF Tick, StepWall
<1>9. CASE Restart \/ Reboot
  BY <1>9 DEF Restart, Reboot, ProcessDies
<1>10. CASE UNCHANGED vars
  BY <1>10 DEF vars
<1> QED
  BY <1>2, <1>4, <1>5, <1>6, <1>7, <1>8, <1>9, <1>10 DEF Next

LEMMA StepTables ==
  ASSUME Clocked, [Next]_vars
  PROVE  Tables'
<1> USE ClockAssumption DEF Tables
<1>1. /\ bearer \in [Token -> {NoBearer} \cup Bearer]
      /\ \A k \in Minted : bearer[k].expires > bearer[k].issued
      /\ policyTtl \in {0} \cup {a.policy : a \in Asks}
      /\ counter \in [Token -> [start : Nat, n : Nat]]
      /\ served \in [Token -> Seq(Serving)]
      /\ spent \in 0..MaxSpent
  BY DEF Clocked, TypeOK, Bearer
<1>2. spent' \in 0..MaxSpent
  <2>1. CASE \E t \in Thread : Decide(t)
    BY <1>1, <2>1 DEF Decide
  <2>2. CASE ~ \E t \in Thread : Decide(t)
    BY <1>1, <2>2 DEF Next, vars, StartMint, SavePolicy, SaveBearer, StartSwap, LoadPolicy, Finish,
       Tick, StepWall, Restart, Reboot, Suffer
  <2> QED
    BY <2>1, <2>2
<1>3. ASSUME bearer' = bearer
      PROVE  /\ bearer' \in [Token -> {NoBearer} \cup Bearer]
             /\ \A k \in Minted' : bearer'[k].expires > bearer'[k].issued
  BY <1>1, <1>3 DEF Minted
<1>4. ASSUME NEW t \in Thread, SaveBearer(t) PROVE Tables'
  <2>1. PICK k \in Token, b \in Bearer :
          bearer' = [bearer EXCEPT ![k] = b] /\ b.expires > b.issued
    BY <1>4, NewBearer
  <2> QED
    BY <1>1, <1>2, <1>4, <2>1 DEF SaveBearer, Minted
<1>5. ASSUME NEW t \in Thread, SavePolicy(t) PROVE Tables'
  <2>1. ask[t] \in Asks
    BY <1>5 DEF SavePolicy, Clocked, InCall
  <2> QED
    BY <1>1, <1>2, <1>3, <1>5, <2>1 DEF SavePolicy
<1>6. ASSUME NEW t \in Thread, Decide(t) PROVE Tables'
  <2>1. snap[t] \in Snap /\ token[t] \in Token
    BY <1>6 DEF Decide, Clocked, InCall, Swapping, Taken, Minted
  <2>2. Bumped(counter[token[t]], snap[t].wall) \in [start : Nat, n : Nat]
    <3>1. PICK c \in [start : Nat, n : Nat] : c = counter[token[t]]
      BY <1>1, <2>1
    <3>2. PICK w \in Nat : w = snap[t].wall
      BY <2>1 DEF Snap
    <3>3. [c EXCEPT !.n = @ + 1] \in [start : Nat, n : Nat]
      OBVIOUS
    <3>4. [start |-> w, n |-> 1] \in [start : Nat, n : Nat]
      OBVIOUS
    <3> QED
      BY <3>1, <3>2, <3>3, <3>4 DEF Bumped
  <2>3. counter' = [counter EXCEPT ![token[t]] = Bumped(counter[token[t]], snap[t].wall)]
    BY <1>6 DEF Decide
  <2>4. snap[t].at \in 0..MaxTime
    BY <2>1 DEF Snap
  <2> DEFINE c == Bumped(counter[token[t]], snap[t].wall)
             r == [by |-> t, at |-> snap[t].at, start |-> c.start, n |-> c.n]
  <2>5. \E q \in {served[token[t]], <<>>, Append(served[token[t]], r)} :
          served' = [served EXCEPT ![token[t]] = q]
    BY <1>6 DEF Decide
  <2>6. served[token[t]] \in Seq(Serving) /\ r \in Serving
    BY <1>1, <2>1, <2>2, <2>4 DEF Serving
  <2>7. served' \in [Token -> Seq(Serving)]
    <3>1. \A x \in Seq(Serving), y \in Serving : Append(x, y) \in Seq(Serving)
      OBVIOUS
    <3>2. <<>> \in Seq(Serving)
      OBVIOUS
    <3>3. PICK q \in Seq(Serving) : served' = [served EXCEPT ![token[t]] = q]
      BY <2>5, <2>6, <3>1, <3>2
    <3> QED
      BY <1>1, <3>3
  <2>8. counter' \in [Token -> [start : Nat, n : Nat]]
    BY <1>1, <2>2, <2>3
  <2>9. UNCHANGED <<bearer, policyTtl>>
    BY <1>6 DEF Decide
  <2> QED
    BY <1>1, <1>2, <1>3, <2>7, <2>8, <2>9
<1>7. ASSUME NEW t \in Thread, StartMint(t) \/ StartSwap(t) \/ LoadPolicy(t) \/ Finish(t)
      PROVE  Tables'
  BY <1>1, <1>2, <1>3, <1>7 DEF StartMint, StartSwap, LoadPolicy, Finish
<1>8. CASE Tick \/ StepWall
  <2>1. UNCHANGED <<bearer, policyTtl, counter>> /\ served' \in {served, [k \in Token |-> <<>>]}
    BY <1>8 DEF Tick, StepWall, Suffer
  <2>2. [k \in Token |-> <<>>] \in [Token -> Seq(Serving)]
    OBVIOUS
  <2> QED
    BY <1>1, <1>2, <1>3, <2>1, <2>2
<1>9. CASE Restart \/ Reboot
  <2>1. /\ UNCHANGED <<bearer, policyTtl>> /\ served' = [k \in Token |-> <<>>]
        /\ counter' = [k \in Token |-> [start |-> 0, n |-> 0]]
    BY <1>9 DEF Restart, Reboot, Suffer, ProcessDies
  <2>2. /\ served' \in [Token -> Seq(Serving)]
        /\ counter' \in [Token -> [start : Nat, n : Nat]]
    BY <2>1
  <2> QED
    BY <1>1, <1>2, <1>3, <2>1, <2>2
<1>10. CASE UNCHANGED vars
  BY <1>1, <1>2, <1>3, <1>10 DEF vars
<1> QED
  BY <1>4, <1>5, <1>6, <1>7, <1>8, <1>9, <1>10 DEF Next

LEMMA StepTypes ==
  ASSUME Clocked, [Next]_vars
  PROVE  TypeOK'
<1>1. Now' \in Snap
  BY ClocksGoOn DEF Taken
<1>2. up' \in 0..MaxTime /\ wall' \in Nat /\ back' \in Nat /\ bootAt' \in Nat
  BY <1>1 DEF Now, Snap
<1>3. bootAt' <= up'
  <2>1. up' - bootAt' \in 0..MaxTime
    BY <1>1 DEF Now, Snap
  <2>2. \A u, b \in Int : u - b \in 0..MaxTime => b <= u
    BY ClockAssumption
  <2>3. up' \in Int /\ bootAt' \in Int
    <3>1. MaxTime \in Nat
      BY ClockAssumption
    <3> QED
      BY <1>2, <3>1
  <2> QED
    BY <2>1, <2>2, <2>3
<1> QED
  BY <1>2, <1>3, StepFrames, StepTables, ClockAssumption DEF TypeOK, Frames, Tables, Bearer

(* A call keeps what it has, *)
LEMMA CallGoesOn ==
  ASSUME Clocked, [Next]_vars, NEW t \in Thread,
         pc'[t] = pc[t], snap'[t] = snap[t], ask'[t] = ask[t], token'[t] = token[t],
         loaded'[t] = loaded[t], verdict'[t] = verdict[t]
  PROVE  InCall(t)'
<1>1. InCall(t)
  BY DEF Clocked
<1>2. pc[t] \in Swapping => token[t] \in Minted' /\ bearer'[token[t]] = bearer[token[t]]
  BY <1>1, OldBearers DEF InCall
<1>3. PICK s : s = snap[t]
  OBVIOUS
<1>5. snap'[t] = s /\ (Taken(s) => Taken(s)')
  BY <1>3, OldReadings
<1>4. verdict[t] # "none" => pc[t] \in Swapping
  BY <1>1 DEF InCall, Swapping
<1>6. Taken(snap[t]) => Taken(snap[t])'
  BY <1>3, <1>5
<1> QED
  BY <1>1, <1>2, <1>4, <1>6 DEF InCall

(* and a step of a call gives it what it needs next. *)
LEMMA StepInCall ==
  ASSUME Clocked, [Next]_vars, NEW t \in Thread
  PROVE  InCall(t)'
<1> USE DEF Swapping
<1>1. /\ Clocked /\ Frames /\ InCall(t)
      /\ \A s : Taken(s) => Taken(s)'
      /\ \A k \in Minted : k \in Minted' /\ bearer'[k] = bearer[k]
  BY OldReadings, OldBearers DEF Clocked, TypeOK, Frames
<1>2. ASSUME pc'[t] = "idle", verdict'[t] = "none" PROVE InCall(t)'
  BY <1>2 DEF InCall
<1>3. CASE StartMint(t)
  <2>1. snap'[t] = Now /\ ask'[t] \in Asks /\ pc'[t] = "savePolicy" /\ verdict'[t] = verdict[t]
    BY <1>1, <1>3 DEF StartMint, ReadClocks, Now, Frames
  <2>2. PICK s : s = Now
    OBVIOUS
  <2>3. snap'[t] = s /\ Taken(s)' /\ verdict[t] = "none"
    BY <1>1, <1>3, <2>1, <2>2 DEF Clocked, InCall, StartMint
  <2>4. Taken(snap[t])'
    BY <2>3
  <2> QED
    BY <2>1, <2>3, <2>4 DEF InCall
<1>4. CASE SavePolicy(t)
  <2>1. CASE Return(t)
    BY <1>1, <1>2, <2>1 DEF Return, Frames
  <2>2. CASE ClampedTtl(ask[t]) > 0 /\ Goto(t, "saveBearer") /\ UNCHANGED locals
    <3>1. PICK s : s = snap[t]
      OBVIOUS
    <3>2. /\ snap'[t] = s /\ Taken(s)' /\ ask'[t] = ask[t] /\ ask[t] \in Asks
          /\ ClampedTtl(ask[t]) > 0 /\ verdict'[t] = "none" /\ pc'[t] = "saveBearer"
      BY <1>1, <1>4, <2>2, <3>1 DEF InCall, SavePolicy, Frames
    <3>3. Taken(snap[t])' /\ (ClampedTtl(ask[t]) > 0)'
      BY <3>2
    <3> QED
      BY <3>2, <3>3 DEF InCall
  <2> QED
    BY <1>4, <2>1, <2>2 DEF SavePolicy
<1>5. CASE SaveBearer(t) \/ Finish(t)
  BY <1>1, <1>2, <1>5 DEF SaveBearer, Finish, Return, Frames
<1>6. CASE StartSwap(t)
  <2>1. PICK k \in Minted : token' = [token EXCEPT ![t] = k]
    BY <1>6 DEF StartSwap
  <2>2. /\ snap'[t] = Now /\ token'[t] = k /\ pc'[t] = "loadPolicy" /\ verdict'[t] = verdict[t]
        /\ pc[t] = "idle"
    BY <1>1, <1>6, <2>1 DEF StartSwap, ReadClocks, Now, Frames
  <2>3. PICK s : s = Now
    OBVIOUS
  <2>4. snap'[t] = s /\ Taken(s)' /\ verdict[t] = "none"
    BY <1>1, <2>2, <2>3 DEF Clocked, InCall
  <2>5. k \in Minted' /\ bearer'[k] = bearer[k] /\ Before(bearer[k].minted, s)
    BY <1>1, <2>3 DEF Clocked, Stamped, Taken
  <2>6. Taken(snap[t])' /\ Before(bearer[token[t]].minted, snap[t])'
    BY <2>2, <2>4, <2>5 DEF Before
  <2> QED
    BY <2>2, <2>4, <2>5, <2>6 DEF InCall
<1>7. CASE LoadPolicy(t)
  <2>1. PICK s : s = snap[t]
    OBVIOUS
  <2>2. /\ pc[t] = "loadPolicy" /\ pc'[t] = "decide" /\ verdict'[t] = "none"
        /\ snap'[t] = snap[t] /\ token'[t] = token[t]
    BY <1>1, <1>7 DEF LoadPolicy, Frames, InCall
  <2> QED
    BY <1>1, <2>1, <2>2 DEF InCall
<1>8. CASE Decide(t)
  <2>1. PICK s : s = snap[t]
    OBVIOUS
  <2>2. /\ pc[t] = "decide" /\ pc'[t] = "decided"
        /\ snap'[t] = snap[t] /\ token'[t] = token[t] /\ loaded'[t] = loaded[t]
        /\ token[t] \in Minted /\ Taken(snap[t])
        /\ bearer'[token[t]] = bearer[token[t]]
    BY <1>1, <1>8 DEF Decide, Frames, InCall
  <2>3. counter'[token[t]].n \in Nat
    BY <2>2, StepTables DEF Tables, Minted
  <2>4. verdict'[t] = Verdict(bearer[token[t]], snap[t], loaded[t], counter'[token[t]].n)
    BY <1>1, <1>8, <2>2 DEF Decide, Frames, Clocked, TypeOK, Minted
  <2> QED
    BY <1>1, <2>1, <2>2, <2>3, <2>4 DEF InCall
<1>9. ASSUME NEW u \in Thread, u # t,
             \/ StartMint(u) \/ SavePolicy(u) \/ SaveBearer(u)
             \/ StartSwap(u) \/ LoadPolicy(u) \/ Decide(u) \/ Finish(u)
      PROVE  InCall(t)'
  <2>1. /\ pc'[t] = pc[t] /\ snap'[t] = snap[t] /\ ask'[t] = ask[t] /\ token'[t] = token[t]
        /\ loaded'[t] = loaded[t] /\ verdict'[t] = verdict[t]
    BY <1>1, <1>9 DEF Frames, StartMint, SavePolicy, SaveBearer, StartSwap, LoadPolicy, Decide,
       Finish, Return, ReadClocks
  <2> QED
    BY <2>1, CallGoesOn
<1>10. CASE Tick \/ StepWall \/ UNCHANGED vars
  BY <1>10, CallGoesOn DEF Tick, StepWall, vars
<1>11. CASE Restart \/ Reboot
  BY <1>2, <1>11 DEF Restart, Reboot, ProcessDies
<1> QED
  BY <1>3, <1>4, <1>5, <1>6, <1>7, <1>8, <1>9, <1>10, <1>11 DEF Next

LEMMA AlwaysClocked == Spec => []Clocked
<1>1. ASSUME Clocked, [Next]_vars PROVE Clocked'
  <2>1. ASSUME NEW k \in Minted' PROVE Stamped(bearer[k])'
    <3>1. CASE k \in Minted
      BY <1>1, <3>1, OldBearers
    <3>2. CASE k \notin Minted
      <4>1. PICK t \in Thread : SaveBearer(t)
        BY <1>1, <3>2 DEF Minted, Next, vars, StartMint, SavePolicy, StartSwap, LoadPolicy, Decide,
           Finish, Tick, StepWall, Restart, Reboot
      <4>2. PICK j \in Token, b \in Bearer : bearer' = [bearer EXCEPT ![j] = b] /\ Stamped(b)'
        BY <1>1, <4>1, NewBearer
      <4>3. j = k /\ bearer'[k] = b
        BY <1>1, <3>2, <4>2 DEF Minted, Clocked, TypeOK
      <4> QED
        BY <4>2, <4>3
    <3> QED
      BY <3>1, <3>2
  <2> QED
    BY <1>1, <2>1, ClocksGoOn, StepTypes, StepInCall DEF Clocked
<1> QED
  BY <1>1, InitClocked, PTL DEF Spec

(* Every variable keeps its type, and a bearer expires after it was issued.            *)
THEOREM TypeCorrect == Spec => []TypeOK
  BY AlwaysClocked, PTL DEF Clocked

-----------------------------------------------------------------------------
(* Of a swap that was decided: its bearer's stamps, what it read, and the verdict. *)
Decided(b, s, m) ==
  /\ b.issued \in Nat /\ b.boot \in Int /\ b.expires \in Int
  /\ s.wall \in Nat /\ s.boot \in Int /\ s.at \in Int /\ s.bootAt \in Int /\ s.back \in Nat
  /\ m.at \in Int /\ m.bootAt \in Int /\ m.back \in Nat
  /\ m.wall = b.issued
  /\ b.boot = m.at - m.bootAt /\ s.boot = s.at - s.bootAt
  /\ InitWall - s.back <= s.wall
  /\ Before(m, s)

LEMMA DecidedFacts ==
  ASSUME Clocked, NEW t \in Thread, verdict[t] # "none"
  PROVE  /\ Decided(Of(t), snap[t], Of(t).minted)
         /\ Of(t).asked \in Asks
         /\ Of(t).expires = (Of(t).issued \div Second + ClampedTtl(Of(t).asked)) * Second
         /\ \E n \in Nat : verdict[t] = Verdict(Of(t), snap[t], loaded[t], n)
<1>1. InCall(t) /\ pc[t] \in Swapping
  BY DEF Clocked, InCall, Swapping
<1>2. /\ Taken(snap[t]) /\ token[t] \in Minted /\ Before(Of(t).minted, snap[t])
      /\ \E n \in Nat : verdict[t] = Verdict(Of(t), snap[t], loaded[t], n)
  BY <1>1 DEF InCall, Of
<1>3. Stamped(Of(t))
  BY <1>2 DEF Clocked, Of
<1>4. Of(t) \in Bearer /\ Of(t).minted \in Snap /\ snap[t] \in Snap
  BY <1>2, <1>3 DEF Stamped, Taken
<1>5. MaxTime \in Nat
  BY ClockAssumption
<1> QED
  BY <1>2, <1>3, <1>4, <1>5 DEF Decided, Stamped, Taken, Bearer, Snap

(* What is left of a bearer's life when it is stored. *)
LEMMA LifeOf ==
  ASSUME NEW b, b.issued \in Nat, b.asked \in Asks,
         b.expires = (b.issued \div Second + ClampedTtl(b.asked)) * Second
  PROVE  /\ \A n \in {b.asked.policy, b.asked.requested, MaxBearerTtl} :
              n * Second \in Int /\ b.expires - b.issued <= n * Second
         /\ \E n \in {b.asked.policy, b.asked.requested, MaxBearerTtl} :
              n * Second \in Int /\ n * Second < b.expires - b.issued + Second
<1>1. PICK c \in Int : c = ClampedTtl(b.asked)
  BY ClampIsLeast
<1>2. PICK w \in Nat : w = b.issued
  OBVIOUS
<1>3. PICK e \in Int : e = b.expires /\ e <= w + c * Second /\ e > w + c * Second - Second
  BY <1>1, <1>2, Expiry
<1>4. c * Second \in Int /\ Second \in Int
  BY <1>1, ClockAssumption
<1>5. ASSUME NEW n \in {b.asked.policy, b.asked.requested, MaxBearerTtl}
      PROVE  n * Second \in Int /\ e - w <= n * Second
  <2>1. n \in Int /\ c <= n
    BY <1>1, ClampIsLeast
  <2>2. n * Second \in Int /\ c * Second <= n * Second
    BY <2>1, Scale
  <2> QED
    BY <1>2, <1>3, <1>4, <2>2
<1>6. c \in {b.asked.policy, b.asked.requested, MaxBearerTtl}
  BY <1>1, ClampIsLeast
<1>7. c * Second < e - w + Second
  BY <1>3, <1>4
<1> QED
  BY <1>2, <1>3, <1>4, <1>5, <1>6, <1>7

LEMMA AllowedInTime ==
  ASSUME NEW b, NEW s, NEW m, Decided(b, s, m), NEW ttl, NEW n, NEW life \in Int,
         b.expires - b.issued <= life,
         Verdict(b, s, ttl, n) = "Allow"
  PROVE  s.at - m.at < life + (IF s.bootAt # m.bootAt THEN s.back - m.back ELSE 0)
<1>1. ~ (s.wall >= b.expires) /\ ~ (s.boot - b.boot >= b.expires - b.issued)
  BY DEF Verdict
<1>2. CASE s.bootAt = m.bootAt
  BY <1>1, <1>2 DEF Decided
<1>3. CASE s.bootAt # m.bootAt
  BY <1>1, <1>3 DEF Decided, Before
<1> QED
  BY <1>2, <1>3

LEMMA NotTakenForRollback ==
  ASSUME NEW b, NEW s, NEW m, Decided(b, s, m), NEW ttl, NEW n,
         Verdict(b, s, ttl, n) \in {"ClockRollback", "BearerExpired"},
         s.bootAt = m.bootAt, s.back = 0,
         (s.wall - m.wall) - (s.at - m.at) <= Skew
  PROVE  /\ Verdict(b, s, ttl, n) = "BearerExpired"
         /\ s.wall - m.wall >= b.expires - b.issued
<1>1. InitWall \in Nat /\ Skew \in Nat
  BY ClockAssumption DEF Skew
<1>2. /\ m.back = 0
      /\ s.at - m.at <= s.wall - b.issued /\ m.at <= s.at
      /\ s.boot - b.boot = s.at - m.at
      /\ InitWall <= s.wall
  BY <1>1 DEF Decided, Before
<1>3. /\ ~ (s.wall < InitWall) /\ ~ (s.wall < b.issued) /\ ~ (s.boot < b.boot)
      /\ (s.wall - b.issued) - (s.boot - b.boot) \in -Skew..Skew
  BY <1>1, <1>2 DEF Decided
<1>4. /\ Verdict(b, s, ttl, n) = "BearerExpired"
      /\ s.wall >= b.expires \/ s.boot - b.boot >= b.expires - b.issued
  BY <1>3 DEF Verdict
<1> QED
  BY <1>2, <1>4 DEF Decided

(* No swap is allowed once a bearer lived longer than any of its three limits; only a   *)
(* reboot and a wall clock set back together may lengthen its life.                     *)
THEOREM BearersDieOnTime == Spec => []BearerDiesOnTime
<1>1. ASSUME Clocked PROVE BearerDiesOnTime
  <2>1. SUFFICES ASSUME NEW t \in Thread, verdict[t] = "Allow", NEW n \in Limits(t)
                 PROVE  Lived(t) < n * Second + (IF Rebooted(t) THEN SetBack(t) ELSE 0)
    BY DEF BearerDiesOnTime
  <2>2. PICK k \in Nat : Verdict(Of(t), snap[t], loaded[t], k) = "Allow"
    BY <1>1, <2>1, DecidedFacts
  <2>3. Decided(Of(t), snap[t], Of(t).minted) /\ Of(t).issued \in Nat
    BY <1>1, <2>1, DecidedFacts DEF Decided
  <2>4. n * Second \in Int /\ Of(t).expires - Of(t).issued <= n * Second
    BY <1>1, <2>1, <2>3, DecidedFacts, LifeOf DEF Limits
  <2> QED
    BY <2>2, <2>3, <2>4, AllowedInTime DEF Lived, Rebooted, SetBack
<1> QED
  BY <1>1, AlwaysClocked, PTL

(* While the machine stays up and the wall clock was never set back and drifts by no     *)
(* more than the skew, no swap is taken for a rollback, and none is found expired before *)
(* the last second of the bearer's life.                                                 *)
THEOREM HonestClocksAreServed == Spec => []HonestClockIsServed
<1>1. ASSUME Clocked PROVE HonestClockIsServed
  <2>1. SUFFICES ASSUME NEW t \in Thread, verdict[t] \in {"ClockRollback", "BearerExpired"},
                        ~ Rebooted(t), snap[t].back = 0, Drift(t) <= Skew
                 PROVE  /\ verdict[t] = "BearerExpired"
                        /\ \E n \in Limits(t) : Lived(t) + Drift(t) + Second > n * Second
    BY DEF HonestClockIsServed
  <2>2. PICK k \in Nat : verdict[t] = Verdict(Of(t), snap[t], loaded[t], k)
    BY <1>1, <2>1, DecidedFacts
  <2>3. Decided(Of(t), snap[t], Of(t).minted) /\ Of(t).issued \in Nat
    BY <1>1, <2>1, DecidedFacts DEF Decided
  <2>4. /\ verdict[t] = "BearerExpired"
        /\ snap[t].wall - Of(t).minted.wall >= Of(t).expires - Of(t).issued
    BY <2>1, <2>2, <2>3, NotTakenForRollback DEF Rebooted, Drift, Lived
  <2>5. PICK n \in Limits(t) :
          n * Second \in Int /\ n * Second < Of(t).expires - Of(t).issued + Second
    BY <1>1, <2>1, <2>3, DecidedFacts, LifeOf DEF Limits
  <2>6. Lived(t) + Drift(t) = snap[t].wall - Of(t).minted.wall
    BY <2>3 DEF Lived, Drift, Decided
  <2>7. Second \in Int
    BY ClockAssumption
  <2> QED
    BY <2>3, <2>4, <2>5, <2>6, <2>7 DEF Decided
<1> QED
  BY <1>1, AlwaysClocked, PTL

-----------------------------------------------------------------------------
(* The rate window.  `s` is the window that was open when the requests of a bearer were *)
(* last started over: of the windows opened since, the clocks are known.                *)

Off == wall - up
Served(k) == DOMAIN served[k]

(* A swap under way that reads its clock like one that begins now. *)
Calling(t) == pc[t] \in {"loadPolicy", "decide"} /\ ~ Stepped(t)

(* Each request has a place of its own in its window, and windows are a minute apart. *)
Placed(k, s) ==
  /\ \A i \in Served(k) :
       LET r == served[k][i]
       IN /\ r.start > 0 /\ s <= r.start /\ r.n \in 1..(Rate - 1)
          /\ \/ r.start = counter[k].start /\ r.n <= counter[k].n
             \/ r.start + Minute <= counter[k].start
          /\ r.at + Off < r.start + Minute
  /\ \A i, j \in Served(k) : i < j =>
       \/ served[k][i].start = served[k][j].start /\ served[k][i].n < served[k][j].n
       \/ served[k][i].start + Minute <= served[k][j].start

(* A thread reads the clock again only after its last request was counted. *)
Returns(k, s) ==
  /\ counter[k].start > s => counter[k].start <= wall
  /\ \A i \in Served(k) : served[k][i].start > s =>
       /\ \A j \in Served(k) : i < j /\ served[k][i].by = served[k][j].by =>
            served[k][j].at + Off >= served[k][i].start
       /\ Calling(served[k][i].by) => snap[served[k][i].by].wall >= served[k][i].start

(* The requests that this thread counts in a window opened at y or later began after y. *)
OnTime(u, k, y) ==
  /\ \A i \in Served(k) : served[k][i].by = u /\ served[k][i].start >= y =>
       served[k][i].at + Off >= y
  /\ Calling(u) => snap[u].wall >= y

(* The thread that opened the first window at y or later is one. *)
Opened(k, s) == \A y \in (s + 1)..counter[k].start : \E u \in Thread : OnTime(u, k, y)

Windowed(k, s) == Placed(k, s) /\ Returns(k, s) /\ Opened(k, s)

Windows == \A k \in Token : \E s \in 0..counter[k].start : Windowed(k, s)

LEMMA WindowTypes ==
  ASSUME Clocked, NEW k \in Token
  PROVE  /\ counter[k].start \in Nat /\ counter[k].n \in Nat
         /\ served[k] \in Seq(Serving)
         /\ \A i \in Served(k) :
              /\ served[k][i].by \in Thread /\ served[k][i].at \in Int
              /\ served[k][i].start \in Nat /\ served[k][i].n \in Nat
         /\ wall \in Nat /\ up \in Int /\ Off \in Int /\ Minute \in Nat /\ Minute > 0
<1>1. served[k] \in Seq(Serving) /\ counter[k] \in [start : Nat, n : Nat]
  BY DEF Clocked, TypeOK
<1>2. \A i \in Served(k) : served[k][i] \in Serving
  BY <1>1 DEF Served
<1>3. \A i \in Served(k) : served[k][i].by \in Thread /\ served[k][i].at \in Int
              /\ served[k][i].start \in Nat /\ served[k][i].n \in Nat
  BY <1>2, ClockAssumption DEF Serving
<1>4. wall \in Nat /\ up \in Int
  BY ClockAssumption DEF Clocked, TypeOK
<1> QED
  BY <1>1, <1>3, <1>4, ClockAssumption DEF Off

(* With no request counted, no window was opened but the one that is open. *)
LEMMA FreshWindow ==
  ASSUME NEW k \in Token, served'[k] = <<>>, counter'[k].start \in Nat
  PROVE  \E s \in 0..counter'[k].start : Windowed(k, s)'
<1>1. Windowed(k, counter[k].start)'
  <2>1. Placed(k, counter[k].start)'
    BY DEF Placed, Served
  <2>2. Returns(k, counter[k].start)'
    BY DEF Returns, Served
  <2>3. Opened(k, counter[k].start)'
    BY DEF Opened
  <2> QED
    BY <2>1, <2>2, <2>3 DEF Windowed
<1> QED
  BY <1>1

(* A step that counts no request of the bearer: the wall clock is not stepped, and the  *)
(* calls go on or begin.                                                                *)
LEMMA WindowGoesOn ==
  ASSUME Clocked, NEW k \in Token, NEW s \in 0..counter[k].start, Windowed(k, s),
         served'[k] = served[k], counter'[k] = counter[k], Off' = Off, wall' \in Nat, wall' >= wall,
         \A t \in Thread : Calling(t)' =>
           \/ Calling(t) /\ snap'[t] = snap[t]
           \/ snap'[t].wall = wall
  PROVE  Windowed(k, s)'
<1> USE WindowTypes
<1>1. Placed(k, s)'
  BY DEF Windowed, Placed, Served
<1>2. Returns(k, s)'
  <2>1. counter[k].start > s => counter[k].start <= wall
    BY DEF Windowed, Returns
  <2>2. ASSUME NEW i \in Served(k), served[k][i].start > s, Calling(served[k][i].by)'
        PROVE  snap'[served[k][i].by].wall >= served[k][i].start
    <3>1. served[k][i].start <= counter[k].start
      BY DEF Windowed, Placed
    <3>2. CASE snap'[served[k][i].by].wall = wall
      BY <2>1, <2>2, <3>1, <3>2
    <3>3. CASE Calling(served[k][i].by) /\ snap'[served[k][i].by] = snap[served[k][i].by]
      BY <2>2, <3>3 DEF Windowed, Returns
    <3> QED
      BY <2>2, <3>2, <3>3
  <2>3. Served(k)' = Served(k)
    BY DEF Served
  <2>4. \A i \in Served(k) : served[k][i].start > s =>
         \A j \in Served(k) : i < j /\ served[k][i].by = served[k][j].by =>
            served[k][j].at + Off >= served[k][i].start
    BY DEF Windowed, Returns
  <2> QED
    BY <2>1, <2>2, <2>3, <2>4 DEF Returns
<1>3. Opened(k, s)'
  <2>1. SUFFICES ASSUME NEW y \in (s + 1)..counter[k].start
                 PROVE  \E u \in Thread : OnTime(u, k, y)'
    BY DEF Opened
  <2>2. PICK u \in Thread : OnTime(u, k, y)
    BY DEF Windowed, Opened
  <2>3. wall >= y /\ y \in Int
    BY DEF Windowed, Returns
  <2>4. Calling(u)' => snap'[u].wall >= y
    BY <2>2, <2>3 DEF OnTime
  <2>5. Served(k)' = Served(k)
    BY DEF Served
  <2> QED
    BY <2>2, <2>4, <2>5 DEF OnTime
<1> QED
  BY <1>1, <1>2, <1>3 DEF Windowed

(* A swap is counted, and if it is allowed its request comes after those of its bearer. *)
Counts(t, k) ==
  LET w == snap[t].wall
      c == counter[k]
      d == counter'[k]
  IN /\ w \in Nat /\ w > 0 /\ w <= wall
     /\ \/ c.start > 0 /\ w < c.start + Minute /\ d.start = c.start /\ d.n = c.n + 1
        \/ c.start = 0 /\ d.start = w
        \/ c.start + Minute <= w /\ d.start = w
     /\ \A i \in Served(k) : i \in Served(k)' /\ served'[k][i] = served[k][i]
     /\ \A j \in Served(k)' : j \notin Served(k) =>
          LET r == served'[k][j]
          IN /\ \A i \in Served(k)' : i < j <=> i \in Served(k)
             /\ r.by = t /\ r.at + Off = w /\ r.start = d.start /\ r.n = d.n
             /\ d.n \in 1..(Rate - 1)
     /\ Off' = Off /\ wall' = wall /\ snap' = snap
     /\ Calling(t)
     /\ \A u \in Thread : Calling(u)' => u # t /\ Calling(u)

LEMMA BumpedWindow ==
  ASSUME NEW c \in [start : Nat, n : Nat], NEW w \in Nat
  PROVE  /\ Bumped(c, w).n >= 1
         /\ \/ c.start > 0 /\ w < c.start + Minute
              /\ Bumped(c, w).start = c.start /\ Bumped(c, w).n = c.n + 1
            \/ c.start = 0 /\ Bumped(c, w).start = w
            \/ c.start + Minute <= w /\ Bumped(c, w).start = w
<1>1. Minute \in Nat /\ Minute > 0
  BY ClockAssumption
<1> QED
  BY <1>1 DEF Bumped

LEMMA AppendPlaces ==
  ASSUME NEW S, NEW q \in Seq(S), NEW x \in S
  PROVE  /\ \A i \in DOMAIN q : i \in DOMAIN Append(q, x) /\ Append(q, x)[i] = q[i]
         /\ \A j \in DOMAIN Append(q, x) : j \notin DOMAIN q =>
              /\ \A i \in DOMAIN Append(q, x) : i < j <=> i \in DOMAIN q
              /\ Append(q, x)[j] = x
<1>1. Len(q) \in Nat /\ DOMAIN q = 1..Len(q) /\ DOMAIN Append(q, x) = 1..(Len(q) + 1)
  OBVIOUS
<1>2. \A i \in 1..Len(q) : Append(q, x)[i] = q[i]
  OBVIOUS
<1>3. Append(q, x)[Len(q) + 1] = x
  OBVIOUS
<1> QED
  BY <1>1, <1>2, <1>3

LEMMA DecideCounts ==
  ASSUME Clocked, Clocked', NEW t \in Thread, Decide(t), ~ Stepped(t),
         NEW k \in Token, k = token[t]
  PROVE  Counts(t, k)
<1> DEFINE w == snap[t].wall
           c == counter[k]
           d == Bumped(c, w)
           v == Verdict(bearer[k], snap[t], loaded[t], d.n)
           r == [by |-> t, at |-> snap[t].at, start |-> d.start, n |-> d.n]
<1>1. Taken(snap[t]) /\ pc[t] = "decide"
  BY DEF Decide, Clocked, InCall, Swapping, Minted
<1>2. w \in Nat /\ w > 0 /\ snap[t].at \in Int /\ snap[t].at <= up /\ w - snap[t].at = wall - up
  BY <1>1, ClockAssumption DEF Taken, Snap, Before, Now, Stepped
<1>3. /\ c \in [start : Nat, n : Nat] /\ served[k] \in Seq(Serving)
      /\ wall \in Nat /\ up \in Int /\ MaxTime \in Nat
  BY <1>1, ClockAssumption DEF Clocked, TypeOK
<1>4. /\ counter'[k] = d
      /\ served'[k] \in {served[k], Append(served[k], r)}
      /\ served'[k] = Append(served[k], r) \/ served'[k] = served[k]
      /\ v # "Allow" => served'[k] = served[k]
  BY <1>1 DEF Decide, Clocked, TypeOK
<1>5. UNCHANGED <<up, wall, snap>> /\ pc' = [pc EXCEPT ![t] = "decided"]
  BY DEF Decide
<1>6. v = "Allow" => ~ (d.n >= Rate)
  BY DEF Verdict
<1>7. d.n \in Nat /\ d.start \in Nat
  BY <1>1, <1>4 DEF Clocked, TypeOK
<1>8. w <= wall /\ snap[t].at + Off = w
  BY <1>2, <1>3 DEF Off
<1>9. /\ \A i \in Served(k) : i \in Served(k)' /\ served'[k][i] = served[k][i]
      /\ \A j \in Served(k)' : j \notin Served(k) =>
           /\ \A i \in Served(k)' : i < j <=> i \in Served(k)
           /\ served'[k][j] = r /\ v = "Allow"
  <2>1. r \in Serving
    BY <1>1, <1>7 DEF Serving, Taken, Snap
  <2> HIDE DEF r, v, w, c, d
  <2>2. CASE served'[k] = served[k]
    BY <2>2 DEF Served
  <2>3. CASE served'[k] = Append(served[k], r) /\ v = "Allow"
    BY <1>3, <2>1, <2>3, AppendPlaces DEF Served
  <2> QED
    BY <1>4, <2>2, <2>3
<1>10. /\ Calling(t)
       /\ \A u \in Thread : Calling(u)' => u # t /\ Calling(u)
  BY <1>1, <1>5 DEF Calling, Stepped, Clocked, TypeOK
<1>11. Off' = Off
  BY <1>5 DEF Off
<1>12. v = "Allow" => d.n \in 1..(Rate - 1)
  BY <1>3, <1>2, <1>6, <1>7, BumpedWindow, ClockAssumption
<1>13. \A j \in Served(k)' : j \notin Served(k) =>
          /\ served'[k][j].by = t /\ served'[k][j].at + Off = w
          /\ served'[k][j].start = d.start /\ served'[k][j].n = d.n
          /\ d.n \in 1..(Rate - 1)
  BY <1>8, <1>9, <1>12
<1>14. \/ c.start > 0 /\ w < c.start + Minute /\ d.start = c.start /\ d.n = c.n + 1
       \/ c.start = 0 /\ d.start = w
       \/ c.start + Minute <= w /\ d.start = w
  BY <1>2, <1>3, BumpedWindow
<1> HIDE DEF d, v, r
<1> QED
  BY <1>1, <1>2, <1>4, <1>5, <1>8, <1>9, <1>10, <1>11, <1>13, <1>14 DEF Counts

(* It is counted in the window that is open, or it opens one a minute later. *)
LEMMA WindowCounts ==
  ASSUME Clocked, Clocked', NEW t \in Thread, NEW k \in Token, Counts(t, k),
         NEW s \in 0..counter[k].start, Windowed(k, s)
  PROVE  s <= counter'[k].start /\ Windowed(k, s)'
<1> DEFINE w == snap[t].wall
           c == counter[k]
           d == counter'[k]
<1>0. d.start \in Nat /\ d.n \in Nat /\ Served(k)' \subseteq Nat
  <2>1. counter'[k] \in [start : Nat, n : Nat] /\ served'[k] \in Seq(Serving)
    BY DEF Clocked, TypeOK
  <2>2. \A q \in Seq(Serving) : DOMAIN q \subseteq Nat
    OBVIOUS
  <2> QED
    BY <2>1, <2>2 DEF Served
<1>1. /\ c.start \in Nat /\ c.n \in Nat /\ d.start \in Nat /\ d.n \in Nat /\ s \in Nat
      /\ w \in Nat /\ w > 0 /\ w <= wall /\ wall \in Nat
      /\ Minute \in Nat /\ Minute > 0 /\ Off \in Int
  <2>1. w \in Nat /\ w > 0 /\ w <= wall
    BY DEF Counts
  <2>2. c.start \in Nat /\ c.n \in Nat /\ wall \in Nat /\ Off \in Int /\ Minute \in Nat /\ Minute > 0
    BY WindowTypes
  <2> QED
    BY <1>0, <2>1, <2>2
<1>2. \A i \in Served(k) :
        /\ served[k][i].by \in Thread /\ served[k][i].at \in Int
        /\ served[k][i].start \in Nat /\ served[k][i].n \in Nat
        /\ served[k][i].start > 0 /\ s <= served[k][i].start /\ served[k][i].n \in 1..(Rate - 1)
        /\ \/ served[k][i].start = c.start /\ served[k][i].n <= c.n
           \/ served[k][i].start + Minute <= c.start
        /\ served[k][i].at + Off < served[k][i].start + Minute
  BY WindowTypes DEF Windowed, Placed
<1>3. \/ c.start > 0 /\ w < c.start + Minute /\ d.start = c.start /\ d.n = c.n + 1
      \/ c.start = 0 /\ d.start = w
      \/ c.start + Minute <= w /\ d.start = w
  BY DEF Counts
<1>4. /\ \A i \in Served(k) : i \in Served(k)' /\ served'[k][i] = served[k][i]
      /\ \A j \in Served(k)' : j \notin Served(k) =>
           /\ \A i \in Served(k)' : i < j <=> i \in Served(k)
           /\ served'[k][j].by = t /\ served'[k][j].at + Off = w /\ served'[k][j].start = d.start
           /\ served'[k][j].n = d.n /\ d.n \in 1..(Rate - 1)
      /\ Off' = Off /\ wall' = wall /\ snap' = snap
  BY DEF Counts
<1>5. /\ Calling(t)
      /\ \A u \in Thread : Calling(u)' => u # t /\ Calling(u)
  BY DEF Counts
<1>6. /\ c.start <= d.start /\ w < d.start + Minute /\ s <= d.start /\ d.start > 0
      /\ d.start = c.start \/ d.start = w
  BY <1>1, <1>3
<1>7. \A i \in Served(k) :
        \/ served[k][i].start = d.start /\ d.start = c.start /\ served[k][i].n < d.n
        \/ served[k][i].start + Minute <= d.start
  BY <1>1, <1>2, <1>3
<1> HIDE DEF w, c, d
<1>8. Placed(k, s)'
  <2>1. \A i \in Served(k)' :
          /\ served'[k][i].start > 0 /\ s <= served'[k][i].start /\ served'[k][i].n \in 1..(Rate - 1)
          /\ \/ served'[k][i].start = d.start /\ served'[k][i].n <= d.n
             \/ served'[k][i].start + Minute <= d.start
          /\ served'[k][i].at + Off < served'[k][i].start + Minute
    <3>1. ASSUME NEW i \in Served(k)
          PROVE  /\ served[k][i].start > 0 /\ s <= served[k][i].start
                 /\ served[k][i].n \in 1..(Rate - 1)
                 /\ \/ served[k][i].start = d.start /\ served[k][i].n <= d.n
                    \/ served[k][i].start + Minute <= d.start
                 /\ served[k][i].at + Off < served[k][i].start + Minute
      BY <1>1, <1>2, <1>7
    <3>2. ASSUME NEW i \in Served(k)', i \notin Served(k)
          PROVE  /\ served'[k][i].start > 0 /\ s <= served'[k][i].start
                 /\ served'[k][i].n \in 1..(Rate - 1)
                 /\ served'[k][i].start = d.start /\ served'[k][i].n <= d.n
                 /\ served'[k][i].at + Off < served'[k][i].start + Minute
      <4>1. /\ served'[k][i].at + Off = w /\ served'[k][i].start = d.start
            /\ served'[k][i].n = d.n /\ d.n \in 1..(Rate - 1)
        BY <1>4, <3>2
      <4> QED
        BY <1>1, <1>6, <4>1
    <3> QED
      BY <1>4, <3>1, <3>2
  <2>2. \A i, j \in Served(k)' : i < j =>
          \/ served'[k][i].start = served'[k][j].start /\ served'[k][i].n < served'[k][j].n
          \/ served'[k][i].start + Minute <= served'[k][j].start
    <3>1. SUFFICES ASSUME NEW i \in Served(k)', NEW j \in Served(k)', i < j
                   PROVE  \/ served'[k][i].start = served'[k][j].start
                             /\ served'[k][i].n < served'[k][j].n
                          \/ served'[k][i].start + Minute <= served'[k][j].start
      OBVIOUS
    <3>2. CASE j \notin Served(k)
      BY <1>4, <1>7, <3>1, <3>2
    <3>3. CASE j \in Served(k)
      <4>1. i \in Served(k)
        <5>1. i \notin Served(k) => j < i
          BY <1>4, <3>1, <3>3
        <5> QED
          BY <1>0, <3>1, <5>1
      <4> QED
        BY <1>4, <3>1, <3>3, <4>1 DEF Windowed, Placed
    <3> QED
      BY <3>2, <3>3
  <2> QED
    BY <1>4, <2>1, <2>2 DEF Placed, d
<1>9. Returns(k, s)'
  <2>1. d.start > s => d.start <= wall
    BY <1>1, <1>6 DEF Windowed, Returns, c
  <2>2. ASSUME NEW i \in Served(k)', served'[k][i].start > s, NEW j \in Served(k)', i < j,
               served'[k][i].by = served'[k][j].by
        PROVE  served'[k][j].at + Off >= served'[k][i].start
    <3>1. i \in Served(k)
      <4>1. i \notin Served(k) => j < i \/ j \notin Served(k)
        BY <1>4, <2>2
      <4>2. j \notin Served(k) => i \in Served(k)
        BY <1>4, <2>2
      <4> QED
        BY <1>0, <2>2, <4>1, <4>2
    <3>2. CASE j \in Served(k)
      BY <1>4, <2>2, <3>1, <3>2 DEF Windowed, Returns
    <3>3. CASE j \notin Served(k)
      BY <1>4, <1>5, <2>2, <3>1, <3>3 DEF Windowed, Returns, w
    <3> QED
      BY <3>2, <3>3
  <2>3. ASSUME NEW i \in Served(k)', served'[k][i].start > s, Calling(served[k][i].by)'
        PROVE  snap[served'[k][i].by].wall >= served'[k][i].start
    <3>1. CASE i \in Served(k)
      BY <1>2, <1>4, <1>5, <2>3, <3>1 DEF Windowed, Returns
    <3>2. CASE i \notin Served(k)
      BY <1>4, <1>5, <2>3, <3>2
    <3> QED
      BY <3>1, <3>2
  <2> QED
    BY <1>4, <2>1, <2>2, <2>3 DEF Returns, d
<1>10. Opened(k, s)'
  <2>1. SUFFICES ASSUME NEW y \in (s + 1)..d.start
                 PROVE  \E u \in Thread : OnTime(u, k, y)'
    BY DEF Opened, d
  <2>2. CASE y <= c.start
    <3>1. PICK u \in Thread : OnTime(u, k, y)
      BY <1>1, <2>2 DEF Windowed, Opened, c
    <3>2. ASSUME NEW i \in Served(k)', served'[k][i].by = u, served'[k][i].start >= y
          PROVE  served'[k][i].at + Off >= y
      <4>1. CASE i \in Served(k)
        BY <1>4, <3>1, <3>2, <4>1 DEF OnTime
      <4>2. CASE i \notin Served(k)
        BY <1>4, <1>5, <3>1, <3>2, <4>2 DEF OnTime, w
      <4> QED
        BY <4>1, <4>2
    <3>3. Calling(u)' => snap[u].wall >= y
      BY <1>5, <3>1 DEF OnTime
    <3> QED
      BY <1>4, <3>2, <3>3 DEF OnTime
  <2>3. CASE ~ (y <= c.start)
    <3>1. d.start = w /\ w >= y
      BY <1>1, <1>6, <2>3
    <3>2. ASSUME NEW i \in Served(k)', served'[k][i].start >= y
          PROVE  served'[k][i].at + Off >= y
      <4>1. i \notin Served(k)
        BY <1>1, <1>2, <1>4, <2>3, <3>2
      <4> QED
        BY <1>4, <3>1, <4>1
    <3>3. ~ Calling(t)'
      BY <1>5
    <3> QED
      BY <1>4, <3>2, <3>3 DEF OnTime
  <2> QED
    BY <2>2, <2>3
<1> QED
  <2>1. Windowed(k, s)'
    BY <1>8, <1>9, <1>10 DEF Windowed
  <2> QED
    BY <1>6, <2>1 DEF d

LEMMA WindowsStep ==
  ASSUME Clocked, Clocked', Windows, [Next]_vars
  PROVE  Windows'
<1> SUFFICES ASSUME NEW k \in Token PROVE \E s \in 0..counter'[k].start : Windowed(k, s)'
  BY DEF Windows
<1>1. PICK s \in 0..counter[k].start : Windowed(k, s)
  BY DEF Windows
<1>2. counter'[k].start \in Nat
  BY DEF Clocked, TypeOK
<1>3. wall \in Nat /\ up \in Int
  BY WindowTypes
<1>4. ASSUME served'[k] = served[k], counter'[k] = counter[k], Off' = Off, wall' \in {wall, wall + 1},
             \A t \in Thread : Calling(t)' =>
               \/ Calling(t) /\ snap'[t] = snap[t]
               \/ snap'[t].wall = wall
      PROVE  \E r \in 0..counter'[k].start : Windowed(k, r)'
  BY <1>1, <1>3, <1>4, WindowGoesOn
<1>5. ASSUME NEW t \in Thread, Decide(t)
      PROVE  \E r \in 0..counter'[k].start : Windowed(k, r)'
  <2>1. CASE k = token[t] /\ Stepped(t)
    <3>1. served'[k] = <<>>
      BY <1>5, <2>1 DEF Decide, Clocked, TypeOK
    <3> QED
      BY <1>2, <3>1, FreshWindow
  <2>2. CASE k = token[t] /\ ~ Stepped(t)
    <3>1. Counts(t, k)
      BY <1>5, <2>2, DecideCounts
    <3> QED
      BY <1>1, <1>2, <3>1, WindowCounts
  <2>3. CASE k # token[t]
    <3>1. served'[k] = served[k] /\ counter'[k] = counter[k]
      BY <1>5, <2>3 DEF Decide, Clocked, TypeOK
    <3>2. UNCHANGED <<up, wall, snap>> /\ pc' = [pc EXCEPT ![t] = "decided"]
      BY <1>5 DEF Decide
    <3>3. \A u \in Thread : Calling(u)' => Calling(u)
      BY <3>2 DEF Calling, Stepped, Clocked, TypeOK
    <3> QED
      BY <1>4, <3>1, <3>2, <3>3 DEF Off
  <2> QED
    BY <2>1, <2>2, <2>3
<1>6. CASE StepWall \/ Restart \/ Reboot
  <2>1. served'[k] = <<>>
    BY <1>6 DEF StepWall, Restart, Reboot, Suffer
  <2> QED
    BY <1>2, <2>1, FreshWindow
<1>7. CASE Tick
  <2>1. UNCHANGED <<served, counter, pc, snap>> /\ up' = up + 1 /\ wall' = wall + 1
    BY <1>7 DEF Tick
  <2>2. ASSUME NEW t \in Thread, Calling(t)' PROVE Calling(t)
    BY <1>3, <2>1, <2>2 DEF Calling, Stepped
  <2> QED
    BY <1>3, <1>4, <2>1, <2>2 DEF Off
<1>8. ASSUME NEW t \in Thread,
             \/ StartMint(t) \/ SavePolicy(t) \/ SaveBearer(t) \/ StartSwap(t) \/ LoadPolicy(t) \/ Finish(t)
      PROVE  \E r \in 0..counter'[k].start : Windowed(k, r)'
  <2>1. UNCHANGED <<served, counter, up, wall>>
    BY <1>8 DEF StartMint, SavePolicy, SaveBearer, StartSwap, LoadPolicy, Finish
  <2>2. ASSUME NEW u \in Thread, u # t PROVE pc'[u] = pc[u] /\ snap'[u] = snap[u]
    BY <1>8, <2>2 DEF StartMint, SavePolicy, SaveBearer, StartSwap, LoadPolicy, Finish, Return,
       ReadClocks, Clocked, TypeOK
  <2>3. ASSUME pc'[t] \in {"loadPolicy", "decide"}
        PROVE  \/ snap'[t].wall = wall
               \/ pc[t] \in {"loadPolicy", "decide"} /\ snap'[t] = snap[t]
    BY <1>8, <2>3 DEF StartMint, SavePolicy, SaveBearer, StartSwap, LoadPolicy, Finish, Return,
       ReadClocks, Clocked, TypeOK
  <2>4. ASSUME NEW u \in Thread, Calling(u)'
        PROVE  \/ Calling(u) /\ snap'[u] = snap[u]
               \/ snap'[u].wall = wall
    BY <2>1, <2>2, <2>3, <2>4 DEF Calling, Stepped
  <2> QED
    BY <1>4, <2>1, <2>4 DEF Off
<1>9. CASE UNCHANGED vars
  <2>1. UNCHANGED <<served, counter, up, wall, pc, snap>>
    BY <1>9 DEF vars
  <2> QED
    BY <1>4, <2>1 DEF Off, Calling, Stepped
<1> QED
  BY <1>5, <1>6, <1>7, <1>8, <1>9 DEF Next

LEMMA AlwaysWindows == Spec => []Windows
<1>1. Init => Windows
  <2>1. SUFFICES ASSUME Init, NEW k \in Token PROVE \E s \in 0..counter[k].start : Windowed(k, s)
    BY DEF Windows
  <2>2. counter[k].start = 0 /\ served[k] = <<>>
    BY <2>1 DEF Init
  <2>3. Windowed(k, 0)
    BY <2>2 DEF Windowed, Placed, Returns, Opened, Served
  <2> QED
    BY <2>2, <2>3
<1>2. Clocked /\ Clocked' /\ Windows /\ [Next]_vars => Windows'
  BY WindowsStep
<1> QED
  BY <1>1, <1>2, AlwaysClocked, PTL DEF Spec

LEMMA AtMostBoth ==
  ASSUME NEW S, IsFiniteSet(S), NEW T, IsFiniteSet(T)
  PROVE  /\ IsFiniteSet(S \cup T) /\ Cardinality(S \cup T) \in Nat
         /\ Cardinality(S \cup T) <= Cardinality(S) + Cardinality(T)
<1>1. /\ IsFiniteSet(S \cup T) /\ IsFiniteSet(S \cap T)
      /\ Cardinality(S \cup T) = Cardinality(S) + Cardinality(T) - Cardinality(S \cap T)
  BY FS_Union, FS_Intersection
<1>2. /\ Cardinality(S) \in Nat /\ Cardinality(T) \in Nat /\ Cardinality(S \cap T) \in Nat
      /\ Cardinality(S \cup T) \in Nat
  BY <1>1, FS_CardinalityType
<1> QED
  BY <1>1, <1>2

(* A window allows one request less than the rate. *)
LEMMA OneWindow ==
  ASSUME Clocked, NEW k \in Token, NEW s, Placed(k, s), NEW S \in SUBSET Served(k),
         \A i, j \in S : served[k][j].start < served[k][i].start + Minute
  PROVE  IsFiniteSet(S) /\ Cardinality(S) <= Rate - 1
<1> DEFINE f == [i \in S |-> served[k][i].n]
<1>1. \A i \in S : served[k][i].n \in 1..(Rate - 1)
  BY DEF Placed
<1>2. ASSUME NEW i \in S, NEW j \in S, i # j PROVE served[k][i].n # served[k][j].n
  <2>1. i \in Nat /\ j \in Nat
    BY WindowTypes DEF Served
  <2>2. i < j \/ j < i
    BY <1>2, <2>1
  <2>3. /\ served[k][i].n \in Nat /\ served[k][j].n \in Nat
        /\ served[k][i].start \in Nat /\ served[k][j].start \in Nat /\ Minute \in Nat
    BY WindowTypes
  <2>4. /\ served[k][j].start < served[k][i].start + Minute
        /\ served[k][i].start < served[k][j].start + Minute
    OBVIOUS
  <2>5. /\ i < j => \/ served[k][i].n < served[k][j].n
                    \/ served[k][i].start + Minute <= served[k][j].start
        /\ j < i => \/ served[k][j].n < served[k][i].n
                    \/ served[k][j].start + Minute <= served[k][i].start
    BY DEF Placed
  <2> QED
    BY <2>2, <2>3, <2>4, <2>5
<1>3. f \in Injection(S, 1..(Rate - 1))
  BY <1>1, <1>2 DEF Injection, IsInjective
<1>4. IsFiniteSet(1..(Rate - 1)) /\ Cardinality(1..(Rate - 1)) = Rate - 1
  <2>1. Rate \in Nat /\ Rate >= 1 /\ Rate - 1 \in Int /\ 1 \in Int
    BY ClockAssumption
  <2>2. /\ IsFiniteSet(1..(Rate - 1))
        /\ Cardinality(1..(Rate - 1)) = IF 1 > Rate - 1 THEN 0 ELSE Rate - 1 - 1 + 1
    BY <2>1, FS_Interval
  <2> QED
    BY <2>1, <2>2
<1> QED
  BY <1>3, <1>4, FS_Injection

(* Of the requests counted in windows that opened at y or later, those that began before *)
(* y are of different threads, and none is of the thread that opened the first of them.  *)
LEMMA LateCalls ==
  ASSUME Clocked, NEW k \in Token, NEW s \in 0..counter[k].start, Windowed(k, s),
         NEW y \in Int, y > s, NEW S \in SUBSET Served(k),
         \A i \in S : served[k][i].start >= y /\ served[k][i].at + Off < y
  PROVE  IsFiniteSet(S) /\ Cardinality(S) <= Cardinality(Thread) - 1
<1>1. IsFiniteSet(Thread) /\ Cardinality(Thread) \in Nat /\ Cardinality(Thread) # 0
  BY ClockAssumption, FS_CardinalityType, FS_EmptySet
<1>2. CASE S = {}
  BY <1>1, <1>2, FS_EmptySet
<1>3. CASE S # {}
  <2>1. y <= counter[k].start
    <3>1. PICK i \in S : TRUE
      BY <1>3
    <3> QED
      BY <3>1, WindowTypes DEF Windowed, Placed
  <2>2. PICK u \in Thread : OnTime(u, k, y)
    BY <2>1, WindowTypes DEF Windowed, Opened
  <2> DEFINE f == [i \in S |-> served[k][i].by]
  <2>3. \A i \in S : served[k][i].at \in Int /\ served[k][i].start \in Nat /\ Off \in Int
    BY WindowTypes
  <2>4. \A i \in S : served[k][i].by \in Thread \ {u}
    BY <2>2, <2>3, WindowTypes DEF OnTime
  <2>5. ASSUME NEW i \in S, NEW j \in S, i < j PROVE served[k][i].by # served[k][j].by
    <3>1. served[k][i].start > s
      BY <2>3
    <3> QED
      BY <2>3, <2>5, <3>1 DEF Windowed, Returns
  <2>6. \A i, j \in S : i # j => i < j \/ j < i
    BY WindowTypes DEF Served
  <2>7. f \in Injection(S, Thread \ {u})
    BY <2>4, <2>5, <2>6 DEF Injection, IsInjective
  <2>8. IsFiniteSet(Thread \ {u}) /\ Cardinality(Thread \ {u}) = Cardinality(Thread) - 1
    BY <1>1, FS_RemoveElement
  <2> QED
    BY <2>7, <2>8, FS_Injection
<1> QED
  BY <1>2, <1>3

(* No minute sees more requests of a bearer than two windows allow and the calls of the *)
(* other threads, while the wall clock is not stepped and no call that began before a   *)
(* step counts: a minute meets two windows, and what counts later came late.            *)
THEOREM RateStaysBounded == Spec => []RateIsBounded
<1>1. ASSUME Clocked, Windows PROVE RateIsBounded
  <2>1. SUFFICES ASSUME NEW k \in Token, NEW x \in 0..up
                 PROVE  Cardinality(ServedFrom(k, x)) <= 2 * (Rate - 1) + Cardinality(Thread) - 1
    BY DEF RateIsBounded
  <2>2. PICK s \in 0..counter[k].start : Windowed(k, s)
    BY <1>1 DEF Windows
  <2>3. /\ s \in Nat /\ x \in Int /\ Off \in Int /\ Minute \in Nat /\ Minute > 0 /\ Rate \in Nat
        /\ x + Off \in Int
    BY <1>1, WindowTypes, ClockAssumption
  <2>4. PICK y \in Int : y = IF s < x + Off + Minute THEN x + Off + Minute ELSE s + 1
    BY <2>3
  <2> DEFINE E == ServedFrom(k, x)
             A == {i \in E : served[k][i].start < x + Off}
             B == {i \in E : served[k][i].start >= x + Off /\ served[k][i].start < y}
             L == {i \in E : served[k][i].start >= y}
  <2>5. \A i \in E :
          /\ i \in Served(k)
          /\ served[k][i].start \in Nat /\ s <= served[k][i].start
          /\ served[k][i].at + Off \in Int /\ served[k][i].at + Off >= x + Off
          /\ served[k][i].at + Off < x + Off + Minute
          /\ served[k][i].at + Off < served[k][i].start + Minute
    <3>1. ASSUME NEW i \in E
          PROVE  /\ i \in Served(k) /\ served[k][i].at \in Int
                 /\ served[k][i].at >= x /\ served[k][i].at < x + Minute
      BY <1>1, <2>3, WindowTypes DEF ServedFrom, Served
    <3>2. ASSUME NEW i \in E
          PROVE  /\ served[k][i].start \in Nat /\ s <= served[k][i].start
                 /\ served[k][i].at + Off < served[k][i].start + Minute
      BY <1>1, <2>2, <3>1, WindowTypes DEF Windowed, Placed
    <3>3. \A a \in Int : a >= x /\ a < x + Minute =>
            a + Off \in Int /\ a + Off >= x + Off /\ a + Off < x + Off + Minute
      BY <2>3
    <3> HIDE DEF E
    <3> QED
      BY <3>1, <3>2, <3>3
  <2>6. IsFiniteSet(A) /\ Cardinality(A) <= Rate - 1
    <3>1. \A i, j \in A : served[k][j].start < served[k][i].start + Minute
      BY <2>3, <2>5
    <3>2. A \in SUBSET Served(k)
      BY <2>5
    <3> QED
      BY <1>1, <2>2, <3>1, <3>2, OneWindow DEF Windowed
  <2>7. IsFiniteSet(B) /\ Cardinality(B) <= Rate - 1
    <3>1. \A i, j \in B : served[k][j].start < served[k][i].start + Minute
      BY <2>3, <2>4, <2>5
    <3>2. B \in SUBSET Served(k)
      BY <2>5
    <3> QED
      BY <1>1, <2>2, <3>1, <3>2, OneWindow DEF Windowed
  <2>8. IsFiniteSet(L) /\ Cardinality(L) <= Cardinality(Thread) - 1
    <3>1. y > s /\ \A i \in L : served[k][i].start >= y /\ served[k][i].at + Off < y
      BY <2>3, <2>4, <2>5
    <3>2. L \in SUBSET Served(k)
      BY <2>5
    <3> QED
      BY <1>1, <2>2, <3>1, <3>2, LateCalls
  <2>9. E = A \cup (B \cup L)
    BY <2>3, <2>4, <2>5
  <2>10. /\ IsFiniteSet(B \cup L)
         /\ Cardinality(B \cup L) <= Cardinality(B) + Cardinality(L)
         /\ Cardinality(A \cup (B \cup L)) <= Cardinality(A) + Cardinality(B \cup L)
         /\ Cardinality(E) \in Nat
    BY <2>6, <2>7, <2>8, <2>9, AtMostBoth
  <2> HIDE DEF E, A, B, L
  <2> QED
    BY <2>3, <2>6, <2>7, <2>8, <2>9, <2>10, ClockAssumption, FS_CardinalityType DEF E
<1> QED
  BY <1>1, AlwaysClocked, AlwaysWindows, PTL
=============================================================================
