--------------------------- MODULE DaemonSocketProofs ---------------------------
(***************************************************************************)
(* Theorems about DaemonSocket, for any number of daemons and any          *)
(* environment: its types, where the store and its token are, the mode of  *)
(* a served socket, and what the probe is worth while daemons come and go  *)
(* one at a time.  What a daemon knows of the path between two of its      *)
(* steps (Knows) is the strengthening that the last two rest on.           *)
(***************************************************************************)
EXTENDS DaemonSocket, TLAPS

(* One of these happens to one daemon; the rest of the proof is by its disjuncts. *)
Step(d) ==
  \/ Start(d) \/ Configure(d) \/ Build(d)
  \/ Exists(d) \/ Connect(d) \/ Remove(d) \/ Bind(d) \/ Chmod(d)
  \/ Signal(d) \/ Stop(d) \/ Cleanup(d) \/ Crash(d)

USE DEF Goto, Vanish, Fail, AtPath, Gone, Label

LEMMA StepTypes ==
  ASSUME TypeOK, NEW d \in Daemon, Step(d), Watch
  PROVE  TypeOK'
<1> USE DEF TypeOK
<1>1. CASE Configure(d)
  <2>1. PICK outcome \in Outcome :
          IF outcome = {}
          THEN Fail(d)
          ELSE /\ store' = [store EXCEPT ![d] = outcome]
               /\ Goto(d, "build")
               /\ UNCHANGED <<path, listening, tight>>
    BY <1>1 DEF Configure
  <2>2. outcome \in SUBSET UNION Outcome /\ {} \in SUBSET UNION Outcome
    OBVIOUS
  <2>3. store' \in [Daemon -> SUBSET UNION Outcome]
    BY <2>1, <2>2
  <2> QED
    BY <1>1, <2>1, <2>3 DEF Configure, Watch
<1>2. CASE Start(d)
  BY <1>2 DEF Start, Watch
<1>3. CASE Build(d)
  BY <1>3 DEF Build, Watch
<1>4. CASE Exists(d)
  BY <1>4 DEF Exists, Watch
<1>5. CASE Connect(d)
  BY <1>5 DEF Connect, Watch
<1>6. CASE Remove(d)
  BY <1>6 DEF Remove, Watch
<1>7. CASE Bind(d)
  BY <1>7 DEF Bind, Watch
<1>8. CASE Chmod(d)
  BY <1>8 DEF Chmod, Watch
<1>9. CASE Signal(d)
  BY <1>9 DEF Signal, Watch
<1>10. CASE Stop(d)
  BY <1>10 DEF Stop, Watch
<1>11. CASE Cleanup(d)
  BY <1>11 DEF Cleanup, Watch
<1>12. CASE Crash(d)
  BY <1>12 DEF Crash, Watch
<1> QED
  BY <1>1, <1>2, <1>3, <1>4, <1>5, <1>6, <1>7, <1>8, <1>9, <1>10, <1>11, <1>12 DEF Step

(* Every variable keeps its type, and only a bound socket is listened on. *)
THEOREM TypeCorrect == Spec => []TypeOK
<1>1. Init => TypeOK
  BY DEF Init, TypeOK
<1>2. TypeOK /\ [Next]_vars => TypeOK'
  <2>1. TypeOK /\ UNCHANGED vars => TypeOK'
    BY DEF TypeOK, vars
  <2> QED
    BY <2>1, StepTypes DEF Next, Step
<1> QED
  BY <1>1, <1>2, PTL DEF Spec

-----------------------------------------------------------------------------
(* What a configuration that is not refused holds. *)
LEMMA Resolved ==
  ASSUME NEW s \in Setting, NEW c \in Load(s)
  PROVE  /\ c.url \in {"unset", "http_loopback"}
         /\ c.backend = "libsql" <=> c.url # "unset"
         /\ c.token # "empty" => c.backend = "libsql" /\ c.token \in {"variable", "file"}
<1>1. PICK token \in LoadToken(s) :
        c \in Resolve(Override(s.envBackend, s.fileBackend),
                      Override(s.envUrl, s.fileUrl), token)
  BY DEF Load
<1>2. token \in {"variable", "file", "empty"}
  BY DEF LoadToken
<1> QED
  BY <1>1, <1>2 DEF Resolve, Acceptable

(* The store of a daemon, and its token, are on this host, for every environment. *)
THEOREM StoreOnHost == Spec => []TokenStaysOnHost
<1>1. TypeOK => TokenStaysOnHost
  <2> SUFFICES ASSUME TypeOK, NEW d \in Daemon, NEW c \in store[d]
               PROVE  /\ c.url \in {"unset", "http_loopback"}
                      /\ c.backend = "libsql" <=> c.url # "unset"
                      /\ c.token # "empty" =>
                           c.backend = "libsql" /\ c.token \in {"variable", "file"}
    BY DEF TokenStaysOnHost
  <2>1. store[d] \in SUBSET UNION Outcome
    BY DEF TypeOK
  <2>2. PICK s \in Setting : c \in Load(s)
    BY <2>1 DEF Outcome
  <2> QED
    BY <2>2, Resolved
<1> QED
  BY <1>1, TypeCorrect, PTL

-----------------------------------------------------------------------------
(* Nobody serves at the path on a socket whose mode is not 0600, whoever removes or    *)
(* replaces files there at the same time.                                              *)
THEOREM ServedSocketsArePrivate == Spec => []SocketIsPrivate
<1>1. Init => SocketIsPrivate
  BY DEF Init, SocketIsPrivate
<1>2. ASSUME TypeOK, SocketIsPrivate, NEW d \in Daemon, Step(d), Watch PROVE SocketIsPrivate'
  <2> USE <1>2 DEF TypeOK, SocketIsPrivate
  <2>1. CASE Start(d)
    BY <2>1 DEF Start
  <2>2. CASE Configure(d)
    <3>1. pc[d] = "configure" /\ path' = path /\ tight' = tight
          /\ \E l \in {"build", "ended"} : pc' = [pc EXCEPT ![d] = l]
      BY <2>2 DEF Configure
    <3> QED
      BY <3>1
  <2>3. CASE Build(d)
    BY <2>3 DEF Build
  <2>4. CASE Exists(d)
    BY <2>4 DEF Exists
  <2>5. CASE Connect(d)
    BY <2>5 DEF Connect
  <2>6. CASE Remove(d)
    BY <2>6 DEF Remove
  <2>7. CASE Bind(d)
    BY <2>7 DEF Bind
  <2>8. CASE Chmod(d)
    BY <2>8 DEF Chmod
  <2>9. CASE Signal(d)
    BY <2>9 DEF Signal
  <2>10. CASE Stop(d)
    BY <2>10 DEF Stop
  <2>11. CASE Cleanup(d)
    BY <2>11 DEF Cleanup
  <2>12. CASE Crash(d)
    BY <2>12 DEF Crash
  <2> QED
    BY <2>1, <2>2, <2>3, <2>4, <2>5, <2>6, <2>7, <2>8, <2>9, <2>10, <2>11, <2>12 DEF Step
<1>3. SocketIsPrivate /\ UNCHANGED vars => SocketIsPrivate'
  BY DEF SocketIsPrivate, vars
<1>4. TypeOK /\ SocketIsPrivate /\ [Next]_vars => SocketIsPrivate'
  BY <1>2, <1>3 DEF Next, Step
<1> QED
  BY <1>1, <1>4, TypeCorrect, PTL DEF Spec

-----------------------------------------------------------------------------
Owning == {"chmod", "serving", "draining", "cleanup"}

(* What daemon d knows of the path between two of its steps. *)
Knows(d) ==
  /\ pc[d] \in Owning => path = {d}
  /\ pc[d] \in {"connect", "remove"} => path # {}
  /\ pc[d] = "remove" => \A e \in Daemon : pc[e] \notin Owning
  /\ pc[d] = "bind" => path = {}

Alone == \A d, e \in Daemon : pc[d] \in AtPath /\ pc[e] \in AtPath => d = e

(* Inductive: as long as they come and go one at a time. *)
Orderly == ~muddled => Alone /\ \A d \in Daemon : Knows(d)

(* A step that leaves the history clean started from a clean one, or ended them all. *)
LEMMA CleanStep ==
  ASSUME TypeOK, NEW d \in Daemon, Step(d), Watch, ~muddled'
  PROVE  Alone' /\ (~muddled \/ \A e \in Daemon : pc'[e] \in Gone)
<1>1. CASE \A e \in Daemon : pc'[e] \in Gone
  BY <1>1 DEF Alone
<1>2. CASE \E e \in Daemon : pc'[e] \notin Gone
  BY <1>2 DEF Watch, Alone
<1> QED
  BY <1>1, <1>2

LEMMA OrderlyStep ==
  ASSUME TypeOK, Orderly, NEW d \in Daemon, Step(d), Watch
  PROVE  Orderly'
<1> SUFFICES ASSUME ~muddled' PROVE Alone' /\ \A e \in Daemon : Knows(e)'
  BY DEF Orderly
<1>1. Alone'
  BY CleanStep
<1>2. CASE \A e \in Daemon : pc'[e] \in Gone
  BY <1>1, <1>2 DEF Knows, Owning
<1>3. CASE ~muddled
  <2> SUFFICES ASSUME NEW e \in Daemon PROVE Knows(e)'
    BY <1>1
  <2>1. Alone /\ Knows(d) /\ Knows(e) /\ \A f \in Daemon : Knows(f)
    BY <1>3 DEF Orderly
  <2>2. \A f \in Daemon : f # d => pc'[f] = pc[f]
    BY DEF TypeOK, Step, Start, Configure, Build, Exists, Connect, Remove, Bind, Chmod, Signal,
           Stop, Cleanup, Crash
  <2> USE <1>1, <2>1, <2>2 DEF TypeOK, Knows, Owning, Alone
  <2>3. CASE Start(d)
    BY <2>3 DEF Start
  <2>4. CASE Configure(d)
    <3>1. pc[d] = "configure" /\ path' = path
          /\ \E l \in {"build", "ended"} : pc' = [pc EXCEPT ![d] = l]
      BY <2>4 DEF Configure
    <3> QED
      BY <3>1
  <2>5. CASE Build(d)
    BY <2>5 DEF Build
  <2>6. CASE Exists(d)
    BY <2>6 DEF Exists
  <2>7. CASE Connect(d)
    BY <2>7 DEF Connect
  <2>8. CASE Remove(d)
    BY <2>8 DEF Remove
  <2>9. CASE Bind(d)
    BY <2>9 DEF Bind
  <2>10. CASE Chmod(d)
    BY <2>10 DEF Chmod
  <2>11. CASE Signal(d)
    BY <2>11 DEF Signal
  <2>12. CASE Stop(d)
    BY <2>12 DEF Stop
  <2>13. CASE Cleanup(d)
    BY <2>13 DEF Cleanup
  <2>14. CASE Crash(d)
    BY <2>14 DEF Crash
  <2> QED
    BY <2>3, <2>4, <2>5, <2>6, <2>7, <2>8, <2>9, <2>10, <2>11, <2>12, <2>13, <2>14 DEF Step
<1> QED
  BY <1>2, <1>3, CleanStep

LEMMA AlwaysOrderly == Spec => []Orderly
<1>1. Init => Orderly
  BY DEF Init, Orderly, Alone, Knows, Owning
<1>2. Orderly /\ UNCHANGED vars => Orderly'
  BY DEF Orderly, Alone, Knows, vars
<1>3. TypeOK /\ Orderly /\ [Next]_vars => Orderly'
  BY <1>2, OrderlyStep DEF Next, Step
<1> QED
  BY <1>1, <1>3, TypeCorrect, PTL DEF Spec

(* While daemons come and go one at a time, the socket at the path is that of the one  *)
(* that serves.                                                                        *)
THEOREM TheServerIsReached == Spec => []ServingIsReachable
<1>1. Orderly => ServingIsReachable
  BY DEF Orderly, Knows, Owning, ServingIsReachable
<1> QED
  BY <1>1, AlwaysOrderly, PTL

(* And only a socket that is listened on keeps a daemon from binding its own. *)
THEOREM StaleSocketsAreReaped == Spec => OnlyLiveDaemonsBlock
<1>1. ASSUME TypeOK, Orderly, NEW d \in Daemon, Step(d), NEW e \in Daemon,
             pc[e] \in AtPath \ {"cleanup"}, pc'[e] = "ended", ~muddled
      PROVE  \E f \in listening \ {e} : path = {f}
  <2>1. e = d
    BY <1>1 DEF TypeOK, Step, Start, Configure, Build, Exists, Connect, Remove, Bind, Chmod, Signal,
                Stop, Cleanup, Crash
  <2>2. Knows(d)
    BY <1>1 DEF Orderly
  <2>3. Connect(d) /\ path \cap listening # {}
    BY <1>1, <2>1, <2>2 DEF TypeOK, Knows, Owning, Step, Start, Configure, Build, Exists, Connect,
                            Remove, Bind, Chmod, Signal, Stop, Cleanup, Crash
  <2>4. d \notin listening
    BY <1>1, <2>3 DEF TypeOK, Connect
  <2> QED
    BY <1>1, <2>1, <2>3, <2>4 DEF TypeOK
<1>2. TypeOK /\ Orderly /\ [Next]_vars =>
        [\A d \in Daemon :
           pc[d] \in AtPath \ {"cleanup"} /\ pc'[d] = "ended" =>
             muddled \/ \E e \in listening \ {d} : path = {e}]_vars
  BY <1>1 DEF Next, Step
<1> QED
  BY <1>2, TypeCorrect, AlwaysOrderly, PTL DEF Spec, OnlyLiveDaemonsBlock
=============================================================================
