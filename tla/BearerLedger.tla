----------------------------- MODULE BearerLedger -----------------------------
(***************************************************************************)
(* What the broker promises about bearers, without locks, rows, counters   *)
(* or audits: a bearer is issued once, under one relay, and a report of    *)
(* its revocation is never taken back; a swap sends at most one request,   *)
(* only if it did not begin after such a report and within the largest     *)
(* budget of the relay; it is told the truth about it, and never returns   *)
(* without an answer.                                                      *)
(***************************************************************************)
EXTENDS Integers

CONSTANTS Thread, Token, NoToken, Relay, NoRelay

VARIABLES
  owner,     \* the relay each bearer was issued under
  cap,       \* the largest budget each relay was given
  reported,  \* the bearers reported as revoked, across restarts
  sent,      \* the requests sent for each bearer since the last start
  asked,     \* the bearer each thread's swap presents
  barred,    \* the threads whose swap began on a reported bearer
  answer     \* what each swap is told

vars == <<owner, cap, reported, sent, asked, barred, answer>>

Denials == {"revoked", "unknown", "budget", "gate", "other", "internal"}

Init ==
  /\ owner \in [Token -> Relay \cup {NoRelay}]
  /\ cap \in [Relay -> Nat]
  /\ reported = {}
  /\ sent = [k \in Token |-> 0]
  /\ asked = [t \in Thread |-> NoToken]
  /\ barred = {}
  /\ answer = [t \in Thread |-> "none"]

Issue ==
  /\ \E k \in Token, r \in Relay : owner[k] = NoRelay /\ owner' = [owner EXCEPT ![k] = r]
  /\ UNCHANGED <<cap, reported, sent, asked, barred, answer>>

Raise ==
  /\ \E r \in Relay : cap[r] <= cap'[r] /\ cap' = [cap EXCEPT ![r] = cap'[r]]
  /\ UNCHANGED <<owner, reported, sent, asked, barred, answer>>

Report ==
  /\ reported \subseteq reported'
  /\ \A k \in reported' : owner[k] # NoRelay
  /\ UNCHANGED <<owner, cap, sent, asked, barred, answer>>

Ask(t) ==
  /\ asked[t] = NoToken
  /\ \E k \in Token :
       /\ asked' = [asked EXCEPT ![t] = k]
       /\ barred' = IF k \in reported THEN barred \cup {t} ELSE barred
  /\ UNCHANGED <<owner, cap, reported, sent, answer>>

(* The request goes out, once; the upstream may fail afterwards. *)
Serve(t) ==
  /\ asked[t] \in Token /\ answer[t] = "none"
  /\ t \notin barred
  /\ owner[asked[t]] # NoRelay /\ sent[asked[t]] < cap[owner[asked[t]]]
  /\ sent' = [sent EXCEPT ![asked[t]] = @ + 1]
  /\ \E a \in {"allow", "internal"} : answer' = [answer EXCEPT ![t] = a]
  /\ UNCHANGED <<owner, cap, reported, asked, barred>>

(* Nothing was sent; a refusal that cannot be recorded becomes an internal one. *)
Refuse(t) ==
  /\ asked[t] \in Token
  /\ \E a \in Denials :
       /\ answer[t] = "none" \/ (answer[t] # "allow" /\ a = "internal")
       /\ t \in barred => a \in {"revoked", "internal"}
       /\ a = "unknown" => owner[asked[t]] = NoRelay
       /\ answer' = [answer EXCEPT ![t] = a]
  /\ UNCHANGED <<owner, cap, reported, sent, asked, barred>>

End(t) ==
  /\ answer[t] # "none"
  /\ asked' = [asked EXCEPT ![t] = NoToken]
  /\ barred' = barred \ {t}
  /\ answer' = [answer EXCEPT ![t] = "none"]
  /\ UNCHANGED <<owner, cap, reported, sent>>

(* The process is started again: its swaps are gone, and it counts from nothing. *)
Restart ==
  /\ sent' = [k \in Token |-> 0]
  /\ asked' = [t \in Thread |-> NoToken]
  /\ barred' = {}
  /\ answer' = [t \in Thread |-> "none"]
  /\ UNCHANGED <<owner, cap, reported>>

Next ==
  \/ Issue \/ Raise \/ Report \/ Restart
  \/ \E t \in Thread : Ask(t) \/ Serve(t) \/ Refuse(t) \/ End(t)

Spec == Init /\ [][Next]_vars
=============================================================================
