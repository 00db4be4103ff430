-------------------------- MODULE AuditAnchorProofs --------------------------
(***************************************************************************)
(* Proofs about AuditAnchor, for any number of threads and rows, any build *)
(* and any mix of faults.                                                  *)
(*                                                                         *)
(* AcceptedLogIsComplete is not inductive.  It needs that the rows of the  *)
(* log are in the order they were appended (LogIsOrdered), that the log    *)
(* has no gap before an anchored row (NoGap), that the stored MAC is over  *)
(* the youngest anchored row (MacIsYoungest), that a thread in the middle  *)
(* of an advance holds a row of the log no older than any anchored one     *)
(* (AnchoringRow), and that a verifying unlock either looks at the MAC it  *)
(* read or at a log that was complete when another thread replaced it      *)
(* (VerifyingMac).  The other theorems start from this invariant: that     *)
(* signer and verifier agree (AgreementInv), that an honest unlock is not  *)
(* refused (ReadingInv), that no row is forgotten (TailInv), and that the  *)
(* high-water only grows.                                                  *)
(***************************************************************************)
EXTENDS AuditAnchor, SequenceTheorems, TLAPS

-----------------------------------------------------------------------------
(* The strengthening. *)

NoOverlap == "overlap" \notin happened

(* Rows are stored in the order of their stamps, and every stamp in use is old. *)
LogIsOrdered == \A i, j \in 1..Len(chain) : i < j => chain[i] < chain[j]

(* The vault lock is held shared during an advance, which starts on an unlocked vault. *)
AdvanceHoldsLock == \A t \in Thread : pc[t] \in Anchoring => vault = "unlocked"

OneAdvance ==
  \A s, t \in Thread : pc[s] \in Anchoring /\ pc[t] \in Anchoring => s = t

(* An unlock that passed verification is on its way to its audit row or its commit, *)
(* and nobody else is about to commit.                                               *)
CommittingIsAccepted ==
  /\ \A t \in committing : pc[t] \in {"append", "advance", "commit"} \cup Anchoring
  /\ \A t \in Thread : pc[t] = "commit" => t \in committing

(* An append came before: the log an advance looks at has a tail. *)
AdvanceHasTail ==
  \A t \in Thread : pc[t] \in {"advance", "commit"} \cup Anchoring => Len(chain) > 0

AnchoredAreOld == \A c \in covered : c < nextStamp

Complete == covered \subseteq RowsOf(chain)

NoGap == \A r, c \in covered : r \in RowsOf(chain) /\ c <= r => c \in RowsOf(chain)

MacIsYoungest ==
  /\ mac = NoMac => covered = {}
  /\ mac # NoMac => mac.row \in covered /\ \A c \in covered : c <= mac.row

AnchoringRow ==
  \A t \in Thread : pc[t] \in Anchoring =>
    /\ read[t].seq \in 1..Len(chain)
    /\ read[t].row = chain[read[t].seq]

AnchoringIsYoungest ==
  \A t \in Thread : pc[t] \in Anchoring => \A c \in covered : c <= read[t].row

VerifyingMac ==
  \A t \in Thread : pc[t] \in {"getVerifiedHighWater", "checkRows"} =>
    Complete \/ (read[t] = mac /\ mac # NoMac)

CompleteWhenOpen ==
  vault = "unlocked" \/ committing # {} => Complete

CompletenessInv ==
  /\ TypeOK
  /\ LogIsOrdered
  /\ AdvanceHoldsLock
  /\ CommittingIsAccepted
  /\ AdvanceHasTail
  /\ AnchoringRow
  /\ AnchoredAreOld
  /\ NoOverlap => /\ OneAdvance
                  /\ NoGap
                  /\ MacIsYoungest
                  /\ AnchoringIsYoungest
                  /\ VerifyingMac
                  /\ CompleteWhenOpen

-----------------------------------------------------------------------------
LEMMA TypeAtStart == Init => TypeOK
<1> USE DEF NoMac, Anchor, Labels, InStore, Verifying, Anchoring
<1> SUFFICES ASSUME Init PROVE TypeOK
  OBVIOUS
<1>1. CASE chain = << >>
  BY <1>1 DEF Init, TypeOK
<1>2. CASE chain = <<1>>
  BY <1>2 DEF Init, TypeOK
<1>3. QED
  BY <1>1, <1>2 DEF Init

(* A step keeps the types, action by action. *)
LEMMA TypeStays ==
  ASSUME TypeOK, [Next]_vars
  PROVE  TypeOK'
<1> USE DEF NoMac, Anchor, Labels, store, locals, history, InStore, Verifying, Anchoring
<1> USE DEF TypeOK, Goto, Return
<1>1. ASSUME NEW t \in Thread, StartOp(t) PROVE TypeOK'
  BY <1>1 DEF StartOp
<1>2. ASSUME NEW t \in Thread, StartLock(t) PROVE TypeOK'
  BY <1>2 DEF StartLock
<1>3. ASSUME NEW t \in Thread, StartUnlock(t) PROVE TypeOK'
  BY <1>3 DEF StartUnlock
<1>4. ASSUME NEW t \in Thread, GetMac(t) PROVE TypeOK'
  <2>1. CASE Decide(t, TRUE)
    BY <1>4, <2>1 DEF GetMac, Decide
  <2>2. CASE /\ read' = [read EXCEPT ![t] = mac]
             /\ Goto(t, "getVerifiedHighWater")
             /\ UNCHANGED <<committing, hw>>
    BY <1>4, <2>2 DEF GetMac
  <2>3. QED
    BY <1>4, <2>1, <2>2 DEF GetMac
<1>5. ASSUME NEW t \in Thread, GetVerifiedHighWater(t) PROVE TypeOK'
  BY <1>5 DEF GetVerifiedHighWater
<1>6. ASSUME NEW t \in Thread, CheckRows(t) PROVE TypeOK'
  BY <1>6 DEF CheckRows, Decide, Verifies, RowAt
<1>7. ASSUME NEW t \in Thread, Commit(t) PROVE TypeOK'
  BY <1>7 DEF Commit
<1>8. ASSUME NEW t \in Thread, AppendAudit(t) PROVE TypeOK'
  <2>1. /\ nextStamp' = nextStamp + 1 /\ chain' = Append(chain, nextStamp)
        /\ pc' \in [Thread -> Labels]
        /\ UNCHANGED <<highWater, mac, vault, committing, read, hw, covered, happened>>
    BY <1>8 DEF AppendAudit
  <2>2. nextStamp' \in Nat /\ chain' \in Seq(Nat) /\ Len(chain') = Len(chain) + 1
    BY <2>1
  <2>3. \A n \in 1..Len(chain') : chain'[n] = IF n <= Len(chain) THEN chain[n] ELSE nextStamp
    <3>1. ASSUME NEW n \in 1..Len(Append(chain, nextStamp))
          PROVE  Append(chain, nextStamp)[n] = IF n <= Len(chain) THEN chain[n] ELSE nextStamp
      OBVIOUS
    <3> QED
      BY <2>1, <3>1
  <2>4. \A n \in 1..Len(chain') : chain'[n] \in 1..(nextStamp' - 1)
    BY <2>1, <2>2, <2>3
  <2>5. /\ highWater' \in 0..(nextStamp' - 1) /\ mac'.seq < nextStamp'
        /\ hw' \in [Thread -> 0..(nextStamp' - 1)]
        /\ \A u \in Thread : read'[u].seq < nextStamp'
    BY <2>1
  <2> QED
    BY <2>1, <2>2, <2>4, <2>5
<1>9. ASSUME NEW t \in Thread, Advance(t) PROVE TypeOK'
  <2>1. RowAt(chain, Len(chain)) \in Nat
    BY DEF RowAt
  <2>2. CASE vault = "unlocked"
    <3>1. /\ read' = [read EXCEPT ![t] = [seq |-> Len(chain), row |-> RowAt(chain, Len(chain))]]
          /\ UNCHANGED <<store, vault, committing, hw, covered>>
      BY <1>9, <2>2 DEF Advance
    <3>2. read' \in [Thread -> Anchor] /\ \A s \in Thread : read'[s].seq < nextStamp
      BY <2>1, <3>1
    <3>3. pc' \in [Thread -> Labels]
      BY <1>9, <2>2 DEF Advance
    <3>4. happened' \subseteq {"overlap", "torn", "lost", "error"}
      BY <1>9, <2>2 DEF Advance
    <3>5. QED
      BY <3>1, <3>2, <3>3, <3>4
  <2>3. CASE Goto(t, "commit") /\ UNCHANGED <<locals, happened>>
    BY <1>9, <2>3 DEF Advance
  <2>4. CASE Return(t) /\ UNCHANGED happened
    BY <1>9, <2>4 DEF Advance
  <2>5. QED
    BY <1>9, <2>2, <2>3, <2>4 DEF Advance, AfterAudit
<1>10. ASSUME NEW t \in Thread, GetHighWater(t) PROVE TypeOK'
  BY <1>10 DEF GetHighWater, RaisedHighWater
<1>11. ASSUME NEW t \in Thread, PutHighWater(t) PROVE TypeOK'
  <2>1. CASE Return(t)
    BY <1>11, <2>1 DEF PutHighWater
  <2>2. CASE Goto(t, "putMac") /\ UNCHANGED locals
    BY <1>11, <2>2 DEF PutHighWater
  <2>3. QED
    BY <1>11, <2>1, <2>2 DEF PutHighWater
<1>12. ASSUME NEW t \in Thread, PutMac(t) PROVE TypeOK'
  <2>1. read[t].row \in Nat
    OBVIOUS
  <2>2. mac' \in Anchor /\ mac'.seq < nextStamp
    BY <1>12, <2>1 DEF PutMac
  <2>3. covered' \subseteq Nat
    BY <1>12, <2>1 DEF PutMac
  <2>4. happened' \subseteq {"overlap", "torn", "lost", "error"}
    BY <1>12 DEF PutMac
  <2>5. CASE Goto(t, "commit") /\ UNCHANGED locals
    BY <1>12, <2>2, <2>3, <2>4, <2>5 DEF PutMac
  <2>6. CASE Return(t)
    BY <1>12, <2>2, <2>3, <2>4, <2>6 DEF PutMac
  <2>7. QED
    BY <1>12, <2>5, <2>6 DEF PutMac, AfterAudit
<1>13. ASSUME NEW t \in Thread, StoreError(t) PROVE TypeOK'
  <2>1. CASE Decide(t, FALSE)
    BY <1>13, <2>1 DEF StoreError, Decide
  <2>2. CASE Return(t)
    BY <1>13, <2>2 DEF StoreError
  <2>3. QED
    BY <1>13, <2>1, <2>2 DEF StoreError
<1>14. ASSUME NEW t \in Thread, AppendUnacknowledged(t) PROVE TypeOK'
  <2>1. /\ chain' \in Seq(Nat)
        /\ \A n \in 1..Len(chain') : chain'[n] \in 1..(nextStamp' - 1)
        /\ Len(chain') < nextStamp'
    BY <1>14 DEF AppendUnacknowledged
  <2>2. happened' \subseteq {"overlap", "torn", "lost", "error"}
    BY <1>14 DEF AppendUnacknowledged
  <2>3. pc' \in [Thread -> Labels]
    BY <1>14 DEF AppendUnacknowledged
  <2>4. committing' \subseteq Thread
    BY <1>14 DEF AppendUnacknowledged
  <2>5. read' \in [Thread -> Anchor] /\ \A s \in Thread : read'[s].seq < nextStamp'
    BY <1>14 DEF AppendUnacknowledged
  <2>6. hw' \in [Thread -> 0..(nextStamp' - 1)]
    BY <1>14 DEF AppendUnacknowledged
  <2>7. /\ nextStamp' \in Nat /\ nextStamp' = nextStamp + 1
        /\ UNCHANGED <<highWater, mac, vault, covered>>
    BY <1>14 DEF AppendUnacknowledged
  <2>8. /\ highWater' \in 0..(nextStamp' - 1)
        /\ mac' \in Anchor
        /\ mac'.seq < nextStamp'
    BY <2>7
  <2>9. vault' \in {"locked", "unlocked"} /\ covered' \subseteq Nat
    BY <2>7
  <2>10. QED
    BY <2>1, <2>2, <2>3, <2>4, <2>5, <2>6, <2>7, <2>8, <2>9
<1>15. CASE Crash
  BY <1>15 DEF Crash
<1>16. CASE TailLoss
  <2>1. PICK n \in 0..(Len(chain) - 1) : chain' = SubSeq(chain, 1, n)
    BY <1>16 DEF TailLoss
  <2>2. \A i \in 1..n : chain[i] \in Nat
    OBVIOUS
  <2>3. /\ chain' \in Seq(Nat)
        /\ Len(chain') = n
        /\ \A i \in 1..n : chain'[i] = chain[i]
    BY <2>1, <2>2, SubSeqProperties
  <2>4. QED
    BY <1>16, <2>3 DEF TailLoss
<1>17. CASE UNCHANGED vars
  BY <1>17 DEF vars
<1>18. QED
  BY <1>1, <1>2, <1>3, <1>4, <1>5, <1>6, <1>7, <1>8, <1>9, <1>10, <1>11, <1>12,
     <1>13, <1>14, <1>15, <1>16, <1>17 DEF Next, Start, Step

(* Every variable keeps its type through every step of every call (lib.rs `audit`). *)
THEOREM TypeCorrect == Spec => []TypeOK
<1>1. Init => TypeOK
  BY TypeAtStart
<1>2. TypeOK /\ [Next]_vars => TypeOK'
  BY TypeStays
<1>3. QED
  BY <1>1, <1>2, PTL DEF Spec

-----------------------------------------------------------------------------
(***************************************************************************)
(* What a step does, one lemma per variable or question, each by a case    *)
(* analysis of the actions.  The invariant is then argued from these.      *)
(***************************************************************************)

(* A step leaves the log alone, appends one fresh row, or loses the tail. *)
LEMMA ChainEffect ==
  ASSUME [Next]_vars
  PROVE  \/ UNCHANGED <<chain, nextStamp>>
         \/ chain' = Append(chain, nextStamp) /\ nextStamp' = nextStamp + 1
         \/ TailLoss
<1> DEFINE Goal == \/ UNCHANGED <<chain, nextStamp>>
                   \/ chain' = Append(chain, nextStamp) /\ nextStamp' = nextStamp + 1
                   \/ TailLoss
<1> SUFFICES Goal
  OBVIOUS
<1> USE DEF store
<1>1. ASSUME NEW t \in Thread, StartOp(t) PROVE Goal
  BY <1>1 DEF StartOp
<1>2. ASSUME NEW t \in Thread, StartLock(t) PROVE Goal
  BY <1>2 DEF StartLock
<1>3. ASSUME NEW t \in Thread, StartUnlock(t) PROVE Goal
  BY <1>3 DEF StartUnlock
<1>4. ASSUME NEW t \in Thread, GetMac(t) PROVE Goal
  BY <1>4 DEF GetMac
<1>5. ASSUME NEW t \in Thread, GetVerifiedHighWater(t) PROVE Goal
  BY <1>5 DEF GetVerifiedHighWater
<1>6. ASSUME NEW t \in Thread, CheckRows(t) PROVE Goal
  BY <1>6 DEF CheckRows
<1>7. ASSUME NEW t \in Thread, Commit(t) PROVE Goal
  BY <1>7 DEF Commit
<1>8. ASSUME NEW t \in Thread, AppendAudit(t) PROVE Goal
  BY <1>8 DEF AppendAudit
<1>9. ASSUME NEW t \in Thread, Advance(t) PROVE Goal
  BY <1>9 DEF Advance
<1>10. ASSUME NEW t \in Thread, GetHighWater(t) PROVE Goal
  BY <1>10 DEF GetHighWater
<1>11. ASSUME NEW t \in Thread, PutHighWater(t) PROVE Goal
  BY <1>11 DEF PutHighWater
<1>12. ASSUME NEW t \in Thread, PutMac(t) PROVE Goal
  BY <1>12 DEF PutMac
<1>13. ASSUME NEW t \in Thread, StoreError(t) PROVE Goal
  BY <1>13 DEF StoreError
<1>14. ASSUME NEW t \in Thread, AppendUnacknowledged(t) PROVE Goal
  BY <1>14 DEF AppendUnacknowledged
<1>15. CASE Crash
  BY <1>15 DEF Crash
<1>16. CASE TailLoss
  BY <1>16 DEF TailLoss
<1>17. CASE UNCHANGED vars
  BY <1>17 DEF vars
<1>18. QED
  BY <1>1, <1>2, <1>3, <1>4, <1>5, <1>6, <1>7, <1>8, <1>9,
     <1>10, <1>11, <1>12, <1>13, <1>14, <1>15, <1>16, <1>17 DEF Next, Start, Step

(* Only PutMac writes the MAC and anchors a row. *)
LEMMA MacEffect ==
  ASSUME [Next]_vars
  PROVE  \/ UNCHANGED <<mac, covered>>
         \/ \E u \in Thread : PutMac(u)
<1> DEFINE Goal == \/ UNCHANGED <<mac, covered>>
                   \/ \E u \in Thread : PutMac(u)
<1> SUFFICES Goal
  OBVIOUS
<1> USE DEF store, history
<1>1. ASSUME NEW t \in Thread, StartOp(t) PROVE Goal
  BY <1>1 DEF StartOp
<1>2. ASSUME NEW t \in Thread, StartLock(t) PROVE Goal
  BY <1>2 DEF StartLock
<1>3. ASSUME NEW t \in Thread, StartUnlock(t) PROVE Goal
  BY <1>3 DEF StartUnlock
<1>4. ASSUME NEW t \in Thread, GetMac(t) PROVE Goal
  BY <1>4 DEF GetMac
<1>5. ASSUME NEW t \in Thread, GetVerifiedHighWater(t) PROVE Goal
  BY <1>5 DEF GetVerifiedHighWater
<1>6. ASSUME NEW t \in Thread, CheckRows(t) PROVE Goal
  BY <1>6 DEF CheckRows
<1>7. ASSUME NEW t \in Thread, Commit(t) PROVE Goal
  BY <1>7 DEF Commit
<1>8. ASSUME NEW t \in Thread, AppendAudit(t) PROVE Goal
  BY <1>8 DEF AppendAudit
<1>9. ASSUME NEW t \in Thread, Advance(t) PROVE Goal
  BY <1>9 DEF Advance
<1>10. ASSUME NEW t \in Thread, GetHighWater(t) PROVE Goal
  BY <1>10 DEF GetHighWater
<1>11. ASSUME NEW t \in Thread, PutHighWater(t) PROVE Goal
  BY <1>11 DEF PutHighWater
<1>12. ASSUME NEW t \in Thread, PutMac(t) PROVE Goal
  BY <1>12 DEF PutMac
<1>13. ASSUME NEW t \in Thread, StoreError(t) PROVE Goal
  BY <1>13 DEF StoreError
<1>14. ASSUME NEW t \in Thread, AppendUnacknowledged(t) PROVE Goal
  BY <1>14 DEF AppendUnacknowledged
<1>15. CASE Crash
  BY <1>15 DEF Crash
<1>16. CASE TailLoss
  BY <1>16 DEF TailLoss
<1>17. CASE UNCHANGED vars
  BY <1>17 DEF vars
<1>18. QED
  BY <1>1, <1>2, <1>3, <1>4, <1>5, <1>6, <1>7, <1>8, <1>9,
     <1>10, <1>11, <1>12, <1>13, <1>14, <1>15, <1>16, <1>17 DEF Next, Start, Step

(* An overlap is never forgotten. *)
LEMMA OverlapIsSticky ==
  ASSUME [Next]_vars, NoOverlap'
  PROVE  NoOverlap
<1> DEFINE Goal == NoOverlap
<1> SUFFICES Goal
  OBVIOUS
<1> USE DEF NoOverlap, history
<1>1. ASSUME NEW t \in Thread, StartOp(t) PROVE Goal
  BY <1>1 DEF StartOp
<1>2. ASSUME NEW t \in Thread, StartLock(t) PROVE Goal
  BY <1>2 DEF StartLock
<1>3. ASSUME NEW t \in Thread, StartUnlock(t) PROVE Goal
  BY <1>3 DEF StartUnlock
<1>4. ASSUME NEW t \in Thread, GetMac(t) PROVE Goal
  BY <1>4 DEF GetMac
<1>5. ASSUME NEW t \in Thread, GetVerifiedHighWater(t) PROVE Goal
  BY <1>5 DEF GetVerifiedHighWater
<1>6. ASSUME NEW t \in Thread, CheckRows(t) PROVE Goal
  BY <1>6 DEF CheckRows
<1>7. ASSUME NEW t \in Thread, Commit(t) PROVE Goal
  BY <1>7 DEF Commit
<1>8. ASSUME NEW t \in Thread, AppendAudit(t) PROVE Goal
  BY <1>8 DEF AppendAudit
<1>9. ASSUME NEW t \in Thread, Advance(t) PROVE Goal
  BY <1>9 DEF Advance
<1>10. ASSUME NEW t \in Thread, GetHighWater(t) PROVE Goal
  BY <1>10 DEF GetHighWater
<1>11. ASSUME NEW t \in Thread, PutHighWater(t) PROVE Goal
  BY <1>11 DEF PutHighWater
<1>12. ASSUME NEW t \in Thread, PutMac(t) PROVE Goal
  BY <1>12 DEF PutMac
<1>13. ASSUME NEW t \in Thread, StoreError(t) PROVE Goal
  BY <1>13 DEF StoreError
<1>14. ASSUME NEW t \in Thread, AppendUnacknowledged(t) PROVE Goal
  BY <1>14 DEF AppendUnacknowledged
<1>15. CASE Crash
  BY <1>15 DEF Crash
<1>16. CASE TailLoss
  BY <1>16 DEF TailLoss
<1>17. CASE UNCHANGED vars
  BY <1>17 DEF vars
<1>18. QED
  BY <1>1, <1>2, <1>3, <1>4, <1>5, <1>6, <1>7, <1>8, <1>9,
     <1>10, <1>11, <1>12, <1>13, <1>14, <1>15, <1>16, <1>17 DEF Next, Start, Step

(* The vault is locked only while no advance is under way. *)
LEMMA VaultEffect ==
  ASSUME TypeOK, [Next]_vars
  PROVE  \/ vault' = vault
         \/ vault' = "locked" /\ \A s \in Thread : pc'[s] \notin Anchoring
         \/ vault' = "unlocked" /\ \E u \in Thread : Commit(u)
<1> DEFINE Goal == \/ vault' = vault
                   \/ vault' = "locked" /\ \A s \in Thread : pc'[s] \notin Anchoring
                   \/ vault' = "unlocked" /\ \E u \in Thread : Commit(u)
<1> SUFFICES Goal
  OBVIOUS
<1> USE DEF TypeOK, Anchoring, NoReader
<1>1. ASSUME NEW t \in Thread, StartOp(t) PROVE Goal
  BY <1>1 DEF StartOp, Goto
<1>2. ASSUME NEW t \in Thread, StartLock(t) PROVE Goal
  BY <1>2 DEF StartLock, Goto
<1>3. ASSUME NEW t \in Thread, StartUnlock(t) PROVE Goal
  BY <1>3 DEF StartUnlock, Goto
<1>4. ASSUME NEW t \in Thread, GetMac(t) PROVE Goal
  BY <1>4 DEF GetMac, Goto, Decide
<1>5. ASSUME NEW t \in Thread, GetVerifiedHighWater(t) PROVE Goal
  BY <1>5 DEF GetVerifiedHighWater, Goto
<1>6. ASSUME NEW t \in Thread, CheckRows(t) PROVE Goal
  BY <1>6 DEF CheckRows, Goto, Decide
<1>7. ASSUME NEW t \in Thread, Commit(t) PROVE Goal
  BY <1>7 DEF Commit, Goto
<1>8. ASSUME NEW t \in Thread, AppendAudit(t) PROVE Goal
  BY <1>8 DEF AppendAudit, Goto
<1>9. ASSUME NEW t \in Thread, Advance(t) PROVE Goal
  BY <1>9 DEF Advance, Goto, AfterAudit, Return
<1>10. ASSUME NEW t \in Thread, GetHighWater(t) PROVE Goal
  BY <1>10 DEF GetHighWater, Goto
<1>11. ASSUME NEW t \in Thread, PutHighWater(t) PROVE Goal
  BY <1>11 DEF PutHighWater, Goto, Return
<1>12. ASSUME NEW t \in Thread, PutMac(t) PROVE Goal
  BY <1>12 DEF PutMac, Goto, AfterAudit, Return
<1>13. ASSUME NEW t \in Thread, StoreError(t) PROVE Goal
  BY <1>13 DEF StoreError, Verifying, Decide, Goto, Return
<1>14. ASSUME NEW t \in Thread, AppendUnacknowledged(t) PROVE Goal
  BY <1>14 DEF AppendUnacknowledged, Goto, Return
<1>15. CASE Crash
  BY <1>15 DEF Crash
<1>16. CASE TailLoss
  BY <1>16 DEF TailLoss
<1>17. CASE UNCHANGED vars
  BY <1>17 DEF vars
<1>18. QED
  BY <1>1, <1>2, <1>3, <1>4, <1>5, <1>6, <1>7, <1>8, <1>9,
     <1>10, <1>11, <1>12, <1>13, <1>14, <1>15, <1>16, <1>17 DEF Next, Start, Step

(* A thread in an advance was there before with the same tail in hand, or begins it. *)
LEMMA AnchoringEffect ==
  ASSUME TypeOK, [Next]_vars, NEW s \in Thread, pc'[s] \in Anchoring
  PROVE  \/ pc[s] \in Anchoring /\ read'[s] = read[s]
         \/ Advance(s) /\ vault = "unlocked"
<1> DEFINE Goal == \/ pc[s] \in Anchoring /\ read'[s] = read[s]
                   \/ Advance(s) /\ vault = "unlocked"
<1> SUFFICES Goal
  OBVIOUS
<1> USE DEF store, locals, history, TypeOK, Anchoring
<1>1. ASSUME NEW t \in Thread, StartOp(t) PROVE Goal
  BY <1>1 DEF StartOp, Goto
<1>2. ASSUME NEW t \in Thread, StartLock(t) PROVE Goal
  BY <1>2 DEF StartLock, Goto
<1>3. ASSUME NEW t \in Thread, StartUnlock(t) PROVE Goal
  BY <1>3 DEF StartUnlock, Goto
<1>4. ASSUME NEW t \in Thread, GetMac(t) PROVE Goal
  BY <1>4 DEF GetMac, Goto, Decide
<1>5. ASSUME NEW t \in Thread, GetVerifiedHighWater(t) PROVE Goal
  BY <1>5 DEF GetVerifiedHighWater, Goto
<1>6. ASSUME NEW t \in Thread, CheckRows(t) PROVE Goal
  BY <1>6 DEF CheckRows, Goto, Decide
<1>7. ASSUME NEW t \in Thread, Commit(t) PROVE Goal
  BY <1>7 DEF Commit, Goto
<1>8. ASSUME NEW t \in Thread, AppendAudit(t) PROVE Goal
  BY <1>8 DEF AppendAudit, Goto
<1>9. ASSUME NEW t \in Thread, Advance(t) PROVE Goal
  BY <1>9 DEF Advance, Goto, AfterAudit, Return
<1>10. ASSUME NEW t \in Thread, GetHighWater(t) PROVE Goal
  BY <1>10 DEF GetHighWater, Goto
<1>11. ASSUME NEW t \in Thread, PutHighWater(t) PROVE Goal
  BY <1>11 DEF PutHighWater, Goto, Return
<1>12. ASSUME NEW t \in Thread, PutMac(t) PROVE Goal
  BY <1>12 DEF PutMac, Goto, AfterAudit, Return
<1>13. ASSUME NEW t \in Thread, StoreError(t) PROVE Goal
  BY <1>13 DEF StoreError, Verifying, Decide, Goto, Return
<1>14. ASSUME NEW t \in Thread, AppendUnacknowledged(t) PROVE Goal
  BY <1>14 DEF AppendUnacknowledged, Goto, Return
<1>15. CASE Crash
  BY <1>15 DEF Crash
<1>16. CASE TailLoss
  BY <1>16 DEF TailLoss
<1>17. CASE UNCHANGED vars
  BY <1>17 DEF vars
<1>18. QED
  BY <1>1, <1>2, <1>3, <1>4, <1>5, <1>6, <1>7, <1>8, <1>9,
     <1>10, <1>11, <1>12, <1>13, <1>14, <1>15, <1>16, <1>17 DEF Next, Start, Step

(* A thread in the middle of verifying still holds the MAC, or has just read it. *)
LEMMA VerifyingEffect ==
  ASSUME TypeOK, [Next]_vars, NEW s \in Thread, pc'[s] \in {"getVerifiedHighWater", "checkRows"}
  PROVE  \/ pc[s] \in {"getVerifiedHighWater", "checkRows"} /\ read'[s] = read[s]
         \/ GetMac(s) /\ mac # NoMac /\ read'[s] = mac
<1> DEFINE Goal == \/ pc[s] \in {"getVerifiedHighWater", "checkRows"} /\ read'[s] = read[s]
                   \/ GetMac(s) /\ mac # NoMac /\ read'[s] = mac
<1> SUFFICES Goal
  OBVIOUS
<1> USE DEF store, locals, history, TypeOK, Anchoring
<1>1. ASSUME NEW t \in Thread, StartOp(t) PROVE Goal
  BY <1>1 DEF StartOp, Goto
<1>2. ASSUME NEW t \in Thread, StartLock(t) PROVE Goal
  BY <1>2 DEF StartLock, Goto
<1>3. ASSUME NEW t \in Thread, StartUnlock(t) PROVE Goal
  BY <1>3 DEF StartUnlock, Goto
<1>4. ASSUME NEW t \in Thread, GetMac(t) PROVE Goal
  BY <1>4 DEF GetMac, Goto, Decide
<1>5. ASSUME NEW t \in Thread, GetVerifiedHighWater(t) PROVE Goal
  BY <1>5 DEF GetVerifiedHighWater, Goto
<1>6. ASSUME NEW t \in Thread, CheckRows(t) PROVE Goal
  BY <1>6 DEF CheckRows, Goto, Decide
<1>7. ASSUME NEW t \in Thread, Commit(t) PROVE Goal
  BY <1>7 DEF Commit, Goto
<1>8. ASSUME NEW t \in Thread, AppendAudit(t) PROVE Goal
  BY <1>8 DEF AppendAudit, Goto
<1>9. ASSUME NEW t \in Thread, Advance(t) PROVE Goal
  BY <1>9 DEF Advance, Goto, AfterAudit, Return
<1>10. ASSUME NEW t \in Thread, GetHighWater(t) PROVE Goal
  BY <1>10 DEF GetHighWater, Goto
<1>11. ASSUME NEW t \in Thread, PutHighWater(t) PROVE Goal
  BY <1>11 DEF PutHighWater, Goto, Return
<1>12. ASSUME NEW t \in Thread, PutMac(t) PROVE Goal
  BY <1>12 DEF PutMac, Goto, AfterAudit, Return
<1>13. ASSUME NEW t \in Thread, StoreError(t) PROVE Goal
  BY <1>13 DEF StoreError, Verifying, Decide, Goto, Return
<1>14. ASSUME NEW t \in Thread, AppendUnacknowledged(t) PROVE Goal
  BY <1>14 DEF AppendUnacknowledged, Goto, Return
<1>15. CASE Crash
  BY <1>15 DEF Crash
<1>16. CASE TailLoss
  BY <1>16 DEF TailLoss
<1>17. CASE UNCHANGED vars
  BY <1>17 DEF vars
<1>18. QED
  BY <1>1, <1>2, <1>3, <1>4, <1>5, <1>6, <1>7, <1>8, <1>9,
     <1>10, <1>11, <1>12, <1>13, <1>14, <1>15, <1>16, <1>17 DEF Next, Start, Step

(* An unlock about to commit was so before, or has just been accepted. *)
LEMMA CommittingEffect ==
  ASSUME TypeOK, [Next]_vars, NEW s \in Thread, s \in committing'
  PROVE  \/ s \in committing
         \/ GetMac(s) /\ mac = NoMac
         \/ CheckRows(s) /\ Verifies(read[s], hw[s], chain)
<1> DEFINE Goal == \/ s \in committing
                   \/ GetMac(s) /\ mac = NoMac
                   \/ CheckRows(s) /\ Verifies(read[s], hw[s], chain)
<1> SUFFICES Goal
  OBVIOUS
<1> USE DEF store, locals, history, TypeOK, Anchoring
<1>1. ASSUME NEW t \in Thread, StartOp(t) PROVE Goal
  BY <1>1 DEF StartOp, Goto
<1>2. ASSUME NEW t \in Thread, StartLock(t) PROVE Goal
  BY <1>2 DEF StartLock, Goto
<1>3. ASSUME NEW t \in Thread, StartUnlock(t) PROVE Goal
  BY <1>3 DEF StartUnlock, Goto
<1>4. ASSUME NEW t \in Thread, GetMac(t) PROVE Goal
  BY <1>4 DEF GetMac, Goto, Decide
<1>5. ASSUME NEW t \in Thread, GetVerifiedHighWater(t) PROVE Goal
  BY <1>5 DEF GetVerifiedHighWater, Goto
<1>6. ASSUME NEW t \in Thread, CheckRows(t) PROVE Goal
  BY <1>6 DEF CheckRows, Goto, Decide
<1>7. ASSUME NEW t \in Thread, Commit(t) PROVE Goal
  BY <1>7 DEF Commit, Goto
<1>8. ASSUME NEW t \in Thread, AppendAudit(t) PROVE Goal
  BY <1>8 DEF AppendAudit, Goto
<1>9. ASSUME NEW t \in Thread, Advance(t) PROVE Goal
  BY <1>9 DEF Advance, Goto, AfterAudit, Return
<1>10. ASSUME NEW t \in Thread, GetHighWater(t) PROVE Goal
  BY <1>10 DEF GetHighWater, Goto
<1>11. ASSUME NEW t \in Thread, PutHighWater(t) PROVE Goal
  BY <1>11 DEF PutHighWater, Goto, Return
<1>12. ASSUME NEW t \in Thread, PutMac(t) PROVE Goal
  BY <1>12 DEF PutMac, Goto, AfterAudit, Return
<1>13. ASSUME NEW t \in Thread, StoreError(t) PROVE Goal
  BY <1>13 DEF StoreError, Verifying, Decide, Goto, Return
<1>14. ASSUME NEW t \in Thread, AppendUnacknowledged(t) PROVE Goal
  BY <1>14 DEF AppendUnacknowledged, Goto, Return
<1>15. CASE Crash
  BY <1>15 DEF Crash
<1>16. CASE TailLoss
  BY <1>16 DEF TailLoss
<1>17. CASE UNCHANGED vars
  BY <1>17 DEF vars
<1>18. QED
  BY <1>1, <1>2, <1>3, <1>4, <1>5, <1>6, <1>7, <1>8, <1>9,
     <1>10, <1>11, <1>12, <1>13, <1>14, <1>15, <1>16, <1>17 DEF Next, Start, Step

(* An unlock that was accepted stays on its way to its commit, or leaves. *)
LEMMA CommittingLabel ==
  ASSUME TypeOK, CommittingIsAccepted, [Next]_vars, NEW s \in Thread, s \in committing'
  PROVE  pc'[s] \in {"append", "advance", "commit"} \cup Anchoring
<1> DEFINE Goal == pc'[s] \in {"append", "advance", "commit"} \cup Anchoring
<1> SUFFICES Goal
  OBVIOUS
<1> USE DEF store, locals, history, TypeOK, Anchoring, CommittingIsAccepted
<1>1. ASSUME NEW t \in Thread, StartOp(t) PROVE Goal
  BY <1>1 DEF StartOp, Goto
<1>2. ASSUME NEW t \in Thread, StartLock(t) PROVE Goal
  BY <1>2 DEF StartLock, Goto
<1>3. ASSUME NEW t \in Thread, StartUnlock(t) PROVE Goal
  BY <1>3 DEF StartUnlock, Goto
<1>4. ASSUME NEW t \in Thread, GetMac(t) PROVE Goal
  BY <1>4 DEF GetMac, Goto, Decide
<1>5. ASSUME NEW t \in Thread, GetVerifiedHighWater(t) PROVE Goal
  BY <1>5 DEF GetVerifiedHighWater, Goto
<1>6. ASSUME NEW t \in Thread, CheckRows(t) PROVE Goal
  BY <1>6 DEF CheckRows, Goto, Decide
<1>7. ASSUME NEW t \in Thread, Commit(t) PROVE Goal
  BY <1>7 DEF Commit, Goto
<1>8. ASSUME NEW t \in Thread, AppendAudit(t) PROVE Goal
  BY <1>8 DEF AppendAudit, Goto
<1>9. ASSUME NEW t \in Thread, Advance(t) PROVE Goal
  BY <1>9 DEF Advance, Goto, AfterAudit, Return
<1>10. ASSUME NEW t \in Thread, GetHighWater(t) PROVE Goal
  BY <1>10 DEF GetHighWater, Goto
<1>11. ASSUME NEW t \in Thread, PutHighWater(t) PROVE Goal
  BY <1>11 DEF PutHighWater, Goto, Return
<1>12. ASSUME NEW t \in Thread, PutMac(t) PROVE Goal
  BY <1>12 DEF PutMac, Goto, AfterAudit, Return
<1>13. ASSUME NEW t \in Thread, StoreError(t) PROVE Goal
  BY <1>13 DEF StoreError, Verifying, Decide, Goto, Return
<1>14. ASSUME NEW t \in Thread, AppendUnacknowledged(t) PROVE Goal
  BY <1>14 DEF AppendUnacknowledged, Goto, Return
<1>15. CASE Crash
  BY <1>15 DEF Crash
<1>16. CASE TailLoss
  BY <1>16 DEF TailLoss
<1>17. CASE UNCHANGED vars
  BY <1>17 DEF vars
<1>18. QED
  BY <1>1, <1>2, <1>3, <1>4, <1>5, <1>6, <1>7, <1>8, <1>9,
     <1>10, <1>11, <1>12, <1>13, <1>14, <1>15, <1>16, <1>17 DEF Next, Start, Step

(* A call on its way to an advance or a commit was so before, or has appended its row. *)
LEMMA TailLabel ==
  ASSUME TypeOK, [Next]_vars, NEW s \in Thread,
         pc'[s] \in {"advance", "commit"} \cup Anchoring
  PROVE  \/ pc[s] \in {"advance", "commit"} \cup Anchoring
         \/ AppendAudit(s)
<1> DEFINE Goal == \/ pc[s] \in {"advance", "commit"} \cup Anchoring
                   \/ AppendAudit(s)
<1> SUFFICES Goal
  OBVIOUS
<1> USE DEF store, locals, history, TypeOK, Anchoring
<1>1. ASSUME NEW t \in Thread, StartOp(t) PROVE Goal
  BY <1>1 DEF StartOp, Goto
<1>2. ASSUME NEW t \in Thread, StartLock(t) PROVE Goal
  BY <1>2 DEF StartLock, Goto
<1>3. ASSUME NEW t \in Thread, StartUnlock(t) PROVE Goal
  BY <1>3 DEF StartUnlock, Goto
<1>4. ASSUME NEW t \in Thread, GetMac(t) PROVE Goal
  BY <1>4 DEF GetMac, Goto, Decide
<1>5. ASSUME NEW t \in Thread, GetVerifiedHighWater(t) PROVE Goal
  BY <1>5 DEF GetVerifiedHighWater, Goto
<1>6. ASSUME NEW t \in Thread, CheckRows(t) PROVE Goal
  BY <1>6 DEF CheckRows, Goto, Decide
<1>7. ASSUME NEW t \in Thread, Commit(t) PROVE Goal
  BY <1>7 DEF Commit, Goto
<1>8. ASSUME NEW t \in Thread, AppendAudit(t) PROVE Goal
  BY <1>8 DEF AppendAudit, Goto
<1>9. ASSUME NEW t \in Thread, Advance(t) PROVE Goal
  BY <1>9 DEF Advance, Goto, AfterAudit, Return
<1>10. ASSUME NEW t \in Thread, GetHighWater(t) PROVE Goal
  BY <1>10 DEF GetHighWater, Goto
<1>11. ASSUME NEW t \in Thread, PutHighWater(t) PROVE Goal
  BY <1>11 DEF PutHighWater, Goto, Return
<1>12. ASSUME NEW t \in Thread, PutMac(t) PROVE Goal
  BY <1>12 DEF PutMac, Goto, AfterAudit, Return
<1>13. ASSUME NEW t \in Thread, StoreError(t) PROVE Goal
  BY <1>13 DEF StoreError, Verifying, Decide, Goto, Return
<1>14. ASSUME NEW t \in Thread, AppendUnacknowledged(t) PROVE Goal
  BY <1>14 DEF AppendUnacknowledged, Goto, Return
<1>15. CASE Crash
  BY <1>15 DEF Crash
<1>16. CASE TailLoss
  BY <1>16 DEF TailLoss
<1>17. CASE UNCHANGED vars
  BY <1>17 DEF vars
<1>18. QED
  BY <1>1, <1>2, <1>3, <1>4, <1>5, <1>6, <1>7, <1>8, <1>9,
     <1>10, <1>11, <1>12, <1>13, <1>14, <1>15, <1>16, <1>17 DEF Next, Start, Step

(* Only an accepted unlock comes to its commit. *)
LEMMA CommitLabel ==
  ASSUME TypeOK, CommittingIsAccepted, [Next]_vars, NEW s \in Thread, pc'[s] = "commit"
  PROVE  s \in committing'
<1> DEFINE Goal == s \in committing'
<1> SUFFICES Goal
  OBVIOUS
<1> USE DEF store, locals, history, TypeOK, Anchoring, CommittingIsAccepted
<1>1. ASSUME NEW t \in Thread, StartOp(t) PROVE Goal
  BY <1>1 DEF StartOp, Goto
<1>2. ASSUME NEW t \in Thread, StartLock(t) PROVE Goal
  BY <1>2 DEF StartLock, Goto
<1>3. ASSUME NEW t \in Thread, StartUnlock(t) PROVE Goal
  BY <1>3 DEF StartUnlock, Goto
<1>4. ASSUME NEW t \in Thread, GetMac(t) PROVE Goal
  BY <1>4 DEF GetMac, Goto, Decide
<1>5. ASSUME NEW t \in Thread, GetVerifiedHighWater(t) PROVE Goal
  BY <1>5 DEF GetVerifiedHighWater, Goto
<1>6. ASSUME NEW t \in Thread, CheckRows(t) PROVE Goal
  BY <1>6 DEF CheckRows, Goto, Decide
<1>7. ASSUME NEW t \in Thread, Commit(t) PROVE Goal
  BY <1>7 DEF Commit, Goto
<1>8. ASSUME NEW t \in Thread, AppendAudit(t) PROVE Goal
  BY <1>8 DEF AppendAudit, Goto
<1>9. ASSUME NEW t \in Thread, Advance(t) PROVE Goal
  BY <1>9 DEF Advance, Goto, AfterAudit, Return
<1>10. ASSUME NEW t \in Thread, GetHighWater(t) PROVE Goal
  BY <1>10 DEF GetHighWater, Goto
<1>11. ASSUME NEW t \in Thread, PutHighWater(t) PROVE Goal
  BY <1>11 DEF PutHighWater, Goto, Return
<1>12. ASSUME NEW t \in Thread, PutMac(t) PROVE Goal
  BY <1>12 DEF PutMac, Goto, AfterAudit, Return
<1>13. ASSUME NEW t \in Thread, StoreError(t) PROVE Goal
  BY <1>13 DEF StoreError, Verifying, Decide, Goto, Return
<1>14. ASSUME NEW t \in Thread, AppendUnacknowledged(t) PROVE Goal
  BY <1>14 DEF AppendUnacknowledged, Goto, Return
<1>15. CASE Crash
  BY <1>15 DEF Crash
<1>16. CASE TailLoss
  BY <1>16 DEF TailLoss
<1>17. CASE UNCHANGED vars
  BY <1>17 DEF vars
<1>18. QED
  BY <1>1, <1>2, <1>3, <1>4, <1>5, <1>6, <1>7, <1>8, <1>9,
     <1>10, <1>11, <1>12, <1>13, <1>14, <1>15, <1>16, <1>17 DEF Next, Start, Step

(* Apart from a tail loss, rows stay where they are and the new one is the youngest. *)
LEMMA RowsStay ==
  ASSUME TypeOK, [Next]_vars, ~TailLoss
  PROVE  /\ Len(chain) <= Len(chain')
         /\ \A n \in 1..Len(chain) : chain'[n] = chain[n]
         /\ \A n \in 1..Len(chain') : n <= Len(chain) \/ chain'[n] = nextStamp
         /\ nextStamp <= nextStamp'
<1>1. CASE UNCHANGED <<chain, nextStamp>>
  BY <1>1 DEF TypeOK
<1>2. CASE chain' = Append(chain, nextStamp) /\ nextStamp' = nextStamp + 1
  BY <1>2 DEF TypeOK
<1>3. QED
  BY <1>1, <1>2, ChainEffect

(* A tail loss happens while nothing runs and leaves a prefix. *)
LEMMA PrefixStays ==
  ASSUME TypeOK, TailLoss
  PROVE  /\ Len(chain') <= Len(chain)
         /\ \A n \in 1..Len(chain') : chain'[n] = chain[n]
         /\ vault' = "locked" /\ \A t \in Thread : pc'[t] = "idle"
         /\ UNCHANGED <<nextStamp, highWater, mac, committing, covered>>
<1>1. PICK n \in 0..(Len(chain) - 1) : chain' = SubSeq(chain, 1, n)
  BY DEF TailLoss
<1>2. \A i \in 1..n : chain[i] \in Nat
  BY DEF TypeOK
<1>3. n \in Int /\ n < Len(chain) /\ 1 \in Int
  BY DEF TypeOK
<1>4. Len(chain') = n /\ \A i \in 1..n : chain'[i] = chain[i]
  BY <1>1, <1>2, <1>3, SubSeqProperties
<1>5. QED
  BY <1>3, <1>4 DEF TailLoss, store, locals

(* Completeness is lost by nothing but a tail loss. *)
LEMMA CompleteStays ==
  ASSUME TypeOK, [Next]_vars, ~TailLoss, AnchoringRow, Complete
  PROVE  Complete'
<1>1. RowsOf(chain) \subseteq RowsOf(chain')
  BY RowsStay DEF RowsOf, TypeOK
<1>2. CASE UNCHANGED <<mac, covered>>
  BY <1>1, <1>2 DEF Complete
<1>3. ASSUME NEW u \in Thread, PutMac(u) PROVE Complete'
  <2>1. read[u].row \in RowsOf(chain)
    BY <1>3 DEF PutMac, AnchoringRow, Anchoring, RowsOf
  <2>2. covered' = covered \cup {read[u].row}
    BY <1>3 DEF PutMac
  <2>3. QED
    BY <1>1, <2>1, <2>2 DEF Complete
<1>4. QED
  BY <1>2, <1>3, MacEffect

-----------------------------------------------------------------------------
(* The invariant is preserved, part by part. *)

LEMMA LogIsOrderedStays ==
  ASSUME TypeOK, LogIsOrdered, [Next]_vars
  PROVE  LogIsOrdered'
<1>1. CASE UNCHANGED <<chain, nextStamp>>
  BY <1>1 DEF LogIsOrdered
<1>2. CASE chain' = Append(chain, nextStamp) /\ nextStamp' = nextStamp + 1
  <2>1. /\ Len(chain) \in Nat /\ Len(chain') = Len(chain) + 1
        /\ \A n \in 1..Len(chain) : chain'[n] = chain[n] /\ chain[n] < nextStamp
        /\ chain'[Len(chain) + 1] = nextStamp
    BY <1>2 DEF TypeOK
  <2>2. ASSUME NEW i \in 1..Len(chain'), NEW j \in 1..Len(chain'), i < j
        PROVE  chain'[i] < chain'[j]
    <3>1. i \in 1..Len(chain)
      BY <2>1, <2>2
    <3>2. CASE j \in 1..Len(chain)
      BY <2>1, <2>2, <3>1, <3>2 DEF LogIsOrdered
    <3>3. CASE j = Len(chain) + 1
      BY <2>1, <3>1, <3>3
    <3>4. QED
      BY <2>1, <3>2, <3>3
  <2>3. QED
    BY <2>2 DEF LogIsOrdered
<1>3. CASE TailLoss
  BY <1>3, PrefixStays DEF LogIsOrdered, TypeOK
<1>4. QED
  BY <1>1, <1>2, <1>3, ChainEffect

LEMMA AdvanceHoldsLockStays ==
  ASSUME TypeOK, AdvanceHoldsLock, [Next]_vars
  PROVE  AdvanceHoldsLock'
<1> SUFFICES ASSUME NEW s \in Thread, pc'[s] \in Anchoring
             PROVE  vault' = "unlocked"
  BY DEF AdvanceHoldsLock, Anchoring
<1>1. vault = "unlocked"
  BY AnchoringEffect DEF AdvanceHoldsLock
<1>2. QED
  BY <1>1, VaultEffect

LEMMA CommittingIsAcceptedStays ==
  ASSUME TypeOK, CommittingIsAccepted, [Next]_vars
  PROVE  CommittingIsAccepted'
<1>1. TypeOK'
  BY TypeStays
<1>2. \A s \in committing' : pc'[s] \in {"append", "advance", "commit"} \cup Anchoring
  <2> SUFFICES ASSUME NEW s \in committing'
               PROVE  pc'[s] \in {"append", "advance", "commit"} \cup Anchoring
    OBVIOUS
  <2>1. s \in Thread
    BY <1>1 DEF TypeOK
  <2>2. QED
    BY <2>1, CommittingLabel
<1>3. \A s \in Thread : pc'[s] = "commit" => s \in committing'
  BY CommitLabel
<1>4. QED
  BY <1>2, <1>3 DEF CommittingIsAccepted, Anchoring

LEMMA AdvanceHasTailStays ==
  ASSUME TypeOK, AdvanceHasTail, [Next]_vars
  PROVE  AdvanceHasTail'
<1> SUFFICES ASSUME NEW s \in Thread, pc'[s] \in {"advance", "commit"} \cup Anchoring
             PROVE  Len(chain') > 0
  BY DEF AdvanceHasTail, Anchoring
<1>1. CASE TailLoss
  BY <1>1, PrefixStays DEF Anchoring
<1>2. CASE ~TailLoss /\ pc[s] \in {"advance", "commit"} \cup Anchoring
  <2>1. Len(chain) > 0
    BY <1>2 DEF AdvanceHasTail
  <2>2. Len(chain) <= Len(chain')
    BY <1>2, RowsStay
  <2>3. chain' \in Seq(Nat) /\ chain \in Seq(Nat)
    BY TypeStays DEF TypeOK
  <2>4. QED
    BY <2>1, <2>2, <2>3
<1>3. CASE AppendAudit(s)
  BY <1>3 DEF AppendAudit, TypeOK
<1>4. QED
  BY <1>1, <1>2, <1>3, TailLabel

LEMMA AnchoringRowStays ==
  ASSUME TypeOK, AdvanceHasTail, AnchoringRow, [Next]_vars
  PROVE  AnchoringRow'
<1> SUFFICES ASSUME NEW s \in Thread, pc'[s] \in Anchoring
             PROVE  /\ read'[s].seq \in 1..Len(chain')
                    /\ read'[s].row = chain'[read'[s].seq]
  BY DEF AnchoringRow, Anchoring
<1>1. CASE TailLoss
  BY <1>1, PrefixStays DEF Anchoring
<1>2. CASE ~TailLoss /\ pc[s] \in Anchoring /\ read'[s] = read[s]
  <2>1. read[s].seq \in 1..Len(chain) /\ read[s].row = chain[read[s].seq]
    BY <1>2 DEF AnchoringRow
  <2>2. Len(chain) <= Len(chain') /\ \A n \in 1..Len(chain) : chain'[n] = chain[n]
    BY <1>2, RowsStay
  <2>3. chain' \in Seq(Nat) /\ chain \in Seq(Nat)
    BY TypeStays DEF TypeOK
  <2>4. QED
    BY <1>2, <2>1, <2>2, <2>3
<1>3. CASE Advance(s) /\ vault = "unlocked"
  <2>1. Len(chain) > 0 /\ chain \in Seq(Nat)
    BY <1>3 DEF Advance, AdvanceHasTail, TypeOK
  <2>2. /\ read' = [read EXCEPT ![s] = [seq |-> Len(chain), row |-> RowAt(chain, Len(chain))]]
        /\ chain' = chain
    BY <1>3 DEF Advance, store
  <2>3. read'[s] = [seq |-> Len(chain), row |-> RowAt(chain, Len(chain))]
    BY <2>2 DEF TypeOK
  <2>4. QED
    BY <2>1, <2>2, <2>3 DEF RowAt
<1>4. QED
  BY <1>1, <1>2, <1>3, AnchoringEffect

(* The row an advance holds is a row of the log, older than the next one. *)
LEMMA AnchoringRowIsOld ==
  ASSUME TypeOK, AnchoringRow, NEW u \in Thread, pc[u] \in Anchoring
  PROVE  read[u].row \in RowsOf(chain) /\ read[u].row \in 1..(nextStamp - 1)
BY DEF AnchoringRow, RowsOf, TypeOK

LEMMA AnchoredAreOldStays ==
  ASSUME TypeOK, AnchoringRow, AnchoredAreOld, [Next]_vars
  PROVE  AnchoredAreOld'
<1>1. nextStamp <= nextStamp' /\ nextStamp \in Nat /\ nextStamp' \in Nat /\ covered \subseteq Nat
  <2>1. CASE TailLoss
    BY <2>1, PrefixStays DEF TypeOK
  <2>2. CASE ~TailLoss
    BY <2>2, RowsStay, TypeStays DEF TypeOK
  <2>3. QED
    BY <2>1, <2>2
<1>2. CASE UNCHANGED <<mac, covered>>
  BY <1>1, <1>2 DEF AnchoredAreOld
<1>3. ASSUME NEW u \in Thread, PutMac(u) PROVE AnchoredAreOld'
  <2>1. read[u].row < nextStamp
    BY <1>3, AnchoringRowIsOld DEF PutMac, Anchoring, TypeOK
  <2>2. covered' = covered \cup {read[u].row} /\ nextStamp' = nextStamp
    BY <1>3 DEF PutMac
  <2>3. QED
    BY <2>1, <2>2 DEF AnchoredAreOld
<1>4. QED
  BY <1>2, <1>3, MacEffect

LEMMA OneAdvanceStays ==
  ASSUME TypeOK, OneAdvance, [Next]_vars, NoOverlap'
  PROVE  OneAdvance'
<1> SUFFICES ASSUME NEW r \in Thread, NEW s \in Thread,
                    pc'[r] \in Anchoring, pc'[s] \in Anchoring
             PROVE  r = s
  BY DEF OneAdvance, Anchoring
<1>1. CASE pc[r] \in Anchoring /\ pc[s] \in Anchoring
  BY <1>1 DEF OneAdvance
<1>2. ASSUME NEW u \in Thread, NEW v \in Thread, Advance(u), vault = "unlocked", pc'[v] \in Anchoring
      PROVE  u = v
  <2>1. NoReader
    BY <1>2 DEF Advance, NoOverlap
  <2>2. pc[v] \notin Anchoring
    BY <2>1 DEF NoReader
  <2>3. pc' = [pc EXCEPT ![u] = "getHighWater"]
    BY <1>2 DEF Advance, Goto
  <2>4. QED
    BY <1>2, <2>2, <2>3 DEF TypeOK
<1>3. QED
  BY <1>1, <1>2, AnchoringEffect

LEMMA NoGapStays ==
  ASSUME TypeOK, LogIsOrdered, AdvanceHoldsLock, AnchoringRow, AnchoredAreOld,
         NoGap, CompleteWhenOpen, [Next]_vars
  PROVE  NoGap'
<1>1. CASE TailLoss
  <2> SUFFICES ASSUME NEW r \in covered', NEW c \in covered', r \in RowsOf(chain'), c <= r
               PROVE  c \in RowsOf(chain')
    BY DEF NoGap
  <2>1. /\ Len(chain') <= Len(chain)
        /\ \A n \in 1..Len(chain') : chain'[n] = chain[n]
        /\ covered' = covered
    BY <1>1, PrefixStays
  <2>2. chain' \in Seq(Nat) /\ chain \in Seq(Nat)
    BY TypeStays DEF TypeOK
  <2>3. PICK i \in 1..Len(chain') : r = chain'[i]
    BY DEF RowsOf
  <2>4. r \in RowsOf(chain)
    BY <2>1, <2>2, <2>3 DEF RowsOf
  <2>5. PICK j \in 1..Len(chain) : c = chain[j]
    BY <2>1, <2>4 DEF NoGap, RowsOf
  <2>6. i \in 1..Len(chain) /\ r = chain[i]
    BY <2>1, <2>2, <2>3
  <2>7. j <= i
    BY <2>2, <2>5, <2>6 DEF LogIsOrdered, TypeOK
  <2>8. j \in 1..Len(chain') /\ c = chain'[j]
    BY <2>1, <2>2, <2>5, <2>7
  <2>9. QED
    BY <2>8 DEF RowsOf
<1>2. CASE ~TailLoss /\ UNCHANGED <<mac, covered>>
  <2> SUFFICES ASSUME NEW r \in covered, NEW c \in covered, r \in RowsOf(chain'), c <= r
               PROVE  c \in RowsOf(chain')
    BY <1>2 DEF NoGap
  <2>1. /\ Len(chain) <= Len(chain')
        /\ \A n \in 1..Len(chain) : chain'[n] = chain[n]
        /\ \A n \in 1..Len(chain') : n <= Len(chain) \/ chain'[n] = nextStamp
    BY <1>2, RowsStay
  <2>2. chain' \in Seq(Nat) /\ chain \in Seq(Nat) /\ r \in Nat /\ r < nextStamp /\ nextStamp \in Nat
    BY TypeStays DEF TypeOK, AnchoredAreOld
  <2>3. PICK i \in 1..Len(chain') : r = chain'[i]
    BY DEF RowsOf
  <2>4. i \in 1..Len(chain) /\ r = chain[i]
    BY <2>1, <2>2, <2>3
  <2>5. c \in RowsOf(chain)
    BY <2>4 DEF NoGap, RowsOf
  <2>6. RowsOf(chain) \subseteq RowsOf(chain')
    BY <2>1, <2>2 DEF RowsOf
  <2>7. QED
    BY <2>5, <2>6
<1>3. ASSUME ~TailLoss, NEW u \in Thread, PutMac(u) PROVE NoGap'
  <2>1. Complete
    BY <1>3 DEF PutMac, AdvanceHoldsLock, Anchoring, CompleteWhenOpen
  <2>2. Complete'
    BY <1>3, <2>1, CompleteStays
  <2>3. QED
    BY <2>2 DEF Complete, NoGap
<1>4. QED
  BY <1>1, <1>2, <1>3, MacEffect

LEMMA MacIsYoungestStays ==
  ASSUME TypeOK, AnchoringRow, AnchoringIsYoungest, MacIsYoungest, [Next]_vars
  PROVE  MacIsYoungest'
<1>1. CASE UNCHANGED <<mac, covered>>
  BY <1>1 DEF MacIsYoungest
<1>2. ASSUME NEW u \in Thread, PutMac(u) PROVE MacIsYoungest'
  <2>1. pc[u] \in Anchoring /\ mac' = [seq |-> hw[u], row |-> read[u].row]
    BY <1>2 DEF PutMac, Anchoring
  <2>2. covered' = covered \cup {read[u].row}
    BY <1>2 DEF PutMac
  <2>3. read[u].row \in Nat /\ read[u].row # 0
    BY <2>1, AnchoringRowIsOld DEF TypeOK
  <2>4. mac'.row = read[u].row /\ mac' # NoMac
    BY <2>1, <2>3 DEF NoMac
  <2>5. \A c \in covered' : c <= read[u].row
    BY <2>1, <2>2, <2>3 DEF AnchoringIsYoungest
  <2>6. QED
    BY <2>2, <2>4, <2>5 DEF MacIsYoungest, NoMac
<1>3. QED
  BY <1>1, <1>2, MacEffect

LEMMA AnchoringIsYoungestStays ==
  ASSUME TypeOK, LogIsOrdered, AdvanceHasTail, AnchoringRow, OneAdvance,
         AnchoringIsYoungest, CompleteWhenOpen, [Next]_vars
  PROVE  AnchoringIsYoungest'
<1> SUFFICES ASSUME NEW s \in Thread, pc'[s] \in Anchoring, NEW c \in covered'
             PROVE  c <= read'[s].row
  BY DEF AnchoringIsYoungest, Anchoring
<1>1. CASE pc[s] \in Anchoring /\ read'[s] = read[s] /\ covered' = covered
  BY <1>1 DEF AnchoringIsYoungest
<1>2. ASSUME pc[s] \in Anchoring, read'[s] = read[s], NEW u \in Thread, PutMac(u)
      PROVE  c <= read'[s].row
  <2>1. u = s
    BY <1>2 DEF PutMac, Anchoring, OneAdvance
  <2>2. covered' = covered \cup {read[s].row}
    BY <1>2, <2>1 DEF PutMac
  <2>3. read[s].row \in Nat
    BY DEF TypeOK, Anchor
  <2>4. QED
    BY <1>2, <2>2, <2>3 DEF AnchoringIsYoungest
<1>3. CASE Advance(s) /\ vault = "unlocked"
  <2>1. Len(chain) > 0 /\ chain \in Seq(Nat)
    BY <1>3 DEF Advance, AdvanceHasTail, TypeOK
  <2>2. /\ read' = [read EXCEPT ![s] = [seq |-> Len(chain), row |-> RowAt(chain, Len(chain))]]
        /\ covered' = covered
    BY <1>3 DEF Advance
  <2>3. read'[s].row = chain[Len(chain)]
    BY <2>1, <2>2 DEF TypeOK, RowAt
  <2>4. PICK j \in 1..Len(chain) : c = chain[j]
    BY <1>3, <2>2 DEF CompleteWhenOpen, Complete, RowsOf
  <2>5. chain[j] <= chain[Len(chain)]
    BY <2>1 DEF LogIsOrdered, TypeOK
  <2>6. QED
    BY <2>3, <2>4, <2>5
<1>4. QED
  BY <1>1, <1>2, <1>3, AnchoringEffect, MacEffect

LEMMA VerifyingMacStays ==
  ASSUME TypeOK, AdvanceHoldsLock, AnchoringRow, VerifyingMac, CompleteWhenOpen, [Next]_vars
  PROVE  VerifyingMac'
<1> SUFFICES ASSUME NEW s \in Thread, pc'[s] \in {"getVerifiedHighWater", "checkRows"}
             PROVE  Complete' \/ (read'[s] = mac' /\ mac' # NoMac)
  BY DEF VerifyingMac, NoMac
<1>1. CASE TailLoss
  BY <1>1, PrefixStays
<1>2. CASE ~TailLoss /\ UNCHANGED <<mac, covered>>
  <2>1. CASE pc[s] \in {"getVerifiedHighWater", "checkRows"} /\ read'[s] = read[s]
    BY <1>2, <2>1, CompleteStays DEF VerifyingMac
  <2>2. CASE mac # NoMac /\ read'[s] = mac
    BY <1>2, <2>2
  <2>3. QED
    BY <2>1, <2>2, VerifyingEffect
<1>3. ASSUME ~TailLoss, NEW u \in Thread, PutMac(u) PROVE Complete'
  <2>1. Complete
    BY <1>3 DEF PutMac, AdvanceHoldsLock, Anchoring, CompleteWhenOpen
  <2>2. QED
    BY <1>3, <2>1, CompleteStays
<1>4. QED
  BY <1>1, <1>2, <1>3, MacEffect

(* An accepted verification has seen every anchored row. *)
LEMMA AcceptedIsComplete ==
  ASSUME TypeOK, NoGap, MacIsYoungest, VerifyingMac,
         NEW s \in Thread, pc[s] = "checkRows", Verifies(read[s], hw[s], chain)
  PROVE  Complete
<1> SUFFICES ASSUME ~Complete PROVE FALSE
  OBVIOUS
<1>1. read[s] = mac /\ mac # NoMac
  BY DEF VerifyingMac
<1>2. /\ hw[s] <= Len(chain)
      /\ mac = [seq |-> hw[s], row |-> RowAt(chain, hw[s])]
  BY <1>1 DEF Verifies
<1>3. hw[s] \in 1..Len(chain) /\ mac.row = chain[hw[s]]
  BY <1>1, <1>2 DEF TypeOK, RowAt, NoMac
<1>4. mac.row \in RowsOf(chain) /\ mac.row \in covered
  BY <1>1, <1>3 DEF RowsOf, MacIsYoungest
<1>5. \A c \in covered : c <= mac.row
  BY <1>1 DEF MacIsYoungest
<1>6. QED
  BY <1>4, <1>5 DEF NoGap, Complete

LEMMA CompleteWhenOpenStays ==
  ASSUME TypeOK, CommittingIsAccepted, AnchoringRow, NoGap, MacIsYoungest, VerifyingMac,
         CompleteWhenOpen, [Next]_vars
  PROVE  CompleteWhenOpen'
<1>1. CASE TailLoss
  <2>1. vault' = "locked" /\ committing' = committing /\ \A t \in Thread : pc[t] = "idle"
    BY <1>1, PrefixStays DEF TailLoss
  <2>2. committing = {}
    BY <2>1 DEF CommittingIsAccepted, TypeOK, Anchoring
  <2>3. QED
    BY <2>1, <2>2 DEF CompleteWhenOpen
<1>2. CASE ~TailLoss
  <2>1. ASSUME Complete PROVE CompleteWhenOpen'
    BY <1>2, <2>1, CompleteStays DEF CompleteWhenOpen
  <2>2. ASSUME vault' = "unlocked" PROVE Complete
    <3>1. CASE vault = "unlocked"
      BY <3>1 DEF CompleteWhenOpen
    <3>2. ASSUME NEW u \in Thread, Commit(u) PROVE Complete
      BY <3>2 DEF Commit, CommittingIsAccepted, CompleteWhenOpen
    <3>3. QED
      BY <2>2, <3>1, <3>2, VaultEffect
  <2>3. ASSUME NEW s \in committing' PROVE Complete
    <3>1. s \in Thread
      BY TypeStays DEF TypeOK
    <3>2. CASE s \in committing
      BY <3>2 DEF CompleteWhenOpen
    <3>3. CASE mac = NoMac
      BY <3>3 DEF MacIsYoungest, Complete
    <3>4. CASE CheckRows(s) /\ Verifies(read[s], hw[s], chain)
      BY <3>1, <3>4, AcceptedIsComplete DEF CheckRows
    <3>5. QED
      BY <3>1, <3>2, <3>3, <3>4, CommittingEffect
  <2>4. QED
    BY <2>1, <2>2, <2>3 DEF CompleteWhenOpen
<1>3. QED
  BY <1>1, <1>2

-----------------------------------------------------------------------------
LEMMA CompletenessInit == Init => CompletenessInv
<1> SUFFICES ASSUME Init PROVE CompletenessInv
  OBVIOUS
<1>1. TypeOK
  BY TypeAtStart
<1>2. /\ \A t \in Thread : pc[t] = "idle"
      /\ committing = {} /\ vault = "locked"
  BY DEF Init
<1>3. AdvanceHoldsLock /\ CommittingIsAccepted /\ AdvanceHasTail /\ AnchoringRow
  BY <1>2 DEF AdvanceHoldsLock, CommittingIsAccepted, AdvanceHasTail, AnchoringRow, Anchoring
<1>4. OneAdvance /\ AnchoringIsYoungest /\ VerifyingMac /\ CompleteWhenOpen
  BY <1>2 DEF OneAdvance, AnchoringIsYoungest, VerifyingMac, CompleteWhenOpen, Anchoring
<1>5. covered \subseteq {1} /\ nextStamp = 2
  <2>1. highWater \in {0, 1}
    BY <1>1 DEF Init, TypeOK
  <2>2. mac.row \in {0, 1}
    BY <2>1 DEF Init, NoMac
  <2>3. QED
    BY <2>2 DEF Init
<1>6. LogIsOrdered
  BY DEF Init, LogIsOrdered
<1>7. AnchoredAreOld /\ NoGap
  BY <1>5 DEF AnchoredAreOld, NoGap
<1>8. MacIsYoungest
  BY <1>5 DEF Init, MacIsYoungest, NoMac
<1>9. QED
  BY <1>1, <1>3, <1>4, <1>6, <1>7, <1>8 DEF CompletenessInv

LEMMA CompletenessStays == CompletenessInv /\ [Next]_vars => CompletenessInv'
<1> SUFFICES ASSUME CompletenessInv, [Next]_vars PROVE CompletenessInv'
  OBVIOUS
<1>1. /\ TypeOK /\ LogIsOrdered /\ AdvanceHoldsLock /\ CommittingIsAccepted
      /\ AdvanceHasTail /\ AnchoringRow /\ AnchoredAreOld
  BY DEF CompletenessInv
<1>2. /\ TypeOK' /\ LogIsOrdered' /\ AdvanceHoldsLock' /\ CommittingIsAccepted'
      /\ AdvanceHasTail' /\ AnchoringRow' /\ AnchoredAreOld'
  BY <1>1, TypeStays, LogIsOrderedStays, AdvanceHoldsLockStays, CommittingIsAcceptedStays,
     AdvanceHasTailStays, AnchoringRowStays, AnchoredAreOldStays
<1>3. ASSUME NoOverlap'
      PROVE  /\ OneAdvance' /\ NoGap' /\ MacIsYoungest' /\ AnchoringIsYoungest'
             /\ VerifyingMac' /\ CompleteWhenOpen'
  <2>1. /\ OneAdvance /\ NoGap /\ MacIsYoungest /\ AnchoringIsYoungest
        /\ VerifyingMac /\ CompleteWhenOpen
    BY <1>3, OverlapIsSticky DEF CompletenessInv
  <2>2. QED
    BY <1>1, <1>3, <2>1, OneAdvanceStays, NoGapStays, MacIsYoungestStays,
       AnchoringIsYoungestStays, VerifyingMacStays, CompleteWhenOpenStays
<1>4. QED
  BY <1>2, <1>3 DEF CompletenessInv

(* While advances do not overlap, no vault is open, or accepted for opening, over a *)
(* log that lost an anchored row: truncation is detected by verify_audit_anchor_with. *)
THEOREM Completeness == Spec => []AcceptedLogIsComplete
<1>1. CompletenessInv => AcceptedLogIsComplete
  BY DEF CompletenessInv, AcceptedLogIsComplete, CompleteWhenOpen, Complete, NoOverlap
<1>2. QED
  BY <1>1, CompletenessInit, CompletenessStays, PTL DEF Spec

-----------------------------------------------------------------------------
(***************************************************************************)
(* The signer and the verifier of the audit anchor agree: what advances    *)
(* leave in the store passes the verification of the next unlock.          *)
(*                                                                         *)
(* AnchorAgrees is not inductive.  While no rows were lost and no advances *)
(* overlapped, the high-water is within the log, the tail an advance holds *)
(* is not below it, and the value the advance writes and signs is that     *)
(* tail: this also holds while the anchor is torn, and is why the next     *)
(* complete advance heals it.                                              *)
(***************************************************************************)

Intact == happened \cap {"overlap", "lost"} = {}

NobodyAtPutMac == \A t \in Thread : pc[t] # "putMac"

HighWaterInLog == highWater <= Len(chain)

TailCoversHighWater == \A t \in Thread : pc[t] \in Anchoring => highWater <= read[t].seq

WritesItsTail == \A t \in Thread : pc[t] \in {"putHighWater", "putMac"} => hw[t] = read[t].seq

SignsTheHighWater == \A t \in Thread : pc[t] = "putMac" => highWater = hw[t]

AgreesAtRest ==
  "torn" \notin happened /\ NobodyAtPutMac => Verifies(mac, highWater, chain)

AgreementInv ==
  /\ CompletenessInv
  /\ Intact => /\ HighWaterInLog
               /\ TailCoversHighWater
               /\ WritesItsTail
               /\ SignsTheHighWater
               /\ AgreesAtRest

-----------------------------------------------------------------------------
(* What a step does to the anchor, by a case analysis of the actions. *)

(* An overlap and a loss are never forgotten. *)
LEMMA IntactIsSticky ==
  ASSUME [Next]_vars, Intact'
  PROVE  Intact
<1> DEFINE Goal == Intact
<1> SUFFICES Goal
  OBVIOUS
<1> USE DEF Intact, history
<1>1. ASSUME NEW t \in Thread, StartOp(t) PROVE Goal
  BY <1>1 DEF StartOp
<1>2. ASSUME NEW t \in Thread, StartLock(t) PROVE Goal
  BY <1>2 DEF StartLock
<1>3. ASSUME NEW t \in Thread, StartUnlock(t) PROVE Goal
  BY <1>3 DEF StartUnlock
<1>4. ASSUME NEW t \in Thread, GetMac(t) PROVE Goal
  BY <1>4 DEF GetMac
<1>5. ASSUME NEW t \in Thread, GetVerifiedHighWater(t) PROVE Goal
  BY <1>5 DEF GetVerifiedHighWater
<1>6. ASSUME NEW t \in Thread, CheckRows(t) PROVE Goal
  BY <1>6 DEF CheckRows
<1>7. ASSUME NEW t \in Thread, Commit(t) PROVE Goal
  BY <1>7 DEF Commit
<1>8. ASSUME NEW t \in Thread, AppendAudit(t) PROVE Goal
  BY <1>8 DEF AppendAudit
<1>9. ASSUME NEW t \in Thread, Advance(t) PROVE Goal
  BY <1>9 DEF Advance
<1>10. ASSUME NEW t \in Thread, GetHighWater(t) PROVE Goal
  BY <1>10 DEF GetHighWater
<1>11. ASSUME NEW t \in Thread, PutHighWater(t) PROVE Goal
  BY <1>11 DEF PutHighWater
<1>12. ASSUME NEW t \in Thread, PutMac(t) PROVE Goal
  BY <1>12 DEF PutMac
<1>13. ASSUME NEW t \in Thread, StoreError(t) PROVE Goal
  BY <1>13 DEF StoreError
<1>14. ASSUME NEW t \in Thread, AppendUnacknowledged(t) PROVE Goal
  BY <1>14 DEF AppendUnacknowledged
<1>15. CASE Crash
  BY <1>15 DEF Crash
<1>16. CASE TailLoss
  BY <1>16 DEF TailLoss
<1>17. CASE UNCHANGED vars
  BY <1>17 DEF vars
<1>18. QED
  BY <1>1, <1>2, <1>3, <1>4, <1>5, <1>6, <1>7, <1>8, <1>9,
     <1>10, <1>11, <1>12, <1>13, <1>14, <1>15, <1>16, <1>17 DEF Next, Start, Step

(* Only PutHighWater writes the high-water. *)
LEMMA HighWaterEffect ==
  ASSUME [Next]_vars
  PROVE  \/ highWater' = highWater
         \/ \E u \in Thread : PutHighWater(u)
<1> DEFINE Goal == \/ highWater' = highWater
                   \/ \E u \in Thread : PutHighWater(u)
<1> SUFFICES Goal
  OBVIOUS
<1> USE DEF store
<1>1. ASSUME NEW t \in Thread, StartOp(t) PROVE Goal
  BY <1>1 DEF StartOp
<1>2. ASSUME NEW t \in Thread, StartLock(t) PROVE Goal
  BY <1>2 DEF StartLock
<1>3. ASSUME NEW t \in Thread, StartUnlock(t) PROVE Goal
  BY <1>3 DEF StartUnlock
<1>4. ASSUME NEW t \in Thread, GetMac(t) PROVE Goal
  BY <1>4 DEF GetMac
<1>5. ASSUME NEW t \in Thread, GetVerifiedHighWater(t) PROVE Goal
  BY <1>5 DEF GetVerifiedHighWater
<1>6. ASSUME NEW t \in Thread, CheckRows(t) PROVE Goal
  BY <1>6 DEF CheckRows
<1>7. ASSUME NEW t \in Thread, Commit(t) PROVE Goal
  BY <1>7 DEF Commit
<1>8. ASSUME NEW t \in Thread, AppendAudit(t) PROVE Goal
  BY <1>8 DEF AppendAudit
<1>9. ASSUME NEW t \in Thread, Advance(t) PROVE Goal
  BY <1>9 DEF Advance
<1>10. ASSUME NEW t \in Thread, GetHighWater(t) PROVE Goal
  BY <1>10 DEF GetHighWater
<1>11. ASSUME NEW t \in Thread, PutHighWater(t) PROVE Goal
  BY <1>11 DEF PutHighWater
<1>12. ASSUME NEW t \in Thread, PutMac(t) PROVE Goal
  BY <1>12 DEF PutMac
<1>13. ASSUME NEW t \in Thread, StoreError(t) PROVE Goal
  BY <1>13 DEF StoreError
<1>14. ASSUME NEW t \in Thread, AppendUnacknowledged(t) PROVE Goal
  BY <1>14 DEF AppendUnacknowledged
<1>15. CASE Crash
  BY <1>15 DEF Crash
<1>16. CASE TailLoss
  BY <1>16 DEF TailLoss
<1>17. CASE UNCHANGED vars
  BY <1>17 DEF vars
<1>18. QED
  BY <1>1, <1>2, <1>3, <1>4, <1>5, <1>6, <1>7, <1>8, <1>9,
     <1>10, <1>11, <1>12, <1>13, <1>14, <1>15, <1>16, <1>17 DEF Next, Start, Step

(* An advance keeps the value it is about to write, or has just computed it. *)
LEMMA WritingEffect ==
  ASSUME TypeOK, [Next]_vars, NEW s \in Thread, pc'[s] \in {"putHighWater", "putMac"}
  PROVE  \/ pc[s] \in {"putHighWater", "putMac"} /\ hw'[s] = hw[s] /\ read'[s] = read[s]
         \/ GetHighWater(s)
<1> DEFINE Goal == \/ pc[s] \in {"putHighWater", "putMac"} /\ hw'[s] = hw[s] /\ read'[s] = read[s]
                   \/ GetHighWater(s)
<1> SUFFICES Goal
  OBVIOUS
<1> USE DEF store, locals, history, TypeOK, Anchoring
<1>1. ASSUME NEW t \in Thread, StartOp(t) PROVE Goal
  BY <1>1 DEF StartOp, Goto
<1>2. ASSUME NEW t \in Thread, StartLock(t) PROVE Goal
  BY <1>2 DEF StartLock, Goto
<1>3. ASSUME NEW t \in Thread, StartUnlock(t) PROVE Goal
  BY <1>3 DEF StartUnlock, Goto
<1>4. ASSUME NEW t \in Thread, GetMac(t) PROVE Goal
  BY <1>4 DEF GetMac, Goto, Decide
<1>5. ASSUME NEW t \in Thread, GetVerifiedHighWater(t) PROVE Goal
  BY <1>5 DEF GetVerifiedHighWater, Goto
<1>6. ASSUME NEW t \in Thread, CheckRows(t) PROVE Goal
  BY <1>6 DEF CheckRows, Goto, Decide
<1>7. ASSUME NEW t \in Thread, Commit(t) PROVE Goal
  BY <1>7 DEF Commit, Goto
<1>8. ASSUME NEW t \in Thread, AppendAudit(t) PROVE Goal
  BY <1>8 DEF AppendAudit, Goto
<1>9. ASSUME NEW t \in Thread, Advance(t) PROVE Goal
  BY <1>9 DEF Advance, Goto, AfterAudit, Return
<1>10. ASSUME NEW t \in Thread, GetHighWater(t) PROVE Goal
  BY <1>10 DEF GetHighWater, Goto
<1>11. ASSUME NEW t \in Thread, PutHighWater(t) PROVE Goal
  BY <1>11 DEF PutHighWater, Goto, Return
<1>12. ASSUME NEW t \in Thread, PutMac(t) PROVE Goal
  BY <1>12 DEF PutMac, Goto, AfterAudit, Return
<1>13. ASSUME NEW t \in Thread, StoreError(t) PROVE Goal
  BY <1>13 DEF StoreError, Verifying, Decide, Goto, Return
<1>14. ASSUME NEW t \in Thread, AppendUnacknowledged(t) PROVE Goal
  BY <1>14 DEF AppendUnacknowledged, Goto, Return
<1>15. CASE Crash
  BY <1>15 DEF Crash
<1>16. CASE TailLoss
  BY <1>16 DEF TailLoss
<1>17. CASE UNCHANGED vars
  BY <1>17 DEF vars
<1>18. QED
  BY <1>1, <1>2, <1>3, <1>4, <1>5, <1>6, <1>7, <1>8, <1>9,
     <1>10, <1>11, <1>12, <1>13, <1>14, <1>15, <1>16, <1>17 DEF Next, Start, Step

(* A thread about to sign was so before, or has just written the high-water. *)
LEMMA SigningEffect ==
  ASSUME TypeOK, [Next]_vars, NEW s \in Thread, pc'[s] = "putMac"
  PROVE  \/ pc[s] = "putMac" /\ hw'[s] = hw[s]
         \/ PutHighWater(s)
<1> DEFINE Goal == \/ pc[s] = "putMac" /\ hw'[s] = hw[s]
                   \/ PutHighWater(s)
<1> SUFFICES Goal
  OBVIOUS
<1> USE DEF store, locals, history, TypeOK, Anchoring
<1>1. ASSUME NEW t \in Thread, StartOp(t) PROVE Goal
  BY <1>1 DEF StartOp, Goto
<1>2. ASSUME NEW t \in Thread, StartLock(t) PROVE Goal
  BY <1>2 DEF StartLock, Goto
<1>3. ASSUME NEW t \in Thread, StartUnlock(t) PROVE Goal
  BY <1>3 DEF StartUnlock, Goto
<1>4. ASSUME NEW t \in Thread, GetMac(t) PROVE Goal
  BY <1>4 DEF GetMac, Goto, Decide
<1>5. ASSUME NEW t \in Thread, GetVerifiedHighWater(t) PROVE Goal
  BY <1>5 DEF GetVerifiedHighWater, Goto
<1>6. ASSUME NEW t \in Thread, CheckRows(t) PROVE Goal
  BY <1>6 DEF CheckRows, Goto, Decide
<1>7. ASSUME NEW t \in Thread, Commit(t) PROVE Goal
  BY <1>7 DEF Commit, Goto
<1>8. ASSUME NEW t \in Thread, AppendAudit(t) PROVE Goal
  BY <1>8 DEF AppendAudit, Goto
<1>9. ASSUME NEW t \in Thread, Advance(t) PROVE Goal
  BY <1>9 DEF Advance, Goto, AfterAudit, Return
<1>10. ASSUME NEW t \in Thread, GetHighWater(t) PROVE Goal
  BY <1>10 DEF GetHighWater, Goto
<1>11. ASSUME NEW t \in Thread, PutHighWater(t) PROVE Goal
  BY <1>11 DEF PutHighWater, Goto, Return
<1>12. ASSUME NEW t \in Thread, PutMac(t) PROVE Goal
  BY <1>12 DEF PutMac, Goto, AfterAudit, Return
<1>13. ASSUME NEW t \in Thread, StoreError(t) PROVE Goal
  BY <1>13 DEF StoreError, Verifying, Decide, Goto, Return
<1>14. ASSUME NEW t \in Thread, AppendUnacknowledged(t) PROVE Goal
  BY <1>14 DEF AppendUnacknowledged, Goto, Return
<1>15. CASE Crash
  BY <1>15 DEF Crash
<1>16. CASE TailLoss
  BY <1>16 DEF TailLoss
<1>17. CASE UNCHANGED vars
  BY <1>17 DEF vars
<1>18. QED
  BY <1>1, <1>2, <1>3, <1>4, <1>5, <1>6, <1>7, <1>8, <1>9,
     <1>10, <1>11, <1>12, <1>13, <1>14, <1>15, <1>16, <1>17 DEF Next, Start, Step

(* The anchor comes to rest, and whole, by PutMac or where the debug_assert fails. *)
LEMMA RestEffect ==
  ASSUME TypeOK, [Next]_vars, "torn" \notin happened', NobodyAtPutMac'
  PROVE  \/ "torn" \notin happened /\ NobodyAtPutMac /\ mac' = mac /\ highWater' = highWater
         \/ \E u \in Thread : PutMac(u)
         \/ \E u \in Thread : pc[u] = "putHighWater" /\ hw[u] # read[u].seq
<1> DEFINE Goal == \/ "torn" \notin happened /\ NobodyAtPutMac /\ mac' = mac /\ highWater' = highWater
                   \/ \E u \in Thread : PutMac(u)
                   \/ \E u \in Thread : pc[u] = "putHighWater" /\ hw[u] # read[u].seq
<1> SUFFICES Goal
  OBVIOUS
<1> USE DEF store, locals, history, TypeOK, Anchoring, NobodyAtPutMac
<1>1. ASSUME NEW t \in Thread, StartOp(t) PROVE Goal
  BY <1>1 DEF StartOp, Goto
<1>2. ASSUME NEW t \in Thread, StartLock(t) PROVE Goal
  BY <1>2 DEF StartLock, Goto
<1>3. ASSUME NEW t \in Thread, StartUnlock(t) PROVE Goal
  BY <1>3 DEF StartUnlock, Goto
<1>4. ASSUME NEW t \in Thread, GetMac(t) PROVE Goal
  BY <1>4 DEF GetMac, Goto, Decide
<1>5. ASSUME NEW t \in Thread, GetVerifiedHighWater(t) PROVE Goal
  BY <1>5 DEF GetVerifiedHighWater, Goto
<1>6. ASSUME NEW t \in Thread, CheckRows(t) PROVE Goal
  BY <1>6 DEF CheckRows, Goto, Decide
<1>7. ASSUME NEW t \in Thread, Commit(t) PROVE Goal
  BY <1>7 DEF Commit, Goto
<1>8. ASSUME NEW t \in Thread, AppendAudit(t) PROVE Goal
  BY <1>8 DEF AppendAudit, Goto
<1>9. ASSUME NEW t \in Thread, Advance(t) PROVE Goal
  BY <1>9 DEF Advance, Goto, AfterAudit, Return
<1>10. ASSUME NEW t \in Thread, GetHighWater(t) PROVE Goal
  BY <1>10 DEF GetHighWater, Goto
<1>11. ASSUME NEW t \in Thread, PutHighWater(t) PROVE Goal
  BY <1>11 DEF PutHighWater, Goto, Return
<1>12. ASSUME NEW t \in Thread, PutMac(t) PROVE Goal
  BY <1>12 DEF PutMac, Goto, AfterAudit, Return
<1>13. ASSUME NEW t \in Thread, StoreError(t) PROVE Goal
  BY <1>13 DEF StoreError, Verifying, Decide, Goto, Return
<1>14. ASSUME NEW t \in Thread, AppendUnacknowledged(t) PROVE Goal
  BY <1>14 DEF AppendUnacknowledged, Goto, Return
<1>15. CASE Crash
  BY <1>15 DEF Crash
<1>16. CASE TailLoss
  BY <1>16 DEF TailLoss
<1>17. CASE UNCHANGED vars
  BY <1>17 DEF vars
<1>18. QED
  BY <1>1, <1>2, <1>3, <1>4, <1>5, <1>6, <1>7, <1>8, <1>9,
     <1>10, <1>11, <1>12, <1>13, <1>14, <1>15, <1>16, <1>17 DEF Next, Start, Step

(* The store does not lose rows in a step after which none were ever lost. *)
LEMMA NoLossWhileIntact ==
  ASSUME Intact'
  PROVE  ~TailLoss
BY DEF Intact, TailLoss

-----------------------------------------------------------------------------
(* The invariant is preserved, part by part. *)

LEMMA HighWaterInLogStays ==
  ASSUME TypeOK, AnchoringRow, HighWaterInLog, WritesItsTail, [Next]_vars, ~TailLoss
  PROVE  HighWaterInLog'
<1>1. chain \in Seq(Nat) /\ chain' \in Seq(Nat) /\ Len(chain) <= Len(chain')
  BY TypeStays, RowsStay DEF TypeOK
<1>2. CASE highWater' = highWater
  BY <1>1, <1>2 DEF HighWaterInLog, TypeOK
<1>3. ASSUME NEW u \in Thread, PutHighWater(u) PROVE HighWaterInLog'
  <2>1. highWater' = read[u].seq
    BY <1>3 DEF PutHighWater, WritesItsTail
  <2>2. read[u].seq \in 1..Len(chain)
    BY <1>3 DEF PutHighWater, AnchoringRow, Anchoring
  <2>3. QED
    BY <1>1, <2>1, <2>2 DEF HighWaterInLog
<1>4. QED
  BY <1>2, <1>3, HighWaterEffect

LEMMA TailCoversHighWaterStays ==
  ASSUME TypeOK, OneAdvance, HighWaterInLog, TailCoversHighWater, WritesItsTail, [Next]_vars
  PROVE  TailCoversHighWater'
<1> SUFFICES ASSUME NEW s \in Thread, pc'[s] \in Anchoring
             PROVE  highWater' <= read'[s].seq
  BY DEF TailCoversHighWater, Anchoring
<1>1. CASE Advance(s)
  <2>1. pc' = [pc EXCEPT ![s] = "getHighWater"] \/ pc'[s] \notin Anchoring
    BY <1>1 DEF Advance, AfterAudit, Return, Goto, TypeOK, Anchoring
  <2>2. vault = "unlocked"
    BY <1>1 DEF Advance, AfterAudit, Return, Goto, TypeOK, Anchoring
  <2>3. /\ read' = [read EXCEPT ![s] = [seq |-> Len(chain), row |-> RowAt(chain, Len(chain))]]
        /\ highWater' = highWater
    BY <1>1, <2>2 DEF Advance, store
  <2>4. read'[s].seq = Len(chain)
    BY <2>3 DEF TypeOK
  <2>5. QED
    BY <2>3, <2>4 DEF HighWaterInLog
<1>2. CASE pc[s] \in Anchoring /\ read'[s] = read[s] /\ highWater' = highWater
  BY <1>2 DEF TailCoversHighWater
<1>3. ASSUME pc[s] \in Anchoring, read'[s] = read[s], NEW u \in Thread, PutHighWater(u)
      PROVE  highWater' <= read'[s].seq
  <2>1. u = s
    BY <1>3 DEF PutHighWater, Anchoring, OneAdvance
  <2>2. highWater' = read[s].seq /\ read[s].seq \in Nat
    BY <1>3, <2>1 DEF PutHighWater, WritesItsTail, TypeOK, Anchor
  <2>3. QED
    BY <1>3, <2>2
<1>4. QED
  BY <1>1, <1>2, <1>3, AnchoringEffect, HighWaterEffect

LEMMA WritesItsTailStays ==
  ASSUME TypeOK, TailCoversHighWater, WritesItsTail, [Next]_vars
  PROVE  WritesItsTail'
<1> SUFFICES ASSUME NEW s \in Thread, pc'[s] \in {"putHighWater", "putMac"}
             PROVE  hw'[s] = read'[s].seq
  BY DEF WritesItsTail
<1>1. CASE pc[s] \in {"putHighWater", "putMac"} /\ hw'[s] = hw[s] /\ read'[s] = read[s]
  BY <1>1 DEF WritesItsTail
<1>2. CASE GetHighWater(s)
  <2>1. highWater <= read[s].seq /\ highWater \in Nat /\ read[s].seq \in Nat
    BY <1>2 DEF GetHighWater, TailCoversHighWater, Anchoring, TypeOK, Anchor
  <2>2. RaisedHighWater(highWater, read[s].seq) = read[s].seq
    BY <2>1 DEF RaisedHighWater
  <2>3. hw' = [hw EXCEPT ![s] = read[s].seq] /\ read' = read
    BY <1>2, <2>2 DEF GetHighWater
  <2>4. QED
    BY <2>3 DEF TypeOK
<1>3. QED
  BY <1>1, <1>2, WritingEffect

LEMMA SignsTheHighWaterStays ==
  ASSUME TypeOK, OneAdvance, SignsTheHighWater, [Next]_vars
  PROVE  SignsTheHighWater'
<1> SUFFICES ASSUME NEW s \in Thread, pc'[s] = "putMac"
             PROVE  highWater' = hw'[s]
  BY DEF SignsTheHighWater
<1>1. CASE pc[s] = "putMac" /\ hw'[s] = hw[s]
  <2>1. \A u \in Thread : ~(pc[u] = "putHighWater")
    BY <1>1 DEF OneAdvance, Anchoring
  <2>2. highWater' = highWater
    BY <2>1, HighWaterEffect DEF PutHighWater
  <2>3. QED
    BY <1>1, <2>2 DEF SignsTheHighWater
<1>2. CASE PutHighWater(s)
  <2>1. hw' = hw
    BY <1>2 DEF PutHighWater, Return, Goto, locals, TypeOK
  <2>2. QED
    BY <1>2, <2>1 DEF PutHighWater
<1>3. QED
  BY <1>1, <1>2, SigningEffect

LEMMA AgreesAtRestStays ==
  ASSUME TypeOK, AnchoringRow, HighWaterInLog, WritesItsTail, SignsTheHighWater, AgreesAtRest,
         [Next]_vars, ~TailLoss
  PROVE  AgreesAtRest'
<1> SUFFICES ASSUME "torn" \notin happened', NobodyAtPutMac'
             PROVE  Verifies(mac', highWater', chain')
  BY DEF AgreesAtRest, NobodyAtPutMac, Verifies, RowAt, NoMac
<1>1. /\ Len(chain) <= Len(chain')
      /\ \A n \in 1..Len(chain) : chain'[n] = chain[n]
      /\ chain \in Seq(Nat) /\ chain' \in Seq(Nat)
  BY RowsStay, TypeStays DEF TypeOK
<1>2. ASSUME "torn" \notin happened, NobodyAtPutMac, UNCHANGED <<mac, highWater>>
      PROVE  Verifies(mac', highWater', chain')
  <2>1. Verifies(mac, highWater, chain)
    BY <1>2 DEF AgreesAtRest
  <2>2. highWater' = highWater
    BY <1>2
  <2>3. highWater \in 0..Len(chain)
    BY DEF HighWaterInLog, TypeOK
  <2>4. highWater \in 0..Len(chain') /\ RowAt(chain', highWater) = RowAt(chain, highWater)
    BY <1>1, <2>3 DEF RowAt
  <2>5. QED
    BY <1>2, <2>1, <2>2, <2>4 DEF Verifies
<1>3. ASSUME NEW u \in Thread, PutMac(u) PROVE Verifies(mac', highWater', chain')
  <2>1. /\ highWater = hw[u] /\ hw[u] = read[u].seq
        /\ read[u].seq \in 1..Len(chain) /\ read[u].row = chain[read[u].seq]
    BY <1>3 DEF PutMac, SignsTheHighWater, WritesItsTail, AnchoringRow, Anchoring
  <2>2. mac' = [seq |-> hw[u], row |-> read[u].row] /\ chain' = chain /\ highWater' = highWater
    BY <1>3 DEF PutMac
  <2>3. RowAt(chain, highWater) = read[u].row /\ highWater <= Len(chain)
    BY <2>1 DEF RowAt, TypeOK
  <2>4. QED
    BY <2>1, <2>2, <2>3 DEF Verifies
<1>4. QED
  BY <1>2, <1>3, RestEffect DEF WritesItsTail

-----------------------------------------------------------------------------
LEMMA AgreementInit == Init => AgreementInv
<1> SUFFICES ASSUME Init PROVE AgreementInv
  OBVIOUS
<1>1. TypeOK /\ CompletenessInv
  BY TypeAtStart, CompletenessInit
<1>2. \A t \in Thread : pc[t] = "idle"
  BY DEF Init
<1>3. TailCoversHighWater /\ WritesItsTail /\ SignsTheHighWater
  BY <1>2 DEF TailCoversHighWater, WritesItsTail, SignsTheHighWater, Anchoring
<1>4. CASE chain = << >>
  <2>1. highWater = 0
    BY <1>4 DEF Init
  <2>2. HighWaterInLog /\ mac = NoMac
    BY <1>4, <2>1 DEF Init, HighWaterInLog, NoMac
  <2>3. QED
    BY <1>1, <1>3, <2>2 DEF AgreementInv, AgreesAtRest, Verifies
<1>5. CASE chain = <<1>>
  <2>1. highWater \in {0, 1} /\ Len(chain) = 1
    BY <1>5 DEF Init
  <2>2. HighWaterInLog
    BY <2>1 DEF HighWaterInLog
  <2>3. mac = NoMac \/ mac = [seq |-> highWater, row |-> RowAt(chain, highWater)]
    BY <1>5, <2>1 DEF Init, RowAt
  <2>4. QED
    BY <1>1, <1>3, <2>2, <2>3 DEF AgreementInv, AgreesAtRest, Verifies, HighWaterInLog
<1>6. QED
  BY <1>4, <1>5 DEF Init

LEMMA AgreementStays == AgreementInv /\ [Next]_vars => AgreementInv'
<1> SUFFICES ASSUME AgreementInv, [Next]_vars PROVE AgreementInv'
  OBVIOUS
<1>1. CompletenessInv /\ TypeOK /\ AnchoringRow
  BY DEF AgreementInv, CompletenessInv
<1>2. CompletenessInv'
  BY <1>1, CompletenessStays
<1>3. ASSUME Intact'
      PROVE  /\ HighWaterInLog' /\ TailCoversHighWater' /\ WritesItsTail'
             /\ SignsTheHighWater' /\ AgreesAtRest'
  <2>1. Intact /\ ~TailLoss
    BY <1>3, IntactIsSticky, NoLossWhileIntact
  <2>2. OneAdvance
    BY <1>1, <2>1 DEF CompletenessInv, Intact, NoOverlap
  <2>3. HighWaterInLog /\ TailCoversHighWater /\ WritesItsTail /\ SignsTheHighWater /\ AgreesAtRest
    BY <2>1 DEF AgreementInv
  <2>4. QED
    BY <1>1, <2>1, <2>2, <2>3, HighWaterInLogStays, TailCoversHighWaterStays,
       WritesItsTailStays, SignsTheHighWaterStays, AgreesAtRestStays
<1>4. QED
  BY <1>2, <1>3 DEF AgreementInv

(* The honest vault stays openable: unless advances overlapped, one was torn or rows  *)
(* were lost, what write_audit_anchor left passes verify_audit_anchor_with.           *)
THEOREM Agreement == Spec => []AnchorAgrees
<1>1. AgreementInv => AnchorAgrees
  BY DEF AgreementInv, AnchorAgrees, Intact, AgreesAtRest, NobodyAtPutMac
<1>2. QED
  BY <1>1, AgreementInit, AgreementStays, PTL DEF Spec

(***************************************************************************)
(* HonestUnlockIsAccepted needs that the three readings of an unlock lie   *)
(* between one anchor and the next: the position its MAC is for is not     *)
(* above the high-water it read later, nor that above the present one, as  *)
(* neither ever goes back while no advances overlap.                       *)
(***************************************************************************)

MacUnderHighWater == mac.seq <= highWater

ReadInOrder ==
  \A t \in Thread :
    /\ pc[t] = "getVerifiedHighWater" => read[t].seq <= highWater
    /\ pc[t] = "checkRows" => read[t].seq <= hw[t] /\ hw[t] <= highWater

ReadingInv ==
  /\ AgreementInv
  /\ Intact => MacUnderHighWater /\ ReadInOrder

(* What a step does to an unlock that is verifying. *)
LEMMA ReadingEffect ==
  ASSUME TypeOK, [Next]_vars, NEW s \in Thread, pc'[s] \in {"getVerifiedHighWater", "checkRows"}
  PROVE  \/ pc'[s] = pc[s] /\ read'[s] = read[s] /\ hw'[s] = hw[s]
         \/ pc'[s] = "getVerifiedHighWater" /\ read'[s] = mac /\ highWater' = highWater
         \/ /\ pc[s] = "getVerifiedHighWater" /\ pc'[s] = "checkRows"
            /\ read'[s] = read[s] /\ hw'[s] = highWater /\ highWater' = highWater
<1> DEFINE Goal == \/ pc'[s] = pc[s] /\ read'[s] = read[s] /\ hw'[s] = hw[s]
                   \/ pc'[s] = "getVerifiedHighWater" /\ read'[s] = mac /\ highWater' = highWater
                   \/ /\ pc[s] = "getVerifiedHighWater" /\ pc'[s] = "checkRows"
                      /\ read'[s] = read[s] /\ hw'[s] = highWater /\ highWater' = highWater
<1> SUFFICES Goal
  OBVIOUS
<1> USE DEF store, locals, Goto, TypeOK
<1>1. ASSUME NEW t \in Thread, StartOp(t) \/ StartLock(t) \/ StartUnlock(t) PROVE Goal
  BY <1>1 DEF StartOp, StartLock, StartUnlock
<1>2. ASSUME NEW t \in Thread, GetMac(t) PROVE Goal
  BY <1>2 DEF GetMac, Decide
<1>3. ASSUME NEW t \in Thread, GetVerifiedHighWater(t) PROVE Goal
  BY <1>3 DEF GetVerifiedHighWater
<1>4. ASSUME NEW t \in Thread, CheckRows(t) PROVE Goal
  BY <1>4 DEF CheckRows, Decide
<1>5. ASSUME NEW t \in Thread, Commit(t) \/ AppendAudit(t) PROVE Goal
  BY <1>5 DEF Commit, AppendAudit
<1>6. ASSUME NEW t \in Thread, Advance(t) PROVE Goal
  BY <1>6 DEF Advance, AfterAudit, Return
<1>7. ASSUME NEW t \in Thread, GetHighWater(t) PROVE Goal
  BY <1>7 DEF GetHighWater
<1>8. ASSUME NEW t \in Thread, PutHighWater(t) PROVE Goal
  BY <1>8 DEF PutHighWater, Return
<1>9. ASSUME NEW t \in Thread, PutMac(t) PROVE Goal
  BY <1>9 DEF PutMac, AfterAudit, Return
<1>10. ASSUME NEW t \in Thread, StoreError(t) \/ AppendUnacknowledged(t) PROVE Goal
  BY <1>10 DEF StoreError, AppendUnacknowledged, Verifying, Decide, Return
<1>11. CASE Crash \/ TailLoss \/ UNCHANGED vars
  BY <1>11 DEF Crash, TailLoss, vars
<1> QED
  BY <1>1, <1>2, <1>3, <1>4, <1>5, <1>6, <1>7, <1>8, <1>9, <1>10, <1>11 DEF Next, Start, Step

(* The high-water is an only-growing floor (lib.rs:1565), as long as advances take turns. *)
LEMMA HighWaterGrows ==
  ASSUME TypeOK, TailCoversHighWater, WritesItsTail, [Next]_vars
  PROVE  highWater <= highWater'
<1>1. CASE highWater' = highWater
  BY <1>1 DEF TypeOK
<1>2. ASSUME NEW u \in Thread, PutHighWater(u) PROVE highWater <= highWater'
  BY <1>2 DEF PutHighWater, TailCoversHighWater, WritesItsTail, Anchoring
<1> QED
  BY <1>1, <1>2, HighWaterEffect

LEMMA ReadingStays == ReadingInv /\ [Next]_vars => ReadingInv'
<1> SUFFICES ASSUME ReadingInv, [Next]_vars, Intact' PROVE MacUnderHighWater' /\ ReadInOrder'
  BY AgreementStays DEF ReadingInv
<1>1. Intact
  BY IntactIsSticky
<1>2. /\ TypeOK /\ TailCoversHighWater /\ WritesItsTail /\ SignsTheHighWater
      /\ MacUnderHighWater /\ ReadInOrder
  BY <1>1 DEF ReadingInv, AgreementInv, CompletenessInv
<1>3. highWater <= highWater' /\ highWater \in Nat /\ highWater' \in Nat
  BY <1>2, HighWaterGrows, TypeStays DEF TypeOK
<1>4. mac \in Anchor /\ read \in [Thread -> Anchor] /\ hw \in [Thread -> Nat]
  BY <1>2 DEF TypeOK
<1>5. MacUnderHighWater'
  <2>1. CASE mac' = mac
    BY <1>2, <1>3, <1>4, <2>1 DEF MacUnderHighWater, Anchor
  <2>2. ASSUME NEW u \in Thread, PutMac(u) PROVE MacUnderHighWater'
    <3>1. mac'.seq = hw[u] /\ highWater' = highWater
      BY <2>2 DEF PutMac
    <3>2. hw[u] = highWater
      BY <1>2, <2>2 DEF PutMac, SignsTheHighWater
    <3> QED
      BY <1>3, <3>1, <3>2 DEF MacUnderHighWater
  <2> QED
    BY <2>1, <2>2, MacEffect
<1>6. ReadInOrder'
  <2>1. SUFFICES ASSUME NEW s \in Thread, pc'[s] \in {"getVerifiedHighWater", "checkRows"}
                 PROVE  /\ pc'[s] = "getVerifiedHighWater" => read'[s].seq <= highWater'
                        /\ pc'[s] = "checkRows" => read'[s].seq <= hw'[s] /\ hw'[s] <= highWater'
    BY DEF ReadInOrder
  <2>2. CASE pc'[s] = pc[s] /\ read'[s] = read[s] /\ hw'[s] = hw[s]
    BY <1>2, <1>3, <1>4, <2>2 DEF ReadInOrder, Anchor
  <2>3. CASE pc'[s] = "getVerifiedHighWater" /\ read'[s] = mac /\ highWater' = highWater
    BY <1>2, <2>3 DEF MacUnderHighWater
  <2>4. CASE /\ pc[s] = "getVerifiedHighWater" /\ pc'[s] = "checkRows"
             /\ read'[s] = read[s] /\ hw'[s] = highWater /\ highWater' = highWater
    BY <1>2, <1>3, <2>4 DEF ReadInOrder
  <2> QED
    BY <1>2, <2>1, <2>2, <2>3, <2>4, ReadingEffect
<1> QED
  BY <1>5, <1>6

LEMMA ReadingAtStart == Init => ReadingInv
<1> SUFFICES ASSUME Init PROVE MacUnderHighWater /\ ReadInOrder
  BY AgreementInit DEF ReadingInv
<1>1. highWater \in Nat /\ (mac = NoMac \/ mac.seq = highWater)
  BY TypeAtStart DEF Init, TypeOK
<1> QED
  BY <1>1 DEF Init, MacUnderHighWater, ReadInOrder, NoMac

(* An unlock that read its MAC, its high-water and its rows one after the other does   *)
(* not find an honest log tampered with, unless an anchor was written meanwhile.       *)
THEOREM HonestUnlocks == Spec => []HonestUnlockIsAccepted
<1>1. ASSUME ReadingInv PROVE HonestUnlockIsAccepted
  <2>1. SUFFICES ASSUME NEW t \in Thread, pc[t] = "checkRows", read[t] = mac, NobodyAtPutMac,
                        Intact, "torn" \notin happened
                 PROVE  Verifies(read[t], hw[t], chain)
    BY DEF HonestUnlockIsAccepted, NobodyAtPutMac, Intact
  <2>2. Verifies(mac, highWater, chain) /\ ReadInOrder /\ TypeOK
    BY <1>1, <2>1 DEF ReadingInv, AgreementInv, CompletenessInv, AgreesAtRest
  <2>3. mac # NoMac => hw[t] = highWater
    BY <2>1, <2>2 DEF Verifies, ReadInOrder, TypeOK
  <2> QED
    BY <2>1, <2>2, <2>3 DEF Verifies
<1> QED
  BY <1>1, ReadingAtStart, ReadingStays, PTL DEF Spec

-----------------------------------------------------------------------------
(***************************************************************************)
(* TailIsBeingAnchored needs that an advance does not write a high-water   *)
(* below the one that stands (FloorInHand), as it would if two of them     *)
(* read and wrote in turns.                                                *)
(***************************************************************************)

FloorInHand == \A t \in Thread : pc[t] \in {"putHighWater", "putMac"} => highWater <= hw[t]

TailInv ==
  /\ CompletenessInv
  /\ NoOverlap => FloorInHand
  /\ TailIsBeingAnchored

LEMMA FloorInHandStays ==
  ASSUME TypeOK, OneAdvance, FloorInHand, [Next]_vars
  PROVE  FloorInHand'
<1>1. SUFFICES ASSUME NEW s \in Thread, pc'[s] \in {"putHighWater", "putMac"}
               PROVE  highWater' <= hw'[s]
  BY DEF FloorInHand
<1>2. CASE GetHighWater(s)
  BY <1>2 DEF GetHighWater, RaisedHighWater, TypeOK, Anchor, store
<1>3. CASE pc[s] \in {"putHighWater", "putMac"} /\ hw'[s] = hw[s]
  <2>1. ASSUME NEW u \in Thread, PutHighWater(u) PROVE highWater' <= hw'[s]
    <3>1. u = s
      BY <1>3, <2>1 DEF OneAdvance, Anchoring, PutHighWater
    <3> QED
      BY <1>3, <2>1, <3>1 DEF PutHighWater, TypeOK
  <2> QED
    BY <1>3, <2>1, HighWaterEffect DEF FloorInHand
<1> QED
  BY <1>1, <1>2, <1>3, WritingEffect

LEMMA TailIsBeingAnchoredStays ==
  ASSUME TypeOK, NoOverlap => FloorInHand, TailIsBeingAnchored, [Next]_vars
  PROVE  TailIsBeingAnchored'
<1> DEFINE Goal == \E t \in Thread : WillAnchor(t, Len(chain))'
<1> SUFFICES ASSUME vault' = "unlocked", highWater' < Len(chain'),
                    happened' \cap {"overlap", "error"} = {}
             PROVE  Goal
  BY DEF TailIsBeingAnchored
<1> USE DEF TypeOK, store, locals, history, Goto, WillAnchor
<1>1. ASSUME UNCHANGED <<chain, highWater, vault>>,
             happened \cap {"overlap", "error"} = {},
             NEW t \in Thread,
             \A u \in Thread \ {t} : pc'[u] = pc[u] /\ read'[u] = read[u] /\ hw'[u] = hw[u],
             pc[t] \notin {"advance", "getHighWater", "putHighWater"}
      PROVE  Goal
  <2>1. PICK w \in Thread : WillAnchor(w, Len(chain))
    BY <1>1 DEF TailIsBeingAnchored
  <2> QED
    BY <1>1, <2>1
<1>2. ASSUME NEW t \in Thread, StartOp(t) \/ StartUnlock(t) PROVE Goal
  BY <1>1, <1>2 DEF StartOp, StartUnlock
<1>3. ASSUME NEW t \in Thread, StartLock(t) PROVE Goal
  BY <1>3 DEF StartLock
<1>4. ASSUME NEW t \in Thread, GetMac(t) \/ GetVerifiedHighWater(t) \/ CheckRows(t) PROVE Goal
  BY <1>1, <1>4 DEF GetMac, GetVerifiedHighWater, CheckRows, Decide
<1>5. ASSUME NEW t \in Thread, Commit(t) \/ AppendAudit(t) PROVE Goal
  <2>1. pc'[t] = "advance"
    BY <1>5 DEF Commit, AppendAudit
  <2> QED
    BY <2>1
<1>6. ASSUME NEW t \in Thread, Advance(t) PROVE Goal
  <2>1. /\ vault = "unlocked" /\ UNCHANGED <<chain, highWater>>
        /\ happened \cap {"overlap", "error"} = {}
        /\ pc' = [pc EXCEPT ![t] = "getHighWater"] /\ hw' = hw
        /\ read' = [read EXCEPT ![t] = [seq |-> Len(chain), row |-> RowAt(chain, Len(chain))]]
    BY <1>6 DEF Advance
  <2>2. pc'[t] = "getHighWater" /\ read'[t].seq = Len(chain') /\ Len(chain') \in Nat
    BY <2>1
  <2> QED
    BY <2>2
<1>7. ASSUME NEW t \in Thread, GetHighWater(t) PROVE Goal
  <2>1. /\ UNCHANGED <<chain, highWater, vault, happened, read>> /\ pc[t] = "getHighWater"
        /\ pc' = [pc EXCEPT ![t] = "putHighWater"]
        /\ hw' = [hw EXCEPT ![t] = RaisedHighWater(highWater, read[t].seq)]
    BY <1>7 DEF GetHighWater
  <2>2. PICK w \in Thread : WillAnchor(w, Len(chain))
    BY <2>1 DEF TailIsBeingAnchored
  <2>3. CASE w = t
    <3>1. read[t].seq \in Nat /\ read[t].seq >= Len(chain) /\ Len(chain) \in Nat
      BY <2>1, <2>2, <2>3 DEF Anchor
    <3>2. RaisedHighWater(highWater, read[t].seq) >= Len(chain)
      BY <3>1 DEF RaisedHighWater
    <3> QED
      BY <2>1, <3>2
  <2> QED
    BY <2>1, <2>2, <2>3
<1>8. ASSUME NEW t \in Thread, PutHighWater(t) PROVE Goal
  <2>1. /\ UNCHANGED <<chain, vault, happened>> /\ pc[t] = "putHighWater" /\ highWater' = hw[t]
        /\ \A u \in Thread \ {t} : pc'[u] = pc[u] /\ read'[u] = read[u] /\ hw'[u] = hw[u]
    BY <1>8 DEF PutHighWater, Return
  <2>2. highWater <= hw[t] /\ hw[t] \in Nat /\ highWater \in Nat /\ Len(chain) \in Nat
    BY <2>1 DEF FloorInHand, NoOverlap
  <2>3. PICK w \in Thread : WillAnchor(w, Len(chain))
    BY <2>1, <2>2 DEF TailIsBeingAnchored
  <2>4. w # t
    BY <2>1, <2>2, <2>3
  <2> QED
    BY <2>1, <2>3, <2>4
<1>9. ASSUME NEW t \in Thread, PutMac(t) PROVE Goal
  BY <1>1, <1>9 DEF PutMac, AfterAudit, Return
<1>10. ASSUME NEW t \in Thread, StoreError(t) \/ AppendUnacknowledged(t) PROVE Goal
  BY <1>10 DEF StoreError, AppendUnacknowledged
<1>11. CASE Crash \/ TailLoss
  BY <1>11 DEF Crash, TailLoss
<1>12. CASE UNCHANGED vars
  BY <1>12 DEF vars, TailIsBeingAnchored
<1> QED
  BY <1>2, <1>3, <1>4, <1>5, <1>6, <1>7, <1>8, <1>9, <1>10, <1>11, <1>12 DEF Next, Start, Step

LEMMA TailStays == TailInv /\ [Next]_vars => TailInv'
<1> SUFFICES ASSUME TailInv, [Next]_vars PROVE TailInv'
  OBVIOUS
<1>1. CompletenessInv' /\ TypeOK
  BY CompletenessStays DEF TailInv, CompletenessInv
<1>2. ASSUME NoOverlap' PROVE FloorInHand'
  BY <1>1, <1>2, OverlapIsSticky, FloorInHandStays DEF TailInv, CompletenessInv
<1>3. TailIsBeingAnchored'
  BY <1>1, TailIsBeingAnchoredStays DEF TailInv
<1> QED
  BY <1>1, <1>2, <1>3 DEF TailInv

(* While the vault is unlocked, a row past the high-water has a thread on its way to   *)
(* anchor it (lib.rs:1530-1537): what is left to AnchorCatchesUp is that it gets there. *)
THEOREM NoRowIsForgotten == Spec => []TailIsBeingAnchored
<1>1. Init => TailInv
  BY CompletenessInit DEF Init, TailInv, FloorInHand, TailIsBeingAnchored
<1>2. TailInv => TailIsBeingAnchored
  BY DEF TailInv
<1> QED
  BY <1>1, <1>2, TailStays, PTL DEF Spec

(* The high-water is an only-growing floor (lib.rs:1565), as long as no advances        *)
(* overlapped and the store lost no rows.                                               *)
THEOREM FloorOnlyGrows == Spec => [][Intact' => highWater <= highWater']_vars
<1>1. AgreementInv /\ [Next]_vars => (Intact' => highWater <= highWater')
  BY IntactIsSticky, HighWaterGrows DEF AgreementInv, CompletenessInv
<1>2. Spec => []AgreementInv
  BY AgreementInit, AgreementStays, PTL DEF Spec
<1> QED
  BY <1>1, <1>2, PTL DEF Spec

=============================================================================
