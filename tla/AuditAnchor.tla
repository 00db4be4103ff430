----------------------------- MODULE AuditAnchor -----------------------------
(***************************************************************************)
(* The audit log of the secrets engine and the anchor that protects its    *)
(* tail (secrets-engine/src/lib.rs, `audit`, `write_audit_anchor`,         *)
(* `verify_audit_anchor_with`, `unlock`, `lock`).                          *)
(*                                                                         *)
(* Engine calls run on a pool of blocking threads.  Each appends one row   *)
(* to the hash-chained log and, while the vault is unlocked, re-anchors    *)
(* the log: it reads the tail, raises the persisted high-water, and writes *)
(* a MAC over (high-water, row at the tail).  The store makes each single  *)
(* call atomic and durable and nothing more, so every call is a step here. *)
(* The vault's RwLock is held shared across the whole advance: advances of *)
(* different threads interleave, while `lock` and the commit of `unlock`   *)
(* wait for all of them.                                                   *)
(*                                                                         *)
(* A row is represented by a stamp that is never used twice.  Its row_hash *)
(* commits to the row and everything before it, and rows only ever go away *)
(* from the end, so equal stamps are equal hashes.                         *)
(***************************************************************************)
EXTENDS Integers, Sequences

CONSTANTS
  Thread,           \* threads of the blocking pool
  MaxStamp,         \* bound on the rows ever appended
  DebugAssertions,  \* TRUE for a build with debug_assert! compiled in
  Mishap            \* the faults the environment may inject

Mishaps == {"crash", "storeError", "tailLoss"}

ASSUME AnchorAssumption ==
  /\ MaxStamp \in Nat
  /\ DebugAssertions \in BOOLEAN
  /\ Mishap \subseteq Mishaps

VARIABLES
  chain,      \* the log: chain[n] is the stamp of the row with seq n
  nextStamp,  \* the next unused stamp
  highWater,  \* meta "vault.audit_high_water"; 0 when absent
  mac,        \* meta "vault.audit_head": what the stored MAC was computed over
  vault,      \* "locked" or "unlocked" (the DEK is resident)
  pc,         \* where each thread is in its engine call
  committing, \* the unlocks that were verified, and commit after their audit row
  read,       \* local: the MAC an unlock read, or the tail an advance read
  hw,         \* local: the high-water the call read or is about to write
  covered,    \* history: rows whose anchor was written by a call that got there
  happened    \* history: what went wrong so far, see below

store == <<chain, nextStamp, highWater, mac>>
locals == <<committing, read, hw>>
history == <<covered, happened>>
vars == <<store, vault, pc, locals, history>>

(***************************************************************************)
(* `happened` records the circumstances the properties depend on:          *)
(*   "overlap"  an advance began while another thread was in the middle of *)
(*              one (never forgotten);                                     *)
(*   "torn"     the last advance stopped between its two writes, the M-2   *)
(*              window (healed by the next complete one);                  *)
(*   "lost"     the store lost rows from the end of the log;               *)
(*   "error"    a store call returned an error.                            *)
(***************************************************************************)
Anchor == [seq : Nat, row : Nat]
NoMac == [seq |-> 0, row |-> 0]

Anchoring == {"getHighWater", "putHighWater", "putMac"}
Verifying == {"getMac", "getVerifiedHighWater", "checkRows"}
InStore == Verifying \cup {"append", "advance"} \cup Anchoring
Labels == {"idle", "commit"} \cup InStore

RowsOf(c) == {c[n] : n \in 1..Len(c)}

-----------------------------------------------------------------------------
(***************************************************************************)
(* init_vault ends with the vault locked.  It may have been cut short      *)
(* after the keyslots and the header: before its audit row, before the     *)
(* genesis high-water, or before the genesis MAC.                          *)
(***************************************************************************)
Init ==
  /\ chain \in {<< >>, <<1>>}
  /\ nextStamp = 2
  /\ highWater \in 0..Len(chain)
  /\ mac \in {NoMac, [seq |-> highWater, row |-> highWater]}
  /\ vault = "locked"
  /\ pc = [t \in Thread |-> "idle"]
  /\ committing = {}
  /\ read = [t \in Thread |-> NoMac]
  /\ hw = [t \in Thread |-> 0]
  /\ covered = {mac.row} \ {0}
  /\ happened = {}

Goto(t, label) == pc' = [pc EXCEPT ![t] = label]

(* The end of a call: its stack frame is gone. *)
Return(t) ==
  /\ Goto(t, "idle")
  /\ committing' = committing \ {t}
  /\ read' = [read EXCEPT ![t] = NoMac]
  /\ hw' = [hw EXCEPT ![t] = 0]

(* RwLock::write: nobody holds the vault lock shared. *)
NoReader == \A t \in Thread : pc[t] \notin Anchoring

(* The bound: no new call once MaxStamp rows have been appended. *)
Room == nextStamp <= MaxStamp

-----------------------------------------------------------------------------
(* Any other audited call (mint, swap, revoke, get, a refusal...). *)
StartOp(t) ==
  /\ pc[t] = "idle"
  /\ Room
  /\ Goto(t, "append")
  /\ UNCHANGED <<store, vault, locals, history>>

(* lock: zeroize the DEK first, audit `vault_locked` afterwards. *)
StartLock(t) ==
  /\ pc[t] = "idle"
  /\ Room
  /\ NoReader
  /\ vault' = "locked"
  /\ Goto(t, "append")
  /\ UNCHANGED <<store, locals, history>>

(***************************************************************************)
(* unlock of a locked vault (of an unlocked one it returns at once).  A    *)
(* wrong factor is audited as a failure and ends there; the right one goes *)
(* on to verify the anchor.                                                *)
(***************************************************************************)
StartUnlock(t) ==
  /\ pc[t] = "idle"
  /\ Room
  /\ vault = "locked"
  /\ \E label \in {"append", "getMac"} : Goto(t, label)
  /\ UNCHANGED <<store, vault, locals, history>>

(***************************************************************************)
(* verify_audit_anchor_with reads the MAC, then the high-water, then the   *)
(* rows.  Without a MAC there is nothing to check.  Its two rules: the log *)
(* is no shorter than the high-water, and the MAC is over the row there.   *)
(***************************************************************************)
RowAt(rows, seq) == IF seq = 0 THEN 0 ELSE rows[seq]

(* Mutant: the high-water floor alone, without the match of the anchored row. *)
VerifiesFloorOnly(storedMac, storedHw, rows) ==
  storedMac = NoMac \/ storedHw <= Len(rows)

Verifies(storedMac, storedHw, rows) ==
  \/ storedMac = NoMac
  \/ /\ storedHw <= Len(rows)
     /\ storedMac = [seq |-> storedHw, row |-> RowAt(rows, storedHw)]

(* The verified unlock goes on to its success row, the refused one audits a failure. *)
Decide(t, ok) ==
  /\ Goto(t, "append")
  /\ committing' = IF ok THEN committing \cup {t} ELSE committing
  /\ read' = [read EXCEPT ![t] = NoMac]
  /\ hw' = [hw EXCEPT ![t] = 0]

GetMac(t) ==
  /\ pc[t] = "getMac"
  /\ \/ /\ mac = NoMac
        /\ Decide(t, TRUE)
     \/ /\ mac # NoMac
        /\ read' = [read EXCEPT ![t] = mac]
        /\ Goto(t, "getVerifiedHighWater")
        /\ UNCHANGED <<committing, hw>>
  /\ UNCHANGED <<store, vault, history>>

(* Mutant: the position of the live tail is taken for the high-water. *)
GetLiveTail(t) ==
  /\ pc[t] = "getVerifiedHighWater"
  /\ hw' = [hw EXCEPT ![t] = Len(chain)]
  /\ Goto(t, "checkRows")
  /\ UNCHANGED <<store, vault, committing, read, history>>

GetVerifiedHighWater(t) ==
  /\ pc[t] = "getVerifiedHighWater"
  /\ hw' = [hw EXCEPT ![t] = highWater]
  /\ Goto(t, "checkRows")
  /\ UNCHANGED <<store, vault, committing, read, history>>

CheckRows(t) ==
  /\ pc[t] = "checkRows"
  /\ Decide(t, Verifies(read[t], hw[t], chain))
  /\ UNCHANGED <<store, vault, history>>

(* Mutant: unlock returns right after the DEK became resident. *)
CommitWithoutAdvance(t) ==
  /\ pc[t] = "commit"
  /\ NoReader
  /\ vault' = "unlocked"
  /\ Return(t)
  /\ UNCHANGED <<store, history>>

(* unlock, after its `vault_unlocked` row is durable: the DEK becomes resident. *)
Commit(t) ==
  /\ pc[t] = "commit"
  /\ NoReader
  /\ vault' = "unlocked"
  /\ Goto(t, "advance")
  /\ committing' = committing \ {t}
  /\ UNCHANGED <<store, read, hw, history>>

-----------------------------------------------------------------------------
(* append_audit links the row to the tail and stores it, under the store's mutex. *)
AppendAudit(t) ==
  /\ pc[t] = "append"
  /\ chain' = Append(chain, nextStamp)
  /\ nextStamp' = nextStamp + 1
  /\ Goto(t, "advance")
  /\ UNCHANGED <<highWater, mac, vault, locals, history>>

(* What follows the audit call: unlock still has to commit, the others return. *)
AfterAudit(t) ==
  \/ t \in committing /\ Goto(t, "commit") /\ UNCHANGED locals
  \/ t \notin committing /\ Return(t)

(***************************************************************************)
(* advance_audit_anchor_if_unlocked: take the vault lock shared; nothing   *)
(* to do when locked; otherwise read the tail.                             *)
(***************************************************************************)
Advance(t) ==
  /\ pc[t] = "advance"
  /\ \/ /\ vault = "locked"
        /\ AfterAudit(t)
        /\ UNCHANGED happened
     \/ /\ vault = "unlocked"
        /\ read' = [read EXCEPT ![t] = [seq |-> Len(chain), row |-> RowAt(chain, Len(chain))]]
        /\ Goto(t, "getHighWater")
        /\ UNCHANGED <<committing, hw>>
        /\ happened' = happened \cup (IF NoReader THEN {} ELSE {"overlap"})
  /\ UNCHANGED <<store, vault, covered>>

(* Mutants: one row counted per advance; the two positions added up. *)
RaisedHighWaterByOne(prev, seq) == IF prev >= seq THEN prev ELSE prev + 1
RaisedHighWaterSum(prev, seq) == prev + seq

RaisedHighWater(prev, seq) == IF prev > seq THEN prev ELSE seq

GetHighWater(t) ==
  /\ pc[t] = "getHighWater"
  /\ hw' = [hw EXCEPT ![t] = RaisedHighWater(highWater, read[t].seq)]
  /\ Goto(t, "putHighWater")
  /\ UNCHANGED <<store, vault, committing, read, history>>

(* The write, then the debug_assert!: a build that has it panics, and the call dies. *)
PutHighWater(t) ==
  /\ pc[t] = "putHighWater"
  /\ highWater' = hw[t]
  /\ \/ hw[t] # read[t].seq /\ DebugAssertions /\ Return(t)
     \/ /\ hw[t] = read[t].seq \/ ~DebugAssertions
        /\ Goto(t, "putMac")
        /\ UNCHANGED locals
  /\ UNCHANGED <<chain, nextStamp, mac, vault, history>>

PutMac(t) ==
  /\ pc[t] = "putMac"
  /\ mac' = [seq |-> hw[t], row |-> read[t].row]
  /\ AfterAudit(t)
  /\ covered' = covered \cup {read[t].row}
  /\ happened' = happened \ {"torn"}
  /\ UNCHANGED <<chain, nextStamp, highWater, vault>>

-----------------------------------------------------------------------------
(***************************************************************************)
(* A store call returns Err.  To an unlock that verifies the anchor that   *)
(* is a refusal, which it audits first; everywhere else `?` ends the       *)
(* engine call and drops its guards.                                       *)
(***************************************************************************)
StoreError(t) ==
  /\ "storeError" \in Mishap
  /\ \/ pc[t] \in Verifying /\ Decide(t, FALSE)
     \/ pc[t] \in InStore \ Verifying /\ Return(t)
  /\ happened' = happened \cup {"error"} \cup (IF pc[t] = "putMac" THEN {"torn"} ELSE {})
  /\ UNCHANGED <<store, vault, covered>>

(* libSQL: the row was inserted, the fsync_barrier after it failed. *)
AppendUnacknowledged(t) ==
  /\ "storeError" \in Mishap
  /\ pc[t] = "append"
  /\ chain' = Append(chain, nextStamp)
  /\ nextStamp' = nextStamp + 1
  /\ Return(t)
  /\ happened' = happened \cup {"error"}
  /\ UNCHANGED <<highWater, mac, vault, covered>>

(* The process dies and is started again: the vault is locked. *)
Crash ==
  /\ "crash" \in Mishap
  /\ vault = "unlocked" \/ \E t \in Thread : pc[t] # "idle"
  /\ pc' = [t \in Thread |-> "idle"]
  /\ committing' = {}
  /\ read' = [t \in Thread |-> NoMac]
  /\ hw' = [t \in Thread |-> 0]
  /\ vault' = "locked"
  /\ happened' = happened \cup (IF \E t \in Thread : pc[t] = "putMac" THEN {"torn"} ELSE {})
  /\ UNCHANGED <<store, covered>>

(* While no call runs, the store loses the last rows of the log; the meta survives. *)
TailLoss ==
  /\ "tailLoss" \in Mishap
  /\ vault = "locked"
  /\ \A t \in Thread : pc[t] = "idle"
  /\ \E n \in 0..(Len(chain) - 1) : chain' = SubSeq(chain, 1, n)
  /\ happened' = happened \cup {"lost"}
  /\ UNCHANGED <<nextStamp, highWater, mac, vault, pc, locals, covered>>

-----------------------------------------------------------------------------
Start(t) == StartOp(t) \/ StartLock(t) \/ StartUnlock(t)

Step(t) ==
  \/ GetMac(t) \/ GetVerifiedHighWater(t) \/ CheckRows(t) \/ Commit(t)
  \/ AppendAudit(t) \/ Advance(t) \/ GetHighWater(t) \/ PutHighWater(t) \/ PutMac(t)

Next ==
  \/ \E t \in Thread : Start(t) \/ Step(t) \/ StoreError(t) \/ AppendUnacknowledged(t)
  \/ Crash
  \/ TailLoss

Spec == Init /\ [][Next]_vars

(* A call that was started keeps running; nobody has to make a new one. *)
FairSpec == Spec /\ \A t \in Thread : WF_vars(Step(t))

-----------------------------------------------------------------------------
(***************************************************************************)
(* Properties.                                                             *)
(***************************************************************************)

(* Every variable has its type, no position in the log is out of proportion to *)
(* the rows ever appended, and an idle thread has no frame (lib.rs `audit`).    *)
TypeOK ==
  /\ nextStamp \in Nat
  /\ chain \in Seq(Nat)
  /\ \A n \in 1..Len(chain) : chain[n] \in 1..(nextStamp - 1)
  /\ Len(chain) < nextStamp
  /\ highWater \in 0..(nextStamp - 1)
  /\ mac \in Anchor
  /\ mac.seq < nextStamp
  /\ vault \in {"locked", "unlocked"}
  /\ pc \in [Thread -> Labels]
  /\ committing \subseteq Thread
  /\ read \in [Thread -> Anchor]
  /\ \A t \in Thread : read[t].seq < nextStamp
  /\ hw \in [Thread -> 0..(nextStamp - 1)]
  /\ covered \subseteq Nat
  /\ happened \subseteq {"overlap", "torn", "lost", "error"}

(* The honest vault stays openable (lib.rs:1597-1607, signer/verifier agreement):   *)
(* unless advances overlapped, one was torn, or the store lost rows, what is stored *)
(* passes the verification of the next unlock at every moment outside the two-write *)
(* window, however calls, failed unlocks, locks, restarts and store errors mix.     *)
AnchorAgrees ==
  /\ happened \cap {"overlap", "torn", "lost"} = {}
  /\ \A t \in Thread : pc[t] # "putMac"
  => Verifies(mac, highWater, chain)

(* Truncation is always detected (lib.rs:1636-1666, the H-1 fix): while advances     *)
(* never overlapped, no vault is unlocked, or about to be, over a log that lost a    *)
(* row some call had anchored, even after failed unlocks refilled the log with new   *)
(* rows up to and past the high-water.                                               *)
AcceptedLogIsComplete ==
  /\ "overlap" \notin happened
  /\ vault = "unlocked" \/ committing # {}
  => covered \subseteq RowsOf(chain)

(* An honest unlock is not refused as tampered with (lib.rs:1668-1713): it reads the MAC, *)
(* the high-water and the rows one after the other and without a lock, and still finds    *)
(* that they agree, unless another call wrote an anchor meanwhile, or is about to.        *)
HonestUnlockIsAccepted ==
  \A t \in Thread :
    /\ pc[t] = "checkRows" /\ read[t] = mac
    /\ happened \cap {"overlap", "torn", "lost"} = {}
    /\ \A u \in Thread : pc[u] # "putMac"
    => Verifies(read[t], hw[t], chain)

(* No row is left behind (lib.rs:1530-1537, 459-469): while the vault is unlocked, every *)
(* row past the high-water, those appended while it was locked among them, has a thread  *)
(* on its way to anchor it, unless a store call failed or advances overlapped.           *)
WillAnchor(t, n) ==
  \/ pc[t] = "advance"
  \/ pc[t] = "getHighWater" /\ read[t].seq >= n
  \/ pc[t] = "putHighWater" /\ hw[t] >= n

TailIsBeingAnchored ==
  /\ vault = "unlocked"
  /\ highWater < Len(chain)
  /\ happened \cap {"overlap", "error"} = {}
  => \E t \in Thread : WillAnchor(t, Len(chain))

(* Every row appended to an unlocked vault is eventually under the anchor          *)
(* (lib.rs:1530-1537), whichever thread gets there, unless the vault is locked,    *)
(* a store call failed, or advances overlapped.                                    *)
AnchorCatchesUp ==
  \A n \in 1..MaxStamp :
    (vault = "unlocked" /\ Len(chain) >= n)
      ~> (highWater >= n \/ vault = "locked" \/ happened \cap {"overlap", "error"} # {})

(* What the code says without such conditions, and two threads refute: the         *)
(* debug_assert! at lib.rs:1608, the anchored position is the high-water.          *)
HighWaterIsAnchoredTail ==
  \A t \in Thread : pc[t] = "putMac" => hw[t] = read[t].seq
=============================================================================
