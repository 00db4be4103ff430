------------------------------ MODULE VaultSetup ------------------------------
(***************************************************************************)
(* How a vault comes into being and is opened (secrets-engine/src/lib.rs:  *)
(* init_vault, unlock, lock).  init_vault draws a data-encryption key      *)
(* (DEK), wraps it in one keyslot per factor, and writes the slots, a MAC  *)
(* over them, the issuance floor and the DEK generation one store call at  *)
(* a time; unlock reads them back one call at a time and opens the vault   *)
(* only when they agree.  Neither holds a lock across its calls, a call    *)
(* may fail, and the process may die between any two of them.              *)
(*                                                                         *)
(* A DEK is the number of the call that drew it, a slot the DEK it wraps   *)
(* (its salt, nonce and label are drawn with the DEK, so they differ when  *)
(* the DEK does), a MAC what it was computed over.  The tail anchor is the *)
(* DEK that keys it: its position in the log, and the two writes it takes, *)
(* are in module AuditAnchor.                                              *)
(***************************************************************************)
EXTENDS Integers

CONSTANTS
  Thread,    \* threads of the blocking pool
  Clock,     \* readings of the wall clock, in milliseconds after 1970
  MaxCalls,  \* bound on the calls ever made
  Mishap     \* the faults the environment may inject

ASSUME SetupAssumption ==
  /\ Clock \subseteq Nat \ {0}
  /\ MaxCalls \in Nat
  /\ Mishap \subseteq {"crash", "storeError"}

VARIABLES
  slot,        \* store: the DEK wrapped in keyslot 1 (passphrase) and 2 (USB); 0 when absent
  mac,         \* store: vault.header_mac
  floor,       \* store: vault.issuance_floor_ms; 0 when absent
  generation,  \* store: vault.dek_generation; 0 when absent
  head,        \* store: the DEK that keys the tail anchor; 0 when there is none
  vault,       \* RAM: the resident DEK; 0 when locked
  pc,          \* where each thread is in its call
  frame,       \* local: what the call has computed or read
  calls,       \* the calls made so far
  logged,      \* history: the calls whose vault_unlocked row is in the log
  opened,      \* history: the calls that opened the vault, and with which DEK
  excuses,     \* history: what befell the inits that got past their first check
  mismatch     \* history: some unlock was refused because of the header MAC

store == <<slot, mac, floor, generation, head>>
history == <<logged, opened, excuses, mismatch>>
vars == <<store, vault, pc, frame, calls, history>>

Factor == {1, 2}      \* slot ids: Factor::Passphrase and Factor::Usb
NoSlots == [f \in Factor |-> 0]

(* wrap_dek, once per factor: the passphrase always, the USB stick when there is one. *)
EnrolledSlots(dek, usb) == [f \in Factor |-> IF f = 1 \/ usb THEN dek ELSE 0]

(* header_mac: the DEK keys it, and it covers every slot and the floor. *)
header_mac(dek, slots, now) == [dek |-> dek, slots |-> slots, floor |-> now]
NoMac == header_mac(0, NoSlots, 0)

(* The locals of call number id. *)
Frame(id, dek, slots, now) ==
  [id |-> id, dek |-> dek, slots |-> slots, floor |-> now, mac |-> NoMac]
NoFrame == Frame(0, 0, NoSlots, 0)

(* Where an init is once it found no vault, and where its writes are half done. *)
HalfDone == {"putFloor", "putGeneration"}
Initialising == HalfDone \cup {"saveSlot1", "saveSlot2", "putMac", "auditInit", "genesis"}
Unlocking == {"loadSlots", "loadMac", "loadFloor", "unwrap", "loadGeneration",
              "verifyAnchor", "auditUnlocked", "commit"}
Label == Initialising \cup Unlocking \cup {"idle", "advance"}

-----------------------------------------------------------------------------
Init ==
  /\ slot = NoSlots
  /\ mac = NoMac
  /\ floor = 0
  /\ generation = 0
  /\ head = 0
  /\ vault = 0
  /\ pc = [t \in Thread |-> "idle"]
  /\ frame = [t \in Thread |-> NoFrame]
  /\ calls = 0
  /\ logged = {}
  /\ opened = {}
  /\ excuses = {}
  /\ mismatch = FALSE

Goto(t, label) == pc' = [pc EXCEPT ![t] = label]

Return(t) ==
  /\ Goto(t, "idle")
  /\ frame' = [frame EXCEPT ![t] = NoFrame]

(* The bound on calls. *)
Begin(t) ==
  /\ pc[t] = "idle"
  /\ calls < MaxCalls
  /\ calls' = calls + 1

(* advance_audit_anchor_if_unlocked: the resident DEK re-keys the anchor. *)
AdvanceIfUnlocked == head' = IF vault = 0 THEN head ELSE vault

-----------------------------------------------------------------------------
(* Mutant: an existing vault is not noticed. *)
StartInitUnchecked(t) ==
  /\ Begin(t)
  /\ \E usb \in BOOLEAN, now \in Clock :
       frame' = [frame EXCEPT ![t] =
         Frame(calls', calls', EnrolledSlots(calls', usb), now)]
  /\ Goto(t, "saveSlot1")
  /\ excuses' = excuses \cup (IF \E u \in Thread : pc[u] \in Initialising THEN {"overlap"} ELSE {})
  /\ UNCHANGED <<store, vault, logged, opened, mismatch>>

(***************************************************************************)
(* init_vault up to its first write.  It refuses when there is a header    *)
(* MAC; sub-floor Argon2 parameters, or a keyfile without a partition      *)
(* UUID, are refused as well and change nothing.                           *)
(***************************************************************************)
StartInit(t) ==
  /\ mac = NoMac
  /\ Begin(t)
  /\ \E usb \in BOOLEAN, now \in Clock :
       frame' = [frame EXCEPT ![t] =
         Frame(calls', calls', EnrolledSlots(calls', usb), now)]
  /\ Goto(t, "saveSlot1")
  /\ excuses' = excuses \cup (IF \E u \in Thread : pc[u] \in Initialising THEN {"overlap"} ELSE {})
  /\ UNCHANGED <<store, vault, logged, opened, mismatch>>

SaveSlot1(t) ==
  /\ pc[t] = "saveSlot1"
  /\ slot' = [slot EXCEPT ![1] = frame[t].dek]
  /\ Goto(t, IF frame[t].slots[2] # 0 THEN "saveSlot2" ELSE "putMac")
  /\ UNCHANGED <<mac, floor, generation, head, vault, frame, calls, history>>

SaveSlot2(t) ==
  /\ pc[t] = "saveSlot2"
  /\ slot' = [slot EXCEPT ![2] = frame[t].dek]
  /\ Goto(t, "putMac")
  /\ UNCHANGED <<mac, floor, generation, head, vault, frame, calls, history>>

(* Mutant: the MAC covers the passphrase slot only. *)
PutMacOverFirst(t) ==
  /\ pc[t] = "putMac"
  /\ mac' = header_mac(frame[t].dek, [NoSlots EXCEPT ![1] = frame[t].dek], frame[t].floor)
  /\ excuses' = excuses \cup (IF slot[2] # 0 /\ frame[t].slots[2] = 0 THEN {"leftover"} ELSE {})
  /\ Goto(t, "putFloor")
  /\ UNCHANGED <<slot, floor, generation, head, vault, frame, calls, logged, opened, mismatch>>

(* The MAC covers the slots of this call, whatever else the store holds. *)
PutMac(t) ==
  /\ pc[t] = "putMac"
  /\ mac' = header_mac(frame[t].dek, frame[t].slots, frame[t].floor)
  /\ excuses' = excuses \cup (IF slot[2] # 0 /\ frame[t].slots[2] = 0 THEN {"leftover"} ELSE {})
  /\ Goto(t, "putFloor")
  /\ UNCHANGED <<slot, floor, generation, head, vault, frame, calls, logged, opened, mismatch>>

PutFloor(t) ==
  /\ pc[t] = "putFloor"
  /\ floor' = frame[t].floor
  /\ Goto(t, "putGeneration")
  /\ UNCHANGED <<slot, mac, generation, head, vault, frame, calls, history>>

(* Mutant: each init counts the generation up. *)
PutGenerationCounts(t) ==
  /\ pc[t] = "putGeneration"
  /\ generation' = generation + 1
  /\ Goto(t, "auditInit")
  /\ UNCHANGED <<slot, mac, floor, head, vault, frame, calls, history>>

PutGeneration(t) ==
  /\ pc[t] = "putGeneration"
  /\ generation' = 1
  /\ Goto(t, "auditInit")
  /\ UNCHANGED <<slot, mac, floor, head, vault, frame, calls, history>>

(* The vault_init row, *)
AuditInit(t) ==
  /\ pc[t] = "auditInit"
  /\ AdvanceIfUnlocked
  /\ Goto(t, "genesis")
  /\ UNCHANGED <<slot, mac, floor, generation, vault, frame, calls, history>>

(* and the first anchor, keyed by the DEK that is about to be dropped. *)
Genesis(t) ==
  /\ pc[t] = "genesis"
  /\ head' = frame[t].dek
  /\ Return(t)
  /\ UNCHANGED <<slot, mac, floor, generation, vault, calls, history>>

-----------------------------------------------------------------------------
(* unlock; on an open vault it returns at once, whatever the factor. *)
StartUnlock(t) ==
  /\ Begin(t)
  /\ vault = 0
  /\ frame' = [frame EXCEPT ![t] = Frame(calls', 0, NoSlots, 0)]
  /\ Goto(t, "loadSlots")
  /\ UNCHANGED <<store, vault, history>>

LoadSlots(t) ==
  /\ pc[t] = "loadSlots"
  /\ frame' = [frame EXCEPT ![t].slots = slot]
  /\ Goto(t, "loadMac")
  /\ UNCHANGED <<store, vault, calls, history>>

(* A missing header MAC or floor is UnlockFailed, and no row. *)
LoadMac(t) ==
  /\ pc[t] = "loadMac"
  /\ \/ mac = NoMac /\ Return(t)
     \/ /\ mac # NoMac
        /\ frame' = [frame EXCEPT ![t].mac = mac]
        /\ Goto(t, "loadFloor")
  /\ UNCHANGED <<store, vault, calls, history>>

LoadFloor(t) ==
  /\ pc[t] = "loadFloor"
  /\ \/ floor = 0 /\ Return(t)
     \/ /\ floor # 0
        /\ frame' = [frame EXCEPT ![t].floor = floor]
        /\ Goto(t, "unwrap")
  /\ UNCHANGED <<store, vault, calls, history>>

(* No slot of the factor, a wrong passphrase, no stick: vault_unlock fails. *)
UnwrapNothing(t) ==
  /\ pc[t] = "unwrap"
  /\ Goto(t, "advance")
  /\ UNCHANGED <<store, vault, frame, calls, history>>

(* The factor opens its slot; then the MAC is recomputed over all the slots read. *)
Unwrap(t) ==
  /\ pc[t] = "unwrap"
  /\ \E f \in Factor :
       LET dek == frame[t].slots[f] IN
       /\ dek # 0
       /\ frame' = [frame EXCEPT ![t].dek = dek]
       /\ IF frame[t].mac = header_mac(dek, frame[t].slots, frame[t].floor)
          THEN Goto(t, "loadGeneration") /\ UNCHANGED mismatch
          ELSE Goto(t, "advance") /\ mismatch' = TRUE
  /\ UNCHANGED <<store, vault, calls, logged, opened, excuses>>

(* Every slot carries generation 1; a missing one is an error, and no row. *)
LoadGeneration(t) ==
  /\ pc[t] = "loadGeneration"
  /\ \/ generation = 0 /\ Return(t)
     \/ /\ generation # 0
        /\ Goto(t, "verifyAnchor")
        /\ UNCHANGED frame
  /\ UNCHANGED <<store, vault, calls, history>>

(* Mutant: the vault opens and then the row is written. *)
VerifyAnchorOpens(t) ==
  /\ pc[t] = "verifyAnchor"
  /\ \/ /\ head \in {0, frame[t].dek}
        /\ vault' = frame[t].dek
        /\ opened' = opened \cup {<<frame[t].id, frame[t].dek>>}
        /\ Goto(t, "auditUnlocked")
     \/ /\ head \notin {0, frame[t].dek}
        /\ Goto(t, "advance")
        /\ UNCHANGED <<vault, opened>>
  /\ UNCHANGED <<store, frame, calls, logged, excuses, mismatch>>

(* No anchor is no objection; one that another DEK keyed is a broken chain. *)
VerifyAnchor(t) ==
  /\ pc[t] = "verifyAnchor"
  /\ Goto(t, IF head \in {0, frame[t].dek} THEN "auditUnlocked" ELSE "advance")
  /\ UNCHANGED <<store, vault, frame, calls, history>>

AuditUnlocked(t) ==
  /\ pc[t] = "auditUnlocked"
  /\ logged' = logged \cup {frame[t].id}
  /\ AdvanceIfUnlocked
  /\ Goto(t, "commit")
  /\ UNCHANGED <<slot, mac, floor, generation, vault, frame, calls, opened, excuses, mismatch>>

Commit(t) ==
  /\ pc[t] = "commit"
  /\ vault' = frame[t].dek
  /\ opened' = opened \cup {<<frame[t].id, frame[t].dek>>}
  /\ Goto(t, "advance")
  /\ UNCHANGED <<store, frame, calls, logged, excuses, mismatch>>

(* lock: the DEK is gone before the vault_locked row is written. *)
Lock(t) ==
  /\ Begin(t)
  /\ vault' = 0
  /\ Goto(t, "advance")
  /\ UNCHANGED <<store, frame, history>>

(* The last row of a call (of a refused unlock, of lock), and the anchor over it. *)
Advance(t) ==
  /\ pc[t] = "advance"
  /\ AdvanceIfUnlocked
  /\ Return(t)
  /\ UNCHANGED <<slot, mac, floor, generation, vault, calls, history>>

-----------------------------------------------------------------------------
(* What an init leaves half done when it ends now. *)
Torn(dying) ==
  excuses' = excuses \cup (IF \E t \in dying : pc[t] \in HalfDone THEN {"torn"} ELSE {})

(* A store call returns Err, whether or not it took effect, and the engine call with it; *)
(* only an unlock that verifies the anchor writes the row of a refusal before.           *)
StoreError(t) ==
  /\ "storeError" \in Mishap
  /\ \/ pc[t] = "verifyAnchor" /\ Goto(t, "advance") /\ UNCHANGED frame
     \/ pc[t] \notin {"idle", "verifyAnchor"} /\ Return(t)
  /\ Torn({t})
  /\ UNCHANGED <<store, vault, calls, logged, opened, mismatch>>

(* The process dies and another starts on the same store. *)
Crash ==
  /\ "crash" \in Mishap
  /\ \E t \in Thread : pc[t] # "idle"
  /\ Torn(Thread)
  /\ vault' = 0
  /\ pc' = [t \in Thread |-> "idle"]
  /\ frame' = [t \in Thread |-> NoFrame]
  /\ UNCHANGED <<store, calls, logged, opened, mismatch>>

Step(t) ==
  \/ SaveSlot1(t) \/ SaveSlot2(t) \/ PutMac(t) \/ PutFloor(t) \/ PutGeneration(t)
  \/ AuditInit(t) \/ Genesis(t)
  \/ LoadSlots(t) \/ LoadMac(t) \/ LoadFloor(t) \/ UnwrapNothing(t) \/ Unwrap(t)
  \/ LoadGeneration(t) \/ VerifyAnchor(t) \/ AuditUnlocked(t) \/ Commit(t) \/ Advance(t)

Next ==
  \/ \E t \in Thread : StartInit(t) \/ StartUnlock(t) \/ Lock(t) \/ Step(t) \/ StoreError(t)
  \/ Crash

Spec == Init /\ [][Next]_vars

-----------------------------------------------------------------------------
(***************************************************************************)
(* Properties.                                                             *)
(***************************************************************************)

Slots == [Factor -> Nat]
Mac == [dek : Nat, slots : Slots, floor : Nat]
Frames == [id : Nat, dek : Nat, slots : Slots, floor : Nat, mac : Mac]

(* Every variable has its type. *)
TypeOK ==
  /\ slot \in Slots
  /\ mac \in Mac
  /\ floor \in Nat
  /\ generation \in {0, 1}
  /\ head \in Nat
  /\ vault \in Nat
  /\ pc \in [Thread -> Label]
  /\ frame \in [Thread -> Frames]
  /\ calls \in 0..MaxCalls
  /\ logged \subseteq Nat
  /\ opened \subseteq Nat \X Nat
  /\ excuses \subseteq {"overlap", "leftover", "torn"}
  /\ mismatch \in BOOLEAN

(* What unlock asks of the store, with the right passphrase. *)
Opens ==
  /\ slot[1] # 0
  /\ mac = header_mac(slot[1], slot, floor)
  /\ floor # 0
  /\ generation # 0
  /\ head \in {0, slot[1]}

(* A store with a header MAC, which init_vault refuses to touch ever after            *)
(* (lib.rs:214-216), is a vault that opens, whatever inits, unlocks, failed calls and *)
(* crashes led there; except while an init is between the MAC and the generation, or  *)
(* after one ended there, or two overlapped, or one without a USB slot ran over the   *)
(* USB slot of another.                                                               *)
HeaderMacMeansOpenable ==
  mac # NoMac /\ excuses = {} /\ (\A t \in Thread : pc[t] \notin HalfDone) => Opens

(* "Refuse to clobber an existing vault" (lib.rs:213): once the vault was opened the  *)
(* passphrase slot goes on wrapping the DEK it was opened with, under which its       *)
(* secrets are sealed; unless two inits overlapped.                                   *)
OpenedVaultKeepsItsDek ==
  "overlap" \notin excuses => \A o \in opened : slot[1] = o[2]

(* HF-14 (lib.rs:449-463): no call opens the vault unless its vault_unlocked row is   *)
(* in the log, whether it went on to return Ok, returned Err from the anchor, or died.*)
EveryOpeningIsLogged ==
  \A o \in opened : o[1] \in logged

(* The comment on the header MAC (lib.rs:408-409): "A mismatch means the keyslot set  *)
(* was tampered".                                                                     *)
MismatchMeansTampering == ~mismatch
=============================================================================
