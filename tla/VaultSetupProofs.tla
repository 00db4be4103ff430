--------------------------- MODULE VaultSetupProofs ---------------------------
(***************************************************************************)
(* Theorems about VaultSetup: its types, that no opening goes unlogged,    *)
(* that a vault which was opened keeps its DEK, and that a header MAC      *)
(* means a vault that opens.  The last two rest on what an init that was   *)
(* alone knows of the store between its steps, and an unlock between its   *)
(* reads (OneDek, Whole); they need no bound and no fairness.              *)
(***************************************************************************)
EXTENDS VaultSetup, TLAPS

USE DEF Goto, Return, Begin, AdvanceIfUnlocked, store, history

(* The values that the operators of the model build. *)
LEMMA FrameTypes ==
  /\ NoSlots \in Slots
  /\ NoMac \in Mac
  /\ NoFrame \in Frames
  /\ \A d \in Nat, usb \in BOOLEAN : EnrolledSlots(d, usb) \in Slots
  /\ \A d, n \in Nat, s \in Slots : header_mac(d, s, n) \in Mac
  /\ \A i, d, n \in Nat, s \in Slots : Frame(i, d, s, n) \in Frames
<1>1. NoSlots \in Slots /\ \A d \in Nat, usb \in BOOLEAN : EnrolledSlots(d, usb) \in Slots
  BY DEF NoSlots, Slots, EnrolledSlots
<1>2. \A d, n \in Nat, s \in Slots : header_mac(d, s, n) \in Mac
  BY DEF header_mac, Mac
<1>3. NoMac \in Mac
  BY <1>1, <1>2 DEF NoMac
<1>4. \A i, d, n \in Nat, s \in Slots : Frame(i, d, s, n) \in Frames
  BY <1>3 DEF Frame, Frames
<1>5. NoFrame \in Frames
  BY <1>1, <1>4 DEF NoFrame
<1> QED
  BY <1>1, <1>2, <1>3, <1>4, <1>5

LEMMA InitTypes == Init => TypeOK
<1> SUFFICES ASSUME Init PROVE TypeOK
  OBVIOUS
<1>1. 0 \in 0..MaxCalls
  BY SetupAssumption
<1> QED
  BY <1>1, FrameTypes DEF Init, TypeOK, Label

(* A step of the specification gives every variable a value of its type. *)
LEMMA StepTypes == TypeOK /\ [Next]_vars => TypeOK'
<1> SUFFICES ASSUME TypeOK, [Next]_vars PROVE TypeOK'
  OBVIOUS
<1> USE SetupAssumption DEF TypeOK, Label, Initialising, HalfDone, Unlocking
<1>1. ASSUME NEW t \in Thread, StartInit(t) PROVE TypeOK'
  <2>1. PICK usb \in BOOLEAN, now \in Clock :
          frame' = [frame EXCEPT ![t] = Frame(calls', calls', EnrolledSlots(calls', usb), now)]
    BY <1>1 DEF StartInit
  <2>2. calls' \in 0..MaxCalls /\ now \in Nat
    BY <1>1 DEF StartInit
  <2>3. Frame(calls', calls', EnrolledSlots(calls', usb), now) \in Frames
    BY <2>2, FrameTypes
  <2>4. frame' \in [Thread -> Frames]
    BY <2>1, <2>3
  <2> QED
    BY <1>1, <2>2, <2>4 DEF StartInit
<1>2. ASSUME NEW t \in Thread, SaveSlot1(t) PROVE TypeOK'
  BY <1>2 DEF SaveSlot1, Slots, Factor, Frames
<1>3. ASSUME NEW t \in Thread, SaveSlot2(t) PROVE TypeOK'
  BY <1>3 DEF SaveSlot2, Slots, Factor, Frames
<1>4. ASSUME NEW t \in Thread, PutMac(t) PROVE TypeOK'
  BY <1>4, FrameTypes DEF PutMac, Frames
<1>5. ASSUME NEW t \in Thread, PutFloor(t) PROVE TypeOK'
  BY <1>5 DEF PutFloor, Frames
<1>6. ASSUME NEW t \in Thread, PutGeneration(t) PROVE TypeOK'
  BY <1>6 DEF PutGeneration
<1>7. ASSUME NEW t \in Thread, AuditInit(t) PROVE TypeOK'
  BY <1>7 DEF AuditInit
<1>8. ASSUME NEW t \in Thread, Genesis(t) PROVE TypeOK'
  BY <1>8, FrameTypes DEF Genesis, Frames
<1>9. ASSUME NEW t \in Thread, StartUnlock(t) PROVE TypeOK'
  <2>1. calls' \in 0..MaxCalls
    BY <1>9 DEF StartUnlock
  <2>2. Frame(calls', 0, NoSlots, 0) \in Frames
    BY <2>1, FrameTypes
  <2>3. frame' \in [Thread -> Frames]
    BY <1>9, <2>2 DEF StartUnlock
  <2> QED
    BY <1>9, <2>1, <2>3 DEF StartUnlock
<1>10. ASSUME NEW t \in Thread, LoadSlots(t) PROVE TypeOK'
  BY <1>10 DEF LoadSlots, Frames
<1>11. ASSUME NEW t \in Thread, LoadMac(t) PROVE TypeOK'
  <2>1. frame' \in [Thread -> Frames]
    <3>1. CASE frame' = [frame EXCEPT ![t] = NoFrame]
      BY <3>1, FrameTypes
    <3>2. CASE frame' = [frame EXCEPT ![t].mac = mac]
      BY <3>2 DEF Frames
    <3> QED
      BY <1>11, <3>1, <3>2 DEF LoadMac
  <2> QED
    BY <1>11, <2>1 DEF LoadMac
<1>12. ASSUME NEW t \in Thread, LoadFloor(t) PROVE TypeOK'
  <2>1. frame' \in [Thread -> Frames]
    <3>1. CASE frame' = [frame EXCEPT ![t] = NoFrame]
      BY <3>1, FrameTypes
    <3>2. CASE frame' = [frame EXCEPT ![t].floor = floor]
      BY <3>2 DEF Frames
    <3> QED
      BY <1>12, <3>1, <3>2 DEF LoadFloor
  <2> QED
    BY <1>12, <2>1 DEF LoadFloor
<1>13. ASSUME NEW t \in Thread, UnwrapNothing(t) PROVE TypeOK'
  BY <1>13 DEF UnwrapNothing
<1>14. ASSUME NEW t \in Thread, Unwrap(t) PROVE TypeOK'
  <2>1. PICK f \in Factor : frame' = [frame EXCEPT ![t].dek = frame[t].slots[f]]
    BY <1>14 DEF Unwrap
  <2>2. frame[t].slots[f] \in Nat
    BY DEF Slots, Frames
  <2>3. frame' \in [Thread -> Frames]
    BY <2>1, <2>2 DEF Frames
  <2>4. pc' \in [Thread -> Label] /\ mismatch' \in BOOLEAN
    BY <1>14 DEF Unwrap
  <2> QED
    BY <1>14, <2>3, <2>4 DEF Unwrap
<1>15. ASSUME NEW t \in Thread, LoadGeneration(t) PROVE TypeOK'
  BY <1>15, FrameTypes DEF LoadGeneration
<1>16. ASSUME NEW t \in Thread, VerifyAnchor(t) PROVE TypeOK'
  BY <1>16 DEF VerifyAnchor
<1>17. ASSUME NEW t \in Thread, AuditUnlocked(t) PROVE TypeOK'
  BY <1>17 DEF AuditUnlocked, Frames
<1>18. ASSUME NEW t \in Thread, Commit(t) PROVE TypeOK'
  BY <1>18 DEF Commit, Frames
<1>19. ASSUME NEW t \in Thread, Lock(t) PROVE TypeOK'
  BY <1>19 DEF Lock
<1>20. ASSUME NEW t \in Thread, Advance(t) PROVE TypeOK'
  BY <1>20, FrameTypes DEF Advance
<1>21. ASSUME NEW t \in Thread, StoreError(t) PROVE TypeOK'
  BY <1>21, FrameTypes DEF StoreError, Torn
<1>22. CASE Crash
  BY <1>22, FrameTypes DEF Crash, Torn
<1>23. CASE UNCHANGED vars
  BY <1>23 DEF vars
<1> QED
  BY <1>1, <1>2, <1>3, <1>4, <1>5, <1>6, <1>7, <1>8, <1>9, <1>10, <1>11, <1>12, <1>13,
     <1>14, <1>15, <1>16, <1>17, <1>18, <1>19, <1>20, <1>21, <1>22, <1>23 DEF Next, Step

(* For every number of threads and calls, both clocks and every mix of crashes and    *)
(* failing store calls, each variable keeps its type (lib.rs:203-474).                *)
THEOREM TypeCorrect == Spec => []TypeOK
  BY InitTypes, StepTypes, PTL DEF Spec

-----------------------------------------------------------------------------
(* A call that is about to open the vault has written its row, *)
RowBeforeOpening ==
  /\ \A t \in Thread : pc[t] = "commit" => frame[t].id \in logged
  /\ EveryOpeningIsLogged

(* and the log only grows. *)
LEMMA LogStep == TypeOK /\ RowBeforeOpening /\ [Next]_vars => RowBeforeOpening'
<1> SUFFICES ASSUME TypeOK, RowBeforeOpening, [Next]_vars PROVE RowBeforeOpening'
  OBVIOUS
<1> USE DEF TypeOK, RowBeforeOpening, EveryOpeningIsLogged, Frames
<1>1. ASSUME NEW t \in Thread, AuditUnlocked(t) PROVE RowBeforeOpening'
  BY <1>1 DEF AuditUnlocked
<1>2. ASSUME NEW t \in Thread, Commit(t) PROVE RowBeforeOpening'
  BY <1>2 DEF Commit
<1>3. ASSUME UNCHANGED <<logged, opened>>,
             \A u \in Thread : pc'[u] = "commit" => pc[u] = "commit" /\ frame'[u] = frame[u]
      PROVE  RowBeforeOpening'
  BY <1>3
<1>4. ASSUME NEW t \in Thread, UNCHANGED <<logged, opened>>,
             \A u \in Thread \ {t} : pc'[u] = pc[u] /\ frame'[u] = frame[u],
             pc'[t] # "commit"
      PROVE  RowBeforeOpening'
  BY <1>3, <1>4
<1>5. ASSUME NEW t \in Thread, StartInit(t) \/ SaveSlot1(t) \/ SaveSlot2(t) \/ PutMac(t)
                \/ PutFloor(t) \/ PutGeneration(t) \/ AuditInit(t) \/ Genesis(t)
      PROVE  RowBeforeOpening'
  <2>1. /\ UNCHANGED <<logged, opened>>
        /\ pc'[t] # "commit"
        /\ \A u \in Thread \ {t} : pc'[u] = pc[u] /\ frame'[u] = frame[u]
    BY <1>5 DEF StartInit, SaveSlot1, SaveSlot2, PutMac, PutFloor, PutGeneration, AuditInit,
       Genesis
  <2> QED
    BY <1>4, <2>1
<1>6. ASSUME NEW t \in Thread, StartUnlock(t) \/ LoadSlots(t) \/ LoadMac(t) \/ LoadFloor(t)
                \/ UnwrapNothing(t) \/ Unwrap(t) \/ LoadGeneration(t) \/ VerifyAnchor(t)
                \/ Lock(t) \/ Advance(t) \/ StoreError(t)
      PROVE  RowBeforeOpening'
  <2>1. /\ UNCHANGED <<logged, opened>>
        /\ pc'[t] # "commit"
        /\ \A u \in Thread \ {t} : pc'[u] = pc[u] /\ frame'[u] = frame[u]
    BY <1>6 DEF StartUnlock, LoadSlots, LoadMac, LoadFloor, UnwrapNothing, Unwrap,
       LoadGeneration, VerifyAnchor, Lock, Advance, StoreError
  <2> QED
    BY <1>4, <2>1
<1>7. CASE Crash
  BY <1>3, <1>7 DEF Crash
<1>8. CASE UNCHANGED vars
  BY <1>3, <1>8 DEF vars
<1> QED
  BY <1>1, <1>2, <1>5, <1>6, <1>7, <1>8 DEF Next, Step

(* HF-14 (lib.rs:450-459) for every number of threads and calls and every mix of      *)
(* crashes and failing store calls: whatever opened the vault is in the log.          *)
THEOREM OpeningsAreLogged == Spec => []EveryOpeningIsLogged
<1>1. Init => RowBeforeOpening
  BY DEF Init, RowBeforeOpening, EveryOpeningIsLogged
<1> QED
  BY <1>1, LogStep, TypeCorrect, PTL DEF Spec, RowBeforeOpening

-----------------------------------------------------------------------------
BeforeMac == {"saveSlot1", "saveSlot2", "putMac"}
ReadMac == {"loadFloor", "unwrap"}
Verified == {"loadGeneration", "verifyAnchor", "auditUnlocked", "commit"}

(***************************************************************************)
(* What holds while no two inits overlapped: one init at a time; until it  *)
(* writes the MAC there is none, so the vault was never open; and once     *)
(* there is one, the passphrase slot, the MAC, whatever an unlock read or  *)
(* recovered and whatever was opened name one DEK.                         *)
(***************************************************************************)
OneDek ==
  /\ \A t, u \in Thread : pc[t] \in Initialising /\ pc[u] \in Initialising => t = u
  /\ \A t \in Thread : pc[t] \in BeforeMac => mac = NoMac
  /\ \A t \in Thread : pc[t] \in {"saveSlot2", "putMac"} => slot[1] = frame[t].dek
  /\ mac # NoMac => mac.dek = slot[1] /\ mac.slots[1] = slot[1]
  /\ \A t \in Thread : pc[t] \in ReadMac \cup Verified => mac # NoMac /\ frame[t].mac = mac
  /\ \A t \in Thread : pc[t] \in Verified => frame[t].dek = mac.dek
  /\ \A o \in opened : mac # NoMac /\ o[2] = mac.dek

(* What an init enrols does not depend on other inits. *)
Enrolled ==
  \A t \in Thread : pc[t] \in Initialising => frame[t].dek # 0 /\ frame[t].slots[1] = frame[t].dek

OneDekInv == Enrolled /\ ("overlap" \notin excuses => OneDek)

LEMMA EnrolledStep == TypeOK /\ Enrolled /\ [Next]_vars => Enrolled'
<1> SUFFICES ASSUME TypeOK, Enrolled, [Next]_vars PROVE Enrolled'
  OBVIOUS
<1> USE DEF TypeOK, Enrolled, Frames, Initialising, HalfDone
<1>1. ASSUME NEW t \in Thread, StartInit(t) PROVE Enrolled'
  <2>1. PICK usb \in BOOLEAN, now \in Clock :
          frame' = [frame EXCEPT ![t] = Frame(calls', calls', EnrolledSlots(calls', usb), now)]
    BY <1>1 DEF StartInit
  <2>2. frame'[t].dek = calls' /\ frame'[t].slots[1] = calls'
    BY <2>1 DEF Frame, EnrolledSlots, Factor
  <2>3. calls' # 0
    BY <1>1 DEF StartInit
  <2> QED
    BY <1>1, <2>1, <2>2, <2>3 DEF StartInit
<1>2. ASSUME NEW t \in Thread, SaveSlot1(t) \/ SaveSlot2(t) \/ PutMac(t) \/ PutFloor(t)
                \/ PutGeneration(t) \/ AuditInit(t)
      PROVE  Enrolled'
  <2>1. UNCHANGED frame /\ pc[t] \in Initialising
    BY <1>2 DEF SaveSlot1, SaveSlot2, PutMac, PutFloor, PutGeneration, AuditInit
  <2>2. \A u \in Thread \ {t} : pc'[u] = pc[u]
    BY <1>2 DEF SaveSlot1, SaveSlot2, PutMac, PutFloor, PutGeneration, AuditInit
  <2> QED
    BY <2>1, <2>2
<1>3. ASSUME NEW t \in Thread,
             \A u \in Thread \ {t} : pc'[u] = pc[u] /\ frame'[u] = frame[u],
             pc'[t] \notin Initialising
      PROVE  Enrolled'
  BY <1>3
<1>4. ASSUME NEW t \in Thread, Genesis(t) \/ StartUnlock(t) \/ LoadSlots(t) \/ LoadMac(t)
                \/ LoadFloor(t) \/ UnwrapNothing(t) \/ Unwrap(t) \/ LoadGeneration(t)
                \/ VerifyAnchor(t) \/ AuditUnlocked(t) \/ Commit(t) \/ Lock(t) \/ Advance(t)
                \/ StoreError(t)
      PROVE  Enrolled'
  <2>1. /\ pc'[t] \notin Initialising
        /\ \A u \in Thread \ {t} : pc'[u] = pc[u] /\ frame'[u] = frame[u]
    BY <1>4 DEF Genesis, StartUnlock, LoadSlots, LoadMac, LoadFloor, UnwrapNothing, Unwrap,
       LoadGeneration, VerifyAnchor, AuditUnlocked, Commit, Lock, Advance, StoreError
  <2> QED
    BY <1>3, <2>1
<1>5. CASE Crash
  BY <1>5 DEF Crash
<1>6. CASE UNCHANGED vars
  BY <1>6 DEF vars
<1> QED
  BY <1>1, <1>2, <1>4, <1>5, <1>6 DEF Next, Step

(* With no overlap before the step there is none to excuse after it, or OneDek holds. *)
LEMMA OneDekStep == TypeOK /\ OneDekInv /\ [Next]_vars => OneDekInv'
<1> SUFFICES ASSUME TypeOK, OneDekInv, [Next]_vars, "overlap" \notin excuses' PROVE OneDek'
  BY EnrolledStep DEF OneDekInv
<1>0. "overlap" \notin excuses
  <2>1. excuses \subseteq excuses'
    BY DEF Next, Step, vars, StartInit, SaveSlot1, SaveSlot2, PutMac, PutFloor, PutGeneration,
       AuditInit, Genesis, StartUnlock, LoadSlots, LoadMac, LoadFloor, UnwrapNothing, Unwrap,
       LoadGeneration, VerifyAnchor, AuditUnlocked, Commit, Lock, Advance, StoreError, Crash, Torn
  <2> QED
    BY <2>1
<1>a. OneDek /\ Enrolled
  BY <1>0 DEF OneDekInv
<1> USE <1>a DEF TypeOK, OneDek, Frames, Initialising, HalfDone, BeforeMac, ReadMac, Verified
<1>1. ASSUME NEW t \in Thread, StartInit(t) PROVE OneDek'
  <2>1. \A u \in Thread : pc[u] \notin Initialising
    BY <1>1 DEF StartInit
  <2>2. /\ \A u \in Thread \ {t} : pc'[u] = pc[u] /\ frame'[u] = frame[u]
        /\ pc'[t] = "saveSlot1"
        /\ mac = NoMac
        /\ UNCHANGED <<slot, mac, opened>>
    BY <1>1 DEF StartInit
  <2> QED
    BY <2>1, <2>2
<1>2. ASSUME NEW t \in Thread, SaveSlot1(t) PROVE OneDek'
  BY <1>2 DEF SaveSlot1, Slots, Factor
<1>3. ASSUME NEW t \in Thread, SaveSlot2(t) PROVE OneDek'
  BY <1>3 DEF SaveSlot2, Slots, Factor
<1>4. ASSUME NEW t \in Thread, PutMac(t) PROVE OneDek'
  <2>1. /\ mac = NoMac
        /\ slot[1] = frame[t].dek
        /\ frame[t].slots[1] = frame[t].dek
        /\ frame[t].dek # 0
    BY <1>4 DEF PutMac, Enrolled
  <2>2. mac'.dek = slot[1] /\ mac'.slots[1] = slot[1]
    BY <1>4, <2>1 DEF PutMac, header_mac
  <2>3. \A u \in Thread : pc[u] \notin ReadMac \cup Verified
    BY <2>1
  <2>4. opened = {}
    BY <2>1
  <2>5. /\ \A u \in Thread \ {t} : pc'[u] = pc[u]
        /\ pc'[t] = "putFloor"
        /\ pc[t] = "putMac"
        /\ UNCHANGED <<slot, frame, opened>>
    BY <1>4 DEF PutMac
  <2> QED
    BY <2>2, <2>3, <2>4, <2>5
(* A step that leaves the store's slots and MAC, and what was opened, and takes the   *)
(* call somewhere nothing is claimed about it.                                        *)
<1>5. ASSUME NEW t \in Thread, UNCHANGED <<slot, mac, opened>>,
             \A u \in Thread \ {t} : pc'[u] = pc[u] /\ frame'[u] = frame[u],
             pc'[t] \in Initialising => pc[t] \in Initialising,
             pc'[t] \notin BeforeMac \cup ReadMac \cup Verified
      PROVE  OneDek'
  BY <1>5
<1>6. ASSUME NEW t \in Thread, PutFloor(t) \/ PutGeneration(t) \/ AuditInit(t) \/ Genesis(t)
                \/ StartUnlock(t) \/ LoadSlots(t) \/ UnwrapNothing(t) \/ Lock(t) \/ Advance(t)
                \/ StoreError(t)
      PROVE  OneDek'
  <2>1. /\ UNCHANGED <<slot, mac, opened>>
        /\ \A u \in Thread \ {t} : pc'[u] = pc[u] /\ frame'[u] = frame[u]
        /\ pc'[t] \in Initialising => pc[t] \in Initialising
        /\ pc'[t] \notin BeforeMac \cup ReadMac \cup Verified
    BY <1>6 DEF PutFloor, PutGeneration, AuditInit, Genesis, StartUnlock, LoadSlots,
       UnwrapNothing, Lock, Advance, StoreError
  <2> QED
    BY <1>5, <2>1
<1>7. ASSUME NEW t \in Thread, LoadMac(t) PROVE OneDek'
  <2>1. CASE mac = NoMac /\ Return(t)
    BY <1>5, <1>7, <2>1 DEF LoadMac
  <2>2. CASE mac # NoMac /\ frame' = [frame EXCEPT ![t].mac = mac] /\ Goto(t, "loadFloor")
    BY <1>7, <2>2 DEF LoadMac
  <2> QED
    BY <1>7, <2>1, <2>2 DEF LoadMac
<1>8. ASSUME NEW t \in Thread, LoadFloor(t) PROVE OneDek'
  <2>1. CASE floor = 0 /\ Return(t)
    BY <1>5, <1>8, <2>1 DEF LoadFloor
  <2>2. CASE floor # 0 /\ frame' = [frame EXCEPT ![t].floor = floor] /\ Goto(t, "unwrap")
    BY <1>8, <2>2 DEF LoadFloor
  <2> QED
    BY <1>8, <2>1, <2>2 DEF LoadFloor
<1>9. ASSUME NEW t \in Thread, Unwrap(t) PROVE OneDek'
  <2>1. PICK f \in Factor :
          /\ frame' = [frame EXCEPT ![t].dek = frame[t].slots[f]]
          /\ IF frame[t].mac = header_mac(frame[t].slots[f], frame[t].slots, frame[t].floor)
             THEN pc' = [pc EXCEPT ![t] = "loadGeneration"]
             ELSE pc' = [pc EXCEPT ![t] = "advance"]
    BY <1>9 DEF Unwrap
  <2>2. mac # NoMac /\ frame[t].mac = mac
    BY <1>9 DEF Unwrap
  <2>3. frame'[t].mac = mac /\ frame'[t].dek = frame[t].slots[f]
    BY <2>1, <2>2
  <2>4. UNCHANGED <<slot, mac, opened>> /\ \A u \in Thread \ {t} : frame'[u] = frame[u]
    BY <1>9, <2>1 DEF Unwrap
  <2>5. CASE pc' = [pc EXCEPT ![t] = "loadGeneration"]
    <3>1. mac.dek = frame[t].slots[f]
      BY <2>1, <2>2, <2>5 DEF header_mac
    <3> QED
      BY <2>2, <2>3, <2>4, <2>5, <3>1
  <2>6. CASE pc' = [pc EXCEPT ![t] = "advance"]
    BY <1>5, <2>4, <2>6
  <2> QED
    BY <2>1, <2>5, <2>6
<1>10. ASSUME NEW t \in Thread, LoadGeneration(t) PROVE OneDek'
  <2>1. CASE generation = 0 /\ Return(t)
    BY <1>5, <1>10, <2>1 DEF LoadGeneration
  <2>2. CASE generation # 0 /\ Goto(t, "verifyAnchor") /\ UNCHANGED frame
    BY <1>10, <2>2 DEF LoadGeneration
  <2> QED
    BY <1>10, <2>1, <2>2 DEF LoadGeneration
<1>11. ASSUME NEW t \in Thread, VerifyAnchor(t) \/ AuditUnlocked(t) PROVE OneDek'
  <2>1. /\ UNCHANGED <<slot, mac, frame, opened>>
        /\ pc[t] \in Verified
        /\ pc'[t] \in Verified \cup {"advance"}
        /\ \A u \in Thread \ {t} : pc'[u] = pc[u]
    BY <1>11 DEF VerifyAnchor, AuditUnlocked
  <2> QED
    BY <2>1
<1>12. ASSUME NEW t \in Thread, Commit(t) PROVE OneDek'
  <2>1. mac # NoMac /\ frame[t].dek = mac.dek
    BY <1>12 DEF Commit
  <2>2. \A o \in opened' : o[2] = mac.dek
    BY <1>12, <2>1 DEF Commit
  <2> QED
    BY <1>12, <2>1, <2>2 DEF Commit
<1>13. CASE Crash
  BY <1>13 DEF Crash
<1>14. CASE UNCHANGED vars
  BY <1>14 DEF vars
<1> QED
  BY <1>1, <1>2, <1>3, <1>4, <1>6, <1>7, <1>8, <1>9, <1>10, <1>11, <1>12, <1>13, <1>14
     DEF Next, Step

(* "Refuse to clobber an existing vault" (lib.rs:213) for every number of threads and *)
(* calls, whatever crashed or failed: after any opening the passphrase slot wraps the *)
(* DEK of that opening, unless two inits overlapped.                                  *)
THEOREM OpenedDekStays == Spec => []OpenedVaultKeepsItsDek
<1>1. Init => OneDekInv
  BY DEF Init, OneDekInv, OneDek, Enrolled, Initialising, HalfDone, BeforeMac, ReadMac, Verified
<1>2. OneDekInv => OpenedVaultKeepsItsDek
  BY DEF OneDekInv, OneDek, OpenedVaultKeepsItsDek
<1> QED
  BY <1>1, <1>2, OneDekStep, TypeCorrect, PTL DEF Spec

-----------------------------------------------------------------------------
(***************************************************************************)
(* What holds while nothing befell any init.  Without a header MAC there   *)
(* was neither an open vault nor an anchor.  With one, the slots of the    *)
(* store are those it covers, its DEK keys the anchor and the open vault,  *)
(* and floor and generation are there too unless an init has still to      *)
(* write them; that init has the floor the MAC was computed over.          *)
(***************************************************************************)
WholeStore ==
  /\ mac = NoMac => head = 0 /\ vault = 0
  /\ mac # NoMac =>
       /\ mac.dek # 0 /\ mac.floor # 0
       /\ slot = mac.slots
       /\ head \in {0, mac.dek} /\ vault \in {0, mac.dek}
       /\ (\A t \in Thread : pc[t] \notin HalfDone) => floor = mac.floor /\ generation # 0

WholeFrame(t) ==
  /\ pc[t] \in BeforeMac => frame[t].floor # 0 /\ frame[t].slots[2] \in {0, frame[t].dek}
  /\ pc[t] = "saveSlot2" => frame[t].slots[2] # 0
  /\ pc[t] = "putMac" => frame[t].slots[2] \in {0, slot[2]}
  /\ pc[t] \in Initialising \ BeforeMac => mac # NoMac /\ mac.dek = frame[t].dek
  /\ pc[t] = "putFloor" => mac.floor = frame[t].floor
  /\ pc[t] = "putGeneration" => floor = mac.floor

Whole == WholeStore /\ \A t \in Thread : WholeFrame(t)

WholeInv == OneDekInv /\ (excuses = {} => Whole)

LEMMA WholeStep == TypeOK /\ WholeInv /\ [Next]_vars => WholeInv'
<1> SUFFICES ASSUME TypeOK, WholeInv, [Next]_vars, excuses' = {} PROVE Whole'
  BY OneDekStep DEF WholeInv
<1>0. excuses = {}
  <2>1. excuses \subseteq excuses'
    BY DEF Next, Step, vars, StartInit, SaveSlot1, SaveSlot2, PutMac, PutFloor, PutGeneration,
       AuditInit, Genesis, StartUnlock, LoadSlots, LoadMac, LoadFloor, UnwrapNothing, Unwrap,
       LoadGeneration, VerifyAnchor, AuditUnlocked, Commit, Lock, Advance, StoreError, Crash, Torn
  <2> QED
    BY <2>1
<1>a. Whole /\ OneDek /\ Enrolled
  BY <1>0 DEF WholeInv, OneDekInv
<1>b. /\ \A t \in Thread : WholeFrame(t)
      /\ WholeStore
      /\ \A t, u \in Thread : pc[t] \in Initialising /\ pc[u] \in Initialising => t = u
      /\ \A t \in Thread : pc[t] \in Initialising => frame[t].dek # 0 /\ frame[t].slots[1] = frame[t].dek
      /\ \A t \in Thread : pc[t] \in BeforeMac => mac = NoMac
  BY <1>a DEF Whole, OneDek, Enrolled
<1>c. HalfDone \subseteq Initialising /\ BeforeMac \subseteq Initialising
  BY DEF HalfDone, Initialising, BeforeMac
<1>t. /\ pc \in [Thread -> Label] /\ frame \in [Thread -> Frames]
      /\ slot \in Slots /\ mac \in Mac
  BY DEF TypeOK
<1> USE DEF HalfDone, Initialising, BeforeMac
(* A step outside of what is half done, which leaves what init_vault wrote. *)
<1>1. ASSUME NEW t \in Thread,
             UNCHANGED <<slot, mac, floor, generation>>,
             head' \in {head, vault}, vault' \in {0, vault},
             \A u \in Thread \ {t} : pc'[u] = pc[u] /\ frame'[u] = frame[u],
             pc[t] \notin HalfDone, pc'[t] \notin Initialising
      PROVE  Whole'
  <2>1. WholeStore'
    BY <1>1, <1>b DEF WholeStore
  <2>2. ASSUME NEW u \in Thread PROVE WholeFrame(u)'
    BY <1>1, <1>b DEF WholeFrame
  <2> QED
    BY <2>1, <2>2 DEF Whole
<1>2. ASSUME NEW t \in Thread, StartInit(t) PROVE Whole'
  <2>1. PICK usb \in BOOLEAN, now \in Clock :
          frame' = [frame EXCEPT ![t] = Frame(calls', calls', EnrolledSlots(calls', usb), now)]
    BY <1>2 DEF StartInit
  <2>2. /\ frame'[t].floor # 0 /\ frame'[t].slots[2] \in {0, frame'[t].dek}
        /\ \A u \in Thread \ {t} : frame'[u] = frame[u]
    BY <1>t, <2>1, SetupAssumption DEF Frame, EnrolledSlots, Factor
  <2>3. /\ mac = NoMac /\ UNCHANGED <<slot, mac, floor, generation, head, vault>>
        /\ pc'[t] = "saveSlot1" /\ \A u \in Thread \ {t} : pc'[u] = pc[u]
    BY <1>2, <1>t DEF StartInit
  <2>4. WholeStore'
    BY <1>b, <2>3 DEF WholeStore
  <2>5. ASSUME NEW u \in Thread PROVE WholeFrame(u)'
    BY <1>b, <2>2, <2>3 DEF WholeFrame
  <2> QED
    BY <2>4, <2>5 DEF Whole
<1>3. ASSUME NEW t \in Thread, SaveSlot1(t) \/ SaveSlot2(t) PROVE Whole'
  <2>1. /\ mac = NoMac /\ UNCHANGED <<mac, floor, generation, head, vault, frame>>
        /\ pc[t] \in BeforeMac
        /\ \A u \in Thread \ {t} : pc'[u] = pc[u]
    BY <1>3, <1>b, <1>t DEF SaveSlot1, SaveSlot2
  <2>2. /\ pc'[t] \in {"saveSlot2", "putMac"}
        /\ pc'[t] = "saveSlot2" => frame[t].slots[2] # 0
        /\ pc'[t] = "putMac" => frame[t].slots[2] \in {0, slot'[2]}
    <3>1. CASE SaveSlot1(t)
      BY <3>1, <1>t DEF SaveSlot1
    <3>2. CASE SaveSlot2(t)
      <4>1. slot'[2] = frame[t].dek /\ pc'[t] = "putMac" /\ pc[t] = "saveSlot2"
        BY <3>2, <1>t DEF SaveSlot2, Slots, Factor
      <4> QED
        BY <4>1, <1>b DEF WholeFrame
    <3> QED
      BY <1>3, <3>1, <3>2
  <2>3. WholeStore'
    BY <1>b, <2>1 DEF WholeStore
  <2>4. ASSUME NEW u \in Thread, u # t PROVE WholeFrame(u)'
    <3>1. pc[u] \notin Initialising
      BY <1>b, <2>1, <2>4
    <3> QED
      BY <2>1, <2>4, <3>1 DEF WholeFrame
  <2>5. WholeFrame(t)'
    BY <1>b, <2>1, <2>2 DEF WholeFrame
  <2> QED
    BY <2>3, <2>4, <2>5 DEF Whole
<1>4. ASSUME NEW t \in Thread, PutMac(t) PROVE Whole'
  <2>1. /\ pc[t] = "putMac" /\ pc'[t] = "putFloor" /\ \A u \in Thread \ {t} : pc'[u] = pc[u]
        /\ mac' = header_mac(frame[t].dek, frame[t].slots, frame[t].floor)
        /\ UNCHANGED <<slot, floor, generation, head, vault, frame>>
        /\ ~ (slot[2] # 0 /\ frame[t].slots[2] = 0)
    BY <1>4, <1>t DEF PutMac
  <2>2. /\ frame[t].dek # 0 /\ frame[t].slots[1] = frame[t].dek /\ frame[t].floor # 0
        /\ frame[t].slots[2] \in {0, slot[2]}
        /\ mac = NoMac /\ head = 0 /\ vault = 0
        /\ slot[1] = frame[t].dek
    BY <1>a, <1>b, <2>1 DEF WholeFrame, WholeStore, OneDek
  <2>3. slot = frame[t].slots
    <3>1. slot[1] = frame[t].slots[1] /\ slot[2] = frame[t].slots[2]
      BY <2>1, <2>2
    <3> QED
      BY <3>1, <1>t DEF Frames, Slots, Factor
  <2>4. /\ mac'.dek = frame[t].dek /\ mac'.slots = slot /\ mac'.floor = frame[t].floor
        /\ mac' # NoMac
    BY <2>1, <2>2, <2>3 DEF header_mac, NoMac
  <2>5. WholeStore'
    BY <2>1, <2>2, <2>4 DEF WholeStore
  <2>6. ASSUME NEW u \in Thread PROVE WholeFrame(u)'
    <3>1. u = t \/ pc[u] \notin Initialising
      BY <1>b, <2>1
    <3> QED
      BY <2>1, <2>4, <3>1 DEF WholeFrame
  <2> QED
    BY <2>5, <2>6 DEF Whole
<1>5. ASSUME NEW t \in Thread, PutFloor(t) \/ PutGeneration(t) PROVE Whole'
  <2>1. /\ UNCHANGED <<slot, mac, head, vault, frame>>
        /\ \A u \in Thread \ {t} : pc'[u] = pc[u]
    BY <1>5, <1>t DEF PutFloor, PutGeneration
  <2>2. \/ pc[t] = "putFloor" /\ pc'[t] = "putGeneration" /\ floor' = frame[t].floor
        \/ /\ pc[t] = "putGeneration" /\ pc'[t] = "auditInit"
           /\ UNCHANGED floor /\ generation' = 1
    BY <1>5, <1>t DEF PutFloor, PutGeneration
  <2>3. mac # NoMac /\ mac.dek = frame[t].dek /\ floor' = mac.floor
    BY <1>b, <2>2 DEF WholeFrame
  <2>4. WholeStore'
    BY <1>b, <2>1, <2>2, <2>3 DEF WholeStore
  <2>5. ASSUME NEW u \in Thread PROVE WholeFrame(u)'
    <3>1. u = t \/ pc[u] \notin Initialising
      BY <1>b, <2>2
    <3> QED
      BY <2>1, <2>2, <2>3, <3>1 DEF WholeFrame
  <2> QED
    BY <2>4, <2>5 DEF Whole
<1>6. ASSUME NEW t \in Thread, AuditInit(t) \/ Genesis(t) PROVE Whole'
  <2>1. /\ UNCHANGED <<slot, mac, floor, generation, vault>>
        /\ pc[t] \in Initialising \ (BeforeMac \cup HalfDone)
        /\ pc'[t] \in {"genesis", "idle"}
        /\ pc'[t] = "genesis" => frame' = frame
        /\ \A u \in Thread \ {t} : pc'[u] = pc[u] /\ frame'[u] = frame[u]
        /\ head' \in {head, vault, frame[t].dek}
    BY <1>6, <1>t DEF AuditInit, Genesis
  <2>2. mac # NoMac /\ mac.dek = frame[t].dek
    BY <1>b, <2>1 DEF WholeFrame
  <2>3. WholeStore'
    BY <1>b, <2>1, <2>2 DEF WholeStore
  <2>4. ASSUME NEW u \in Thread PROVE WholeFrame(u)'
    BY <1>b, <2>1, <2>2 DEF WholeFrame
  <2> QED
    BY <2>3, <2>4 DEF Whole
<1>7. ASSUME NEW t \in Thread, Commit(t) PROVE Whole'
  <2>1. mac # NoMac /\ frame[t].dek = mac.dek
    BY <1>7, <1>a DEF Commit, OneDek, Verified
  <2>2. /\ UNCHANGED <<slot, mac, floor, generation, head, frame>>
        /\ vault' = mac.dek
        /\ pc[t] = "commit" /\ pc'[t] = "advance"
        /\ \A u \in Thread \ {t} : pc'[u] = pc[u]
    BY <1>7, <1>t, <2>1 DEF Commit
  <2>3. WholeStore'
    BY <1>b, <2>1, <2>2 DEF WholeStore
  <2>4. ASSUME NEW u \in Thread PROVE WholeFrame(u)'
    BY <1>b, <2>2 DEF WholeFrame
  <2> QED
    BY <2>3, <2>4 DEF Whole
<1>8. ASSUME NEW t \in Thread, StartUnlock(t) \/ LoadSlots(t) \/ LoadMac(t) \/ LoadFloor(t)
                \/ UnwrapNothing(t) \/ Unwrap(t) \/ LoadGeneration(t) \/ VerifyAnchor(t)
                \/ AuditUnlocked(t) \/ Lock(t) \/ Advance(t)
      PROVE  Whole'
  <2>1. /\ UNCHANGED <<slot, mac, floor, generation>>
        /\ head' \in {head, vault} /\ vault' \in {0, vault}
    BY <1>8 DEF StartUnlock, LoadSlots, LoadMac, LoadFloor, UnwrapNothing, Unwrap, LoadGeneration,
       VerifyAnchor, AuditUnlocked, Lock, Advance
  <2>2. /\ pc[t] \notin HalfDone /\ pc'[t] \notin Initialising
        /\ \A u \in Thread \ {t} : pc'[u] = pc[u] /\ frame'[u] = frame[u]
    BY <1>8, <1>t DEF StartUnlock, LoadSlots, LoadMac, LoadFloor, UnwrapNothing, Unwrap,
       LoadGeneration, VerifyAnchor, AuditUnlocked, Lock, Advance
  <2> QED
    BY <1>1, <2>1, <2>2
<1>9. ASSUME NEW t \in Thread, StoreError(t) PROVE Whole'
  <2>1. /\ UNCHANGED <<slot, mac, floor, generation, head, vault>>
        /\ pc[t] \notin HalfDone
        /\ pc'[t] \in {"idle", "advance"}
        /\ \A u \in Thread \ {t} : pc'[u] = pc[u] /\ frame'[u] = frame[u]
    BY <1>9, <1>t DEF StoreError, Torn
  <2> QED
    BY <1>1, <2>1
<1>10. CASE Crash
  <2>1. /\ UNCHANGED <<slot, mac, floor, generation, head>> /\ vault' = 0
        /\ \A u \in Thread : pc[u] \notin HalfDone /\ pc'[u] = "idle"
    BY <1>10 DEF Crash, Torn
  <2> QED
    BY <1>b, <2>1 DEF Whole, WholeStore, WholeFrame
<1>11. CASE UNCHANGED vars
  BY <1>a, <1>11 DEF vars, Whole, WholeStore, WholeFrame
<1> QED
  BY <1>2, <1>3, <1>4, <1>5, <1>6, <1>7, <1>8, <1>9, <1>10, <1>11 DEF Next, Step

(* A header MAC, after which init_vault refuses (lib.rs:214-216), means a vault that   *)
(* opens, for every number of threads and calls and any mix of crashes and failing     *)
(* store calls that befell no init between the MAC and the generation, while no two    *)
(* inits overlapped and none ran over another's USB slot.                              *)
THEOREM HeaderMacOpens == Spec => []HeaderMacMeansOpenable
<1>1. Init => WholeInv
  BY DEF Init, WholeInv, OneDekInv, OneDek, Enrolled, Whole, WholeStore, WholeFrame, Initialising,
     HalfDone, BeforeMac, ReadMac, Verified
<1>2. TypeOK /\ WholeInv => HeaderMacMeansOpenable
  <2>1. SUFFICES ASSUME TypeOK, WholeInv, mac # NoMac, excuses = {},
                        \A t \in Thread : pc[t] \notin HalfDone
                 PROVE  Opens
    BY DEF HeaderMacMeansOpenable
  <2>2. /\ mac.dek # 0 /\ mac.floor # 0 /\ slot = mac.slots /\ head \in {0, mac.dek}
        /\ floor = mac.floor /\ generation # 0
        /\ mac.dek = slot[1]
    BY <2>1 DEF WholeInv, OneDekInv, OneDek, Whole, WholeStore
  <2>3. mac = header_mac(mac.dek, mac.slots, mac.floor)
    BY <2>1 DEF TypeOK, Mac, header_mac
  <2> QED
    BY <2>2, <2>3 DEF Opens
<1> QED
  BY <1>1, <1>2, WholeStep, TypeCorrect, PTL DEF Spec
=============================================================================
