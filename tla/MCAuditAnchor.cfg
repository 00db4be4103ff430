\* Release build, every fault: two threads, four stamps.
SPECIFICATION FairSpec
CONSTANTS
  t1 = t1
  t2 = t2
  Thread <- MCThread
  MaxStamp = 4
  DebugAssertions = FALSE
  Mishap = {"crash", "storeError", "tailLoss"}
INVARIANTS
  TypeOK
  AnchorAgrees
  AcceptedLogIsComplete
  HonestUnlockIsAccepted
  TailIsBeingAnchored
PROPERTIES
  AnchorCatchesUp
\* The bound on appended rows ends every behaviour.
CHECK_DEADLOCK FALSE
