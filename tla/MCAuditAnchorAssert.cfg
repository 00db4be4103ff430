\* Two threads, no fault at all: the debug_assert.
SPECIFICATION Spec
CONSTANTS
  t1 = t1
  t2 = t2
  Thread <- MCThread
  MaxStamp = 4
  DebugAssertions = FALSE
  Mishap = {}
INVARIANT
  HighWaterIsAnchoredTail
CHECK_DEADLOCK FALSE
