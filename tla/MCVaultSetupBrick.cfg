\* One thread, four calls, crashes only: no two calls overlap and no store call fails.
SPECIFICATION Spec
CONSTANTS
  t1 = t1
  t2 = t2
  Thread <- MCOneThread
  Clock = {1, 2}
  MaxCalls = 4
  Mishap = {"crash"}
INVARIANT MismatchMeansTampering
\* The bound on calls ends every behaviour.
CHECK_DEADLOCK FALSE
