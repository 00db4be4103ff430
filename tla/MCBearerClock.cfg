\* Two threads, one bearer, steps of the wall clock, restarts and reboots.
SPECIFICATION Spec
CONSTANTS
  t1 = t1
  t2 = t2
  k1 = k1
  Thread <- MCThread
  Token <- MCToken
  NoToken = NoToken
  Second = 2
  Minute = 3
  MaxBearerTtl = 2
  Asks <- MCAsks
  Rate = 2
  InitWall = 2
  Steps <- MCSteps
  MaxTime = 5
  Mishap = {"step", "reboot", "restart"}
  CallCost = 2
  MishapCost = 3
  MaxSpent = 10
SYMMETRY Symmetry
INVARIANTS
  TypeOK
  BearerDiesOnTime
  HonestClockIsServed
  RateIsBounded
\* The clocks end at their bounds.
CHECK_DEADLOCK FALSE
