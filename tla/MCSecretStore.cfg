\* Two engines with three threads, two names, three calls, and every fault.
SPECIFICATION Spec
CONSTANTS
  e1 = e1
  e2 = e2
  t1 = t1
  t2 = t2
  t3 = t3
  n1 = n1
  n2 = n2
  NoName = NoName
  Engine <- MCEngine
  Thread <- MCThread
  home <- MChome
  Name <- MCName
  MaxCalls = 3
  Mishap = {"crash", "storeError", "expiry"}
SYMMETRY Symmetries
INVARIANTS
  TypeOK
  EveryRowOpens
  OneRowPerPut
  OnlyRacesAreRejected
PROPERTY KeepsThePromise
\* The bound on calls ends every behaviour.
CHECK_DEADLOCK FALSE
