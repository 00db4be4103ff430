\* Four RPCs of any kind, two at a time, with failures and panics.
SPECIFICATION Spec
CONSTANTS
  c1 = c1
  c2 = c2
  Call <- MCCall
  Patient <- MCPatient
  MaxCalls = 4
  Mishap = {"storeError", "panic"}
INVARIANTS
  TypeOK
  CleanEndMeansDone
  FlagFollowsVault
PROPERTIES
  CallsFinish
  StreamsEnd
\* The bound on RPCs ends every behaviour.
CHECK_DEADLOCK FALSE
