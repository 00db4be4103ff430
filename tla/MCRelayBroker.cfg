\* A bearer minted before, two threads, three calls, crashes and store errors.
SPECIFICATION FairSpec
CONSTANTS
  t1 = t1
  t2 = t2
  r1 = r1
  k1 = k1
  k2 = k2
  Thread <- MCThread
  Relay <- MCRelay
  NoRelay = NoRelay
  Token <- MCToken
  NoToken = NoToken
  Given <- MCGiven
  Quota = {0, 1}
  MaxCalls = 3
  Mishap = {"crash", "storeError"}
INVARIANTS
  TypeOK
  RevokedIsReported
  BudgetHolds
  LiveLimitsAreLatest
  WaitersWaitForRunners
PROPERTIES
  KeepsThePromise
  CallsGetShorter
  EveryCallReturns
\* The bound on calls ends every behaviour.
CHECK_DEADLOCK FALSE
