\* One call on a bearer minted before, with store errors.
SPECIFICATION FairSpec
CONSTANTS
  t1 = t1
  t2 = t2
  r1 = r1
  k1 = k1
  k2 = k2
  Thread <- MCThread
  Relay <- MCRelay
  NoRelay = NoRelay
  Token <- MCToken
  NoToken = NoToken
  Given <- MCGiven
  Quota = {0, 1}
  MaxCalls = 1
  Mishap = {"storeError"}
PROPERTY
  SwapIsAuditedBeforeReturn
\* The bound on calls ends every behaviour.
CHECK_DEADLOCK FALSE
