\* Two threads, two relays, three bearers, four calls, crashes and store errors.
SPECIFICATION Spec
CONSTANTS
  t1 = t1
  t2 = t2
  r1 = r1
  r2 = r2
  k1 = k1
  k2 = k2
  k3 = k3
  Thread <- MCThread
  Relay <- MCRelay
  NoRelay = NoRelay
  Token <- MCToken
  MaxCalls = 4
  Mishap = {"crash", "storeError"}
INVARIANTS
  TypeOK
  BearersKeepTheirRelay
  RevokeReachesItsBearers
\* The bound on calls ends every behaviour.
CHECK_DEADLOCK FALSE
