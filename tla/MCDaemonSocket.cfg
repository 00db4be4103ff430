SPECIFICATION Spec
CONSTANTS
  d1 = d1
  d2 = d2
  d3 = d3
  d4 = d4
  Daemon <- MCDaemon
  Setting <- MCSetting
SYMMETRY MCSymmetry
CHECK_DEADLOCK FALSE
INVARIANTS
  TypeOK
  ServingIsReachable
  SocketIsPrivate
  TokenStaysOnHost
PROPERTY OnlyLiveDaemonsBlock
