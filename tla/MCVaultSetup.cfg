\* Two threads, two clock readings, four calls, crashes and store errors.
SPECIFICATION Spec
CONSTANTS
  t1 = t1
  t2 = t2
  Thread <- MCThread
  Clock = {1, 2}
  MaxCalls = 4
  Mishap = {"crash", "storeError"}
SYMMETRY Threads
INVARIANTS
  TypeOK
  HeaderMacMeansOpenable
  OpenedVaultKeepsItsDek
  EveryOpeningIsLogged
\* The bound on calls ends every behaviour.
CHECK_DEADLOCK FALSE
