SPECIFICATION Spec
CONSTANTS
  Client = client
  other = other
  NoProc = NoProc
  Procs <- MCProcs
  Setups <- MCSetups
  AcceptSets <- MCAcceptSets
  Gaps <- MCGaps
  MAX_PREFIXES = 1
  MaxGen = 3
  MaxFaults = 1
INVARIANTS OneAnswer FreshAfter401 ReuseIsReal SpentOnce
PROPERTIES StreamSettles
CHECK_DEADLOCK FALSE
