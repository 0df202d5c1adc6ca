\* Two requests of administrators: the engine that is left behind.
SPECIFICATION Spec
CONSTANTS
  r1 = r1
  r2 = r2
  c1 = c1
  c2 = c2
  Runs <- TwoRuns
  Requests <- Clicks
  Scenes <- TwoAtOnce
  Keys <- MCKeys
  KeyOf <- SameKey
  Labels = {"x"}
  MinCount = 2
  InitPending <- ShippedQueue
  InitRules <- ShippedRules
  MaxRestarts = 1
SYMMETRY Symmetry
INVARIANT
  EngineIsUpToDate
CHECK_DEADLOCK FALSE
