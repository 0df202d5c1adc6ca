\* Two runs of a pattern, two requests of administrators.
SPECIFICATION Spec
CONSTANTS
  r1 = r1
  r2 = r2
  c1 = c1
  c2 = c2
  Runs <- TwoRuns
  Requests <- Clicks
  Scenes <- TwoAtOnce
  Keys <- MCKeys
  KeyOf <- SameKey
  Labels = {"x"}
  MinCount = 2
  InitPending <- ShippedQueue
  InitRules <- ShippedRules
  MaxRestarts = 1
SYMMETRY Symmetry
INVARIANTS
  RestsOnVerified
  ApprovedOnce
  EngineFollowsRules
  FrequentPatternQueued
CHECK_DEADLOCK FALSE
