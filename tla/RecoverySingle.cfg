\* One run over a resource of any type, with and without the approval gate.
SPECIFICATION FairSpec
CONSTANTS
  t1 = t1
  t2 = t2
  ec2 = ec2
  fn = fn
  asg = asg
  bucket = bucket
  db = db
  MaxTier = 2
  DefaultTier = 1
  Owners <- OneThread
  Threads <- OneThread
  Resources <- EveryResource
  TypeOf <- EveryType
  WithAlb = {asg}
  InitConfigs <- OneUnusual
  ForcePass = {}
  MaxCrashes = 1
  Graphs = {"app", "approval_app"}
INVARIANTS
  ClaimsInv
  ClaimsAreTrue
PROPERTIES
  ActedRunsEnd
  RolledBackInstanceRuns
  MeetsContract
CHECK_DEADLOCK FALSE
