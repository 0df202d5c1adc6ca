\* Two runs over one EC2 instance, approval gate on.
SPECIFICATION Spec
CONSTANTS
  t1 = t1
  t2 = t2
  ec2 = ec2
  fn = fn
  asg = asg
  bucket = bucket
  db = db
  MaxTier = 1
  DefaultTier = 0
  Owners <- TwoThreads
  Threads <- TwoThreads
  Resources <- OneInstance
  TypeOf <- InstanceType
  WithAlb = {}
  InitConfigs <- RunningOnly
  ForcePass = {"Block"}
  MaxCrashes = 0
  Graphs = {"approval_app"}
SYMMETRY ThreadSymmetry
CONSTRAINT ThreeAttempts
INVARIANTS
  NoUnapprovedAction
  ClaimsAreTrue
CHECK_DEADLOCK FALSE
