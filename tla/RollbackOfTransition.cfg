\* A rollback to a snapshot taken of an instance in transition.
SPECIFICATION Spec
CONSTANTS
  t1 = t1
  t2 = t2
  ec2 = ec2
  fn = fn
  asg = asg
  bucket = bucket
  db = db
  MaxTier = 1
  DefaultTier = 0
  Owners <- OneThread
  Threads <- OneThread
  Resources <- OneInstance
  TypeOf <- InstanceType
  WithAlb = {}
  InitConfigs <- RunningOnly
  ForcePass = {"Block"}
  MaxCrashes = 1
  Graphs = {"approval_app"}
INVARIANTS
  RollbackRestoresAnySnapshot
CHECK_DEADLOCK FALSE
