\* One administrator, two resource types, restarts, crashes and scenarios
SPECIFICATION FairSpec
CONSTANTS
    r1 = r1
    None = None
    Requests = {r1}
    Types = {"RDS", "S3"}
    OnByDefault = {"RDS"}
    Keys <- TwoKeys
    Updates <- Bodies
    MaxPids = 3
INVARIANTS
    LoopIsSeen
    ScansWhatIsEnabled
PROPERTIES
    StopEndsTheLoop
    QuietIsReported
CHECK_DEADLOCK FALSE
