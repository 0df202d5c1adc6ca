\* Three clicks on two waiting runs, one restart of the API.
SPECIFICATION FairSpec
CONSTANTS
  Threads = {"a", "b"}
  Requests = {r1, r2, r3}
  MaxRestarts = 1
INVARIANTS
  OneResumePerThread
  ActsOncePerApproval
PROPERTIES
  ResumeReleasesMark
CHECK_DEADLOCK FALSE
