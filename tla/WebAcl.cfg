\* Two callers, three calls, one Web ACL of an administrator and two to create
SPECIFICATION Spec
CONSTANTS
    r1 = r1
    r2 = r2
    Workers = {w1, w2}
    Albs = {b1, b2}
    Acls = {a1, a2}
    Existing = {a1}
    Given <- GivenRules
    Names = {r1, r2}
    Blacklist = Blacklist
    Ips = {i1}
    NoAcl = NoAcl
    MaxRetry = 1
    MaxAssociate = 1
    MaxCalls = 3
INVARIANTS
    PrioritiesDistinct
PROPERTIES
    OwnRuleOnly
CHECK_DEADLOCK FALSE
