SPECIFICATION MCSpec
CONSTANTS
    Scripts = {"retry", "boundary", "clean"}
    None = None
    Throttled = {5}
    FalsePositive = FALSE
    DeleteRefused = FALSE
    Careless = FALSE
    Scenarios = {"zombie", "edos", "lambda"}
    Runs = {r1, r2}
    Terminals = {t1}
    Machines = {i1, i2}
    NoInstance = NoInstance
    Careful = TRUE
SYMMETRY Symmetry
INVARIANTS LimitIsOnRecord OneScriptPerScenario RunKeepsItsResource InstancesAreOnRecord
           GroupHasRoom
PROPERTIES EndPutsBack
CHECK_DEADLOCK FALSE
