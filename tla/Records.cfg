SPECIFICATION RecordsSpec
CONSTANTS
    Runs = {r1, r2}
    ResourceIds = {a, b}
    GROUPING_WINDOW = 2
    PAGE = 1
    MaxNow = 5
    MaxEvents = 3
    Overlapping = FALSE
    Baselines = {TRUE}
INVARIANTS NodesShowWhatRan ShownAsItEnded CardsOfOneRun NoToastSkipped
SYMMETRY Symmetry
CHECK_DEADLOCK FALSE
