SPECIFICATION MCSpec
CONSTANTS
    Procs = {loop, demo}
    Types = {"EC2", "AutoScaling"}
    Unfrozen = {"AutoScaling"}
    Seeded = {"EC2"}
    MaxWindows = 3
    RetrainEvery = 3
    MaxCrashes = 2
    MaxOverlaps = 1
    Workers = {w1, w2, w3}
    Watched <- MCWatched
    Readings <- MCReadings
    MaxChanges <- MCMaxChanges
    ClfRules <- MCClfRules
    DecRules <- MCDecRules
    QaRules <- MCQaRules
    Named <- MCNamed
    Forced <- MCForced
    Whitelist <- MCWhitelist
    Clock <- MCClock
    ClfTalks <- MCClfTalks
    DecTalks <- MCDecTalks
INVARIANTS
    AdoptedOnce
    UnlearnedAreCounted
    FrozenSeedStays
    EndsAlike
    RuleNeedsForest
    SavingsAreSound
    FreshInstanceIsSpared
CHECK_DEADLOCK FALSE
