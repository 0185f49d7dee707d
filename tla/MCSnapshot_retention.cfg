CONSTANTS
    s1 = s1
    s2 = s2
    r1 = r1
    r2 = r2
    NoRun = NoRun
    Sources <- OneSource
    Runs <- OneRun
    Selections <- NoSelection
    KeepCount = 1
    KeepDays = 1
    KeepTrees = 2
    Monotone = TRUE
    MaxTime = 3
    MaxVersion = 3
    MaxTop = 2
SPECIFICATION FairSpec
INVARIANT ManifestsExplain
PROPERTY EventuallyServed
CHECK_DEADLOCK FALSE
