CONSTANTS
    s1 = s1
    s2 = s2
    r1 = r1
    r2 = r2
    NoRun = NoRun
    Sources <- TwoSources
    Runs <- TwoRuns
    Selections <- AnySelection
    KeepCount = 1
    KeepDays = 0
    KeepTrees = 1
    Monotone = TRUE
    MaxTime = 3
    MaxVersion = 2
    MaxTop = 1
SPECIFICATION Spec
SYMMETRY Symmetry
INVARIANTS TypeOK ServedIntact ServedInv
PROPERTY DocrootAtomic
CHECK_DEADLOCK FALSE
