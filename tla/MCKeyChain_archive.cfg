CONSTANTS
    r1 = r1
    r2 = r2
    r3 = r3
    p1 = p1
    p2 = p2
    NoFile = NoFile
    KeysLife = 3
    DocumentLife = 2
    Window = 1
    Roots <- ThreeRoots
    Publishers <- TwoPublishers
    RootSets <- TwoSets
    Killable <- Unsigned
    MaxNow = 4
SPECIFICATION Spec
SYMMETRY Interchangeable
INVARIANT OfflineClientsCatchUp
CHECK_DEADLOCK FALSE
