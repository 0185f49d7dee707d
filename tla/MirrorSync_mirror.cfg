CONSTANT MaxSnapshot = 4
SPECIFICATION FairSpec
INVARIANTS TypeOK IndexKept
PROPERTIES ParentStays MirrorCatchesUp
CHECK_DEADLOCK FALSE
