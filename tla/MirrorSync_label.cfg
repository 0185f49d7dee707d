CONSTANT MaxSnapshot = 4
SPECIFICATION Spec
INVARIANT ParentTrue
CHECK_DEADLOCK FALSE
