CONSTANTS
    p1 = p1
    amd64 = amd64
    arm64 = arm64
    v1 = v1
    v2 = v2
    d1 = d1
    d2 = d2
    NoDigest = NoDigest
    Procs <- OneProc
    Members <- TwoMembers
    Versions <- TwoVersions
    Digests <- TwoDigests
    Resolution = 2
    Monotone = FALSE
    MaxNow = 6
SPECIFICATION Spec
SYMMETRY Symmetry
INVARIANTS TypeOK SignedWhenDone FamilyWhole
PROPERTIES RecordedStays IssuedNeverBack
CHECK_DEADLOCK FALSE
