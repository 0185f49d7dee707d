CONSTANTS
    v1 = v1
    v2 = v2
    d1 = d1
    d2 = d2
    None = None
    Names <- OnePlatform
    Versions <- TwoVersions
    Digests <- TwoDigests
    Sidecars <- OneSidecar
    Architectures <- Platforms
    Covers <- OnePart
    Grace = 1
    MaxNow = 3
    MaxFiles = 3
SPECIFICATION Spec
SYMMETRY Interchangeable
INVARIANTS TypeOK HeadResolves EntriesVerify SidecarsTheirOwn
PROPERTIES PublishedKept
CHECK_DEADLOCK FALSE
