\* One request thread, GC enabled, enqueue never fails; with the history
\* variable snap of ObjectVersionsRefinement, checked against VersionedBucket.
CONSTANTS
    p1 = p1
    p2 = p2
    Procs <- OneThread
    Sizes = {0, 1}
    MaxTime = 7
    GcEnabled = TRUE
    EnqueueMayFail = FALSE
    NoEntry = NoEntry
    InitialVersioning = "Unversioned"
    VersioningChanges = TRUE
SPECIFICATION SpecH
INVARIANTS
    TypeOK
    CurrentIsLatest
    HeadIsNewest
    NoDanglingEntry
    CacheCoherent
    GcEnqueuedOnce
PROPERTY
    VersionsRefined
