CONSTANTS
    p1 = p1
    p2 = p2
    Procs <- OneThread
    Sizes = {0, 1}
    MaxTime = 7
    GcEnabled = FALSE
    EnqueueMayFail = FALSE
    NoEntry = NoEntry
    InitialVersioning = "Unversioned"
    VersioningChanges = TRUE
SPECIFICATION Spec
INVARIANT NoLeakedObject
