CONSTANTS
    p1 = p1
    p2 = p2
    Procs <- TwoThreads
    Sizes = {1}
    MaxTime = 5
    GcEnabled = TRUE
    EnqueueMayFail = FALSE
    NoEntry = NoEntry
    InitialVersioning = "Enabled"
    VersioningChanges = FALSE
SPECIFICATION Spec
INVARIANT NoDanglingEntry
