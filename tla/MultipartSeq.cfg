\* One request thread, two uploads of two parts, GC enabled with enqueue
\* failures, so that both removal paths of complete are taken.
CONSTANTS
    p1 = p1
    p2 = p2
    u1 = u1
    u2 = u2
    Procs <- OneThread
    Uploads <- TwoUploads
    PartNums = {1, 2}
    Sizes = {1, 2}
    MaxOid = 4
    GcEnabled = TRUE
    EnqueueMayFail = TRUE
    NoPart = NoPart
    NoHead = NoHead
SPECIFICATION Spec
INVARIANTS
    TypeOK
    NoLeakedPart
    CompletedIntact
    StatsMatchUploads
    MultipartListingComplete
