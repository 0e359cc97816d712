\* MultipartAbortComplete0
CONSTANTS
    p1 = p1
    p2 = p2
    u1 = u1
    u2 = u2
    Procs <- TwoThreads
    Uploads <- OneUpload
    PartNums = {1}
    Sizes = {1}
    MaxOid = 1
    GcEnabled = TRUE
    EnqueueMayFail = FALSE
    NoPart = NoPart
    NoHead = NoHead
SPECIFICATION Spec
INVARIANT CompletedIntact
