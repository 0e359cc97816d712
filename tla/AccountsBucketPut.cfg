\* Two request threads, no index errors: DeleteBucket against a PUT.
CONSTANTS
    p1 = p1
    p2 = p2
    u1 = u1
    b1 = b1
    k1 = k1
    v1 = v1
    v2 = v2
    Procs <- TwoThreads
    Users = {u1}
    Buckets = {b1}
    Keys = {k1}
    Vals = {v1, v2}
    MaxVer = 3
    MaxOid = 2
    IdxMayFail = FALSE
    NoRec = NoRec
    Miss = Miss
SPECIFICATION Spec
INVARIANT
    NoLostObject
