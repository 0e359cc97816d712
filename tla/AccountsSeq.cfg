\* One request thread; every index operation whose error the code handles
\* may fail.
CONSTANTS
    p1 = p1
    p2 = p2
    u1 = u1
    b1 = b1
    k1 = k1
    v1 = v1
    v2 = v2
    Procs <- OneThread
    Users = {u1}
    Buckets = {b1}
    Keys = {k1}
    Vals = {v1, v2}
    MaxVer = 3
    MaxOid = 2
    IdxMayFail = TRUE
    NoRec = NoRec
    Miss = Miss
SPECIFICATION Spec
INVARIANTS
    TypeOK
    NoDanglingBucketRefs
    BucketCacheCoherent
