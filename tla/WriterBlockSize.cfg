\* Pools with P * N <= 256, unit sizes 4 KiB to 8 MiB; objects of one
\* page, of several chunks, and larger than MAX_ACC_SIZE.
CONSTANTS
    Units <- LayoutUnits
    Geometries <- SmallPools
    ObjSizes = {1, 1500, 9000}
    ChunkPages = 1024
    MaxAccPages = 8192
SPECIFICATION Spec
\* The request ends once its data is written.
CHECK_DEADLOCK FALSE
INVARIANTS
    TypeOK
    OptimalBsNoWrap
PROPERTY
    WriterFinishes
