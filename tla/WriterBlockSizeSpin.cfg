\* Wide pools: a block size of zero keeps write() from ever finishing.
CONSTANTS
    Units <- LayoutUnits
    Geometries <- WidePools
    ObjSizes = {1, 1500, 9000}
    ChunkPages = 1024
    MaxAccPages = 8192
SPECIFICATION Spec
\* The request ends once its data is written.
CHECK_DEADLOCK FALSE
PROPERTY WriterFinishes
