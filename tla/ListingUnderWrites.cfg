\* Line 1356: a DELETE of the last key of a batch before the next NEXT.
CONSTANTS
    Names = {1, 2}
    MaxTime = 6
    MaxKeys = 3
    BatchSize = 2
    MaxOverlap = 1
SPECIFICATION SpecH
INVARIANT StableEntriesListed
