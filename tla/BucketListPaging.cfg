\* Two object names, every versioning status, up to three requests.
CONSTANTS
    Names = {1, 2}
    MaxTime = 6
    MaxKeys = 2
    BatchSize = 2
    MaxOverlap = 1
SPECIFICATION Spec
INVARIANT PagingComplete
