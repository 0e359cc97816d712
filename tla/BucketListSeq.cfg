\* Two names, every versioning status, up to four requests that write
\* (MaxTime = 8: a PUT or DELETE takes two ticks), max-keys 1 to 3, and
\* a ListObjects request reading NEXT batches of two records beside them.
CONSTANTS
    Names = {1, 2}
    MaxTime = 8
    MaxKeys = 3
    BatchSize = 2
    MaxOverlap = 1
SPECIFICATION Spec
INVARIANT QuiescentPageInOrder
INVARIANT ListedOnce
INVARIANT PagingWithinName
