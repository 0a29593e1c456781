CONSTANTS
    P = P
    K = K
    B3 = B3
    B4 = B4
    X1F = X1F
    X8B = X8B
    Bytes = {P, K, B3, B4, X1F, X8B}
    ZipHead <- MCZipHead
    GzipHead <- MCGzipHead
    MaxLen = 6
    Jobs <- MCJobs
SPECIFICATION FairSpec
INVARIANTS NothingLost AllHandedOn SameContainerForSameBytes
PROPERTY Opens
\* The opening ends.
CHECK_DEADLOCK FALSE
