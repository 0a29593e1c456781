CONSTANTS
    RefusalKinds = {"brokenPipe", "storageFull"}
    Inner = 2
    Capacity = 4
    MaxWrites = 5
    Jobs <- MCJobs
SPECIFICATION Spec
INVARIANT ClosedPipeIsReported
\* write_to returns.
CHECK_DEADLOCK FALSE
