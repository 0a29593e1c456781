CONSTANTS
    RefusalKinds = {"brokenPipe", "storageFull"}
    Inner = 2
    Capacity = 4
    MaxWrites = 5
    Jobs <- MCJobs
SPECIFICATION Spec
INVARIANTS FirstBytes OkIsAll
\* write_to returns.
CHECK_DEADLOCK FALSE
