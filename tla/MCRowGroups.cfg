CONSTANTS
    WaveSize = 2
    Limit = 2
    Fields = 2
    MaxBatch = 5
    Jobs <- MCJobs
SPECIFICATION FairSpec
INVARIANT TypeInvariant
PROPERTIES WritesAsOneWriter Terminates
\* write_parquet returns.
CHECK_DEADLOCK FALSE
