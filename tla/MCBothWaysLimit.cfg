\* Both readings end.
CONSTANTS
    LF = LF
    CR = CR
    SUB = SUB
    Bytes = {LF, CR, SUB, Other}
    NoLimit = NoLimit
    MaxLen = 4
    MaxSize = 3
    MaxSkip = 1
    MaxRows = 2
    UsizeMax = 9
    Jobs <- MCJobs
SPECIFICATION SpecBoth
INVARIANT NothingPastTheLimitFails
CHECK_DEADLOCK FALSE
