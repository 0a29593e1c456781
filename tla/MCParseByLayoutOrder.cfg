CONSTANTS
    LF = LF
    CR = CR
    SUB = SUB
    SP = SP
    Undef = Undef
    High = {Accented, Undef}
    Digits = {One}
    Bytes = {LF, One, Accented, Undef}
    MaxLen = 5
    Sizes = {1, 3}
    U32Max = 3
    UsizeMax = 15
    Jobs <- MCJobs
SPECIFICATION SpecAll
INVARIANT FirstErrorOfTheUnit
\* The read ends.
CHECK_DEADLOCK FALSE
