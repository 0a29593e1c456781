CONSTANTS
    LF = LF
    CR = CR
    SUB = SUB
    SP = SP
    Undef = Undef
    High = {Accented, Undef}
    Digits = {One}
    Bytes = {LF, CR, SP, One, Accented, Undef}
    MaxLen = 4
    Sizes = {1, 3}
    U32Max = 3
    UsizeMax = 15
    Jobs <- MCJobs
SPECIFICATION SpecAll
INVARIANTS ParseTypes ReadsAsAsked RefusesTheFirst HoldsTheCells PointsAtTheByte FirstOfItsColumn
\* The read ends.
CHECK_DEADLOCK FALSE
