CONSTANTS
    Fwf = Fwf
    Writers = {Fwf, w2, w3}
    Parts = 2
    RefusalKinds = {"brokenPipe", "storageFull"}
    Before = Before
    MaxBatches = 2
    Jobs <- MCJobs
SPECIFICATION SpecRun
INVARIANTS SuccessIsWhole TouchesNothingInVain OnlyTheKilledLeaveATemp
PROPERTIES StatusTellsOfTheFile ReplacesWhole
\* The command and the other writers end.
CHECK_DEADLOCK FALSE
