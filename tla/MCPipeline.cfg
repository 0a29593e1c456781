CONSTANTS
    Workers = {w1, w2}
    ChunksPerThread = 1
    Columns = {"c1", "c2"}
    Cap = 3
    Threads = 3
    BatchesPerThread = 1
    RefusalKinds = {"brokenPipe", "storageFull"}
    Capacity = 2
    MaxCalled = 5
    MaxRead = 3
    MaxOdd = 7
    MaxItems = 10
    Jobs <- MCJobs
SPECIFICATION SpecAll
INVARIANTS PipelineTypes AheadByAWave GivesAllOrTheFirstError HoldsThreeWaves
PROPERTIES IteratesInOrder NothingAfterAnError ConvertsInSequence NoReadAfterARefusal EveryClientReturns
\* read() and write() return, and after None a caller may stop.
CHECK_DEADLOCK FALSE
