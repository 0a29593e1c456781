CONSTANTS
    Zero = Zero
    One = One
    Bytes = {Zero, One}
    MaxLen = 3
    MaxBlock = 2
    NoEntry = "none"
    Crc <- Parity
    Jobs <- MCJobs
SPECIFICATION Spec
INVARIANT WrongSizeFails
\* The read ends.
CHECK_DEADLOCK FALSE
