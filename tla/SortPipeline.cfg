CONSTANTS
    Cap = 1
    Window = 3
    PrintMax = 2
    Word = 2
    Byte <- Bits
    Zero = 0
    Values <- Numbers
    Encode <- BigEndian
    Decode <- FromBigEndian
    Jobs <- AllJobs
SPECIFICATION FairSpec
INVARIANTS OutputSorted ResultExact
PROPERTIES MainReturns
CHECK_DEADLOCK FALSE
