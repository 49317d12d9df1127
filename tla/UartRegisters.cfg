\* Three values per register and room for eight bytes: the MSB moves twice
\* between an empty and a full FIFO.  The timeouts include one that is
\* refused, the largest that fits, and one that does not fit.
CONSTANTS
    RegBase = 3
    FifoSize = 8
    WmBase = 3
    BurstLength = 2
    InitialTimeout = 5
    Timeouts = {0, 8, 13}

SPECIFICATION RegSpec

INVARIANTS
    IInv
    ConsistentSnapshot
    ResultWithinCall
    BurstLeavesByte
    ReadsWhatWasWritten

PROPERTY LoopEnds

\* A port that was unregistered is the end.
CHECK_DEADLOCK FALSE
