\* Two processes make three calls of any kind, of at most two bytes each, and
\* memory may run out.
CONSTANTS
    Procs = {p1, p2}
    Requests = {"readReg0", "writeFreqL", "writeFreqH", "otherType",
                "numberTooHigh", "badAddress", "otherEncoding"}
    AllocMayFail = TRUE
    MaxCount = 2
    MaxCalls = 3

SPECIFICATION FairSpec

INVARIANTS
    IInv
    Contiguous
    WroteWhatItSaid

PROPERTIES
    LostForGood
    CallsReturn

\* The calls are used up, or the device is lost and the rest wait.
CHECK_DEADLOCK FALSE
