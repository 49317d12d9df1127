\* Two processes make three calls of any kind, of at most two bytes each, and
\* any of them may fail.
CONSTANTS
    Procs = {p1, p2}
    Levels = {low, high}
    Requests = {"readReg0", "otherEncoding", "getIntMask", "otherType", "badAddress"}
    AllocMayFail = TRUE
    MaxCount = 2
    MaxCalls = 3

SPECIFICATION FairSpec

INVARIANTS
    IInv
    WriteReachesPins

PROPERTIES
    ReadsPins
    CallsSpec
