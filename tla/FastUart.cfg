\* The FIFO is larger than the watermark, a transfer may leave bytes behind
\* (RxSize) or not, a programmed read may leave bytes behind (MaxPio), eight give
\* two transfers and programmed reads between them, and two line errors may
\* come at any time.
CONSTANTS
    FifoSize = 5
    Watermark = 3
    RxSize = 3
    MaxPio = 2
    MaxBytes = 8
    MaxErrors = 2

SPECIFICATION FairSpec

INVARIANTS
    IInv
    CleanInv
    NothingLost

PROPERTIES
    BufferHandedOver
    StreamSpec
