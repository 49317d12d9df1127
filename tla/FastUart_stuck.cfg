\* One line error while a transfer is in flight.
CONSTANTS
    FifoSize = 4
    Watermark = 3
    RxSize = 4
    MaxPio = 2
    MaxBytes = 4
    MaxErrors = 1

SPECIFICATION FairSpec

PROPERTY DmaCompletes
