\* Four slots: the indices wrap at every offset, the queue is full and empty,
\* and a read may ask for more than it holds.
CONSTANTS
    Q_SIZE = 4
    Entries = {0, 1, 2}
    MaxCount = 3

SPECIFICATION Spec

PROPERTIES
    FifoSpec
    ShortReadsEndAtZero
