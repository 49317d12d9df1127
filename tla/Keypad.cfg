\* Three keys of a keypad of two by two, one at a time or two at a time.
CONSTANTS
    AxisLength = 2
    Fingers = 2
    MaxKeys = 3

SPECIFICATION FairSpec

INVARIANTS
    IInv
    OneByOne
    NoMoreThanPressed

PROPERTIES
    OursIsClaimed
    EveryKeyReported
