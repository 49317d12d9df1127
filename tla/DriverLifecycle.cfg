\* Two devices of one driver, bound side by side and again after a failure,
\* and a file that may be open across an unbind.
CONSTANTS
    d1 = d1
    d2 = d2
    u1 = u1
    Devices = {d1, d2}
    Users = {u1}
    NR_DEVICES = 2
    MaxPorts = 2

SPECIFICATION FairSpec

INVARIANTS
    IInv
    NothingOutlivesPort
    UsersFindPort
    LostForGood

PROPERTY EverythingEnds

\* A fault and a removed module are ends.
CHECK_DEADLOCK FALSE
