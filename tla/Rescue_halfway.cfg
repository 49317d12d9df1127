\* The rescue system's option alone; one command fails.
CONSTANTS
    Options = {"rescue"}
    BootImages = {"boot"}
    MaxFaults = 1
    MaxPowerLosses = 0
    MaxChoices = 1

SPECIFICATION Spec

INVARIANT SuccessIsTrue
CHECK_DEADLOCK FALSE
