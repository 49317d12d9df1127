\* The FPGA's option alone; nothing fails.
CONSTANTS
    Options = {"fpga"}
    BootImages = {"boot"}
    MaxFaults = 0
    MaxPowerLosses = 0
    MaxChoices = 1

SPECIFICATION Spec

INVARIANT SuccessIsTrue
CHECK_DEADLOCK FALSE
