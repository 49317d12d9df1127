\* The boot filesystem has lost its kernel.  The user tries to boot, restores
\* the filesystems and tries again; no command fails by itself.
CONSTANTS
    Options = {"exit", "filesystems"}
    BootImages = {"noKernel"}
    MaxFaults = 0
    MaxPowerLosses = 0
    MaxChoices = 3

SPECIFICATION FairSpec

PROPERTY BootProceeds
CHECK_DEADLOCK FALSE
