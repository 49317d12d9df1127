\* One option of every kind, and the FPGA's, which writes to its own backup;
\* three choices, so that a restore may be tried again after another; two
\* failing commands and one loss of power.
CONSTANTS
    Options = {"exit", "filesystems", "deviceTree", "fpga", "rescue"}
    BootImages = {"boot", "noKernel"}
    MaxFaults = 2
    MaxPowerLosses = 1
    MaxChoices = 3

SPECIFICATION FairSpec

INVARIANTS
    TypeOK
    NoForeignImage

PROPERTIES
    FactoryBackups
    CompletedIsRestored
    RestoreEnds
    FirstBootProceeds
    WaitEnds
    NothingBegunUnasked

\* The system is booted, or has stopped, or the choices are used up.
CHECK_DEADLOCK FALSE
