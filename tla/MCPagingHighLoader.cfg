CONSTANTS
    ENTRIES = 2
    LOW = 4
    Mmio <- MCMmio
    Frames <- MCFrames
    Machines <- MCHighLoader
    Virts <- MCVirts
    Targets <- MCTargets
    FlagSets <- MCFlagSets
    MaxOps = 1
SPECIFICATION Spec
PROPERTIES ActivationComplete
CHECK_DEADLOCK FALSE
