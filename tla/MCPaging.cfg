CONSTANTS
    ENTRIES = 2
    LOW = 4
    Mmio <- MCMmio
    Frames <- MCFrames
    Machines <- MCMachines
    Virts <- MCVirts
    Targets <- MCTargets
    FlagSets <- MCFlagSets
    MaxOps = 4
SPECIFICATION Spec
INVARIANTS TypeOK TablesSound NoLeak TlbCoherent
PROPERTIES ActivationComplete ImplementsAddressSpaces
CHECK_DEADLOCK FALSE
