CONSTANTS
    Machines <- MCMachines
    PreferredWidth = 2
    PreferredHeight = 1
    ONES = 255
    PER_SECOND = 4
    frequency = 8
    TIMEOUT = 3
    FALLBACK = 30
    MaxChanges = 1
    MaxExceptions = 2
SPECIFICATION Spec
INVARIANTS FatesExplained ClockTrue FirmwareDealings
CHECK_DEADLOCK FALSE
