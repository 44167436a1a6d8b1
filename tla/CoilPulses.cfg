SPECIFICATION CoilFairSpec
CONSTANTS
    PulseLength = 2
    MaxTime = 6
INVARIANTS
    StuckOnlyByFault
PROPERTIES
    ReleasedWhenDue
    PulsesEnd
CHECK_DEADLOCK FALSE
