SPECIFICATION FairSpec
CONSTANTS
    TripTime <- MCInstantaneous
    Full = 12
    ResetTime = 3
    TickInterval = 1
    MaxTick = 2
    RespectInterlocks = TRUE
PROPERTIES
    LastingFaultTrips
CHECK_DEADLOCK FALSE
