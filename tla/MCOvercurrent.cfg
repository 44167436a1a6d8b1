SPECIFICATION FairSpec
CONSTANTS
    TripTime <- MCTripTime
    Full = 12
    ResetTime = 3
    TickInterval = 1
    MaxTick = 2
    RespectInterlocks = TRUE
INVARIANTS
    TripsInTime
    OpTellsTheTrip
PROPERTIES
    NoHastyTrip
    LastingFaultTrips
CHECK_DEADLOCK FALSE
