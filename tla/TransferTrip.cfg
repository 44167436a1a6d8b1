SPECIFICATION FairSpec
CONSTANTS
    Breakers = {b1, b2}
    Currents = {0, 9}
    MinPickup = 1
    SlopePercent = 80
INVARIANTS
    RemoteTripJustified
    RemoteTripOnce
PROPERTIES
    FaultReachesBreakers
CHECK_DEADLOCK FALSE
