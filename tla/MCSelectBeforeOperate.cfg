SPECIFICATION FairSpec
CONSTANTS
    Clients = {c1, c2}
    Refs = {pos}
    Salts = {0, 1}
    NoReservation = NoReservation
    Nobody = Nobody
    MaxTime = 3
    MaxGrants = 2
    Timeout <- MCTimeout
INVARIANTS
    OneCommandPerSelection
    CommandsFresh
PROPERTIES
    KeepsPromise
    SelectionsEnd
CHECK_DEADLOCK FALSE
