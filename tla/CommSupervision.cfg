SPECIFICATION FairSpec
CONSTANTS
    AlarmIds = {COMM, GOOSE}
    COMM = COMM
    GOOSE = GOOSE
    NoAlarm = NoAlarm
    ReconnectInterval = 3
    StaleAfter = 2
    MaxTick = 2
INVARIANTS
    NoFalseAlarm
    LossAlarmed
    GoodMeansHeard
PROPERTIES
    Recovers
CHECK_DEADLOCK FALSE
