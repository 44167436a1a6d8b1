SPECIFICATION PeerFairSpec
CONSTANTS
    Burst <- MCBurst
    Heartbeat = 3
    StaleAfter = 2
    FailOpen = FALSE
    MaxTick = 2
    MaxDelay = 1
INVARIANTS
    ExposureBounded
    BeliefRecent
PROPERTIES
    ChangeSentAtOnce
    PeerLearns
CHECK_DEADLOCK FALSE
