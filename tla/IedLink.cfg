SPECIFICATION LinkFairSpec
CONSTANTS
    Calls = {c1, c2}
    Nothing = Nothing
    ResyncInterval = 1
    RelayTimeout = 1
    MaxSessions = 3
    MaxReads = 1
INVARIANTS
    AnswersTrue
PROPERTIES
    EveryCallAnswered
CHECK_DEADLOCK FALSE
