SPECIFICATION LinkSpec
CONSTANTS
    Calls = {c1}
    Nothing = Nothing
    ResyncInterval = 1
    RelayTimeout = 1
    MaxSessions = 2
    MaxReads = 1
PROPERTIES
    TimeoutMeansSilence
CHECK_DEADLOCK FALSE
