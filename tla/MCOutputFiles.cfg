CONSTANTS
    Stations <- StationSet
    Edited <- EditedSet
    MaxRuns = 4
    MaxEdits = 1
SPECIFICATION Spec
CHECK_DEADLOCK FALSE
INVARIANTS
    DrawingMatches
    CheckTellsTruth
    CompiledIsUpToDate
PROPERTIES
    NothingLostUnasked
