CONSTANTS
    NaN = NaN
    LongStems = {"Long"}
    NotIedStems = {"Nora"}
    NotNameStems = {"a b"}
    TypedNames <- Typed
    Kinds = {"line", "transformer"}
    Voltages = {0, 2}
    OddVoltages = {3, NaN}
    LvVoltages = {1, 2}
    Numbers = {12}
    MacPrefixes = {"01-0C-CD-04-00-"}
    WideStems = {"Long", "Wide"}
    MaxTaps = 4
    MaxLevels = 2
    MaxOdd = 1
SPECIFICATION ToolSpec
CHECK_DEADLOCK FALSE
INVARIANTS
    InterlocksAsDocumented
    UsualAnswersCompile
    TripsIsolate
    RulesResolve
    ScadaSeesAll
    LadderRises
    IdentitiesDistinct
    
