SPECIFICATION Spec
CONSTANTS
    AlarmIds = {undervoltage, overload, COMM}
    Conditions = {undervoltage, overload}
    NoAlarm = NoAlarm
INVARIANTS
    NothingUnseenVanishes
    OnlyUnseenLinger
PROPERTIES
    KeepsLifecycle
CHECK_DEADLOCK FALSE
