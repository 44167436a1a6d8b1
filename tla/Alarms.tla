------------------------------- MODULE Alarms -------------------------------
(***************************************************************************)
(* sas/alarms.lua: the active-alarm list of the SCADA daemon, as operators *)
(* on a list.  Severity, message, operator and times are left out: nothing *)
(* is decided on them.                                                     *)
(***************************************************************************)
CONSTANTS
    AlarmIds,   \* the ids of the configured and the built-in alarms
    NoAlarm     \* an absent list entry

Entries == [active : BOOLEAN, acked : BOOLEAN]

ASSUME AlarmAssumption == NoAlarm \notin Entries

AlarmLists == [AlarmIds -> Entries \cup {NoAlarm}]

NewActiveList == [id \in AlarmIds |-> NoAlarm]

Listed(list, id) == list[id] # NoAlarm
Active(list, id) == Listed(list, id) /\ list[id].active
Acked(list, id) == Listed(list, id) /\ list[id].acked

\* raise: the entry of a cleared alarm hands its acknowledgement on.
Raise(list, id) ==
    IF Active(list, id) THEN list
    ELSE [list EXCEPT ![id] = [active |-> TRUE, acked |-> Acked(list, id)]]

\* Variant: an alarm that has cleared is removed at once.
ClearForGood(list, id) ==
    IF ~ Active(list, id) THEN list ELSE [list EXCEPT ![id] = NoAlarm]

\* Variant: an acknowledged alarm that has cleared stays on the list.
ClearKept(list, id) ==
    IF ~ Active(list, id) THEN list ELSE [list EXCEPT ![id].active = FALSE]

\* clear
Clear(list, id) ==
    IF ~ Active(list, id) THEN list
    ELSE [list EXCEPT ![id] =
            IF Acked(list, id) THEN NoAlarm ELSE [active |-> FALSE, acked |-> FALSE]]

\* Variant: an acknowledgement removes the alarm even while it is active.
AckRemoves(list, id) == [list EXCEPT ![id] = NoAlarm]

\* ack; an unknown id is refused and changes nothing.
Ack(list, id) ==
    IF ~ Listed(list, id) THEN list
    ELSE [list EXCEPT ![id] =
            IF Active(list, id) THEN [active |-> TRUE, acked |-> TRUE] ELSE NoAlarm]

\* evaluate, over the alarms of "defs", of which "met" have a point of good
\* quality whose value fulfils the condition.
Evaluate(list, defs, met) ==
    [id \in AlarmIds |->
        IF id \notin defs THEN list[id]
        ELSE IF id \in met THEN Raise(list, id)[id] ELSE Clear(list, id)[id]]
=============================================================================
