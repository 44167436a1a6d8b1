----------------------------- MODULE AlarmList -----------------------------
(***************************************************************************)
(* The alarm list in the SCADA daemon: condition alarms are raised and     *)
(* cleared by tickAlarms from the readings the daemon has of their points, *)
(* built-in alarms by the supervision of the connections, and HMI clients  *)
(* acknowledge any alarm at any time (handleAlarmAck).                     *)
(***************************************************************************)
EXTENDS Alarms

CONSTANT Conditions     \* the alarms of cfg.alarms

ASSUME ConditionsAssumption == Conditions \subseteq AlarmIds

VARIABLES
    reading,    \* what the daemon knows of each condition's point
    list,       \* engine.state.alarmList
    unseen      \* history: alarms that came up since they were last acknowledged

vars == <<reading, list, unseen>>

\* "unknown": there is no such point, or its quality is not good.
Readings == {"met", "unmet", "unknown"}

Init ==
    /\ reading = [c \in Conditions |-> "unknown"]
    /\ list = NewActiveList
    /\ unseen = {}

\* What comes up in the step to "new".
Raised(new) == {id \in AlarmIds : Active(new, id) /\ ~ Active(list, id)}

\* A report, a GOOSE datagram, a read reply or the staleness check.
ReadingChanges(c, v) ==
    /\ reading' = [reading EXCEPT ![c] = v]
    /\ UNCHANGED <<list, unseen>>

Becomes(new) ==
    /\ list' = new
    /\ unseen' = unseen \cup Raised(new)
    /\ UNCHANGED reading

TickAlarms ==
    Becomes(Evaluate(list, Conditions, {c \in Conditions : reading[c] = "met"}))

\* connectIed, disconnectIed and tickGoose, for their alarms.
RaiseBuiltIn(id) == Becomes(Raise(list, id))
ClearBuiltIn(id) == Becomes(Clear(list, id))

Acknowledge(id) ==
    /\ list' = Ack(list, id)
    /\ unseen' = unseen \ {id}
    /\ UNCHANGED reading

\* engine.stop and engine.start: a new list and a new database.
Restart ==
    /\ reading' = [c \in Conditions |-> "unknown"]
    /\ list' = NewActiveList
    /\ unseen' = {}

Next ==
    \/ \E c \in Conditions, v \in Readings : ReadingChanges(c, v)
    \/ TickAlarms
    \/ \E id \in AlarmIds \ Conditions : RaiseBuiltIn(id) \/ ClearBuiltIn(id)
    \/ \E id \in AlarmIds : Acknowledge(id)
    \/ Restart

Spec == Init /\ [][Next]_vars
-----------------------------------------------------------------------------
TypeOK ==
    /\ reading \in [Conditions -> Readings]
    /\ list \in AlarmLists
    /\ unseen \in SUBSET AlarmIds

\* A fleeting condition cannot vanish before an operator saw it: an alarm that
\* came up since its last acknowledgement is on the list and shown as not
\* acknowledged, even if it cleared, came up again, or was acknowledged during
\* an earlier occurrence.
NothingUnseenVanishes ==
    \A id \in unseen : Listed(list, id) /\ ~ Acked(list, id)

\* What stays on the list after its condition is gone still awaits an operator:
\* no entry lingers for nothing.
OnlyUnseenLinger ==
    \A id \in AlarmIds : Listed(list, id) /\ ~ Active(list, id) => id \in unseen

Phase(id) ==
    IF ~ Listed(list, id) THEN "inactive"
    ELSE IF ~ Active(list, id) THEN "cleared"
    ELSE IF Acked(list, id) THEN "acked" ELSE "unacked"

Lifecycle == INSTANCE AlarmLifecycle WITH
    phase <- [id \in AlarmIds |-> Phase(id)]

\* The list keeps the life cycle of the header of sas/alarms.lua.
KeepsLifecycle == Lifecycle!Spec
=============================================================================
