--------------------------- MODULE AlarmLifecycle ---------------------------
(***************************************************************************)
(* What the header of sas/alarms.lua promises of every alarm id: it is     *)
(* inactive, unacked, acked or cleared (and not yet acknowledged).  The    *)
(* system moves any number of alarms at a time but never acknowledges one; *)
(* an operator acknowledges one at a time.                                 *)
(***************************************************************************)
CONSTANT AlarmIds

VARIABLE phase

Phases == {"inactive", "unacked", "acked", "cleared"}

\* There is no way from "unacked" to "inactive" but through the operator, and
\* none from "inactive" or "cleared" to "acked" in the absence of one.
SystemMoves ==
    {<<"inactive", "unacked">>, <<"unacked", "cleared">>,
     <<"cleared", "unacked">>, <<"acked", "inactive">>}

OperatorMoves == {<<"unacked", "acked">>, <<"cleared", "inactive">>}

Init == phase = [id \in AlarmIds |-> "inactive"]

System ==
    /\ phase' \in [AlarmIds -> Phases]
    /\ \A id \in AlarmIds :
         phase'[id] = phase[id] \/ <<phase[id], phase'[id]>> \in SystemMoves

Operator(id) ==
    \E p \in Phases :
        /\ <<phase[id], p>> \in OperatorMoves
        /\ phase' = [phase EXCEPT ![id] = p]

\* The daemon is restarted and starts with an empty list.
Reset == phase' = [id \in AlarmIds |-> "inactive"]

Next == System \/ Reset \/ \E id \in AlarmIds : Operator(id)

Spec == Init /\ [][Next]_phase
=============================================================================
