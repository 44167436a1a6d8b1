------------------------ MODULE ControlReservation ------------------------
(***************************************************************************)
(* What an IED promises about its control points, whatever happens to the  *)
(* messages, the clock or the daemon: a point is held by at most one       *)
(* client, it is never handed from one client straight to another, only a  *)
(* command of the client that holds it gets as far as the interlocks and   *)
(* the output, and such a command uses the hold up, whatever becomes of it *)
(* there.                                                                  *)
(*                                                                         *)
(* SelectBeforeOperate.tla implements this with tokens and time-outs.      *)
(***************************************************************************)
EXTENDS Naturals

CONSTANTS Clients, Refs, Nobody

VARIABLES
    holder,     \* the client that may operate each point, or Nobody
    commands    \* how many commands of each client were accepted

vars == <<holder, commands>>

Init ==
    /\ holder = [r \in Refs |-> Nobody]
    /\ commands = [r \in Refs |-> [c \in Clients |-> 0]]

Grant(c, r) ==
    /\ holder[r] \in {c, Nobody}
    /\ holder' = [holder EXCEPT ![r] = c]
    /\ UNCHANGED commands

\* The holder's command is accepted; the hold is gone, also when an interlock
\* blocks the command after that or the output fails.
Command(c, r) ==
    /\ holder[r] = c
    /\ holder' = [holder EXCEPT ![r] = Nobody]
    /\ commands' = [commands EXCEPT ![r][c] = @ + 1]

\* The holds of some points end with no command: the holder cancelled, time ran
\* out, or the daemon restarted.
End(rs) ==
    /\ holder' = [r \in Refs |-> IF r \in rs THEN Nobody ELSE holder[r]]
    /\ UNCHANGED commands

Next ==
    \/ \E c \in Clients, r \in Refs : Grant(c, r) \/ Command(c, r)
    \/ \E rs \in SUBSET Refs : End(rs)

Spec == Init /\ [][Next]_vars
=============================================================================
