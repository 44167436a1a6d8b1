------------------------ MODULE SelectBeforeOperate ------------------------
(***************************************************************************)
(* The client command path of the IED daemon: the handlers for select,     *)
(* operate and cancel of sas/ied/engine.lua over the reservation table of  *)
(* sas/sbo.lua.                                                            *)
(*                                                                         *)
(* Requests come from an open environment: any client may send any request *)
(* at any moment the daemon serves its connections, with any token it was  *)
(* ever given, so that delayed, repeated and out-of-date requests are all  *)
(* there.  The clock runs on between the steps of a tick; the sweep at the *)
(* end of a tick uses the time its start read.                             *)
(***************************************************************************)
EXTENDS Sbo

CONSTANTS
    Nobody,     \* the holder of a point that no client has selected
    MaxTime,    \* bound: selections expire, and the clock stops, by then
    MaxGrants   \* bound: successful selections of a point per client

ASSUME BoundsAssumption == MaxTime \in Nat /\ MaxGrants \in Nat

VARIABLES
    now,            \* computer.uptime()
    tickNow,        \* the local "now" of engine.tick
    serving,        \* true between the start of a tick and its end
    reservations,   \* engine.state.sbo.reservations
    known,          \* the tokens each client has been given
    grants,         \* history: successful selections of each point by client
    commands,       \* history: commands of each client that sbo:operate accepted
    age             \* history: age of the selection the last command used

clockVars == <<now, tickNow, serving>>
histories == <<grants, commands, age>>
vars == <<now, tickNow, serving, reservations, known, grants, commands, age>>

Counts == [Refs -> [Clients -> Nat]]
NoCounts == [r \in Refs |-> [c \in Clients |-> 0]]

Init ==
    /\ now = 0
    /\ tickNow = 0
    /\ serving = FALSE
    /\ reservations = Empty
    /\ known = [c \in Clients |-> {}]
    /\ grants = NoCounts
    /\ commands = NoCounts
    /\ age = [r \in Refs |-> 0]
-----------------------------------------------------------------------------
(* Clock and tick.                                                         *)

Advance ==
    /\ now < MaxTime
    /\ now' = now + 1
    /\ UNCHANGED <<tickNow, serving, reservations, known, histories>>

StartTick ==
    /\ ~ serving
    /\ serving' = TRUE
    /\ tickNow' = now
    /\ UNCHANGED <<now, reservations, known, histories>>

EndTick ==
    /\ serving
    /\ serving' = FALSE
    /\ reservations' = AfterTick(reservations, tickNow)
    /\ UNCHANGED <<now, tickNow, known, histories>>

\* An error in the body of the tick ends it before the sweep.
AbortTick ==
    /\ serving
    /\ serving' = FALSE
    /\ UNCHANGED <<now, tickNow, reservations, known, histories>>

\* engine.stop and engine.start: a new manager, with no reservation.
Restart ==
    /\ ~ serving
    /\ reservations' = Empty
    /\ UNCHANGED <<clockVars, known, histories>>
-----------------------------------------------------------------------------
(* Handlers.                                                               *)

Select(c, r) ==
    /\ serving
    /\ now + Timeout[r] <= MaxTime
    /\ grants[r][c] < MaxGrants
    /\ SelectAllowed(reservations, r, c, now)
    /\ \E s \in Salts :
         LET token == [ref |-> r, at |-> now, salt |-> s] IN
         /\ reservations' = AfterSelect(reservations, r, c, token, now)
         /\ known' = [known EXCEPT ![c] = @ \cup {token}]
    /\ grants' = [grants EXCEPT ![r][c] = @ + 1]
    /\ UNCHANGED <<clockVars, commands, age>>

\* Accepted by sbo:operate, which uses the reservation up.  Only then are the
\* interlocks asked and the output is written; the command may still fail at
\* either, and nothing here is taken back when it does.
OperateAccepted(c, r, t) ==
    /\ serving
    /\ OperateAllowed(reservations, r, t, c, now)
    /\ reservations' = AfterOperate(reservations, r, t, c, now)
    /\ commands' = [commands EXCEPT ![r][c] = @ + 1]
    /\ age' = [age EXCEPT ![r] = now - t.at]
    /\ UNCHANGED <<clockVars, known, grants>>

\* Refused by sbo:operate: neither interlocks nor output are reached.
OperateRefused(c, r, t) ==
    /\ serving
    /\ ~ OperateAllowed(reservations, r, t, c, now)
    /\ reservations' = AfterOperate(reservations, r, t, c, now)
    /\ UNCHANGED <<clockVars, known, histories>>

Cancel(c, r, t) ==
    /\ serving
    /\ reservations' = AfterCancel(reservations, r, t, c)
    /\ UNCHANGED <<clockVars, known, histories>>

Handle(c, r) ==
    \/ Select(c, r)
    \/ \E t \in known[c] :
         OperateAccepted(c, r, t) \/ OperateRefused(c, r, t) \/ Cancel(c, r, t)

Next ==
    \/ Advance
    \/ StartTick
    \/ EndTick
    \/ AbortTick
    \/ Restart
    \/ \E c \in Clients, r \in Refs : Handle(c, r)

Spec == Init /\ [][Next]_vars

\* The clock does not stop; nothing else is assumed, not even that ticks go on.
FairSpec == Spec /\ WF_vars(Advance)
-----------------------------------------------------------------------------
(* Safety.                                                                 *)

TypeOK ==
    /\ now \in Nat
    /\ tickNow \in Nat
    /\ serving \in BOOLEAN
    /\ reservations \in Tables
    /\ known \in [Clients -> SUBSET Tokens]
    /\ grants \in Counts
    /\ commands \in Counts
    /\ age \in [Refs -> Nat]

\* Each command a client gets accepted was paid for by a successful selection
\* of its own of that very point, and a selection pays for one command only: an
\* unused reservation counts as not yet spent.  This is what makes a repeated
\* operate message harmless, even when two selections drew the same token, and
\* a command that an interlock or the output fails afterwards counts as well:
\* it leaves no selection in place for another try.
OneCommandPerSelection ==
    \A r \in Refs, c \in Clients :
        LET unspent == Exists(reservations, r) /\ reservations[r].client = c IN
        commands[r][c] + (IF unspent THEN 1 ELSE 0) <= grants[r][c]

\* No output is ever driven on a selection that is as old as its time-out,
\* however late the sweep runs (a tick may end in an error before it).
CommandsFresh ==
    \A r \in Refs : age[r] > 0 => age[r] < Timeout[r]

Holder(r) ==
    IF Live(reservations, r, now) THEN reservations[r].client ELSE Nobody

\* A client that holds a point loses it by its own hand, by time or by a
\* restart; another client can have it only after that, never in its place.
NeverHandedOver ==
    [][\A r \in Refs :
         Holder(r) # Nobody /\ Holder(r)' # Nobody => Holder(r)' = Holder(r)]_vars

Promise == INSTANCE ControlReservation WITH
    holder <- [r \in Refs |-> Holder(r)]

\* The daemon keeps the promise stated in ControlReservation.
KeepsPromise == Promise!Spec
-----------------------------------------------------------------------------
(* Liveness.                                                               *)

\* A selection that is neither used nor renewed is over eventually, so that
\* an operator who walks away (the HMI dialog is simply closed) never blocks
\* a point for good.  Only the clock is needed for it: select and operate
\* check the expiry themselves and do not rely on the sweep.
SelectionsEnd ==
    \A r \in Refs, c \in Clients : \A n \in 1 .. MaxGrants :
        (Holder(r) = c /\ grants[r][c] = n)
            ~> (Holder(r) # c \/ grants[r][c] # n)
=============================================================================
