-------------------------------- MODULE Sbo --------------------------------
(***************************************************************************)
(* sas/sbo.lua: the table of select-before-operate reservations, as        *)
(* operators on a table.  Each method of Mgr is a condition for the call   *)
(* to succeed and the table it leaves behind, whether it succeeds or not.  *)
(***************************************************************************)
EXTENDS Naturals

CONSTANTS
    Clients,        \* the operator identities in the requests (clientId)
    Refs,           \* the control points of the IED
    Salts,          \* the values math.random can contribute to a token
    Timeout,        \* rec.sbo.timeoutSec of each point, or the default
    NoReservation   \* an absent table entry

\* newToken: two selections of a point at the same uptime may draw the same
\* salt, and then have the same token.
Tokens == [ref : Refs, at : Nat, salt : Salts]

Reservations == [client : Clients, token : Tokens, expiresAt : Nat]

ASSUME SboAssumption ==
    /\ Timeout \in [Refs -> Nat]
    /\ NoReservation \notin Reservations

Tables == [Refs -> Reservations \cup {NoReservation}]

Empty == [r \in Refs |-> NoReservation]

Exists(table, ref) == table[ref] # NoReservation

\* Variant: a reservation never runs out.
LiveForever(table, ref, now) == Exists(table, ref)

\* isReserved
Live(table, ref, now) == Exists(table, ref) /\ table[ref].expiresAt > now

Matches(table, ref, token, client) ==
    table[ref].token = token /\ table[ref].client = client
-----------------------------------------------------------------------------
(* select: refused only while another client's reservation is unexpired.   *)

SelectAllowed(table, ref, client, now) ==
    Live(table, ref, now) => table[ref].client = client

AfterSelect(table, ref, client, token, now) ==
    [table EXCEPT ![ref] =
        [client |-> client, token |-> token, expiresAt |-> now + Timeout[ref]]]
-----------------------------------------------------------------------------
(* operate: an expired reservation is removed on the way to the refusal; a *)
(* mismatch leaves the table alone; success uses the reservation up.       *)

\* Variant: leaves expiry to the sweep at the end of the tick.
OperateAllowedIfPresent(table, ref, token, client, now) ==
    Exists(table, ref) /\ Matches(table, ref, token, client)

\* Variant: any client that knows the token may operate.
OperateAllowedByToken(table, ref, token, client, now) ==
    Live(table, ref, now) /\ table[ref].token = token

OperateAllowed(table, ref, token, client, now) ==
    Live(table, ref, now) /\ Matches(table, ref, token, client)

\* Variant: the reservation survives a successful operate.
AfterOperateKept(table, ref, token, client, now) ==
    IF Exists(table, ref) /\ ~ Live(table, ref, now)
    THEN [table EXCEPT ![ref] = NoReservation]
    ELSE table

AfterOperate(table, ref, token, client, now) ==
    IF /\ Exists(table, ref)
       /\ Live(table, ref, now) => Matches(table, ref, token, client)
    THEN [table EXCEPT ![ref] = NoReservation]
    ELSE table
-----------------------------------------------------------------------------
(* cancel: idempotent, and blind to expiry.                                *)

CancelAllowed(table, ref, token, client) ==
    Exists(table, ref) => Matches(table, ref, token, client)

AfterCancel(table, ref, token, client) ==
    IF CancelAllowed(table, ref, token, client)
    THEN [table EXCEPT ![ref] = NoReservation]
    ELSE table
-----------------------------------------------------------------------------
(* tick: drop what has expired.                                            *)

AfterTick(table, now) ==
    [r \in Refs |-> IF Live(table, r, now) THEN table[r] ELSE NoReservation]
=============================================================================
