-------------------------- MODULE CommandGuards_proof --------------------------
(***************************************************************************)
(* What stands between a client and an output: the reservations of         *)
(* SelectBeforeOperate, for every set of clients and points, every         *)
(* time-out and every bound, and the interlock of PeerInterlock, for every *)
(* schedule, staleness limit, tick length and datagram delay.              *)
(*                                                                         *)
(* Reservations.  Everything rests on one inductive invariant, IInv: the   *)
(* types, the reservations being what their tokens say, the two history    *)
(* properties, and that neither a token nor the time a tick started at     *)
(* lies in the future.                                                     *)
(*                                                                         *)
(* Interlock.  A datagram that says anything but "closed" was sent when    *)
(* the contacts did not show "closed", or changed over to it in that very  *)
(* tick, so the peer has not been closed for longer than the datagram is   *)
(* old; what IED A heard is a datagram at most MaxDelay old when it was    *)
(* heard, and has aged by "silence" since.  Beyond StaleAfter IED A        *)
(* believes nothing.                                                       *)
(***************************************************************************)
EXTENDS SelectBeforeOperate, PeerInterlock, TLAPS

\* What was read from the clock earlier is not ahead of it.
ReadingsPast ==
    /\ tickNow <= now
    /\ \A c \in Clients : \A t \in known[c] : t.at <= now

\* A reservation is what its token says: it belongs to a client that was given
\* the token, for this point, and it ends one time-out after the token was
\* made (newToken and select in sbo.lua read the clock one after the other).
ReservationsGenuine ==
    \A r \in Refs : Exists(reservations, r) =>
        LET res == reservations[r] IN
        /\ res.token \in known[res.client]
        /\ res.token.ref = r
        /\ res.expiresAt = res.token.at + Timeout[r]

IInv ==
    /\ TypeOK
    /\ ReadingsPast
    /\ ReservationsGenuine
    /\ OneCommandPerSelection
    /\ CommandsFresh
-----------------------------------------------------------------------------
(* The operators on the table.                                             *)

\* What the operators on the table return is a table.
LEMMA TableTypes ==
    ASSUME NEW table \in Tables, NEW r \in Refs, NEW c \in Clients,
           NEW t \in Tokens, NEW at \in Nat
    PROVE  /\ AfterSelect(table, r, c, t, at) \in Tables
           /\ AfterOperate(table, r, t, c, at) \in Tables
           /\ AfterCancel(table, r, t, c) \in Tables
           /\ AfterTick(table, at) \in Tables
<1>1. at + Timeout[r] \in Nat
  BY SboAssumption
<1>2. [client |-> c, token |-> t, expiresAt |-> at + Timeout[r]] \in Reservations
  BY <1>1 DEF Reservations
<1>3. AfterSelect(table, r, c, t, at) \in Tables
  BY <1>2 DEF AfterSelect, Tables
<1>4. AfterTick(table, at) \in Tables
  BY DEF AfterTick, Tables
<1>5. [table EXCEPT ![r] = NoReservation] \in Tables
  BY DEF Tables
<1>6. QED
  BY <1>3, <1>4, <1>5 DEF AfterOperate, AfterCancel

\* operate, cancel and the sweep only ever remove entries.
LEMMA OnlyRemoves ==
    ASSUME NEW table \in Tables, NEW r \in Refs, NEW c, NEW t, NEW at,
           NEW after,
           \/ after = AfterOperate(table, r, t, c, at)
           \/ after = AfterCancel(table, r, t, c)
           \/ after = AfterTick(table, at)
    PROVE  \A p \in Refs : Exists(after, p) => after[p] = table[p]
BY DEF AfterOperate, AfterCancel, AfterTick, Exists, Tables

\* A table that only lost entries keeps what IInv says of reservations.
LEMMA RemovalKeepsInvariant ==
    ASSUME TypeOK, ReservationsGenuine, OneCommandPerSelection,
           reservations' \in Tables,
           \A p \in Refs :
             Exists(reservations', p) => reservations'[p] = reservations[p],
           UNCHANGED <<known, grants, commands>>
    PROVE  ReservationsGenuine' /\ OneCommandPerSelection'
<1>1. \A p \in Refs : Exists(reservations', p) => Exists(reservations, p)
  BY DEF Exists
<1>2. ReservationsGenuine'
  BY <1>1 DEF ReservationsGenuine
<1>3. OneCommandPerSelection'
  BY <1>1 DEF OneCommandPerSelection, TypeOK, Counts
<1>4. QED
  BY <1>2, <1>3
-----------------------------------------------------------------------------
(* The inductive invariant.                                                *)

LEMMA InitIInv == Init => IInv
<1> SUFFICES ASSUME Init PROVE IInv
  OBVIOUS
<1> USE DEF Init
<1>1. TypeOK
  BY DEF TypeOK, Empty, Tables, NoCounts, Counts
<1>2. ReadingsPast
  BY DEF ReadingsPast
<1>3. ReservationsGenuine /\ OneCommandPerSelection
  BY DEF ReservationsGenuine, OneCommandPerSelection, Exists, Empty, NoCounts
<1>4. CommandsFresh
  BY DEF CommandsFresh
<1>5. QED
  BY <1>1, <1>2, <1>3, <1>4 DEF IInv

LEMMA SelectIInv ==
    ASSUME IInv, NEW c \in Clients, NEW r \in Refs, Select(c, r)
    PROVE  IInv'
<1> USE DEF IInv
<1>1. PICK s \in Salts :
        LET token == [ref |-> r, at |-> now, salt |-> s] IN
        /\ reservations' = AfterSelect(reservations, r, c, token, now)
        /\ known' = [known EXCEPT ![c] = @ \cup {token}]
  BY DEF Select
<1> DEFINE token == [ref |-> r, at |-> now, salt |-> s]
<1>2. token \in Tokens
  BY DEF Tokens, TypeOK
<1>3. reservations' \in Tables
  BY <1>1, <1>2, TableTypes DEF TypeOK
<1>4. known' \in [Clients -> SUBSET Tokens]
  BY <1>1, <1>2 DEF TypeOK
<1>5. TypeOK'
  <2>1. grants' \in Counts
    BY DEF Select, TypeOK, Counts
  <2>2. QED
    BY <1>3, <1>4, <2>1 DEF Select, TypeOK, clockVars
<1>6. ReadingsPast'
  BY <1>1 DEF ReadingsPast, Select, clockVars, TypeOK
<1>7. ReservationsGenuine'
  <2> SUFFICES ASSUME NEW p \in Refs, Exists(reservations', p)
               PROVE  /\ reservations'[p].token \in known'[reservations'[p].client]
                      /\ reservations'[p].token.ref = p
                      /\ reservations'[p].expiresAt
                           = reservations'[p].token.at + Timeout[p]
    BY DEF ReservationsGenuine
  <2>1. CASE p = r
    BY <1>1, <2>1 DEF AfterSelect, TypeOK, Tables
  <2>2. CASE p # r
    <3>1. reservations'[p] = reservations[p] /\ Exists(reservations, p)
      BY <1>1, <2>2 DEF AfterSelect, TypeOK, Tables, Exists
    <3>2. reservations[p].client \in Clients
      BY <3>1 DEF TypeOK, Tables, Exists, Reservations
    <3>3. known[reservations[p].client] \subseteq known'[reservations[p].client]
      BY <1>1, <3>2 DEF TypeOK
    <3>4. QED
      BY <3>1, <3>3 DEF ReservationsGenuine
  <2>3. QED
    BY <2>1, <2>2
<1>8. OneCommandPerSelection'
  <2> SUFFICES ASSUME NEW p \in Refs, NEW d \in Clients
               PROVE  commands'[p][d]
                        + (IF Exists(reservations', p) /\ reservations'[p].client = d
                           THEN 1 ELSE 0) <= grants'[p][d]
    BY DEF OneCommandPerSelection
  <2>1. /\ commands' = commands
        /\ grants' = [grants EXCEPT ![r][c] = @ + 1]
        /\ commands[p][d] \in Nat
        /\ grants[p][d] \in Nat
    BY DEF Select, TypeOK, Counts
  <2>2. commands[p][d] <= grants[p][d]
    BY <2>1 DEF OneCommandPerSelection
  <2>3. CASE p = r /\ d = c
    <3>1. grants'[p][d] = grants[p][d] + 1
      BY <2>1, <2>3 DEF TypeOK, Counts
    <3>2. QED
      BY <2>1, <2>2, <3>1
  <2>4. CASE p = r /\ d # c
    <3>1. reservations'[p].client = c
      BY <1>1, <2>4 DEF AfterSelect, TypeOK, Tables
    <3>2. grants'[p][d] = grants[p][d]
      BY <2>1, <2>4 DEF TypeOK, Counts
    <3>3. QED
      BY <2>1, <2>2, <2>4, <3>1, <3>2
  <2>5. CASE p # r
    <3>1. reservations'[p] = reservations[p]
      BY <1>1, <2>5 DEF AfterSelect, TypeOK, Tables
    <3>2. grants'[p][d] = grants[p][d]
      BY <2>1, <2>5 DEF TypeOK, Counts
    <3>3. QED
      BY <2>1, <3>1, <3>2 DEF OneCommandPerSelection, Exists
  <2>6. QED
    BY <2>3, <2>4, <2>5
<1>9. CommandsFresh'
  BY DEF CommandsFresh, Select
<1>10. QED
  BY <1>5, <1>6, <1>7, <1>8, <1>9

LEMMA OperateAcceptedIInv ==
    ASSUME IInv, NEW c \in Clients, NEW r \in Refs, NEW t \in known[c],
           OperateAccepted(c, r, t)
    PROVE  IInv'
<1> USE DEF IInv
<1>1. t \in Tokens /\ t.at \in Nat /\ t.at <= now /\ now \in Nat
  BY DEF TypeOK, Tokens, ReadingsPast
<1>2. /\ Exists(reservations, r)
      /\ reservations[r].expiresAt > now
      /\ reservations[r].token = t
      /\ reservations[r].client = c
  BY DEF OperateAccepted, OperateAllowed, Live, Matches
<1>3. reservations' = [reservations EXCEPT ![r] = NoReservation]
  BY <1>2 DEF OperateAccepted, AfterOperate, OperateAllowed, Matches
<1>4. reservations' \in Tables
  BY <1>3 DEF TypeOK, Tables
<1>5. TypeOK'
  <2>1. commands' \in Counts
    BY DEF OperateAccepted, TypeOK, Counts
  <2>2. age' \in [Refs -> Nat]
    BY <1>1 DEF OperateAccepted, TypeOK
  <2>3. QED
    BY <1>4, <2>1, <2>2 DEF OperateAccepted, TypeOK, clockVars
<1>6. ReadingsPast'
  BY DEF ReadingsPast, OperateAccepted, clockVars
<1>7. ReservationsGenuine'
  BY <1>3 DEF ReservationsGenuine, OperateAccepted, TypeOK, Tables, Exists
<1>8. OneCommandPerSelection'
  <2> SUFFICES ASSUME NEW p \in Refs, NEW d \in Clients
               PROVE  commands'[p][d]
                        + (IF Exists(reservations', p) /\ reservations'[p].client = d
                           THEN 1 ELSE 0) <= grants'[p][d]
    BY DEF OneCommandPerSelection
  <2>1. /\ grants' = grants
        /\ commands' = [commands EXCEPT ![r][c] = @ + 1]
        /\ commands[p][d] \in Nat
        /\ grants[p][d] \in Nat
    BY DEF OperateAccepted, TypeOK, Counts
  <2>2. commands[p][d] <= grants[p][d]
    BY <2>1 DEF OneCommandPerSelection
  <2>3. CASE p = r
    <3>1. ~ Exists(reservations', p)
      BY <1>3, <2>3 DEF TypeOK, Tables, Exists
    <3>2. CASE d = c
      <4>1. commands'[p][d] = commands[p][d] + 1
        BY <2>1, <2>3, <3>2 DEF TypeOK, Counts
      <4>2. commands[p][d] + 1 <= grants[p][d]
        BY <1>2, <2>3, <3>2 DEF OneCommandPerSelection
      <4>3. QED
        BY <2>1, <3>1, <4>1, <4>2
    <3>3. CASE d # c
      <4>1. commands'[p][d] = commands[p][d]
        BY <2>1, <2>3, <3>3 DEF TypeOK, Counts
      <4>2. QED
        BY <2>1, <2>2, <3>1, <4>1
    <3>4. QED
      BY <3>2, <3>3
  <2>4. CASE p # r
    <3>1. reservations'[p] = reservations[p]
      BY <1>3, <2>4 DEF TypeOK, Tables
    <3>2. commands'[p][d] = commands[p][d]
      BY <2>1, <2>4 DEF TypeOK, Counts
    <3>3. QED
      BY <2>1, <3>1, <3>2 DEF OneCommandPerSelection, Exists
  <2>5. QED
    BY <2>3, <2>4
<1>9. CommandsFresh'
  <2>1. reservations[r].expiresAt = t.at + Timeout[r]
    BY <1>2 DEF ReservationsGenuine
  <2>2. now - t.at < Timeout[r]
    BY <1>1, <1>2, <2>1, SboAssumption
  <2>3. age' = [age EXCEPT ![r] = now - t.at]
    BY DEF OperateAccepted
  <2>4. QED
    BY <2>2, <2>3 DEF CommandsFresh, TypeOK
<1>10. QED
  BY <1>5, <1>6, <1>7, <1>8, <1>9

LEMMA RemovalIInv ==
    ASSUME IInv, NEW c \in Clients, NEW r \in Refs, NEW t \in known[c],
           OperateRefused(c, r, t) \/ Cancel(c, r, t)
    PROVE  IInv'
<1> USE DEF IInv
<1>1. t \in Tokens /\ reservations \in Tables /\ now \in Nat
  BY DEF TypeOK
<1>2. \/ reservations' = AfterOperate(reservations, r, t, c, now)
      \/ reservations' = AfterCancel(reservations, r, t, c)
  BY DEF OperateRefused, Cancel
<1>3. reservations' \in Tables
  BY <1>1, <1>2, TableTypes
<1>4. \A p \in Refs :
        Exists(reservations', p) => reservations'[p] = reservations[p]
  BY <1>1, <1>2, OnlyRemoves
<1>5. UNCHANGED <<now, tickNow, serving, known, grants, commands, age>>
  BY DEF OperateRefused, Cancel, clockVars, histories
<1>6. ReservationsGenuine' /\ OneCommandPerSelection'
  BY <1>3, <1>4, <1>5, RemovalKeepsInvariant
<1>7. TypeOK' /\ ReadingsPast' /\ CommandsFresh'
  BY <1>3, <1>5 DEF TypeOK, ReadingsPast, CommandsFresh
<1>8. QED
  BY <1>6, <1>7

LEMMA TickIInv ==
    ASSUME IInv, Advance \/ StartTick \/ EndTick \/ AbortTick \/ Restart
    PROVE  IInv'
<1> USE DEF IInv, clockVars, histories
<1>1. UNCHANGED <<known, grants, commands, age>>
  BY DEF Advance, StartTick, EndTick, AbortTick, Restart
<1>2. reservations' \in Tables
  BY DEF Advance, StartTick, EndTick, AbortTick, Restart, TypeOK, AfterTick,
         Empty, Tables
<1>3. \A p \in Refs :
        Exists(reservations', p) => reservations'[p] = reservations[p]
  BY DEF Advance, StartTick, EndTick, AbortTick, Restart, TypeOK, AfterTick,
         Empty, Tables, Exists
<1>4. ReservationsGenuine' /\ OneCommandPerSelection'
  BY <1>1, <1>2, <1>3, RemovalKeepsInvariant
<1>5. TypeOK'
  <2>1. now' \in Nat /\ tickNow' \in Nat
    BY DEF Advance, StartTick, EndTick, AbortTick, Restart, TypeOK
  <2>2. serving' \in BOOLEAN
    BY Zenon DEF Advance, StartTick, EndTick, AbortTick, Restart, TypeOK
  <2>3. QED
    BY <1>1, <1>2, <2>1, <2>2 DEF TypeOK
<1>6. ReadingsPast'
  <2>1. now \in Nat /\ now' \in Nat /\ tickNow \in Nat /\ now <= now'
    BY DEF Advance, StartTick, EndTick, AbortTick, Restart, TypeOK
  <2>2. tickNow' <= now'
    BY <2>1 DEF Advance, StartTick, EndTick, AbortTick, Restart, ReadingsPast
  <2>3. \A c \in Clients : \A t \in known[c] : t.at \in Nat
    BY DEF TypeOK, Tokens
  <2>4. QED
    BY <1>1, <2>1, <2>2, <2>3 DEF ReadingsPast
<1>7. CommandsFresh'
  BY <1>1 DEF CommandsFresh
<1>8. QED
  BY <1>4, <1>5, <1>6, <1>7

LEMMA NextIInv == IInv /\ [Next]_vars => IInv'
<1> SUFFICES ASSUME IInv, [Next]_vars PROVE IInv'
  OBVIOUS
<1>1. CASE Advance \/ StartTick \/ EndTick \/ AbortTick \/ Restart
  BY <1>1, TickIInv
<1>2. ASSUME NEW c \in Clients, NEW r \in Refs, Handle(c, r)
      PROVE  IInv'
  BY <1>2, SelectIInv, OperateAcceptedIInv, RemovalIInv DEF Handle
<1>3. CASE UNCHANGED vars
  BY <1>3 DEF IInv, vars, TypeOK, ReadingsPast, ReservationsGenuine,
              OneCommandPerSelection, CommandsFresh, Exists
<1>4. QED
  BY <1>1, <1>2, <1>3 DEF Next

LEMMA Invariance == Spec => []IInv
BY InitIInv, NextIInv, PTL DEF Spec
-----------------------------------------------------------------------------
(* What the daemon guarantees, whatever the clients do.                    *)

\* The state of the daemon keeps its types: an entry of the reservation
\* table of sbo.lua is a client, a token and a deadline, or is absent.
THEOREM TypeCorrect == Spec => []TypeOK
BY Invariance, PTL DEF IInv

\* A client's commands on a point never outnumber its selections of it: no
\* repeated or late operate message drives an output twice on one selection,
\* and none gets a second try on one after the first has failed.
THEOREM SelectionsPayForCommands == Spec => []OneCommandPerSelection
BY Invariance, PTL DEF IInv

\* No output is driven on a selection older than its time-out.
THEOREM FreshCommands == Spec => []CommandsFresh
BY Invariance, PTL DEF IInv

\* Every step of the daemon is a step ControlReservation allows, or changes
\* nothing it can see.
LEMMA StepKeepsPromise ==
    ASSUME IInv, [Next]_vars
    PROVE  [Promise!Next]_(Promise!vars)
<1> DEFINE H == [p \in Refs |-> Holder(p)]
<1> USE DEF IInv
<1>1. ASSUME NEW rs \in SUBSET Refs, commands' = commands,
             H' = [p \in Refs |-> IF p \in rs THEN Nobody ELSE H[p]]
      PROVE  Promise!Next
  BY <1>1 DEF Promise!Next, Promise!End
<1>2. ASSUME commands' = commands, now \in Nat, now' \in Nat, now' >= now,
             reservations' \in Tables,
             \A p \in Refs : Live(reservations', p, now') =>
                               reservations'[p] = reservations[p]
      PROVE  Promise!Next
  <2> DEFINE rs == {p \in Refs : ~ Live(reservations', p, now')}
  <2>1. ASSUME NEW p \in Refs
        PROVE  Holder(p)' = IF p \in rs THEN Nobody ELSE Holder(p)
    <3>1. CASE p \in rs
      BY <3>1 DEF Holder
    <3>2. CASE p \notin rs
      <4>1. /\ Live(reservations', p, now')
            /\ reservations'[p] = reservations[p]
        BY <1>2, <3>2
      <4>2. reservations[p].expiresAt \in Nat
        BY <4>1 DEF Live, Exists, TypeOK, Tables, Reservations
      <4>3. Live(reservations, p, now)
        BY <1>2, <4>1, <4>2 DEF Live, Exists
      <4>4. QED
        BY <3>2, <4>1, <4>3 DEF Holder
    <3>3. QED
      BY <3>1, <3>2
  <2>2. H' = [p \in Refs |-> IF p \in rs THEN Nobody ELSE H[p]]
    BY <2>1
  <2>3. QED
    BY <1>1, <1>2, <2>2
<1>3. CASE Advance \/ StartTick \/ EndTick \/ AbortTick \/ Restart
  <2>1. commands' = commands /\ now \in Nat /\ now' \in Nat /\ now' >= now
    BY <1>3 DEF Advance, StartTick, EndTick, AbortTick, Restart, clockVars,
                histories, TypeOK
  <2>2. reservations' \in Tables
    BY <1>3 DEF Advance, StartTick, EndTick, AbortTick, Restart, TypeOK,
                AfterTick, Empty, Tables
  <2>3. \A p \in Refs :
          Exists(reservations', p) => reservations'[p] = reservations[p]
    BY <1>3 DEF Advance, StartTick, EndTick, AbortTick, Restart, TypeOK,
                AfterTick, Empty, Tables, Exists
  <2>4. QED
    BY <1>2, <2>1, <2>2, <2>3 DEF Live
<1>4. ASSUME NEW c \in Clients, NEW r \in Refs, NEW t \in known[c],
             OperateRefused(c, r, t) \/ Cancel(c, r, t)
      PROVE  Promise!Next
  <2>1. t \in Tokens /\ reservations \in Tables /\ now \in Nat
    BY <1>4 DEF TypeOK
  <2>2. \/ reservations' = AfterOperate(reservations, r, t, c, now)
        \/ reservations' = AfterCancel(reservations, r, t, c)
    BY <1>4 DEF OperateRefused, Cancel
  <2>3. reservations' \in Tables
    BY <2>1, <2>2, TableTypes
  <2>4. \A p \in Refs :
          Exists(reservations', p) => reservations'[p] = reservations[p]
    BY <2>1, <2>2, OnlyRemoves
  <2>5. commands' = commands /\ now' = now
    BY <1>4 DEF OperateRefused, Cancel, clockVars, histories
  <2>6. QED
    BY <1>2, <2>1, <2>3, <2>4, <2>5 DEF Live
<1>5. ASSUME NEW c \in Clients, NEW r \in Refs, NEW t \in known[c],
             OperateAccepted(c, r, t)
      PROVE  Promise!Next
  <2>1. /\ Live(reservations, r, now)
        /\ reservations[r].client = c
        /\ Matches(reservations, r, t, c)
        /\ now' = now
        /\ commands' = [commands EXCEPT ![r][c] = @ + 1]
        /\ reservations' = AfterOperate(reservations, r, t, c, now)
    BY <1>5 DEF OperateAccepted, OperateAllowed, Matches, clockVars
  <2>2. reservations' = [reservations EXCEPT ![r] = NoReservation]
    BY <2>1 DEF AfterOperate, Live
  <2>3. ASSUME NEW p \in Refs
        PROVE  Holder(p)' = IF p = r THEN Nobody ELSE Holder(p)
    BY <2>1, <2>2 DEF Holder, Live, Exists, TypeOK, Tables
  <2>4. H[r] = c
    BY <2>1 DEF Holder
  <2>5. H' = [H EXCEPT ![r] = Nobody]
    BY <2>3
  <2>6. Promise!Command(c, r)
    BY <2>1, <2>4, <2>5 DEF Promise!Command
  <2>7. QED
    BY <2>6 DEF Promise!Next
<1>6. ASSUME NEW c \in Clients, NEW r \in Refs, Select(c, r)
      PROVE  Promise!Next
  <2>1. PICK t : reservations' = AfterSelect(reservations, r, c, t, now)
    BY <1>6 DEF Select
  <2>2. /\ now' = now
        /\ commands' = commands
        /\ SelectAllowed(reservations, r, c, now)
    BY <1>6 DEF Select, clockVars
  <2>3. \A p \in Refs : p # r => reservations'[p] = reservations[p]
    BY <2>1 DEF AfterSelect, TypeOK, Tables
  <2>4. reservations'[r].client = c
    BY <2>1 DEF AfterSelect, TypeOK, Tables
  <2>5. \A p \in Refs : p # r => Holder(p)' = Holder(p)
    BY <2>2, <2>3 DEF Holder, Live, Exists
  <2>6. CASE Live(reservations', r, now')
    <3>1. Holder(r)' = c
      BY <2>4, <2>6 DEF Holder
    <3>2. Holder(r) \in {c, Nobody}
      BY <2>2 DEF Holder, SelectAllowed
    <3>3. H' = [H EXCEPT ![r] = c]
      BY <2>5, <3>1
    <3>4. Promise!Grant(c, r)
      BY <2>2, <3>2, <3>3 DEF Promise!Grant
    <3>5. QED
      BY <3>4 DEF Promise!Next
  <2>7. CASE ~ Live(reservations', r, now')
    <3>1. Holder(r)' = Nobody
      BY <2>7 DEF Holder
    <3>2. H' = [p \in Refs |-> IF p \in {r} THEN Nobody ELSE H[p]]
      BY <2>5, <3>1
    <3>3. QED
      BY <1>1, <2>2, <3>2
  <2>8. QED
    BY <2>6, <2>7
<1>7. CASE UNCHANGED vars
  <2>1. \A p \in Refs : Holder(p)' = Holder(p)
    BY <1>7 DEF vars, Holder, Live, Exists
  <2>2. UNCHANGED (Promise!vars)
    BY <1>7, <2>1 DEF vars, Promise!vars
  <2>3. QED
    BY <2>2
<1>8. QED
  BY <1>3, <1>4, <1>5, <1>6, <1>7 DEF Next, Handle

\* The IED's handlers over sbo.lua implement the promise: at most one holder,
\* no hand-over, only the holder's commands drive an output, one each.
THEOREM Implements == Spec => KeepsPromise
<1>1. Init => Promise!Init
  BY DEF Init, Promise!Init, Holder, Live, Exists, Empty, NoCounts
<1>2. QED
  BY <1>1, Invariance, StepKeepsPromise, PTL DEF Spec, KeepsPromise, Promise!Spec

\* A point that a client holds goes to another client only after a moment when
\* nobody holds it.
THEOREM NoHandOver == Spec => NeverHandedOver
<1>1. ASSUME IInv, [Next]_vars, NEW r \in Refs,
             Holder(r) # Nobody, Holder(r)' # Nobody
      PROVE  Holder(r)' = Holder(r)
  <2> DEFINE H == [p \in Refs |-> Holder(p)]
  <2>1. [Promise!Next]_(Promise!vars)
    BY <1>1, StepKeepsPromise
  <2>2. CASE \E c \in Clients, p \in Refs : Promise!Grant(c, p)
    BY <1>1, <2>2 DEF Promise!Grant
  <2>3. CASE \E c \in Clients, p \in Refs : Promise!Command(c, p)
    BY <1>1, <2>3 DEF Promise!Command
  <2>4. CASE \E rs \in SUBSET Refs : Promise!End(rs)
    BY <1>1, <2>4 DEF Promise!End
  <2>5. CASE UNCHANGED (Promise!vars)
    <3>1. H' = H
      BY <2>5 DEF Promise!vars
    <3>2. QED
      BY <3>1
  <2>6. QED
    BY <2>1, <2>2, <2>3, <2>4, <2>5 DEF Promise!Next
<1>2. IInv /\ [Next]_vars =>
        [\A r \in Refs : Holder(r) # Nobody /\ Holder(r)' # Nobody
                            => Holder(r)' = Holder(r)]_vars
  BY <1>1
<1>3. QED
  BY <1>2, Invariance, PTL DEF Spec, NeverHandedOver
-----------------------------------------------------------------------------
(* The interlock: news of the peer.                                        *)

\* What says that the peer is not closed.
Favourable(v) == v \notin {"closed", "unknown"}

\* Such a datagram under way is no older news than its age.
NewsInNet ==
    \A m \in net : Favourable(m.says) /\ position = "closed" => closedFor <= m.age

\* What IED A heard is no older news than a datagram's delay and the silence.
NewsHeard ==
    Favourable(heard) /\ silence # Never /\ silence <= StaleAfter /\ position = "closed"
        => closedFor <= MaxDelay + silence

News == NewsInNet /\ NewsHeard

PeerIInv == PeerTypeOK /\ News
-----------------------------------------------------------------------------
\* Both contacts of a breaker that rests show its position; a reading that
\* misses that the breaker is closed now was taken while it moved.
LEMMA ReadingType ==
    ASSUME PeerTypeOK, NEW p \in Positions
    PROVE  /\ ReadDouble(position, p) \in Positions
           /\ ReadDouble(position, p) # Failed
           /\ p = "closed" /\ p = position => ReadDouble(position, p) = "closed"
  BY DEF PeerTypeOK, Positions, Failed, ReadDouble, OpenOn, ClosedOn

LEMMA PolledType ==
    ASSUME PeerTypeOK, NEW reading \in Positions \cup {Failed}
    PROVE  /\ Polled(reading) \in [value : Positions \cup {"none"}, good : BOOLEAN]
           /\ reading # Failed => Polled(reading) = [value |-> reading, good |-> TRUE]
           /\ reading = Failed => ~ Polled(reading).good
  <1>1. record \in [value : Positions \cup {"none"}, good : BOOLEAN]
    BY DEF PeerTypeOK
  <1>2. CASE reading # Failed
    <2>1. Polled(reading) = [value |-> reading, good |-> TRUE]
      BY <1>2 DEF Polled
    <2>2. Polled(reading) \in [value : Positions \cup {"none"}, good : BOOLEAN]
      BY <1>2, <2>1
    <2>3. QED
      BY <1>2, <2>1, <2>2, Zenon
  <1>3. CASE reading = Failed
    <2>1. Polled(reading) = [record EXCEPT !.good = FALSE]
      BY <1>3 DEF Polled
    <2>2. /\ [record EXCEPT !.good = FALSE] \in [value : Positions \cup {"none"}, good : BOOLEAN]
          /\ [record EXCEPT !.good = FALSE].good = FALSE
      BY <1>1
    <2>3. QED
      BY <1>3, <2>1, <2>2, Zenon
  <1>4. QED
    BY <1>2, <1>3

\* What IED B publishes after a poll is what it read, or "unknown".
LEMMA SaysType ==
    ASSUME PeerTypeOK, NEW reading \in Positions \cup {Failed}
    PROVE  /\ Says(Polled(reading)) \in Readings
           /\ Says(Polled(reading)) # "unknown" => reading # Failed /\ Says(Polled(reading)) = reading
  <1>1. CASE reading # Failed
    <2>1. Polled(reading) = [value |-> reading, good |-> TRUE]
      BY <1>1, PolledType, Zenon
    <2>2. Says(Polled(reading)) = reading
      BY <2>1 DEF Says
    <2>3. QED
      BY <1>1, <2>2 DEF Readings
  <1>2. CASE reading = Failed
    <2>1. ~ Polled(reading).good
      BY <1>2, PolledType, Zenon
    <2>2. Says(Polled(reading)) = "unknown"
      BY <2>1 DEF Says
    <2>3. QED
      BY <2>2 DEF Readings
  <1>3. QED
    BY <1>1, <1>2

LEMMA ScheduleType ==
    ASSUME NEW s \in [step : Nat, dueIn : Nat]
    PROVE  /\ Reschedule(s) \in [step : Nat, dueIn : Nat]
           /\ MarkDirty(s) \in [step : Nat, dueIn : Nat]
  <1>1. s.step \in DOMAIN Burst => Burst[s.step] \in Nat
    BY GooseAssumption
  <1>2. QED
    BY <1>1, GooseAssumption DEF Reschedule, MarkDirty

\* One tick of IED B, with the schedule and the datagram it leaves.
LEMMA TickEffect ==
    ASSUME PeerTypeOK, NEW p \in Positions, NEW reading \in Positions \cup {Failed},
           NEW integrity \in BOOLEAN, NEW sent \in BOOLEAN,
           Tick(p, reading, integrity, sent)
    PROVE  /\ schedule' \in [step : Nat, dueIn : Nat]
           /\ net' \in SUBSET (net \cup {[says |-> Says(Polled(reading)), age |-> 0]})
  <1> DEFINE s == IF Changed(reading, integrity) THEN MarkDirty(schedule) ELSE schedule
  <1>1. s \in [step : Nat, dueIn : Nat]
    BY ScheduleType DEF PeerTypeOK
  <1>2. Reschedule(s) \in [step : Nat, dueIn : Nat]
    BY <1>1, ScheduleType
  <1>3. \/ schedule' = s /\ net' = net
        \/ schedule' = Reschedule(s) /\ net' = net
        \/ schedule' = Reschedule(s) /\ net' = net \cup {[says |-> Says(Polled(reading)), age |-> 0]}
    BY DEF Tick
  <1>4. QED
    BY <1>1, <1>2, <1>3

\* What the poll of a tick does, whether or not the tick comes to its end.
LEMMA PollEffect ==
    ASSUME PeerTypeOK, NEW p \in Positions, NEW reading \in {ReadDouble(position, p), Failed},
           Poll(p, reading)
    PROVE  /\ reading \in Positions \cup {Failed}
           /\ position' \in Positions
           /\ closedFor' \in 0 .. Window + 1
           /\ sinceTick' \in 0 .. MaxTick
           /\ UNCHANGED <<running, heard, silence, exposed>>
  BY ReadingType, GooseAssumption DEF Poll, MovesTo, PeerTypeOK, Window, subscriber
-----------------------------------------------------------------------------
LEMMA TypeInit == PeerInit => PeerTypeOK
  <1> SUFFICES ASSUME PeerInit PROVE PeerTypeOK
    OBVIOUS
  <1>1. /\ position \in Positions /\ running \in BOOLEAN /\ exposed \in BOOLEAN
        /\ heard \in Readings /\ net = {}
    BY DEF PeerInit, Positions, Readings
  <1>2. closedFor \in 0 .. Window + 1 /\ sinceTick \in 0 .. MaxTick /\ silence \in Nat \cup {Never}
    BY GooseAssumption DEF PeerInit, Window
  <1>3. record \in [value : Positions \cup {"none"}, good : BOOLEAN]
    BY DEF PeerInit, NewRecord
  <1>4. schedule \in [step : Nat, dueIn : Nat]
    BY DEF PeerInit, NewSchedule
  <1>5. QED
    BY <1>1, <1>2, <1>3, <1>4 DEF PeerTypeOK

LEMMA TypeStep == PeerTypeOK /\ [PeerNext]_peerVars => PeerTypeOK'
  <1> SUFFICES ASSUME PeerTypeOK, [PeerNext]_peerVars PROVE PeerTypeOK'
    OBVIOUS
  <1> USE GooseAssumption DEF PeerTypeOK
  <1>1. CASE TimePasses
    <2>1. closedFor' \in 0 .. Window + 1
      BY <1>1 DEF TimePasses, Later, Window
    <2>2. sinceTick' \in 0 .. MaxTick
      BY <1>1 DEF TimePasses, Later
    <2>3. schedule' \in [step : Nat, dueIn : Nat]
      <3>1. (IF schedule.dueIn > 0 THEN schedule.dueIn - 1 ELSE 0) \in Nat
        OBVIOUS
      <3>2. QED
        BY <1>1, <3>1 DEF TimePasses
    <2>4. net' \in SUBSET [says : Readings, age : 0 .. MaxDelay]
      <3>1. SUFFICES ASSUME NEW n \in net, n.age < MaxDelay
                     PROVE  [n EXCEPT !.age = @ + 1] \in [says : Readings, age : 0 .. MaxDelay]
        BY <1>1 DEF TimePasses
      <3>2. n \in [says : Readings, age : 0 .. MaxDelay]
        OBVIOUS
      <3>3. n.age + 1 \in 0 .. MaxDelay
        BY <3>1, <3>2
      <3>4. QED
        BY <3>2, <3>3
    <2>5. silence' \in Nat \cup {Never}
      BY <1>1 DEF TimePasses, Later, Never
    <2>6. QED
      BY <1>1, <2>1, <2>2, <2>3, <2>4, <2>5 DEF TimePasses
  <1>2. CASE BreakerMoves
    BY <1>2 DEF BreakerMoves, MovesTo, publisher, subscriber, Window
  <1>3. CASE AnyTick
    <2>0. PICK p \in Positions : \E reading \in {ReadDouble(position, p), Failed} :
            \/ \E integrity, sent \in BOOLEAN : Tick(p, reading, integrity, sent)
            \/ TickAborted(p, reading)
      BY <1>3 DEF AnyTick
    <2>1. PICK reading \in {ReadDouble(position, p), Failed} :
            \/ \E integrity, sent \in BOOLEAN : Tick(p, reading, integrity, sent)
            \/ TickAborted(p, reading)
      BY <2>0
    <2>2. Poll(p, reading) /\ record' \in {record, Polled(reading)}
      BY <2>1 DEF Tick, TickAborted
    <2>3. reading \in Positions \cup {Failed}
      BY <2>2, PollEffect
    <2>4. record' \in [value : Positions \cup {"none"}, good : BOOLEAN]
      BY <2>2, <2>3, PolledType
    <2>5. /\ schedule' \in [step : Nat, dueIn : Nat]
          /\ net' \in SUBSET [says : Readings, age : 0 .. MaxDelay]
      <3>1. CASE TickAborted(p, reading)
        BY <3>1 DEF TickAborted
      <3>2. ASSUME NEW integrity \in BOOLEAN, NEW sent \in BOOLEAN,
                   Tick(p, reading, integrity, sent)
            PROVE  <2>5
        <4>1. [says |-> Says(Polled(reading)), age |-> 0] \in [says : Readings, age : 0 .. MaxDelay]
          BY <2>3, SaysType
        <4>2. QED
          BY <2>3, <3>2, <4>1, TickEffect
      <3>3. QED
        BY <2>1, <3>1, <3>2
    <2>6. QED
      BY <2>2, <2>4, <2>5, PollEffect
  <1>4. CASE Receive
    BY <1>4 DEF Receive, publisher
  <1>5. CASE Close
    BY <1>5 DEF Close, publisher, subscriber, Window
  <1>6. CASE Stop
    BY <1>6 DEF Stop, subscriber
  <1>7. CASE Start
    BY <1>7 DEF Start, subscriber, NewRecord, NewSchedule
  <1>8. CASE RestartA
    BY <1>8 DEF RestartA, publisher, Readings
  <1>9. CASE UNCHANGED peerVars
    BY <1>9 DEF peerVars
  <1>10. QED
    BY <1>1, <1>2, <1>3, <1>4, <1>5, <1>6, <1>7, <1>8, <1>9 DEF PeerNext, Calm
-----------------------------------------------------------------------------
LEMMA NewsInit == PeerInit => News
  BY DEF PeerInit, News, NewsInNet, NewsHeard

\* News stays news when the contacts change over: the peer has then been
\* closed for no time at all.
LEMMA NewsAcrossMove ==
    ASSUME PeerTypeOK, NewsInNet, NewsHeard, NEW p \in Positions, MovesTo(p),
           UNCHANGED <<heard, silence>>
    PROVE  /\ \A m \in net : Favourable(m.says) /\ position' = "closed" => closedFor' <= m.age
           /\ NewsHeard'
  <1>1. CASE p = position
    BY <1>1 DEF MovesTo, NewsInNet, NewsHeard
  <1>2. CASE p # position
    <2>1. closedFor' = 0
      BY <1>2 DEF MovesTo
    <2>2. \A m \in net : m.age \in 0 .. MaxDelay
      BY DEF PeerTypeOK
    <2>3. \A m \in net : closedFor' <= m.age
      BY <2>1, <2>2, GooseAssumption
    <2>4. silence' # Never => closedFor' <= MaxDelay + silence'
      BY <2>1, GooseAssumption DEF PeerTypeOK
    <2>5. QED
      BY <2>3, <2>4 DEF NewsHeard
  <1>3. QED
    BY <1>1, <1>2

LEMMA NewsStep == PeerIInv /\ [PeerNext]_peerVars => News'
  <1> SUFFICES ASSUME PeerTypeOK, NewsInNet, NewsHeard, [PeerNext]_peerVars PROVE News'
    BY DEF PeerIInv, News
  <1> USE GooseAssumption
  <1>1. CASE TimePasses
    <2>1. position = "closed" => closedFor' <= closedFor + 1
      BY <1>1 DEF TimePasses, Later, PeerTypeOK
    <2>2. NewsInNet'
      <3>1. SUFFICES ASSUME NEW m \in net', Favourable(m.says), position = "closed"
                     PROVE  closedFor' <= m.age
        BY <1>1 DEF NewsInNet, TimePasses
      <3>2. PICK n \in net : m = [n EXCEPT !.age = @ + 1]
        BY <1>1 DEF TimePasses
      <3>3. n \in [says : Readings, age : 0 .. MaxDelay]
        BY DEF PeerTypeOK
      <3>4. Favourable(n.says) /\ m.age = n.age + 1
        BY <3>1, <3>2, <3>3
      <3>5. closedFor <= n.age
        BY <3>1, <3>4 DEF NewsInNet
      <3>6. QED
        BY <2>1, <3>1, <3>3, <3>4, <3>5, <1>1 DEF PeerTypeOK, TimePasses, Later
    <2>3. NewsHeard'
      <3>1. SUFFICES ASSUME Favourable(heard), silence' # Never,
                            silence' <= StaleAfter, position = "closed"
                     PROVE  closedFor' <= MaxDelay + silence'
        BY <1>1 DEF NewsHeard, TimePasses
      <3>2. silence # Never /\ silence \in Nat /\ silence' = silence + 1
        BY <1>1, <3>1 DEF TimePasses, Later, PeerTypeOK, Never
      <3>3. closedFor <= MaxDelay + silence
        BY <3>1, <3>2 DEF NewsHeard
      <3>4. QED
        BY <2>1, <3>1, <3>2, <3>3, <1>1 DEF PeerTypeOK, TimePasses, Later
    <2>4. QED
      BY <2>2, <2>3 DEF News
  <1>2. CASE BreakerMoves
    <2>1. PICK p \in Positions : MovesTo(p)
      BY <1>2 DEF BreakerMoves
    <2>2. UNCHANGED <<net, heard, silence>>
      BY <1>2 DEF BreakerMoves, subscriber
    <2>3. NewsHeard' /\ \A m \in net : Favourable(m.says) /\ position' = "closed" => closedFor' <= m.age
      BY <2>1, <2>2, NewsAcrossMove
    <2>4. QED
      BY <2>2, <2>3 DEF News, NewsInNet
  <1>3. CASE AnyTick
    <2>0. PICK p \in Positions : \E reading \in {ReadDouble(position, p), Failed} :
            \/ \E integrity, sent \in BOOLEAN : Tick(p, reading, integrity, sent)
            \/ TickAborted(p, reading)
      BY <1>3 DEF AnyTick
    <2>1. PICK reading \in {ReadDouble(position, p), Failed} :
            \/ \E integrity, sent \in BOOLEAN : Tick(p, reading, integrity, sent)
            \/ TickAborted(p, reading)
      BY <2>0
    <2>2. Poll(p, reading) /\ MovesTo(p) /\ UNCHANGED <<heard, silence>>
      BY <2>1 DEF Tick, TickAborted, Poll, subscriber
    <2>3. NewsHeard' /\ \A m \in net : Favourable(m.says) /\ position' = "closed" => closedFor' <= m.age
      BY <2>2, NewsAcrossMove
    <2>4. \A m \in net' : m \in net \/ (m.says = Says(Polled(reading)) /\ m.age = 0)
      BY <2>1, <2>2, PollEffect, TickEffect DEF TickAborted
    <2>5. Favourable(Says(Polled(reading))) /\ position' = "closed" => closedFor' = 0
      <3>1. SUFFICES ASSUME Favourable(Says(Polled(reading))), position' = "closed"
                     PROVE  closedFor' = 0
        OBVIOUS
      <3>2. reading \in Positions \cup {Failed}
        BY <2>2, PollEffect
      <3>3. reading # Failed /\ reading # "closed"
        BY <3>1, <3>2, SaysType DEF Favourable
      <3>4. p = "closed" /\ reading = ReadDouble(position, p)
        BY <2>2, <3>1, <3>3 DEF MovesTo
      <3>5. p # position
        BY <3>3, <3>4, ReadingType
      <3>6. QED
        BY <2>2, <3>5 DEF MovesTo
    <2>6. NewsInNet'
      BY <2>3, <2>4, <2>5 DEF NewsInNet
    <2>7. QED
      BY <2>3, <2>6 DEF News
  <1>4. CASE Receive
    <2>1. /\ UNCHANGED <<position, closedFor>>
          /\ net' \subseteq net
          /\ silence' = 0
      BY <1>4 DEF Receive
    <2>2. PICK m \in net : heard' = m.says
      BY <1>4 DEF Receive
    <2>3. m.age \in 0 .. MaxDelay /\ closedFor \in Nat
      BY DEF PeerTypeOK, Window
    <2>4. NewsInNet'
      BY <2>1 DEF NewsInNet
    <2>5. Favourable(heard') /\ position = "closed" => closedFor <= MaxDelay
      <3>1. Favourable(heard') /\ position = "closed" => closedFor <= m.age
        BY <2>2 DEF NewsInNet
      <3>2. QED
        BY <2>3, <3>1
    <2>6. NewsHeard'
      BY <2>1, <2>3, <2>5 DEF NewsHeard
    <2>7. QED
      BY <2>4, <2>6 DEF News
  <1>5. CASE Close
    BY <1>5 DEF Close, publisher, subscriber, News, NewsInNet, NewsHeard
  <1>6. CASE Stop
    BY <1>6 DEF Stop, subscriber, News, NewsInNet, NewsHeard
  <1>7. CASE Start
    BY <1>7 DEF Start, subscriber, News, NewsInNet, NewsHeard
  <1>8. CASE RestartA
    BY <1>8 DEF RestartA, publisher, News, NewsInNet, NewsHeard
  <1>9. CASE UNCHANGED peerVars
    BY <1>9 DEF peerVars, News, NewsInNet, NewsHeard
  <1>10. QED
    BY <1>1, <1>2, <1>3, <1>4, <1>5, <1>6, <1>7, <1>8, <1>9 DEF PeerNext, Calm

LEMMA PeerInvariance == PeerSpec => []PeerIInv
  <1>1. PeerInit => PeerIInv
    BY TypeInit, NewsInit DEF PeerIInv
  <1>2. PeerIInv /\ [PeerNext]_peerVars => PeerIInv'
    BY TypeStep, NewsStep DEF PeerIInv
  <1>3. QED
    BY <1>1, <1>2, PTL DEF PeerSpec
-----------------------------------------------------------------------------
\* Every variable of the two daemons and the network keeps its type: IED A
\* never takes anything but a position or "unknown" from a datagram.
THEOREM PeerTypes == PeerSpec => []PeerTypeOK
  <1>1. PeerIInv => PeerTypeOK
    BY DEF PeerIInv
  <1>2. QED
    BY <1>1, PeerInvariance, PTL

LEMMA RecentFromNews == PeerIInv => BeliefRecent
  <1> SUFFICES ASSUME PeerTypeOK, NewsHeard, NEW v \in Positions \ {"closed"},
                      Believes(v), position = "closed"
               PROVE  closedFor <= Window
    BY DEF PeerIInv, News, BeliefRecent
  <1>1. Favourable(heard) /\ silence # Never /\ silence \in Nat /\ silence <= StaleAfter
    BY GooseAssumption DEF Believes, Stale, PeerTypeOK, Never, Favourable, Positions
  <1>2. closedFor <= MaxDelay + silence
    BY <1>1 DEF NewsHeard
  <1>3. QED
    BY <1>1, <1>2, GooseAssumption DEF Window, PeerTypeOK

\* What IED A takes to be true about IED B's breaker (interlockBlocks over the
\* record that receiveGoosePeers keeps) was true at most StaleAfter + MaxDelay ago.
THEOREM RecentBelief == PeerSpec => []BeliefRecent
  BY RecentFromNews, PeerInvariance, PTL

LEMMA ExposureStep ==
    ASSUME ~ FailOpen
    PROVE  PeerIInv /\ ExposureBounded /\ [PeerNext]_peerVars => ExposureBounded'
  <1> SUFFICES ASSUME PeerIInv, ExposureBounded, [PeerNext]_peerVars PROVE ExposureBounded'
    OBVIOUS
  <1>1. CASE Close
    <2>1. heard \in Positions \ {"closed"} /\ ~ Stale
      BY <1>1 DEF Close, Blocked, PeerIInv, PeerTypeOK, Readings
    <2>2. Believes(heard)
      BY <2>1 DEF Believes
    <2>3. position = "closed" => closedFor <= Window
      BY <2>1, <2>2, RecentFromNews DEF BeliefRecent
    <2>4. closedFor \in Int /\ Window \in Int
      BY GooseAssumption DEF PeerIInv, PeerTypeOK, Window
    <2>5. ~ (position = "closed" /\ closedFor > Window)
      BY <2>3, <2>4
    <2>6. exposed' = (exposed \/ (position = "closed" /\ closedFor > Window))
      BY <1>1 DEF Close
    <2>7. QED
      BY <2>5, <2>6, Zenon DEF ExposureBounded
  <1>2. CASE UNCHANGED exposed
    BY <1>2 DEF ExposureBounded
  <1>3. [PeerNext]_peerVars => Close \/ UNCHANGED exposed
    BY DEF PeerNext, Calm, TimePasses, BreakerMoves, AnyTick, Tick, TickAborted, Poll,
           Receive, Stop, Start, RestartA, peerVars
  <1>4. QED
    BY <1>1, <1>2, <1>3

\* With a rule that does not fail open, IED A never closes its breaker onto one
\* whose contacts have shown "closed" for longer than StaleAfter + MaxDelay, for
\* every schedule of the publisher, whatever the network does, and whatever the
\* contacts showed and the ticks failed at before.
THEOREM BoundedExposure == ASSUME ~ FailOpen PROVE PeerSpec => []ExposureBounded
  <1>1. PeerInit => ExposureBounded
    BY GooseAssumption DEF PeerInit, ExposureBounded, Window
  <1>2. PeerIInv /\ ExposureBounded /\ [PeerNext]_peerVars => ExposureBounded'
    BY ExposureStep
  <1>3. QED
    BY <1>1, <1>2, PeerInvariance, PTL DEF PeerSpec
-----------------------------------------------------------------------------
LEMMA SentAtOnceStep ==
    ASSUME PeerTypeOK, NEW p \in Positions, NEW reading \in Positions \cup {Failed},
           NEW integrity \in BOOLEAN, Tick(p, reading, integrity, TRUE),
           record'.value # record.value \/ (record.good /\ ~ record'.good)
    PROVE  [says |-> Says(record'), age |-> 0] \in net'
  <1>1. record' = Polled(reading)
    BY DEF Tick
  <1>2. Changed(reading, integrity)
    <2>1. CASE reading = Failed
      <3>1. record'.value = record.value
        BY <1>1, <2>1 DEF Polled, PeerTypeOK
      <3>2. QED
        BY <2>1, <3>1 DEF Changed
    <2>2. CASE reading # Failed
      <3>1. record' = [value |-> reading, good |-> TRUE]
        BY <1>1, <2>2 DEF Polled
      <3>2. record'.value = reading /\ record'.good = TRUE
        BY <3>1
      <3>3. QED
        BY <2>2, <3>2 DEF Changed
    <2>3. QED
      BY <2>1, <2>2
  <1>3. Due(MarkDirty(schedule))
    BY DEF Due, MarkDirty
  <1>4. [says |-> Says(Polled(reading)), age |-> 0] \in net'
    BY <1>2, <1>3 DEF Tick
  <1>5. QED
    BY <1>1, <1>4

\* markDirty and dueSend together: the tick of IED B that sees its breaker in
\* a new position, and is kept from publishing neither by an error nor by the
\* network, sends that position, at every point of the schedule.
THEOREM PromptChange == PeerSpec => ChangeSentAtOnce
  <1>1. PeerSpec => []PeerTypeOK
    BY PeerTypes
  <1>2. PeerTypeOK =>
          [\A p \in Positions, reading \in Positions \cup {Failed}, integrity \in BOOLEAN :
             /\ Tick(p, reading, integrity, TRUE)
             /\ record'.value # record.value \/ (record.good /\ ~ record'.good)
             => [says |-> Says(record'), age |-> 0] \in net']_peerVars
    BY SentAtOnceStep
  <1>3. QED
    BY <1>1, <1>2, PTL DEF ChangeSentAtOnce
=============================================================================
