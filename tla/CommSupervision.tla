-------------------------- MODULE CommSupervision --------------------------
(***************************************************************************)
(* How the SCADA daemon watches over one IED: the TCP connection that      *)
(* tickIeds polls and re-establishes, the GOOSE datagrams that tickGoose   *)
(* hears, the quality it gives the IED's points, and the two alarms of     *)
(* sas/alarms.lua it keeps about them.  IEDs do not influence each other.  *)
(*                                                                         *)
(* A connection dies in one of two ways: "broken", which the next receive  *)
(* reports, or "dead", which isConnected reports before anything is        *)
(* received (the socket is CLOSED, or a send has failed).                  *)
(***************************************************************************)
EXTENDS Alarms, Integers

CONSTANTS
    COMM, GOOSE,        \* the alarm ids COMM_<ied> and GOOSE_<ied>
    ReconnectInterval,  \* cfg.reconnectIntervalSec
    StaleAfter,         \* cfg.gooseStaleAfterSec
    MaxTick             \* the longest time between two ticks, with a blocking connect

ASSUME SupervisionAssumption ==
    /\ AlarmIds = {COMM, GOOSE} /\ COMM # GOOSE
    /\ ReconnectInterval \in Nat /\ StaleAfter \in Nat
    /\ MaxTick \in Nat \ {0}

VARIABLES
    reachable,      \* the IED would accept a connection
    conn,           \* iedEntry.client and its connection
    asked,          \* iedEntry.modelId is set: get-model is not answered yet
    connOk,         \* aggEntry.connOk
    sinceAttempt,   \* the time since iedEntry.lastAttemptAt, or Never
    quality,        \* the quality of a point that comes by report and by GOOSE
    silence,        \* the time since the last GOOSE datagram, or Never
    list,           \* the alarm list
    sinceTick,      \* the time since the last tick
    lostFor         \* history: how long there has been no working connection

link == <<conn, asked, connOk, sinceAttempt, quality>>
vars == <<reachable, conn, asked, connOk, sinceAttempt, quality, silence, list,
          sinceTick, lostFor>>

Never == -1

Later(age, cap) == IF age < cap THEN age + 1 ELSE age

\* How long a loss may go without its alarm.
AlarmDelay == ReconnectInterval + MaxTick

\* A word of the IED about the point in a step: none, or the quality it gives.
News == {"none", "good", "invalid"}

\* The quality after some news; the refs of unknown points are dropped.
Told(q, news) == IF q = "unlearned" \/ news = "none" THEN q ELSE news

Init ==
    /\ reachable \in BOOLEAN
    /\ conn = "none"
    /\ asked = FALSE
    /\ connOk = FALSE
    /\ sinceAttempt = Never
    /\ quality = "unlearned"
    /\ silence = Never
    /\ list = NewActiveList
    /\ sinceTick = 0
    /\ lostFor = 0
-----------------------------------------------------------------------------
Advance ==
    /\ sinceTick < MaxTick
    /\ sinceTick' = sinceTick + 1
    /\ sinceAttempt' = IF sinceAttempt = Never THEN Never
                       ELSE Later(sinceAttempt, ReconnectInterval)
    /\ silence' = IF silence = Never THEN Never ELSE Later(silence, StaleAfter + MaxTick + 1)
    /\ lostFor' = IF conn = "up" THEN 0 ELSE Later(lostFor, AlarmDelay + 1)
    /\ UNCHANGED <<reachable, conn, asked, connOk, quality, list>>

ReachabilityChanges ==
    /\ reachable' = ~ reachable
    /\ UNCHANGED <<link, silence, list, sinceTick, lostFor>>

\* The connection dies; noticed by the next tick at the earliest.
ConnectionDies ==
    /\ conn = "up"
    /\ conn' \in {"broken", "dead"}
    /\ UNCHANGED <<reachable, asked, connOk, sinceAttempt, quality, silence,
                   list, sinceTick, lostFor>>

\* handleAlarmAck
Acknowledge(id) ==
    /\ list' = Ack(list, id)
    /\ UNCHANGED <<reachable, link, silence, sinceTick, lostFor>>

\* engine.stop and engine.start
Restart ==
    /\ conn' = "none"
    /\ asked' = FALSE
    /\ connOk' = FALSE
    /\ sinceAttempt' = Never
    /\ quality' = "unlearned"
    /\ silence' = Never
    /\ list' = NewActiveList
    /\ lostFor' = 0
    /\ UNCHANGED <<reachable, sinceTick>>
-----------------------------------------------------------------------------
(* What a tick makes of the connection: a record of what it leaves behind. *)

Left(c, a, ok, q, since, l) ==
    [conn |-> c, asked |-> a, connOk |-> ok, quality |-> q, sinceAttempt |-> since, list |-> l]

\* Variant: the alarm of an IED that cannot be reached is left to disconnectIed.
ConnectIedSilently(connects) ==
    IF connects
    THEN Left("up", TRUE, FALSE, quality, 0, Clear(list, COMM))
    ELSE Left(conn, asked, connOk, quality, 0, list)

\* Variant: the alarm is cleared only when the model has been learned.
ConnectIedNotClearing(connects) ==
    IF connects
    THEN Left("up", TRUE, FALSE, quality, 0, list)
    ELSE Left(conn, asked, connOk, quality, 0, Raise(list, COMM))

\* connectIed: a client that is replaced is not told, nor is one that stays.
ConnectIed(connects) ==
    IF connects
    THEN Left("up", TRUE, FALSE, quality, 0, Clear(list, COMM))
    ELSE Left(conn, asked, connOk, quality, 0, Raise(list, COMM))

\* Variant: the entry keeps its closed client.
DisconnectIedKeeping ==
    Left("broken", asked, connOk, quality, sinceAttempt, Raise(list, COMM))

\* disconnectIed
DisconnectIed ==
    Left("none", FALSE, FALSE, quality, sinceAttempt, Raise(list, COMM))

\* pollIedClient on a live connection.  A get-model reply replaces the points,
\* and what was pushed before it is applied to the new ones.
PollIedClient(replied, news) ==
    LET learned == asked /\ replied IN
    Left(conn, asked /\ ~ learned, connOk \/ learned,
         Told(IF learned THEN "invalid" ELSE quality, news), sinceAttempt, list)

TickIeds(connects, replied, news) ==
    IF conn = "up" THEN PollIedClient(replied, news)
    ELSE IF conn = "broken" THEN DisconnectIed
    ELSE IF sinceAttempt = Never \/ sinceAttempt >= ReconnectInterval
    THEN ConnectIed(connects)
    ELSE Left(conn, asked, connOk, quality, sinceAttempt, list)

\* isStale, or nothing was heard yet.
Stale(age) == age = Never \/ age > StaleAfter

\* Variant: only an IED that was never heard is stale.
TickGooseForgiving(l, age, news) ==
    IF age # Never
    THEN [l EXCEPT !.quality = Told(@, news), !.list = Clear(@, GOOSE)]
    ELSE IF l.connOk
    THEN [l EXCEPT !.quality = IF @ = "unlearned" THEN @ ELSE "stale",
                   !.list = Raise(@, GOOSE)]
    ELSE [l EXCEPT !.quality = Told(@, news)]

\* tickGoose on what tickIeds left, "age" after the datagrams were drained.
TickGoose(l, age, news) ==
    IF ~ Stale(age)
    THEN [l EXCEPT !.quality = Told(@, news), !.list = Clear(@, GOOSE)]
    ELSE IF l.connOk
    THEN [l EXCEPT !.quality = IF @ = "unlearned" THEN @ ELSE "stale",
                   !.list = Raise(@, GOOSE)]
    ELSE [l EXCEPT !.quality = Told(@, news)]

Tick(replied, news, goose) ==
    /\ LET age == IF goose = "none" THEN silence ELSE 0
           l == TickGoose(TickIeds(reachable, replied, news), age, goose)
       IN /\ conn' = l.conn
          /\ asked' = l.asked
          /\ connOk' = l.connOk
          /\ quality' = l.quality
          /\ sinceAttempt' = l.sinceAttempt
          /\ list' = l.list
          /\ silence' = age
          /\ lostFor' = IF l.conn = "up" THEN 0 ELSE lostFor
    /\ sinceTick' = 0
    /\ UNCHANGED reachable

Calm ==
    \/ Advance
    \/ ReachabilityChanges
    \/ \E id \in AlarmIds : Acknowledge(id)
    \/ \E replied \in BOOLEAN, news, goose \in News : Tick(replied, news, goose)

Next ==
    \/ Calm
    \/ ConnectionDies
    \/ Restart

Spec == Init /\ [][Next]_vars

\* Time passes and ticks come, and some tick finds the model's reply.
FairSpec ==
    /\ Spec
    /\ WF_vars(Advance)
    /\ SF_vars(\E news, goose \in News : Tick(TRUE, news, goose))
-----------------------------------------------------------------------------
TypeOK ==
    /\ reachable \in BOOLEAN
    /\ conn \in {"none", "up", "broken", "dead"}
    /\ asked \in BOOLEAN
    /\ connOk \in BOOLEAN
    /\ sinceAttempt \in Nat \cup {Never}
    /\ quality \in {"unlearned", "invalid", "good", "stale"}
    /\ silence \in Nat \cup {Never}
    /\ list \in AlarmLists
    /\ sinceTick \in 0 .. MaxTick
    /\ lostFor \in 0 .. AlarmDelay + 1

\* The COMM alarm is never shown for an IED the daemon has a connection with.
NoFalseAlarm == Active(list, COMM) => conn \in {"none", "dead"}

\* However a connection was lost, also where disconnectIed is never called, and
\* however often it comes and goes: with none for longer than a reconnect
\* interval and a tick, the COMM alarm is active.
LossAlarmed == lostFor > AlarmDelay => Active(list, COMM)

\* A point shown as good, on a connection that works, belongs to an IED that
\* was heard not long ago, whatever reports it went on sending.
GoodMeansHeard ==
    connOk /\ conn = "up" /\ quality = "good" =>
        silence # Never /\ silence <= StaleAfter + MaxTick

\* Once an IED can be reached for good, and neither a connection dies nor the
\* daemon is restarted any more, it is connected and its model learned again,
\* whatever was lost in whatever way before.
Recovers ==
    <>[] reachable /\ <>[][Calm]_vars => <>[] (conn = "up" /\ connOk)
=============================================================================
