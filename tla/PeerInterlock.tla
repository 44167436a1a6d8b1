--------------------------- MODULE PeerInterlock ---------------------------
(***************************************************************************)
(* Peer-to-peer interlocking over GOOSE.  IED B polls the position of its  *)
(* breaker and publishes it with the schedule of sas/proto/goose.lua (a    *)
(* burst after a change, a heartbeat otherwise); IED A keeps what it last  *)
(* heard and refuses to close its own breaker while B's is heard closed,   *)
(* or while it does not know (interlockBlocks in sas/ied/engine.lua).      *)
(*                                                                         *)
(* The network loses, repeats and reorders datagrams, but holds none       *)
(* longer than MaxDelay.  Times are kept as ages and countdowns: "since"   *)
(* values stop counting where no decision depends on them any more.        *)
(***************************************************************************)
EXTENDS Integers, Sequences

CONSTANTS
    Burst,          \* cfg.goose.burstIntervalsSec
    Heartbeat,      \* cfg.goose.heartbeatSec
    StaleAfter,     \* the rule's staleAfterSec, or gooseStaleAfterSec
    FailOpen,       \* the rule's failOpen
    MaxTick,        \* the longest time between two ticks of IED B
    MaxDelay        \* the longest a datagram is under way, IED A's tick included

ASSUME GooseAssumption ==
    /\ Burst \in Seq(Nat)
    /\ Heartbeat \in Nat /\ StaleAfter \in Nat /\ MaxDelay \in Nat
    /\ MaxTick \in Nat \ {0}
    /\ FailOpen \in BOOLEAN

VARIABLES
    position,   \* what the two contacts of IED B's breaker show
    closedFor,  \* how long they have shown "closed"
    running,    \* IED B's daemon runs
    sinceTick,  \* the time since IED B's last tick
    record,     \* IED B's point record: value and whether its quality is good
    schedule,   \* IED B's publisher: burstStep and the time until nextSendAt
    net,        \* the datagrams under way: what they say, and their age
    heard,      \* IED A's record of the peer point
    silence,    \* the time since IED A last heard from IED B, or Never
    exposed     \* history: A closed when B had shown "closed" beyond Window

publisher == <<running, sinceTick, record, schedule>>
subscriber == <<heard, silence>>
peerVars == <<position, closedFor, running, sinceTick, record, schedule, net,
              heard, silence, exposed>>

\* The answers of readDouble: "intermediate" when neither contact is on, as
\* under way from one end to the other, and "bad" when both are.
Positions == {"open", "closed", "intermediate", "bad"}

\* The reading of a redstone component that answers with an error.
Failed == "failed"

\* What a value tells a reader that asks for good quality first.
Readings == Positions \cup {"unknown"}

Never == -1

\* The longest A may go on believing a position that B has left.
Window == StaleAfter + MaxDelay

Later(time, cap) == IF time < cap THEN time + 1 ELSE time

NewRecord == [value |-> "none", good |-> FALSE]

\* newPublisher: not in a burst, and due at once.
NewSchedule == [step |-> 0, dueIn |-> 0]

PeerInit ==
    /\ position = "open"
    /\ closedFor = 0
    /\ running = TRUE
    /\ sinceTick = 0
    /\ record = NewRecord
    /\ schedule = NewSchedule
    /\ net = {}
    /\ heard = "unknown"
    /\ silence = Never
    /\ exposed = FALSE
-----------------------------------------------------------------------------
(* Time and the breaker.                                                   *)

TimePasses ==
    /\ running => sinceTick < MaxTick
    /\ closedFor' = IF position = "closed" THEN Later(closedFor, Window + 1) ELSE 0
    /\ sinceTick' = Later(sinceTick, MaxTick)
    /\ schedule' = [schedule EXCEPT !.dueIn = IF @ > 0 THEN @ - 1 ELSE 0]
    /\ net' = {[m EXCEPT !.age = @ + 1] : m \in {n \in net : n.age < MaxDelay}}
    /\ silence' = IF silence = Never THEN Never ELSE Later(silence, StaleAfter + 1)
    /\ UNCHANGED <<position, running, record, heard, exposed>>

\* The contacts change over to p, or stay as they are.
MovesTo(p) ==
    /\ position' = p
    /\ closedFor' = IF p = position THEN closedFor ELSE 0

BreakerMoves ==
    /\ \E p \in Positions \ {position} : MovesTo(p)
    /\ UNCHANGED <<publisher, subscriber, net, exposed>>
-----------------------------------------------------------------------------
(* IED B.                                                                  *)

\* Variant: a change restarts the burst but waits for the send already due.
MarkDirtyLazily(s) == [step |-> 1, dueIn |-> s.dueIn]

\* markDirty (stNum and sqNum are never looked at by a subscriber).
MarkDirty(s) == [step |-> 1, dueIn |-> 0]

\* Variant: nothing is sent any more once the burst is over.
DueInBurst(s) == s.step > 0 /\ s.dueIn = 0

\* dueSend: its answer, and the schedule it leaves when the answer is true.
Due(s) == s.dueIn = 0

Reschedule(s) ==
    IF s.step \in DOMAIN Burst
    THEN [step |-> s.step + 1, dueIn |-> Burst[s.step]]
    ELSE [step |-> 0, dueIn |-> Heartbeat]

OpenOn(p) == p \in {"open", "bad"}
ClosedOn(p) == p \in {"closed", "bad"}

\* readDouble asks for the open contact and then for the closed one; the
\* contacts change over from p to q in between, if p and q differ.
ReadDouble(p, q) ==
    CASE OpenOn(p) /\ ClosedOn(q) -> "bad"
      [] OpenOn(p) /\ ~ ClosedOn(q) -> "open"
      [] ~ OpenOn(p) /\ ClosedOn(q) -> "closed"
      [] ~ OpenOn(p) /\ ~ ClosedOn(q) -> "intermediate"

\* pollPoints: a failed reading keeps the last value and makes it invalid.
Polled(reading) ==
    IF reading = Failed THEN [record EXCEPT !.good = FALSE]
                        ELSE [value |-> reading, good |-> TRUE]

\* The refs of pollPoints' changedRefs include this point.  A reading that
\* recovers with the value it had before is no change.
Changed(reading, integrity) ==
    IF reading = Failed THEN record.good
                        ELSE record.value # reading \/ integrity

Says(rec) == IF rec.good THEN rec.value ELSE "unknown"

\* What every tick of IED B does, in which the contacts may change over to p.
Poll(p, reading) ==
    /\ running
    /\ sinceTick > 0
    /\ reading \in {ReadDouble(position, p), Failed}
    /\ MovesTo(p)
    /\ sinceTick' = 0
    /\ UNCHANGED <<running, subscriber, exposed>>

\* One tick: poll, then publish if the publisher is due.  "integrity" is true
\* in the ticks in which the periodic refresh falls, "sent" if the network
\* takes the datagram: the schedule goes on even if it does not.
Tick(p, reading, integrity, sent) ==
    /\ Poll(p, reading)
    /\ record' = Polled(reading)
    /\ LET dirty == Changed(reading, integrity)
           s == IF dirty THEN MarkDirty(schedule) ELSE schedule
       IN IF Due(s)
          THEN /\ schedule' = Reschedule(s)
               /\ net' = IF sent
                         THEN net \cup {[says |-> Says(Polled(reading)), age |-> 0]}
                         ELSE net
          ELSE /\ schedule' = s
               /\ UNCHANGED net

\* An error ends the tick before publishGoose.  If the poll came first, its
\* change is stored, and is no change any more for the next tick.
TickAborted(p, reading) ==
    /\ Poll(p, reading)
    /\ record' \in {record, Polled(reading)}
    /\ UNCHANGED <<schedule, net>>

AnyTick ==
    \E p \in Positions : \E reading \in {ReadDouble(position, p), Failed} :
        \/ \E integrity, sent \in BOOLEAN : Tick(p, reading, integrity, sent)
        \/ TickAborted(p, reading)

Stop ==
    /\ running
    /\ running' = FALSE
    /\ UNCHANGED <<position, closedFor, sinceTick, record, schedule, net,
                   subscriber, exposed>>

Start ==
    /\ ~ running
    /\ running' = TRUE
    /\ sinceTick' = 0
    /\ record' = NewRecord
    /\ schedule' = NewSchedule
    /\ UNCHANGED <<position, closedFor, net, subscriber, exposed>>
-----------------------------------------------------------------------------
(* IED A.                                                                  *)

\* receiveGoosePeers drains what has arrived; every datagram carries the whole
\* dataset, so the last one drained decides.  A repeated datagram stays.
Receive ==
    /\ \E arrived \in SUBSET net :
         /\ \E last \in arrived : heard' = last.says
         /\ net' \in {net, net \ arrived}
    /\ silence' = 0
    /\ UNCHANGED <<position, closedFor, publisher, exposed>>

\* Variant: only a peer that was never heard is stale.
StaleIfNever == silence = Never

\* isStale; a peer that was never heard counts as stale too.
Stale == silence = Never \/ silence > StaleAfter

\* Variant: what is not known to be closed is taken to be open.
BlockedIfClosed == heard = "closed"

\* interlockBlocks, for a rule that blocks closing while the peer is closed.
Blocked ==
    IF Stale \/ heard = "unknown" THEN ~ FailOpen ELSE heard = "closed"

\* handleOperate, or a protection scheme that respects interlocks: the close
\* command that reaches the output of IED A.
Close ==
    /\ ~ Blocked
    /\ exposed' = (exposed \/ (position = "closed" /\ closedFor > Window))
    /\ UNCHANGED <<position, closedFor, publisher, subscriber, net>>

\* engine.stop and engine.start on IED A: no peer is known any more.
RestartA ==
    /\ heard' = "unknown"
    /\ silence' = Never
    /\ UNCHANGED <<position, closedFor, publisher, net, exposed>>

\* Both daemons stay up.
Calm ==
    \/ TimePasses
    \/ BreakerMoves
    \/ AnyTick
    \/ Receive
    \/ Close

PeerNext ==
    \/ Calm
    \/ Stop
    \/ Start
    \/ RestartA

PeerSpec == PeerInit /\ [][PeerNext]_peerVars

\* Time passes and IED B's daemon goes on ticking, however its ticks end.  If
\* again and again a tick finds its datagram due, then again and again one that
\* does reads the contacts, comes to its end and gets the datagram out, and
\* again and again the network lets one through.
PeerFairSpec ==
    /\ PeerSpec
    /\ WF_peerVars(TimePasses)
    /\ WF_peerVars(AnyTick)
    /\ SF_peerVars(/\ Due(schedule)
                   /\ \E integrity \in BOOLEAN : Tick(position, position, integrity, TRUE))
    /\ SF_peerVars(Receive)
-----------------------------------------------------------------------------
PeerTypeOK ==
    /\ position \in Positions
    /\ closedFor \in 0 .. Window + 1
    /\ running \in BOOLEAN
    /\ sinceTick \in 0 .. MaxTick
    /\ record \in [value : Positions \cup {"none"}, good : BOOLEAN]
    /\ schedule \in [step : Nat, dueIn : Nat]
    /\ net \in SUBSET [says : Readings, age : 0 .. MaxDelay]
    /\ heard \in Readings
    /\ silence \in Nat \cup {Never}
    /\ exposed \in BOOLEAN

\* IED A never closes its breaker when IED B's contacts have shown "closed" for
\* longer than the staleness limit and one datagram delay together, whatever
\* the network loses, repeats or reorders, whatever the contacts showed before,
\* whichever readings, sends and ticks of IED B fail, and whichever daemon
\* restarts.  It is as much as a check against a remote state can promise, and
\* a rule with failOpen does not promise it.  Nothing is promised about a
\* breaker whose contacts show "intermediate" or "bad": both are values of good
\* quality, and a rule that blocks on "closed" does not block on them.
ExposureBounded == ~ exposed

\* What IED A takes to be true about the peer.
Believes(v) == ~ Stale /\ heard = v

\* A wrong belief has been true not long ago: when IED A takes the peer to be
\* anything but closed and it is closed, it has not been so for long.
BeliefRecent ==
    \A v \in Positions \ {"closed"} :
        Believes(v) /\ position = "closed" => closedFor <= Window

\* When a tick of IED B stores a new position, or loses the one it had, and
\* neither an error nor the network keeps it from publishing, then the datagram
\* that says so goes out in that very tick, however far away the next heartbeat
\* was.  (A tick that fails leaves the news to the heartbeat.)
ChangeSentAtOnce ==
    [][\A p \in Positions, reading \in Positions \cup {Failed}, integrity \in BOOLEAN :
         /\ Tick(p, reading, integrity, TRUE)
         /\ record'.value # record.value \/ (record.good /\ ~ record'.good)
         => [says |-> Says(record'), age |-> 0] \in net']_peerVars

\* Once the position of IED B rests, its contacts read well and both daemons run
\* undisturbed, IED A comes to know the position, even if the whole burst after
\* the last change was lost, if the tick that saw the change ended in an error,
\* and although a reading that recovers with its old value is not reported as a
\* change: the heartbeat repeats the present state.
PeerLearns ==
    \A v \in Positions :
        <>[](running /\ position = v /\ record.good) /\ <>[][Calm]_peerVars =>
            <>[](heard = v) /\ []<> Believes(v)
=============================================================================
