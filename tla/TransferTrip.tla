---------------------------- MODULE TransferTrip ----------------------------
(***************************************************************************)
(* A transformer's differential scheme (PDIF) and the breakers it trips.   *)
(* The scheme's IED owns no breaker: evaluateProtection sets the scheme's  *)
(* Op point, publishGoose sends it, and each breaker IED with a rule in    *)
(* remoteTrips opens its breaker when it hears it (remoteTripCheck).       *)
(*                                                                         *)
(* pollPoints asks the two current transformers one after the other, in    *)
(* either order, and the currents may change in between: the scheme then   *)
(* compares a current before the change with one after it.                 *)
(*                                                                         *)
(* The network may lose, delay, repeat and reorder datagrams without       *)
(* limit.  A tick in which Op changes publishes, unless an error ends it   *)
(* first; whether another one does is left open here: PeerInterlock has    *)
(* the publisher's schedule.                                               *)
(***************************************************************************)
EXTENDS Integers

CONSTANTS
    Breakers,       \* the IEDs with a remoteTrips rule for the scheme
    Currents,       \* the scaled readings of the two current transformers
    MinPickup,      \* cfg.minPickup
    SlopePercent    \* cfg.restraintSlope, in percent

ASSUME TransferAssumption ==
    /\ Currents \subseteq Int
    /\ MinPickup \in Nat /\ SlopePercent \in Nat

VARIABLES
    current,    \* the currents on the two sides of the transformer
    hadFault,   \* history: the transformer has had an internal fault
    polled,     \* the sides that this tick has asked already
    reading,    \* what it read there: one current, or none if the meter failed
    stepped,    \* history: the currents changed between this tick's two reads
    misled,     \* history: the scheme has operated in a tick in which they did
    latched,    \* state.latched of the scheme
    op,         \* the value of its Op point
    sent,       \* the values of Op in datagrams under way
    heard,      \* each breaker IED's record of Op
    tripped,    \* state.latched of each breaker IED's rule
    applied     \* history: remote trips applied since the IED was started

plant == <<current, hadFault>>
poll == <<polled, reading, stepped>>
scheme == <<latched, op, misled>>
breakers == <<heard, tripped, applied>>
vars == <<plant, poll, scheme, sent, breakers>>

\* The high and the low voltage winding.
Sides == {"hv", "lv"}

NoReadings == [s \in Sides |-> {}]

\* The Op point is false or true.
Ops == {"idle", "operated"}

Magnitude(i) == IF i < 0 THEN 0 - i ELSE i

\* The last line of pdif.evaluate, for two currents.
Differential(i1, i2) ==
    LET diffCur == Magnitude(i1 - i2) IN
    /\ diffCur > MinPickup
    /\ 200 * diffCur > SlopePercent * (Magnitude(i1) + Magnitude(i2))

Init ==
    /\ \E i \in Currents : current = [s \in Sides |-> i]
    /\ hadFault = FALSE
    /\ polled = {}
    /\ reading = NoReadings
    /\ stepped = FALSE
    /\ misled = FALSE
    /\ latched = FALSE
    /\ op = "idle"
    /\ sent = {}
    /\ heard = [b \in Breakers |-> "nothing"]
    /\ tripped = [b \in Breakers |-> FALSE]
    /\ applied = [b \in Breakers |-> 0]
-----------------------------------------------------------------------------
Fault(currents) == Differential(currents["hv"], currents["lv"])

CurrentsChange ==
    /\ current' \in [Sides -> Currents]
    /\ hadFault' = (hadFault \/ Fault(current'))
    /\ stepped' = (stepped \/ polled \notin {{}, Sides})
    /\ UNCHANGED <<polled, reading, scheme, sent, breakers>>

\* Datagrams are lost, or come to their end.
Lose ==
    /\ sent' \in SUBSET sent
    /\ UNCHANGED <<plant, poll, scheme, breakers>>
-----------------------------------------------------------------------------
(* The transformer IED.                                                    *)

\* pollPoints gets to the current transformer of one side.
Read(s, ok) ==
    /\ s \notin polled
    /\ polled' = polled \cup {s}
    /\ reading' = [reading EXCEPT ![s] = IF ok THEN {current[s]} ELSE {}]
    /\ UNCHANGED <<plant, stepped, scheme, sent, breakers>>

\* Variant: a reading that is missing counts as no current.
OperatesOnMissing ==
    LET orNone(readings) == IF readings = {} THEN {0} ELSE readings
    IN \E i \in orNone(reading["hv"]), j \in orNone(reading["lv"]) : Differential(i, j)

\* pdif.evaluate, for which a reading that failed is nil.
Operates == \E i \in reading["hv"], j \in reading["lv"] : Differential(i, j)

\* Variant: only a change is published.
PublishedOnChange(due) == IF op' # op THEN sent \cup {op'} ELSE sent

\* publishGoose: when Op has not changed, a retransmission, a heartbeat or
\* another point's change may be due.
Published(due) == IF due \/ op' # op THEN sent \cup {op'} ELSE sent

\* evaluateProtection for the scheme.  With no local target tripFromProtection
\* always succeeds.
Evaluate ==
    \/ /\ ~ latched
       /\ Operates
       /\ latched' = TRUE
       /\ op' = "operated"
       /\ misled' = (misled \/ stepped)
    \/ /\ latched \/ ~ Operates
       /\ UNCHANGED scheme

\* The next tick polls anew before it evaluates.
PollForgotten ==
    /\ polled' = {}
    /\ reading' = NoReadings
    /\ stepped' = FALSE

\* The rest of a tick that has polled both sides.
Tick(due) ==
    /\ polled = Sides
    /\ Evaluate
    /\ sent' = Published(due)
    /\ PollForgotten
    /\ UNCHANGED <<plant, breakers>>

\* An error ends the tick before publishGoose, before or after the scheme was
\* evaluated; a change of Op is not published then, and no longer counts as one
\* in the next tick.
TickAborted ==
    /\ \/ polled = Sides /\ Evaluate
       \/ UNCHANGED scheme
    /\ PollForgotten
    /\ UNCHANGED <<plant, sent, breakers>>

\* engine.stop and engine.start
Restart ==
    /\ latched' = FALSE
    /\ op' = "idle"
    /\ PollForgotten
    /\ UNCHANGED <<plant, misled, sent, breakers>>
-----------------------------------------------------------------------------
(* A breaker IED.                                                          *)

\* The rule's condition, "eq" true, on a point of good quality.
Called(value) == value = "operated"

\* Variant: the rule trips for as long as Op is true.
TrippedNever(b, called) == tripped

\* The latch of the rule: set whether or not the output could be driven.
Tripped(b, called) == [tripped EXCEPT ![b] = @ \/ called]

\* receiveGoosePeers: nothing has arrived, or the last datagram that did decides.
Drained(b) == {heard[b]} \cup sent

\* receiveGoosePeers and remoteTripCheck, with or without a working output.
BreakerTick(b, value, driven) ==
    /\ value \in Drained(b)
    /\ heard' = [heard EXCEPT ![b] = value]
    /\ tripped' = Tripped(b, Called(value))
    /\ applied' = IF ~ tripped[b] /\ Called(value) /\ driven
                 THEN [applied EXCEPT ![b] = @ + 1] ELSE applied
    /\ UNCHANGED <<plant, poll, scheme, sent>>

\* An error between the two ends the tick.
BreakerTickAborted(b, value) ==
    /\ value \in Drained(b)
    /\ heard' = [heard EXCEPT ![b] = value]
    /\ UNCHANGED <<plant, poll, scheme, sent, tripped, applied>>

BreakerRestart(b) ==
    /\ heard' = [heard EXCEPT ![b] = "nothing"]
    /\ tripped' = [tripped EXCEPT ![b] = FALSE]
    /\ applied' = [applied EXCEPT ![b] = 0]
    /\ UNCHANGED <<plant, poll, scheme, sent>>

\* The transformer IED goes on ticking.
Proceeds ==
    \/ \E s \in Sides, ok \in BOOLEAN : Read(s, ok)
    \/ TickAborted
    \/ \E due \in BOOLEAN : Tick(due)

\* The daemons stay up and the currents stay as they are.
Calm ==
    \/ Lose
    \/ Proceeds
    \/ \E b \in Breakers : \E v \in Drained(b) :
         BreakerTickAborted(b, v) \/ \E driven \in BOOLEAN : BreakerTick(b, v, driven)

Next ==
    \/ Calm
    \/ CurrentsChange
    \/ Restart
    \/ \E b \in Breakers : BreakerRestart(b)

Spec == Init /\ [][Next]_vars

\* A good reading, the first of its tick or one that follows a good one.
FirstGoodRead == polled = {} /\ \E s \in Sides : Read(s, TRUE)
SecondGoodRead == \E s \in Sides : reading # NoReadings /\ Read(s, TRUE)

\* The transformer IED goes on.  Again and again it reads a current, again and
\* again the other one after that, and again and again a tick that has both
\* publishes; and a tick of each breaker IED that is not aborted ends its
\* draining with the latest value.
FairSpec ==
    /\ Spec
    /\ WF_vars(Proceeds)
    /\ SF_vars(FirstGoodRead)
    /\ SF_vars(SecondGoodRead)
    /\ SF_vars((\A s \in Sides : reading[s] # {}) /\ Tick(TRUE))
    /\ \A b \in Breakers : SF_vars(\E driven \in BOOLEAN : BreakerTick(b, op, driven))
-----------------------------------------------------------------------------
TypeOK ==
    /\ current \in [Sides -> Currents]
    /\ hadFault \in BOOLEAN
    /\ polled \in SUBSET Sides
    /\ reading \in [Sides -> SUBSET Currents]
    /\ stepped \in BOOLEAN /\ misled \in BOOLEAN
    /\ latched \in BOOLEAN /\ op \in Ops
    /\ sent \in SUBSET Ops
    /\ heard \in [Breakers -> Ops \cup {"nothing"}]
    /\ tripped \in [Breakers -> BOOLEAN]
    /\ applied \in [Breakers -> Nat]

\* No breaker is tripped from afar unless the transformer has had an internal
\* fault, or the scheme has operated in a tick between whose two reads the
\* currents changed: whatever readings fail, whatever the network delays or
\* repeats, and whichever daemon is restarted.  Neither missing readings nor a
\* missing peer are taken for a fault, and a change of the currents at any
\* other moment is not either.
RemoteTripJustified == \A b \in Breakers : applied[b] > 0 => hadFault \/ misled

\* Op stays true and is published for ever, but a breaker is pulsed for it at
\* most once between two starts of its IED's daemon.
RemoteTripOnce == \A b \in Breakers : applied[b] <= 1

\* A lasting internal fault is seen by all breaker IEDs once the currents rest
\* and the daemons stay up, although single readings and datagrams may be lost
\* for ever.
FaultReachesBreakers ==
    <>[]Fault(current) /\ <>[][Calm]_vars => <>[](\A b \in Breakers : tripped[b])
=============================================================================
