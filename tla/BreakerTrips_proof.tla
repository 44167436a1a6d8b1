------------------------- MODULE BreakerTrips_proof -------------------------
(***************************************************************************)
(* What opens a breaker, and what lets go of its coils: the remote trips   *)
(* of TransferTrip, for any breakers, currents and settings, and the coils *)
(* of CoilPulses, for any pulse length.                                    *)
(*                                                                         *)
(* Remote trips: the news of a fault only ever comes from a fault, or from *)
(* a tick between whose two reads the currents changed.  In any other tick *)
(* what was read is what the currents are until the second read, and the   *)
(* two readings are those of one moment.                                   *)
(***************************************************************************)
EXTENDS TransferTrip, CoilPulses, TLAPS

\* What the news of an operated scheme may come from.
Cause == hadFault \/ misled

\* Every place at which a fault can be told of.
NewsGenuine ==
    /\ Fault(current) => hadFault
    /\ op = "operated" => Cause
    /\ "operated" \in sent => Cause
    /\ \A b \in Breakers : heard[b] = "operated" => Cause

\* What a tick has read so far, as long as nothing has changed under its hands.
ReadingsAgree ==
    /\ \A s \in Sides : s \notin polled => reading[s] = {}
    /\ ~ stepped /\ polled # Sides =>
         \A s \in Sides : reading[s] \subseteq {current[s]}
    /\ ~ stepped /\ polled = Sides /\ Operates => hadFault

\* A rule that is not latched has not tripped yet.
PulsesCounted ==
    \A b \in Breakers :
        /\ applied[b] <= 1
        /\ applied[b] > 0 => tripped[b] /\ Cause

IInv == TypeOK /\ NewsGenuine /\ ReadingsAgree /\ PulsesCounted

\* In a healthy transformer the currents are equal and the scheme is at rest.
LEMMA NoDifference == \A i \in Int : ~ Differential(i, i)
<1> SUFFICES ASSUME NEW i \in Int PROVE ~ Differential(i, i)
  OBVIOUS
<1>1. Magnitude(i - i) = 0
  BY DEF Magnitude
<1> QED
  BY <1>1, TransferAssumption DEF Differential

\* A tick that has read nothing, or has forgotten it, disagrees with nothing.
LEMMA NothingReadAgrees ==
    ASSUME PollForgotten
    PROVE  ReadingsAgree' /\ polled' \in SUBSET Sides /\ stepped' \in BOOLEAN
           /\ reading' \in [Sides -> SUBSET Currents]
<1>1. polled' = {} /\ reading' = [s \in Sides |-> {}] /\ stepped' = FALSE
  BY DEF PollForgotten, NoReadings
<1>2. \A s \in Sides : reading'[s] = {}
  BY <1>1
<1>3. polled' # Sides
  BY <1>1 DEF Sides
<1>4. ReadingsAgree'
  BY <1>2, <1>3 DEF ReadingsAgree
<1> QED
  BY <1>1, <1>4

LEMMA InitIInv == Init => IInv
<1> SUFFICES ASSUME Init PROVE IInv
  OBVIOUS
<1> PICK i \in Currents : current = [s \in Sides |-> i]
  BY DEF Init
<1>1. TypeOK
  <2>1. hadFault \in BOOLEAN /\ stepped \in BOOLEAN /\ misled \in BOOLEAN /\ latched \in BOOLEAN
    BY DEF Init
  <2>2. tripped \in [Breakers -> BOOLEAN] /\ applied \in [Breakers -> Nat]
    BY DEF Init
  <2>3. current \in [Sides -> Currents] /\ reading \in [Sides -> SUBSET Currents]
    BY DEF Init, NoReadings
  <2>4. op \in Ops /\ heard \in [Breakers -> Ops \cup {"nothing"}]
    BY DEF Init, Ops
  <2> QED
    BY <2>1, <2>2, <2>3, <2>4 DEF Init, TypeOK
<1>2. NewsGenuine
  <2>1. ~ Fault(current)
    <3>1. i \in Int /\ current["hv"] = i /\ current["lv"] = i
      BY TransferAssumption DEF Sides
    <3> QED
      BY <3>1, NoDifference DEF Fault
  <2> QED
    BY <2>1 DEF Init, NewsGenuine
<1>3. ReadingsAgree
  BY DEF Init, ReadingsAgree, NoReadings, Sides
<1>4. PulsesCounted
  <2>1. \A b \in Breakers : applied[b] = 0
    BY Zenon DEF Init
  <2>2. 0 <= 1 /\ ~ (0 > 0)
    OBVIOUS
  <2> QED
    BY <2>1, <2>2, Zenon DEF PulsesCounted
<1> QED
  BY <1>1, <1>2, <1>3, <1>4 DEF IInv
-----------------------------------------------------------------------------
(* The transformer IED.                                                    *)

LEMMA ReadIInv ==
    ASSUME IInv, NEW s \in Sides, NEW ok \in BOOLEAN, Read(s, ok)
    PROVE  IInv'
<1> DEFINE got == IF ok THEN {current[s]} ELSE {}
<1>1. UNCHANGED <<current, hadFault, stepped, misled, latched, op, sent, heard, tripped, applied>>
  BY DEF Read, plant, scheme, breakers
<1>2. got \in SUBSET Currents /\ got \subseteq {current[s]}
  BY DEF IInv, TypeOK
<1>3. /\ reading' = [reading EXCEPT ![s] = got]
      /\ polled' = polled \cup {s}
      /\ s \notin polled
  BY DEF Read
<1> HIDE DEF got
<1>4. reading \in [Sides -> SUBSET Currents] /\ polled \in SUBSET Sides
  BY DEF IInv, TypeOK
<1>5. reading' \in [Sides -> SUBSET Currents] /\ polled' \in SUBSET Sides
  BY <1>2, <1>3, <1>4
<1>6. TypeOK'
  BY <1>1, <1>5 DEF IInv, TypeOK
<1>7. NewsGenuine' /\ PulsesCounted'
  BY <1>1 DEF IInv, NewsGenuine, PulsesCounted, Cause, Fault, Differential
<1>8. ~ stepped => \A r \in Sides : reading'[r] \subseteq {current[r]}
  <2>1. polled # Sides
    BY <1>3
  <2>2. ~ stepped => \A r \in Sides : reading[r] \subseteq {current[r]}
    BY <2>1 DEF IInv, ReadingsAgree
  <2> QED
    BY <1>2, <1>3, <1>4, <2>2
<1>9. ~ stepped /\ Operates' => hadFault
  <2> SUFFICES ASSUME ~ stepped, NEW i \in reading'["hv"], NEW j \in reading'["lv"],
                      Differential(i, j)
               PROVE  hadFault
    BY DEF Operates, Differential
  <2>1. "hv" \in Sides /\ "lv" \in Sides
    BY DEF Sides
  <2>2. i = current["hv"] /\ j = current["lv"]
    BY <1>8, <2>1
  <2>3. Fault(current)
    BY <2>2 DEF Fault
  <2> QED
    BY <2>3 DEF IInv, NewsGenuine
<1>10. \A r \in Sides : r \notin polled' => reading'[r] = {}
  BY <1>3, <1>4 DEF IInv, ReadingsAgree
<1>11. ReadingsAgree'
  BY <1>1, <1>8, <1>9, <1>10 DEF ReadingsAgree
<1> QED
  BY <1>6, <1>7, <1>11 DEF IInv

\* Whatever publishGoose sends after an evaluation is news of a fault only if
\* there was a cause for it.
LEMMA EvaluateIInv ==
    ASSUME IInv, (polled = Sides /\ Evaluate) \/ UNCHANGED scheme, PollForgotten,
           sent' \in {sent, sent \cup {op'}},
           UNCHANGED <<plant, breakers>>
    PROVE  IInv'
<1> USE DEF IInv
<1>1. UNCHANGED <<current, hadFault, heard, tripped, applied>>
  BY DEF plant, breakers
<1>2. ReadingsAgree' /\ polled' \in SUBSET Sides /\ stepped' \in BOOLEAN
      /\ reading' \in [Sides -> SUBSET Currents]
  BY NothingReadAgrees
<1>3. Fault(current)' = Fault(current)
  BY <1>1 DEF Fault, Differential
<1>4. CASE polled = Sides /\ Operates /\ latched' = TRUE /\ op' = "operated"
           /\ misled' = (misled \/ stepped)
  <2>1. misled' \in BOOLEAN /\ (misled => misled') /\ (stepped => misled')
    BY <1>4, Zenon DEF TypeOK
  <2>2. ~ stepped => hadFault
    BY <1>4 DEF ReadingsAgree
  <2>3. Cause' /\ (Cause => Cause')
    BY <1>1, <2>1, <2>2 DEF Cause
  <2>4. TypeOK'
    BY <1>1, <1>2, <1>4, <2>1 DEF TypeOK, Ops
  <2>5. NewsGenuine'
    BY <1>1, <1>3, <2>3 DEF NewsGenuine
  <2>6. PulsesCounted'
    BY <1>1, <2>3 DEF PulsesCounted
  <2> QED
    BY <1>2, <2>4, <2>5, <2>6
<1>5. CASE UNCHANGED scheme
  <2>1. latched' = latched /\ op' = op /\ misled' = misled
    BY <1>5 DEF scheme
  <2>2. Cause' = Cause
    BY <1>1, <2>1 DEF Cause
  <2>3. sent' \in SUBSET Ops
    BY <2>1 DEF TypeOK
  <2>4. TypeOK'
    BY <1>1, <1>2, <2>1, <2>3 DEF TypeOK
  <2>5. "operated" \in sent' => Cause
    BY <2>1 DEF NewsGenuine
  <2>6. NewsGenuine'
    BY <1>1, <1>3, <2>1, <2>2, <2>5 DEF NewsGenuine
  <2>7. PulsesCounted'
    BY <1>1, <2>2 DEF PulsesCounted
  <2> QED
    BY <1>2, <2>4, <2>6, <2>7
<1> QED
  BY <1>4, <1>5 DEF Evaluate

LEMMA TickIInv ==
    ASSUME IInv, NEW due \in BOOLEAN, Tick(due) \/ TickAborted
    PROVE  IInv'
<1>1. /\ (polled = Sides /\ Evaluate) \/ UNCHANGED scheme
      /\ PollForgotten /\ UNCHANGED <<plant, breakers>>
  BY DEF Tick, TickAborted
<1>2. sent' \in {sent, sent \cup {op'}}
  BY DEF Tick, TickAborted, Published
<1> QED
  BY <1>1, <1>2, EvaluateIInv
-----------------------------------------------------------------------------
(* The breaker IEDs.                                                       *)

LEMMA DrainedGenuine ==
    ASSUME IInv, NEW b \in Breakers, NEW value \in Drained(b)
    PROVE  value \in Ops \cup {"nothing"} /\ (value = "operated" => Cause)
BY DEF IInv, TypeOK, NewsGenuine, Drained

LEMMA HeardIInv ==
    ASSUME IInv, NEW b \in Breakers, NEW value \in Ops \cup {"nothing"},
           value = "operated" => Cause,
           heard' = [heard EXCEPT ![b] = value],
           UNCHANGED <<plant, poll, scheme, sent>>
    PROVE  /\ heard' \in [Breakers -> Ops \cup {"nothing"}]
           /\ NewsGenuine' /\ ReadingsAgree'
           /\ UNCHANGED <<current, hadFault, polled, reading, stepped, misled, latched, op, sent>>
           /\ Cause' = Cause
<1>1. heard \in [Breakers -> Ops \cup {"nothing"}]
  BY DEF IInv, TypeOK
<1>2. \A k \in Breakers : heard'[k] = "operated" => Cause
  BY <1>1 DEF IInv, NewsGenuine
<1>3. UNCHANGED <<current, hadFault, polled, reading, stepped, misled, latched, op, sent>>
  BY DEF plant, poll, scheme
<1>4. Fault(current)' = Fault(current) /\ Operates' = Operates /\ Cause' = Cause
  BY <1>3 DEF Fault, Differential, Operates, Cause
<1>5. ReadingsAgree'
  BY <1>3, <1>4 DEF IInv, ReadingsAgree
<1> QED
  BY <1>1, <1>2, <1>3, <1>4, <1>5 DEF IInv, NewsGenuine

LEMMA BreakerTickIInv ==
    ASSUME IInv, NEW b \in Breakers, NEW value \in Drained(b), NEW driven \in BOOLEAN,
           BreakerTick(b, value, driven)
    PROVE  IInv'
<1>1. /\ heard' \in [Breakers -> Ops \cup {"nothing"}]
      /\ NewsGenuine' /\ ReadingsAgree'
      /\ UNCHANGED <<current, hadFault, polled, reading, stepped, misled, latched, op, sent>>
      /\ Cause' = Cause
  BY DrainedGenuine, HeardIInv DEF BreakerTick
<1>2. tripped' = [tripped EXCEPT ![b] = tripped[b] \/ Called(value)]
  BY DEF BreakerTick, Tripped
<1>3. Called(value) => Cause
  BY DrainedGenuine DEF Called
<1>4. tripped \in [Breakers -> BOOLEAN] /\ applied \in [Breakers -> Nat]
  BY DEF IInv, TypeOK
<1>5. (tripped[b] \/ Called(value)) \in BOOLEAN
  BY <1>4 DEF Called
<1>6. tripped' \in [Breakers -> BOOLEAN]
  BY <1>2, <1>4, <1>5, Zenon
<1>7. CASE ~ tripped[b] /\ Called(value) /\ driven
  <2>1. applied' = [applied EXCEPT ![b] = applied[b] + 1]
    BY <1>7 DEF BreakerTick
  <2>2. applied[b] = 0
    BY <1>4, <1>7 DEF IInv, PulsesCounted
  <2>3. tripped'[b]
    BY <1>2, <1>4, <1>7, Zenon
  <2>4. \A k \in Breakers \ {b} : tripped'[k] = tripped[k] /\ applied'[k] = applied[k]
    BY <1>2, <1>4, <2>1
  <2>5. applied' \in [Breakers -> Nat] /\ applied'[b] = 1
    BY <1>4, <2>1, <2>2
  <2>6. PulsesCounted'
    BY <1>1, <1>3, <1>7, <2>3, <2>4, <2>5 DEF IInv, PulsesCounted
  <2>7. TypeOK'
    BY <1>1, <1>6, <2>5 DEF IInv, TypeOK
  <2> QED
    BY <1>1, <2>6, <2>7 DEF IInv
<1>8. CASE ~ (~ tripped[b] /\ Called(value) /\ driven)
  <2>1. applied' = applied
    BY <1>8 DEF BreakerTick
  <2>2. \A k \in Breakers : tripped[k] => tripped'[k]
    BY <1>2, <1>4, Zenon
  <2>3. PulsesCounted'
    BY <1>1, <2>1, <2>2 DEF IInv, PulsesCounted
  <2>4. TypeOK'
    BY <1>1, <1>4, <1>6, <2>1 DEF IInv, TypeOK
  <2> QED
    BY <1>1, <2>3, <2>4 DEF IInv
<1> QED
  BY <1>7, <1>8

LEMMA BreakerRestartIInv ==
    ASSUME IInv, NEW b \in Breakers, BreakerRestart(b)
    PROVE  IInv'
<1>1. /\ heard' \in [Breakers -> Ops \cup {"nothing"}]
      /\ NewsGenuine' /\ ReadingsAgree'
      /\ UNCHANGED <<current, hadFault, polled, reading, stepped, misled, latched, op, sent>>
      /\ Cause' = Cause
  BY HeardIInv DEF BreakerRestart
<1>2. /\ tripped' = [tripped EXCEPT ![b] = FALSE]
      /\ applied' = [applied EXCEPT ![b] = 0]
  BY DEF BreakerRestart
<1>3. tripped \in [Breakers -> BOOLEAN] /\ applied \in [Breakers -> Nat]
  BY DEF IInv, TypeOK
<1>4. tripped' \in [Breakers -> BOOLEAN] /\ applied' \in [Breakers -> Nat]
  BY <1>2, <1>3
<1>5. PulsesCounted'
  BY <1>1, <1>2, <1>3 DEF IInv, PulsesCounted
<1>6. TypeOK'
  BY <1>1, <1>4 DEF IInv, TypeOK
<1> QED
  BY <1>1, <1>5, <1>6 DEF IInv
-----------------------------------------------------------------------------
LEMMA CurrentsChangeIInv == IInv /\ CurrentsChange => IInv'
<1> SUFFICES ASSUME IInv, CurrentsChange PROVE IInv'
  OBVIOUS
<1>1. UNCHANGED <<polled, reading, misled, latched, op, sent, heard, tripped, applied>>
  BY DEF CurrentsChange, scheme, breakers
<1>2. current' \in [Sides -> Currents]
  BY DEF CurrentsChange
<1>3. /\ hadFault' \in BOOLEAN /\ (hadFault => hadFault')
      /\ Fault(current)' => hadFault'
  BY DEF CurrentsChange, Fault, Differential
<1>4. stepped' = (stepped \/ polled \notin {{}, Sides})
  BY DEF CurrentsChange
<1>5. stepped' \in BOOLEAN
  BY <1>4
<1>6. TypeOK'
  BY <1>1, <1>2, <1>3, <1>5 DEF IInv, TypeOK
<1>7. Cause => Cause'
  BY <1>1, <1>3 DEF Cause
<1>8. NewsGenuine' /\ PulsesCounted'
  BY <1>1, <1>3, <1>7 DEF IInv, NewsGenuine, PulsesCounted
<1>9. ReadingsAgree'
  <2>1. \A s \in Sides : s \notin polled' => reading'[s] = {}
    BY <1>1 DEF IInv, ReadingsAgree
  <2>2. ~ stepped' => ~ stepped /\ polled \in {{}, Sides}
    BY <1>4
  <2>3. ~ stepped' /\ polled' # Sides => \A s \in Sides : reading'[s] = {}
    BY <1>1, <2>1, <2>2
  <2>4. Operates' = Operates
    BY <1>1 DEF Operates, Differential
  <2>5. ~ stepped' /\ polled' = Sides /\ Operates' => hadFault'
    BY <1>1, <1>3, <2>2, <2>4 DEF IInv, ReadingsAgree
  <2> QED
    BY <2>1, <2>3, <2>5 DEF ReadingsAgree
<1> QED
  BY <1>6, <1>8, <1>9 DEF IInv

LEMMA NextIInv == IInv /\ [Next]_vars => IInv'
<1> SUFFICES ASSUME IInv, [Next]_vars PROVE IInv'
  OBVIOUS
<1>1. CASE CurrentsChange
  BY <1>1, CurrentsChangeIInv
<1>2. CASE Lose \/ UNCHANGED vars
  <2>1. UNCHANGED <<current, hadFault, polled, reading, stepped, misled, latched, op,
                    heard, tripped, applied>>
    BY <1>2 DEF Lose, vars, plant, poll, scheme, breakers
  <2>2. sent' \in SUBSET sent
    BY <1>2 DEF Lose, vars
  <2>3. Fault(current)' = Fault(current) /\ Operates' = Operates /\ Cause' = Cause
    BY <2>1 DEF Fault, Differential, Operates, Cause
  <2>4. TypeOK'
    BY <2>1, <2>2 DEF IInv, TypeOK
  <2>5. NewsGenuine' /\ PulsesCounted'
    BY <2>1, <2>2, <2>3 DEF IInv, NewsGenuine, PulsesCounted
  <2>6. ReadingsAgree'
    BY <2>1, <2>3 DEF IInv, ReadingsAgree
  <2> QED
    BY <2>4, <2>5, <2>6 DEF IInv
<1>3. CASE Proceeds
  BY <1>3, ReadIInv, TickIInv DEF Proceeds
<1>4. ASSUME NEW b \in Breakers, NEW value \in Drained(b), BreakerTickAborted(b, value)
      PROVE  IInv'
  <2>1. /\ heard' \in [Breakers -> Ops \cup {"nothing"}]
        /\ NewsGenuine' /\ ReadingsAgree'
        /\ UNCHANGED <<current, hadFault, polled, reading, stepped, misled, latched, op, sent>>
        /\ Cause' = Cause
    BY <1>4, DrainedGenuine, HeardIInv DEF BreakerTickAborted
  <2>2. UNCHANGED <<tripped, applied>>
    BY <1>4 DEF BreakerTickAborted
  <2> QED
    BY <2>1, <2>2 DEF IInv, TypeOK, PulsesCounted
<1>5. ASSUME NEW b \in Breakers, NEW value \in Drained(b), NEW driven \in BOOLEAN,
             BreakerTick(b, value, driven)
      PROVE  IInv'
  BY <1>5, BreakerTickIInv
<1>6. CASE Restart
  <2>1. UNCHANGED <<current, hadFault, misled, sent, heard, tripped, applied>>
    BY <1>6 DEF Restart, plant, breakers
  <2>2. latched' \in BOOLEAN /\ op' = "idle" /\ PollForgotten
    BY <1>6 DEF Restart
  <2>3. Fault(current)' = Fault(current) /\ Cause' = Cause
    BY <2>1 DEF Fault, Differential, Cause
  <2>4. ReadingsAgree' /\ polled' \in SUBSET Sides /\ stepped' \in BOOLEAN
        /\ reading' \in [Sides -> SUBSET Currents]
    BY <2>2, NothingReadAgrees
  <2>5. TypeOK'
    BY <2>1, <2>2, <2>4 DEF IInv, TypeOK, Ops
  <2>6. NewsGenuine' /\ PulsesCounted'
    BY <2>1, <2>2, <2>3 DEF IInv, NewsGenuine, PulsesCounted
  <2> QED
    BY <2>4, <2>5, <2>6 DEF IInv
<1>7. ASSUME NEW b \in Breakers, BreakerRestart(b) PROVE IInv'
  BY <1>7, BreakerRestartIInv
<1> QED
  BY <1>1, <1>2, <1>3, <1>4, <1>5, <1>6, <1>7 DEF Next, Calm

LEMMA Invariance == Spec => []IInv
BY InitIInv, NextIInv, PTL DEF Spec

\* What the breaker IEDs record and latch keeps its type, for any datagrams.
THEOREM TypeCorrect == Spec => []TypeOK
BY Invariance, PTL DEF IInv

\* remoteTripCheck never opens a breaker for a transformer without a fault, but
\* on the word of a scheme that compared a current before a change with one
\* after it (pollPoints reads them one after the other).
THEOREM JustifiedRemoteTrip == Spec => []RemoteTripJustified
<1>1. IInv => RemoteTripJustified
  BY DEF IInv, PulsesCounted, Cause, RemoteTripJustified
<1> QED
  BY <1>1, Invariance, PTL

\* The latch of a remoteTrips rule lets one pulse through between two starts.
THEOREM SingleRemoteTrip == Spec => []RemoteTripOnce
<1>1. IInv => RemoteTripOnce
  BY DEF IInv, PulsesCounted, RemoteTripOnce
<1> QED
  BY <1>1, Invariance, PTL
-----------------------------------------------------------------------------
(* The coils.                                                              *)

\* A tick's reading of the clock is never ahead of it.
ReadingPast == tickNow <= now

CoilIInv == CoilTypeOK /\ ReadingPast /\ StuckOnlyByFault

LEMMA CoilOfType == \A value \in DOMAIN CoilOf : CoilOf[value] \in Coils
BY DEF CoilOf, Coils

LEMMA CoilInitIInv == CoilInit => CoilIInv
<1> SUFFICES ASSUME CoilInit PROVE CoilIInv
  OBVIOUS
<1>1. on \in [Coils -> BOOLEAN] /\ inTick \in BOOLEAN
  BY Zenon DEF CoilInit
<1>2. \A k \in Coils : ~ on[k]
  BY DEF CoilInit
<1>3. QED
  BY <1>1, <1>2 DEF CoilInit, CoilIInv, CoilTypeOK, ReadingPast, StuckOnlyByFault

\* A new pulse keeps the invariant, whenever it began.
LEMMA PulseStartIInv ==
    ASSUME CoilIInv, NEW k \in Coils, NEW at \in Nat, PulseStart(k, at),
           UNCHANGED <<now, tickNow, inTick>>
    PROVE  CoilIInv'
<1> USE DEF CoilIInv
<1> DEFINE p == [coil |-> k, resetAt |-> at + PulseLength]
<1>1. p \in Pulses
  BY PulseAssumption DEF Pulses
<1>2. CoilTypeOK'
  BY <1>1 DEF CoilTypeOK, PulseStart
<1>3. StuckOnlyByFault'
  <2> SUFFICES ASSUME NEW j \in Coils, on'[j]
               PROVE  j \in CoilsOf(pulses') \cup forgotten'
    BY DEF StuckOnlyByFault, CoilsOf
  <2>1. CASE j = k
    <3>1. p \in pulses' /\ p.coil = j
      BY <2>1 DEF PulseStart
    <3>2. QED
      BY <3>1 DEF CoilsOf
  <2>2. CASE j # k
    <3>1. on[j]
      BY <2>2 DEF PulseStart, CoilTypeOK
    <3>2. j \in CoilsOf(pulses) \cup forgotten
      BY <3>1 DEF StuckOnlyByFault
    <3>3. QED
      BY <2>2, <3>2 DEF PulseStart, CoilsOf
  <2>3. QED
    BY <2>1, <2>2
<1>4. QED
  BY <1>2, <1>3 DEF ReadingPast

LEMMA EndTickIInv ==
    ASSUME CoilIInv, NEW failed \in SUBSET Coils, EndTick(failed)
    PROVE  CoilIInv'
<1> USE DEF CoilIInv
<1>1. /\ on' = [k \in Coils |-> on[k] /\ k \notin CoilsOf(Due(tickNow)) \ failed]
      /\ pulses' = pulses \ Due(tickNow)
      /\ forgotten' = forgotten \cup
           {k \in failed : on[k] /\ k \notin CoilsOf(pulses \ Due(tickNow))}
      /\ UNCHANGED <<now, tickNow>>
      /\ inTick' = FALSE
  BY DEF EndTick, PulseTick
<1>2. CoilTypeOK'
  <2>1. on' \in [Coils -> BOOLEAN]
    BY <1>1 DEF CoilTypeOK
  <2>2. QED
    BY <1>1, <2>1 DEF CoilTypeOK
<1>3. StuckOnlyByFault'
  <2> SUFFICES ASSUME NEW k \in Coils, on'[k]
               PROVE  k \in CoilsOf(pulses') \cup forgotten'
    BY DEF StuckOnlyByFault, CoilsOf
  <2>1. on[k] /\ (k \notin CoilsOf(Due(tickNow)) \/ k \in failed)
    BY <1>1
  <2>2. k \in CoilsOf(pulses) \cup forgotten
    BY <2>1 DEF StuckOnlyByFault
  <2>3. CASE k \in forgotten
    BY <1>1, <2>3
  <2>4. CASE k \in CoilsOf(pulses) /\ k \notin CoilsOf(pulses \ Due(tickNow))
    <3>1. k \in CoilsOf(Due(tickNow))
      BY <2>4 DEF CoilsOf, Due
    <3>2. QED
      BY <1>1, <2>1, <2>4, <3>1
  <2>5. CASE k \in CoilsOf(pulses \ Due(tickNow))
    BY <1>1, <2>5
  <2>6. QED
    BY <2>2, <2>3, <2>4, <2>5
<1>4. QED
  BY <1>1, <1>2, <1>3 DEF ReadingPast

LEMMA CoilNextIInv == CoilIInv /\ [CoilNext]_coilVars => CoilIInv'
<1> SUFFICES ASSUME CoilIInv, [CoilNext]_coilVars PROVE CoilIInv'
  OBVIOUS
<1> USE DEF CoilIInv
<1>1. CASE Advance \/ StartTick \/ AbortTick
  <2>1. CoilTypeOK'
    <3>1. now' \in Nat /\ tickNow' \in Nat
      BY <1>1 DEF Advance, StartTick, AbortTick, CoilTypeOK
    <3>2. inTick' \in BOOLEAN
      BY <1>1, Zenon DEF Advance, StartTick, AbortTick, CoilTypeOK
    <3>3. UNCHANGED <<on, pulses, forgotten>>
      BY <1>1 DEF Advance, StartTick, AbortTick
    <3>4. QED
      BY <3>1, <3>2, <3>3 DEF CoilTypeOK
  <2>2. ReadingPast'
    BY <1>1 DEF Advance, StartTick, AbortTick, CoilTypeOK, ReadingPast
  <2>3. StuckOnlyByFault'
    BY <1>1 DEF Advance, StartTick, AbortTick, StuckOnlyByFault, CoilsOf
  <2>4. QED
    BY <2>1, <2>2, <2>3
<1>2. ASSUME NEW value \in DOMAIN CoilOf, Operate(value)
      PROVE  CoilIInv'
  <2>1. CoilOf[value] \in Coils /\ now \in Nat
    BY CoilOfType DEF CoilTypeOK
  <2>2. /\ UNCHANGED <<now, tickNow, inTick>>
        /\ PulseStart(CoilOf[value], now)
    BY <1>2 DEF Operate
  <2>3. QED
    BY <2>1, <2>2, PulseStartIInv
<1>3. ASSUME NEW failed \in SUBSET Coils, EndTick(failed)
      PROVE  CoilIInv'
  BY <1>3, EndTickIInv
<1>4. CASE CoilRestart
  BY <1>4 DEF CoilRestart, CoilTypeOK, ReadingPast, StuckOnlyByFault, CoilsOf
<1>5. CASE UNCHANGED coilVars
  BY <1>5 DEF coilVars, CoilTypeOK, ReadingPast, StuckOnlyByFault, CoilsOf
<1>6. QED
  BY <1>1, <1>2, <1>3, <1>4, <1>5 DEF CoilNext, Sound, Faulty

LEMMA CoilInvariance == CoilSpec => []CoilIInv
BY CoilInitIInv, CoilNextIInv, PTL DEF CoilSpec

\* The pulse table and the coils keep their types.
THEOREM CoilTypeCorrect == CoilSpec => []CoilTypeOK
BY CoilInvariance, PTL DEF CoilIInv

\* pulseTick never leaves a coil energised for good by itself: a failed write
\* or a restart in the middle of a pulse has to help.
THEOREM NoStuckCoilWithoutFault == CoilSpec => []StuckOnlyByFault
BY CoilInvariance, PTL DEF CoilIInv

\* pulseTick releases a coil only when a pulse on it has run its length.
THEOREM NoEarlyRelease == CoilSpec => ReleasedWhenDue
<1>1. ASSUME CoilIInv, [CoilNext]_coilVars, NEW k \in Coils, on[k], ~ on'[k]
      PROVE  \E p \in pulses : p.coil = k /\ p.resetAt <= now
  <2>1. CASE \E failed \in SUBSET Coils : EndTick(failed)
    <3>1. k \in CoilsOf(Due(tickNow))
      BY <1>1, <2>1 DEF EndTick, PulseTick
    <3>2. PICK p \in pulses : p.coil = k /\ p.resetAt <= tickNow
      BY <3>1 DEF CoilsOf, Due
    <3>3. p.resetAt \in Nat /\ tickNow \in Nat /\ now \in Nat /\ tickNow <= now
      BY <1>1 DEF CoilIInv, CoilTypeOK, ReadingPast, Pulses
    <3>4. QED
      BY <3>2, <3>3
  <2>2. ASSUME NEW value \in DOMAIN CoilOf, Operate(value)
        PROVE  FALSE
    <3>1. CoilOf[value] \in Coils
      BY CoilOfType
    <3>2. on' = [on EXCEPT ![CoilOf[value]] = TRUE]
      BY <2>2 DEF Operate, PulseStart
    <3>3. on \in [Coils -> BOOLEAN]
      BY <1>1 DEF CoilIInv, CoilTypeOK
    <3>4. QED
      BY <1>1, <3>1, <3>2, <3>3
  <2>3. CASE Advance \/ StartTick \/ AbortTick \/ CoilRestart \/ UNCHANGED coilVars
    BY <1>1, <2>3 DEF Advance, StartTick, AbortTick, CoilRestart, coilVars
  <2>4. QED
    BY <1>1, <2>1, <2>2, <2>3 DEF CoilNext, Sound, Faulty
<1>2. CoilIInv /\ [CoilNext]_coilVars =>
        [\A k \in Coils : on[k] /\ ~ on'[k] =>
           \E p \in pulses : p.coil = k /\ p.resetAt <= now]_coilVars
  BY <1>1
<1>3. QED
  BY <1>2, CoilInvariance, PTL DEF CoilSpec, ReleasedWhenDue
=============================================================================
