-------------------------- MODULE Overcurrent_proof --------------------------
(***************************************************************************)
(* An overcurrent scheme trips neither too late nor too early, for any     *)
(* levels, trip times and ticks.                                           *)
(*                                                                         *)
(* Both bounds are products of the accumulator with a trip time.  They are *)
(* stated for every number q that bounds all trip times from above, or     *)
(* from below, so that no slowest and no quickest level has to be named.   *)
(***************************************************************************)
EXTENDS Overcurrent, TLAPS

Slowest(q) == \A l \in Levels : 0 < TripTime[l] /\ TripTime[l] <= q
Quickest(q) == \A l \in Levels : q <= TripTime[l]

LEMMA ShareNat == ASSUME NEW l \in Levels PROVE Share(l) \in Nat /\ TripTime[l] \in Nat
<1>1. TripTime[l] \in Nat /\ Full \in Nat
  BY OvercurrentAssumption DEF Levels
<1>2. TripTime[l] > 0 => Full \div TripTime[l] \in Nat
  BY <1>1
<1> QED
  BY <1>1, <1>2 DEF Share

LEMMA ResetShareNat == ResetShare \in Nat
<1>1. Full \in Nat /\ ResetTime \in Nat /\ ResetTime > 0
  BY OvercurrentAssumption
<1> QED
  BY <1>1 DEF ResetShare

\* The products the bounds are made of.
LEMMA Monotone ==
    ASSUME NEW a \in Nat, NEW b \in Nat, NEW c \in Nat, a <= b
    PROVE  a * c <= b * c
OBVIOUS

LEMMA ProductNat == ASSUME NEW a \in Nat, NEW b \in Nat PROVE a * b \in Nat
OBVIOUS

\* A step at a level adds at most the interval's part of the quickest level.
LEMMA ShareOfQuickest ==
    ASSUME NEW q \in Nat, Quickest(q), NEW l \in Levels
    PROVE  Share(l) * q <= Full
<1>1. Share(l) \in Nat /\ TripTime[l] \in Nat /\ q <= TripTime[l] /\ Full \in Nat
  BY ShareNat, OvercurrentAssumption DEF Quickest
<1>2. CASE TripTime[l] > 0
  <2>1. Full = Share(l) * TripTime[l]
    BY <1>2, OvercurrentAssumption
  <2>2. q * Share(l) <= TripTime[l] * Share(l)
    BY <1>1, Monotone
  <2> QED
    BY <1>1, <2>1, <2>2
<1>3. CASE TripTime[l] = 0
  <2>1. Share(l) = 0
    BY <1>3 DEF Share
  <2> QED
    BY <1>1, <2>1
<1> QED
  BY <1>1, <1>2, <1>3

\* It adds at least the interval's part of the slowest level.
LEMMA ShareOfSlowest ==
    ASSUME NEW q \in Nat, Slowest(q), NEW l \in Levels
    PROVE  Share(l) * q >= Full /\ Share(l) > 0
<1>1. Share(l) \in Nat /\ TripTime[l] \in Nat /\ 0 < TripTime[l] /\ TripTime[l] <= q
  BY ShareNat DEF Slowest
<1>2. Full \in Nat /\ Full > 0 /\ Full = Share(l) * TripTime[l]
  BY <1>1, OvercurrentAssumption
<1>3. TripTime[l] * Share(l) <= q * Share(l)
  BY <1>1, Monotone
<1>4. Share(l) # 0
  BY <1>1, <1>2
<1> QED
  BY <1>1, <1>2, <1>3, <1>4
-----------------------------------------------------------------------------
\* The Op point is false until the scheme latches.
OpAtRest == ~ latched => ~ op

\* A current that is not above pickup, or not evaluated yet, has not been above
\* pickup for any time.
OverForAtRest == current = "normal" \/ sinceEval = Never => overFor = 0

\* The accumulator keeps up with the time above pickup up to the last evaluation.
NeverLate ==
    ~ latched => \A q \in Nat : Slowest(q) => accum * q >= Full * (overFor - Counted)

\* The accumulator is paid for by readings above pickup.
NeverAhead ==
    \A q \in Nat : Quickest(q) => overReads = Full \/ accum * q <= Full * (MaxTick * overReads)

\* A rest takes its part away.
Rested == accum = 0 \/ accum + restFor * ResetShare <= Full

IInv ==
    /\ TypeOK
    /\ OpTellsTheTrip /\ OpAtRest
    /\ OverForAtRest /\ NeverLate
    /\ NeverAhead /\ Rested

LEMMA Naturals ==
    /\ Full \in Nat /\ Full > 0
    /\ MaxTick \in Nat /\ TickInterval \in Nat
    /\ 0 < TickInterval /\ TickInterval <= MaxTick
    /\ ResetTime \in Nat /\ 0 < ResetTime
    /\ LongTime \in Nat
BY OvercurrentAssumption DEF LongTime

\* The interval an evaluation counts is not shorter than the time that passed.
LEMMA ElapsedBounds ==
    ASSUME TypeOK
    PROVE  /\ Elapsed \in Nat /\ Counted \in Nat
           /\ Counted <= Elapsed /\ Elapsed <= MaxTick
           /\ Counted <= MaxTick
BY Naturals DEF TypeOK, Elapsed, Counted, Never

LEMMA InitIInv == Init => IInv
<1> SUFFICES ASSUME Init PROVE IInv
  OBVIOUS
<1>1. TypeOK /\ OverForAtRest
  <2>1. accum \in 0 .. Full - 1 /\ overFor \in 0 .. LongTime /\ overReads \in 0 .. Full
    BY Naturals DEF Init
  <2>2. sinceEval \in {Never} \cup 0 .. MaxTick /\ restFor \in 0 .. ResetTime
    BY Naturals DEF Init
  <2>3. pulses \in Nat /\ overFor = 0
    BY DEF Init
  <2>4. current \in Levels \cup {"normal"} /\ latched \in BOOLEAN /\ op \in BOOLEAN
    BY DEF Init
  <2> QED
    BY <2>1, <2>2, <2>3, <2>4 DEF TypeOK, OverForAtRest
<1>4. OpTellsTheTrip /\ OpAtRest
  BY Zenon DEF Init, OpTellsTheTrip, OpAtRest
<1>2. NeverLate
  BY Naturals DEF Init, NeverLate, Counted, Never
<1>3. NeverAhead /\ Rested
  BY Naturals DEF Init, NeverAhead, Rested
<1> QED
  BY <1>1, <1>2, <1>3, <1>4 DEF IInv
-----------------------------------------------------------------------------
(* The parts of an evaluation.                                             *)

\* What a step at a level does to the two bounds.
LEMMA StepAbove ==
    ASSUME IInv, ~ latched, current # "normal", NEW a \in Nat,
           a = accum + Elapsed * Share(current)
    PROVE  /\ \A q \in Nat : Slowest(q) => a * q >= Full * overFor
           /\ \A q \in Nat : Quickest(q) =>
                 overReads = Full \/ a * q <= Full * (MaxTick * (overReads + 1))
<1>1. /\ accum \in Nat /\ overFor \in Nat /\ overReads \in Nat
      /\ Full \in Nat /\ MaxTick \in Nat /\ current \in Levels
  BY Naturals DEF IInv, TypeOK
<1>2. Share(current) \in Nat
  BY <1>1, ShareNat
<1>3. /\ Elapsed \in Nat /\ Counted \in Nat
      /\ Counted <= Elapsed /\ Elapsed <= MaxTick
  BY ElapsedBounds DEF IInv
<1>4. ASSUME NEW q \in Nat PROVE a * q = accum * q + Elapsed * (Share(current) * q)
  BY <1>1, <1>2, <1>3
<1>5. ASSUME NEW q \in Nat, Slowest(q) PROVE a * q >= Full * overFor
  <2>1. accum * q >= Full * (overFor - Counted)
    BY <1>5 DEF IInv, NeverLate
  <2>2. Share(current) * q >= Full
    BY <1>1, <1>5, ShareOfSlowest
  <2>3. Elapsed * (Share(current) * q) >= Elapsed * Full
    <3> DEFINE s == Share(current) * q
    <3>1. s \in Nat /\ s >= Full
      BY <1>2, <2>2
    <3> HIDE DEF s
    <3>2. Full * Elapsed <= s * Elapsed
      BY <1>1, <1>3, <3>1, Monotone
    <3>3. Elapsed * s >= Elapsed * Full
      BY <1>1, <1>3, <3>1, <3>2
    <3> QED
      BY <3>3 DEF s
  <2>4. Elapsed * Full >= Counted * Full
    BY <1>1, <1>3, Monotone
  <2>5. Full * (overFor - Counted) + Counted * Full = Full * overFor
    BY <1>1, <1>3
  <2>6. accum * q + Elapsed * (Share(current) * q) >= Full * overFor
    <3> DEFINE x == accum * q
               y == Elapsed * (Share(current) * q)
               u == Full * (overFor - Counted)
               v == Counted * Full
               w == Elapsed * Full
               z == Full * overFor
    <3>1. x \in Int /\ y \in Int /\ u \in Int /\ v \in Int /\ w \in Int /\ z \in Int
      BY <1>1, <1>2, <1>3
    <3>2. x >= u /\ y >= w /\ w >= v /\ u + v = z
      BY <2>1, <2>3, <2>4, <2>5
    <3> HIDE DEF x, y, u, v, w, z
    <3>3. x + y >= z
      BY <3>1, <3>2
    <3> QED
      BY <3>3 DEF x, y, z
  <2> QED
    BY <1>4, <2>6
<1>6. ASSUME NEW q \in Nat, Quickest(q), overReads # Full
      PROVE  a * q <= Full * (MaxTick * (overReads + 1))
  <2>1. accum * q <= Full * (MaxTick * overReads)
    BY <1>6 DEF IInv, NeverAhead
  <2>2. Share(current) * q <= Full
    BY <1>1, <1>6, ShareOfQuickest
  <2>3. Elapsed * (Share(current) * q) <= MaxTick * Full
    <3> DEFINE s == Share(current) * q
    <3>1. s \in Nat /\ s <= Full
      BY <1>2, <2>2
    <3> HIDE DEF s
    <3>2. s * Elapsed <= Full * Elapsed
      BY <1>1, <1>3, <3>1, Monotone
    <3>3. Elapsed * Full <= MaxTick * Full
      BY <1>1, <1>3, Monotone
    <3>4. Elapsed * s <= MaxTick * Full
      BY <1>1, <1>3, <3>1, <3>2, <3>3
    <3> QED
      BY <3>4 DEF s
  <2>4. Full * (MaxTick * (overReads + 1)) = Full * (MaxTick * overReads) + MaxTick * Full
    BY <1>1
  <2> QED
    BY <1>1, <1>2, <1>3, <1>4, <2>1, <2>3, <2>4
<1> QED
  BY <1>5, <1>6

\* The histories after an evaluation.
LEMMA RecordedType ==
    ASSUME TypeOK, NEW readOk \in BOOLEAN, Recorded(readOk)
    PROVE  /\ overFor' \in 0 .. LongTime
           /\ overReads' \in 0 .. Full
           /\ restFor' \in 0 .. ResetTime
<1>1. /\ Elapsed \in Nat /\ Counted \in Nat /\ overFor \in 0 .. LongTime
      /\ overReads \in 0 .. Full /\ restFor \in 0 .. ResetTime
  BY ElapsedBounds DEF TypeOK
<1>2. overFor' \in 0 .. LongTime
  BY <1>1, Naturals DEF Recorded, Reduced
<1>3. restFor' \in 0 .. ResetTime
  BY <1>1, Naturals DEF Recorded, UpTo
<1>4. overReads' \in 0 .. Full
  BY <1>1, Naturals DEF Recorded, UpTo
<1> QED
  BY <1>2, <1>3, <1>4

\* An evaluation sets the interval to zero; a current at rest stays at rest.
LEMMA EvaluateAtRest ==
    ASSUME IInv, NEW readOk \in BOOLEAN, Recorded(readOk), sinceEval' = 0,
           UNCHANGED current
    PROVE  OverForAtRest' /\ Counted' = 0
<1>1. Counted' = 0
  BY DEF Counted, Never
<1>2. current = "normal" => overFor = 0
  BY DEF IInv, OverForAtRest
<1>3. Counted \in Nat
  BY ElapsedBounds DEF IInv
<1>4. current = "normal" => overFor' = 0
  BY <1>2, <1>3 DEF Recorded, Reduced
<1> QED
  BY <1>1, <1>4 DEF OverForAtRest, Never

\* The parts that no operator of the code's arithmetic touches.
LEMMA KeepsOp ==
    ASSUME IInv, UNCHANGED <<latched, op, pulses>>
    PROVE  /\ latched' \in BOOLEAN /\ op' \in BOOLEAN /\ pulses' \in Nat
           /\ OpTellsTheTrip' /\ OpAtRest'
<1>1. latched' \in BOOLEAN /\ op' \in BOOLEAN /\ pulses' \in Nat
  BY DEF IInv, TypeOK
<1>2. OpTellsTheTrip' /\ OpAtRest'
  BY Zenon DEF IInv, OpTellsTheTrip, OpAtRest
<1> QED
  BY <1>1, <1>2

\* A failed reading leaves the accumulator and takes nothing into account.
LEMMA EvaluateFailed ==
    ASSUME IInv, ~ latched, sinceEval' = 0, Recorded(FALSE),
           UNCHANGED <<current, accum, latched, op, pulses>>
    PROVE  IInv'
<1>1. /\ accum \in Nat /\ Counted \in Nat /\ overFor \in Nat
      /\ Full \in Nat /\ MaxTick \in Nat /\ overReads \in Nat
  BY ElapsedBounds, Naturals DEF IInv, TypeOK
<1>2. TypeOK'
  <2>1. sinceEval' \in {Never} \cup 0 .. MaxTick
    BY <1>1
  <2> QED
    BY <2>1, RecordedType, KeepsOp DEF IInv, TypeOK
<1>3. NeverLate'
  <2>1. overFor' = Reduced(overFor, Counted)
    BY DEF Recorded
  <2>2. ASSUME NEW q \in Nat, accum * q >= Full * (overFor - Counted)
        PROVE  accum * q >= Full * overFor'
    <3>1. CASE overFor > Counted
      BY <2>1, <2>2, <3>1 DEF Reduced
    <3>2. CASE ~ (overFor > Counted)
      <4>1. Full * overFor' = 0
        BY <1>1, <2>1, <3>2 DEF Reduced
      <4>2. accum * q >= 0
        BY <1>1
      <4> QED
        BY <4>1, <4>2
    <3> QED
      BY <3>1, <3>2
  <2>3. overFor' \in Nat /\ Counted' = 0
    <3>1. overFor' \in Nat
      BY <1>1, <2>1 DEF Reduced
    <3> QED
      BY <3>1, EvaluateAtRest
  <2>4. overFor' - Counted' = overFor'
    <3>1. \A n \in Nat : n - 0 = n
      OBVIOUS
    <3> QED
      BY <2>3, <3>1, Zenon
  <2>5. ASSUME NEW q \in Nat, Slowest(q) PROVE accum' * q >= Full * (overFor' - Counted')
    <3>1. accum * q >= Full * (overFor - Counted)
      BY <2>5 DEF IInv, NeverLate
    <3>2. accum * q >= Full * overFor'
      BY <2>2, <2>5, <3>1, Zenon
    <3>3. accum' = accum
      OBVIOUS
    <3> QED
      BY <2>4, <3>2, <3>3, Zenon
  <2> QED
    BY <2>5 DEF NeverLate
<1>4. Rested'
  BY DEF IInv, Rested, Recorded
<1>5. NeverAhead'
  <2>1. CASE overReads' = overReads
    BY <2>1 DEF IInv, NeverAhead
  <2>2. CASE overReads' # overReads
    <3>1. overReads' = 0 /\ restFor' >= ResetTime /\ restFor' = restFor
      BY <2>2 DEF Recorded
    <3>2. accum = 0
      <4>1. restFor = ResetTime
        BY <3>1, Naturals DEF IInv, TypeOK
      <4>2. Full = ResetTime * ResetShare
        BY Naturals, ResetShareNat, OvercurrentAssumption
      <4> QED
        BY <1>1, <4>1, <4>2 DEF IInv, Rested
    <3>3. ASSUME NEW q \in Nat PROVE 0 * q <= Full * (MaxTick * 0)
      BY <1>1
    <3>4. accum' = 0
      BY <3>2
    <3> QED
      BY <3>1, <3>3, <3>4 DEF NeverAhead
  <2> QED
    BY <2>1, <2>2
<1> QED
  BY <1>2, <1>3, <1>4, <1>5, KeepsOp, EvaluateAtRest DEF IInv

\* A reading below pickup takes its part of the accumulator away.
LEMMA EvaluateNormal ==
    ASSUME IInv, ~ latched, sinceEval' = 0, Recorded(TRUE), current = "normal",
           accum' = Reduced(accum, Elapsed * ResetShare),
           UNCHANGED <<current, latched, op, pulses>>
    PROVE  IInv'
<1> DEFINE rest == Elapsed * ResetShare
<1>1. /\ accum \in Nat /\ accum < Full /\ Elapsed \in Nat /\ overFor = 0
      /\ Full \in Nat /\ MaxTick \in Nat /\ overReads \in Nat /\ restFor \in Nat
      /\ ResetTime \in Nat /\ ResetShare \in Nat
  BY ElapsedBounds, Naturals, ResetShareNat DEF IInv, TypeOK, OverForAtRest
<1>2. rest \in Nat
  BY <1>1
<1>3. accum' = IF accum > rest THEN accum - rest ELSE 0
  BY DEF Reduced
<1>4. accum' \in Nat /\ accum' <= accum
  <2> HIDE DEF rest
  <2> QED
    BY <1>1, <1>2, <1>3
<1>5. TypeOK'
  <2>1. sinceEval' \in {Never} \cup 0 .. MaxTick
    BY <1>1
  <2>2. accum' \in 0 .. Full - 1
    BY <1>1, <1>4
  <2> QED
    BY <2>1, <2>2, RecordedType, KeepsOp DEF IInv, TypeOK
<1>6. NeverLate'
  <2>1. overFor' = 0 /\ Counted' = 0
    BY <1>1, EvaluateAtRest DEF Recorded
  <2>2. ASSUME NEW q \in Nat PROVE accum' * q >= Full * (0 - 0)
    BY <1>1, <1>4
  <2> QED
    BY <2>1, <2>2 DEF NeverLate
<1>7. accum' = 0 \/ accum' + (restFor + Elapsed) * ResetShare <= Full
  <2>1. CASE accum > rest
    <3>1. accum + restFor * ResetShare <= Full
      BY <1>1, <1>2, <2>1 DEF IInv, Rested
    <3>2. (restFor + Elapsed) * ResetShare = restFor * ResetShare + rest
      BY <1>1
    <3>3. restFor * ResetShare \in Nat
      BY <1>1
    <3> HIDE DEF rest
    <3> QED
      BY <1>1, <1>2, <1>3, <2>1, <3>1, <3>2, <3>3
  <2>2. CASE ~ (accum > rest)
    BY <1>3, <2>2
  <2> QED
    BY <2>1, <2>2
<1>8. restFor' = UpTo(ResetTime, restFor + Elapsed)
  BY DEF Recorded
<1>9. Rested'
  <2>1. restFor' \in Nat /\ restFor' <= restFor + Elapsed
    BY <1>1, <1>8 DEF UpTo
  <2>2. restFor + Elapsed \in Nat
    BY <1>1
  <2>3. restFor' * ResetShare <= (restFor + Elapsed) * ResetShare
    BY <1>1, <2>1, <2>2, Monotone
  <2>4. accum' = 0 \/ accum' + restFor' * ResetShare <= Full
    <3> DEFINE x == restFor' * ResetShare
               y == (restFor + Elapsed) * ResetShare
    <3>1. x \in Nat /\ y \in Nat
      BY <1>1, <2>1, <2>2, ProductNat
    <3>2. x <= y /\ (accum' = 0 \/ accum' + y <= Full)
      BY <1>7, <2>3
    <3> HIDE DEF x, y
    <3>3. accum' = 0 \/ accum' + x <= Full
      BY <1>1, <1>4, <3>1, <3>2
    <3> QED
      BY <3>3 DEF x
  <2> QED
    BY <2>4 DEF Rested
<1>10. NeverAhead'
  <2>1. CASE restFor' >= ResetTime
    <3>1. accum' = 0
      <4>1. restFor' = ResetTime
        BY <1>1, <1>8, <2>1 DEF UpTo
      <4>2. Full = ResetTime * ResetShare
        BY <1>1, OvercurrentAssumption
      <4> QED
        BY <1>1, <1>4, <1>9, <4>1, <4>2 DEF Rested
    <3>2. overReads' = 0
      BY <2>1 DEF Recorded
    <3>3. ASSUME NEW q \in Nat PROVE 0 * q <= Full * (MaxTick * 0)
      BY <1>1
    <3> QED
      BY <3>1, <3>2, <3>3 DEF NeverAhead
  <2>2. CASE ~ (restFor' >= ResetTime)
    <3>1. overReads' = overReads
      BY <2>2 DEF Recorded
    <3>2. ASSUME NEW q \in Nat, accum * q <= Full * (MaxTick * overReads)
          PROVE  accum' * q <= Full * (MaxTick * overReads)
      <4>1. accum' * q <= accum * q
        BY <1>1, <1>4, Monotone
      <4> DEFINE x == accum' * q
                 y == accum * q
                 z == Full * (MaxTick * overReads)
      <4>2. x \in Int /\ y \in Int /\ z \in Int
        BY <1>1, <1>4
      <4>3. x <= y /\ y <= z
        BY <3>2, <4>1
      <4> HIDE DEF x, y, z
      <4>4. x <= z
        BY <4>2, <4>3
      <4> QED
        BY <4>4 DEF x, z
    <3> QED
      BY <3>1, <3>2 DEF IInv, NeverAhead
  <2> QED
    BY <2>1, <2>2
<1> QED
  BY <1>5, <1>6, <1>9, <1>10, KeepsOp, EvaluateAtRest DEF IInv

\* What an evaluation above pickup makes of the histories.
LEMMA RecordedAbove ==
    ASSUME IInv, Recorded(TRUE), current # "normal"
    PROVE  /\ overFor' = overFor /\ restFor' = 0
           /\ overReads' = Full \/ overReads' = overReads + 1
           /\ overReads = Full => overReads' = Full
BY Naturals DEF Recorded, UpTo, IInv, TypeOK

\* A reading above pickup that does not fill the accumulator.
LEMMA EvaluateAbove ==
    ASSUME IInv, ~ latched, sinceEval' = 0, Recorded(TRUE), current # "normal",
           accum' = accum + Elapsed * Share(current),
           Share(current) > 0 => ~ (accum' >= Full),
           UNCHANGED <<current, latched, op, pulses>>
    PROVE  IInv'
<1>1. /\ accum \in Nat /\ accum < Full /\ Elapsed \in Nat /\ overFor \in Nat
      /\ Full \in Nat /\ MaxTick \in Nat /\ overReads \in Nat /\ current \in Levels
  BY ElapsedBounds, Naturals DEF IInv, TypeOK
<1>2. Share(current) \in Nat
  BY <1>1, ShareNat
<1>3. accum' = accum + Elapsed * Share(current)
  OBVIOUS
<1>4. accum' \in Nat
  <2>1. Elapsed * Share(current) \in Nat
    BY <1>1, <1>2, ProductNat
  <2> QED
    BY <1>1, <1>3, <2>1
<1>5. accum' < Full
  <2>1. CASE Share(current) > 0
    BY <1>1, <1>4, <2>1
  <2>2. CASE Share(current) = 0
    BY <1>1, <1>3, <2>2
  <2> QED
    BY <1>2, <2>1, <2>2
<1>6. TypeOK'
  <2>1. sinceEval' \in {Never} \cup 0 .. MaxTick /\ accum' \in 0 .. Full - 1
    BY <1>1, <1>4, <1>5
  <2> QED
    BY <2>1, RecordedType, KeepsOp DEF IInv, TypeOK
<1>7. NeverLate'
  <2>1. overFor' - Counted' = overFor
    <3>1. \A n \in Nat : n - 0 = n
      OBVIOUS
    <3> QED
      BY <1>1, <3>1, RecordedAbove, EvaluateAtRest
  <2>2. ASSUME NEW q \in Nat, Slowest(q) PROVE accum' * q >= Full * overFor
    BY <1>3, <1>4, <2>2, StepAbove
  <2>3. ASSUME NEW q \in Nat, Slowest(q) PROVE accum' * q >= Full * (overFor' - Counted')
    BY <2>1, <2>2, <2>3, Zenon
  <2> QED
    BY <2>3 DEF NeverLate
<1>8. NeverAhead'
  <2>1. ASSUME NEW q \in Nat, Quickest(q), overReads' # Full
        PROVE  accum' * q <= Full * (MaxTick * overReads')
    <3>1. overReads # Full /\ overReads' = overReads + 1
      BY <2>1, RecordedAbove
    <3>2. accum' * q <= Full * (MaxTick * (overReads + 1))
      BY <1>3, <1>4, <2>1, <3>1, StepAbove
    <3> QED
      BY <3>1, <3>2, Zenon
  <2> QED
    BY <2>1 DEF NeverAhead
<1>9. Rested'
  <2>1. restFor' = 0 /\ accum' + 0 * ResetShare <= Full
    BY <1>1, <1>4, <1>5, ResetShareNat, RecordedAbove
  <2> QED
    BY <2>1 DEF Rested
<1> QED
  BY <1>6, <1>7, <1>8, <1>9, KeepsOp, EvaluateAtRest DEF IInv

\* The trip itself, applied or not.
LEMMA EvaluateTrip ==
    ASSUME IInv, ~ latched, sinceEval' = 0, Recorded(TRUE), current # "normal",
           NEW blocked \in BOOLEAN, NEW driven \in BOOLEAN, Trip(blocked, driven),
           UNCHANGED current
    PROVE  IInv'
<1>1. /\ Full \in Nat /\ Full > 0 /\ MaxTick \in Nat /\ overReads \in Nat
  BY Naturals DEF IInv, TypeOK
<1>2. latched' = TRUE /\ accum' = 0
  BY DEF Trip
<1>3. ~ op /\ pulses = 0
  BY DEF IInv, OpAtRest, OpTellsTheTrip
<1>4. /\ op' \in BOOLEAN
      /\ pulses' = IF op' THEN 1 ELSE 0
  <2> DEFINE applied == ~ (RespectInterlocks /\ blocked) /\ driven
  <2>1. op' = (applied \/ op)
    BY DEF Trip, Op
  <2>2. pulses' = IF applied THEN pulses + 1 ELSE pulses
    BY DEF Trip
  <2>3. applied \in BOOLEAN
    OBVIOUS
  <2> HIDE DEF applied
  <2>4. op' = applied
    BY <1>3, <2>1, <2>3, Zenon
  <2>5. pulses' = IF applied THEN 1 ELSE 0
    BY <1>3, <2>2
  <2> QED
    BY <2>3, <2>4, <2>5
<1>5. TypeOK'
  <2>1. sinceEval' \in {Never} \cup 0 .. MaxTick /\ accum' \in 0 .. Full - 1
    BY <1>1, <1>2
  <2>2. pulses' \in Nat
    BY <1>4
  <2>3. latched' \in BOOLEAN
    BY <1>2
  <2> QED
    BY <1>4, <2>1, <2>2, <2>3, RecordedType DEF IInv, TypeOK
<1>6. NeverLate' /\ OpAtRest'
  BY <1>2 DEF NeverLate, OpAtRest
<1>7. NeverAhead' /\ Rested'
  <2>1. overReads' \in Nat
    BY <1>1, RecordedAbove
  <2>2. ASSUME NEW q \in Nat PROVE 0 * q <= Full * (MaxTick * overReads')
    <3>1. MaxTick * overReads' \in Nat
      BY <1>1, <2>1, ProductNat
    <3>2. Full * (MaxTick * overReads') \in Nat
      BY <1>1, <3>1, ProductNat
    <3> QED
      BY <3>2
  <2> QED
    BY <1>2, <2>2 DEF NeverAhead, Rested
<1>8. OpTellsTheTrip'
  BY <1>4 DEF OpTellsTheTrip
<1> QED
  BY <1>5, <1>6, <1>7, <1>8, EvaluateAtRest DEF IInv

LEMMA EvaluateIInv ==
    ASSUME IInv, NEW readOk \in BOOLEAN, NEW blocked \in BOOLEAN, NEW driven \in BOOLEAN,
           Evaluate(readOk, blocked, driven)
    PROVE  IInv'
<1>1. ~ latched /\ sinceEval' = 0 /\ Recorded(readOk) /\ UNCHANGED current
  BY DEF Evaluate
<1>2. CASE Reached(readOk)
  <2>1. readOk = TRUE /\ current # "normal"
    BY <1>2 DEF Reached
  <2>2. Trip(blocked, driven)
    BY <1>2 DEF Evaluate
  <2> QED
    BY <1>1, <2>1, <2>2, EvaluateTrip
<1>3. CASE ~ Reached(readOk)
  <2>1. accum' = Accumulated(readOk) /\ UNCHANGED <<latched, op, pulses>>
    BY <1>3 DEF Evaluate
  <2>2. CASE readOk = FALSE
    <3>1. accum' = accum
      BY <2>1, <2>2 DEF Accumulated
    <3>2. Recorded(FALSE)
      BY <1>1, <2>2
    <3> QED
      BY <1>1, <2>1, <3>1, <3>2, EvaluateFailed
  <2>3. CASE readOk = TRUE /\ current = "normal"
    <3>1. accum' = Reduced(accum, Elapsed * ResetShare)
      BY <2>1, <2>3 DEF Accumulated
    <3>2. Recorded(TRUE)
      BY <1>1, <2>3
    <3> QED
      BY <1>1, <2>1, <2>3, <3>1, <3>2, EvaluateNormal
  <2>4. CASE readOk = TRUE /\ current # "normal"
    <3>1. accum' = accum + Elapsed * Share(current)
      BY <2>1, <2>4 DEF Accumulated
    <3>2. Share(current) > 0 => ~ (accum' >= Full)
      BY <1>3, <2>1, <2>4 DEF Reached
    <3>3. Recorded(TRUE)
      BY <1>1, <2>4
    <3> QED
      BY <1>1, <2>1, <2>4, <3>1, <3>2, <3>3, EvaluateAbove
  <2> QED
    BY <2>2, <2>3, <2>4
<1> QED
  BY <1>2, <1>3
-----------------------------------------------------------------------------
(* The other steps.                                                        *)

LEMMA AdvanceIInv == IInv /\ Advance => IInv'
<1> SUFFICES ASSUME IInv, Advance PROVE IInv'
  OBVIOUS
<1>1. /\ UNCHANGED <<current, accum, latched, op, pulses, overReads, restFor>>
      /\ sinceEval < MaxTick
      /\ sinceEval' = IF sinceEval = Never THEN Never ELSE sinceEval + 1
      /\ overFor' = IF current = "normal" \/ sinceEval = Never THEN 0
                    ELSE UpTo(LongTime, overFor + 1)
  BY DEF Advance
<1>2. /\ accum \in Nat /\ overFor \in 0 .. LongTime /\ Full \in Nat /\ LongTime \in Nat
      /\ sinceEval \in {Never} \cup 0 .. MaxTick /\ MaxTick \in Nat
  BY Naturals DEF IInv, TypeOK
<1>3. sinceEval' \in {Never} \cup 0 .. MaxTick /\ overFor' \in 0 .. LongTime
  BY <1>1, <1>2 DEF UpTo, Never
<1>4. TypeOK'
  BY <1>1, <1>3, KeepsOp DEF IInv, TypeOK
<1>5. OverForAtRest'
  BY <1>1, <1>2 DEF OverForAtRest, Never
<1>6. overFor' - Counted' <= overFor - Counted \/ overFor' - Counted' <= 0
  BY <1>1, <1>2 DEF Counted, UpTo, Never
<1>7. overFor' - Counted' \in Int /\ overFor - Counted \in Int
  BY <1>2, <1>3 DEF Counted, Never
<1>8. ASSUME NEW q \in Nat, NEW m \in Int, NEW n \in Int, n <= m \/ n <= 0,
             accum * q >= Full * m
      PROVE  accum * q >= Full * n
  <2>1. CASE n <= 0
    <3>1. accum * q \in Nat
      BY <1>2, ProductNat
    <3>2. Full * (0 - n) \in Nat
      BY <1>2, <2>1, ProductNat
    <3>3. Full * n = 0 - Full * (0 - n)
      BY <1>2
    <3> QED
      BY <3>1, <3>2, <3>3
  <2>2. CASE n <= m
    <3>1. m - n \in Nat
      BY <2>2
    <3>2. Full * (m - n) \in Nat
      BY <1>2, <3>1, ProductNat
    <3>3. Full * m = Full * n + Full * (m - n) /\ Full * n \in Int
      BY <1>2
    <3> QED
      BY <1>2, <1>8, <3>2, <3>3
  <2> QED
    BY <1>8, <2>1, <2>2
<1>9. NeverLate'
  <2>1. ASSUME ~ latched, NEW q \in Nat, Slowest(q)
        PROVE  accum * q >= Full * (overFor' - Counted')
    <3>1. accum * q >= Full * (overFor - Counted)
      BY <2>1 DEF IInv, NeverLate
    <3> QED
      BY <1>6, <1>7, <1>8, <3>1
  <2> QED
    BY <1>1, <2>1 DEF NeverLate
<1>10. NeverAhead' /\ Rested'
  BY <1>1 DEF IInv, NeverAhead, Rested
<1> QED
  BY <1>1, <1>4, <1>5, <1>9, <1>10, KeepsOp DEF IInv

LEMMA CurrentChangesIInv == IInv /\ CurrentChanges => IInv'
<1> SUFFICES ASSUME IInv, CurrentChanges PROVE IInv'
  OBVIOUS
<1>1. /\ UNCHANGED <<accum, latched, op, sinceEval, pulses, overReads, restFor>>
      /\ current' \in Levels \cup {"normal"}
      /\ overFor' = IF current' = "normal" THEN 0 ELSE overFor
  BY DEF CurrentChanges
<1>2. /\ accum \in Nat /\ overFor \in 0 .. LongTime /\ Full \in Nat /\ LongTime \in Nat
      /\ Counted \in Nat
  BY ElapsedBounds, Naturals DEF IInv, TypeOK
<1>3. overFor' \in 0 .. LongTime
  BY <1>1, <1>2
<1>4. TypeOK'
  BY <1>1, <1>3, KeepsOp DEF IInv, TypeOK
<1>5. OverForAtRest'
  BY <1>1 DEF IInv, OverForAtRest
<1>6. Counted' = Counted
  BY <1>1 DEF Counted
<1>7. NeverLate'
  <2>1. ASSUME ~ latched, NEW q \in Nat, Slowest(q)
        PROVE  accum * q >= Full * (overFor' - Counted)
    <3>1. CASE overFor' = overFor
      BY <2>1, <3>1 DEF IInv, NeverLate
    <3>2. CASE overFor' = 0
      <4>1. accum * q \in Nat /\ Full * Counted \in Nat
        BY <1>2, ProductNat
      <4>2. Full * (0 - Counted) = 0 - Full * Counted
        BY <1>2
      <4>3. accum * q >= Full * (0 - Counted)
        BY <4>1, <4>2
      <4> QED
        BY <3>2, <4>3
    <3> QED
      BY <1>1, <3>1, <3>2
  <2> QED
    BY <1>1, <1>6, <2>1 DEF NeverLate
<1>8. NeverAhead' /\ Rested'
  BY <1>1 DEF IInv, NeverAhead, Rested
<1> QED
  BY <1>1, <1>4, <1>5, <1>7, <1>8, KeepsOp DEF IInv

\* A start leaves everything as it is in the beginning, but for the current.
LEMMA StartIInv ==
    ASSUME IInv, Restart
    PROVE  IInv'
<1>1. /\ current' = current /\ accum' = 0 /\ latched' = FALSE /\ op' = FALSE
      /\ sinceEval' = Never /\ pulses' = 0 /\ overFor' = 0 /\ overReads' = 0
      /\ restFor' = 0
  BY DEF Restart, Start
<1>2. TypeOK'
  <2>1. accum' \in 0 .. Full - 1 /\ overFor' \in 0 .. LongTime /\ overReads' \in 0 .. Full
    BY <1>1, Naturals
  <2>2. sinceEval' \in {Never} \cup 0 .. MaxTick /\ restFor' \in 0 .. ResetTime
    BY <1>1, Naturals
  <2>3. pulses' \in Nat /\ latched' \in BOOLEAN /\ op' \in BOOLEAN
    BY <1>1
  <2> QED
    BY <1>1, <2>1, <2>2, <2>3 DEF IInv, TypeOK
<1>3. OpTellsTheTrip' /\ OpAtRest'
  BY <1>1, Zenon DEF OpTellsTheTrip, OpAtRest
<1>4. OverForAtRest' /\ Rested'
  BY <1>1 DEF OverForAtRest, Rested
<1>5. NeverLate'
  BY <1>1, Naturals DEF NeverLate, Counted, Never
<1>6. NeverAhead'
  BY <1>1, Naturals DEF NeverAhead
<1> QED
  BY <1>2, <1>3, <1>4, <1>5, <1>6 DEF IInv

LEMMA NextIInv == IInv /\ [Next]_vars => IInv'
<1> SUFFICES ASSUME IInv, [Next]_vars PROVE IInv'
  OBVIOUS
<1>1. CASE CurrentChanges
  BY <1>1, CurrentChangesIInv
<1>2. CASE Advance
  BY <1>2, AdvanceIInv
<1>3. CASE Tick
  BY <1>3, EvaluateIInv DEF Tick
<1>4. CASE Restart
  BY <1>4, StartIInv
<1>5. CASE UNCHANGED vars
  <2>1. UNCHANGED <<current, accum, latched, op, sinceEval, pulses, overFor, overReads, restFor>>
    BY <1>5 DEF vars
  <2>2. Counted' = Counted
    BY <2>1 DEF Counted
  <2>3. TypeOK' /\ OverForAtRest' /\ NeverAhead' /\ Rested'
    BY <2>1 DEF IInv, TypeOK, OverForAtRest, NeverAhead, Rested
  <2>4. NeverLate'
    BY <2>1, <2>2 DEF IInv, NeverLate
  <2> QED
    BY <2>1, <2>3, <2>4, KeepsOp DEF IInv
<1> QED
  BY <1>1, <1>2, <1>3, <1>4, <1>5 DEF Next, Calm

LEMMA Invariance == Spec => []IInv
BY InitIInv, NextIInv, PTL DEF Spec

\* ptoc.tick leaves the accumulator below 1 and evaluateProtection its latch and
\* its Op point Boolean, for any curve and any ticks.
THEOREM TypeCorrect == Spec => []TypeOK
BY Invariance, PTL DEF IInv

\* tripFromProtection sets Op exactly when it pulses the breaker, and the latch
\* of evaluateProtection lets that happen once.
THEOREM TruthfulOp == Spec => []OpTellsTheTrip
BY Invariance, PTL DEF IInv

\* The accumulator of ptoc.tick never decides too late, however the current moves
\* between the levels, provided that every level has a trip time.
THEOREM TimelyTrip ==
    ASSUME Levels # {}, \A l \in Levels : TripTime[l] > 0
    PROVE  Spec => []TripsInTime
<1>1. ASSUME IInv PROVE TripsInTime
  <2> SUFFICES ASSUME ~ latched, \A l \in Levels : ~ (overFor < TripTime[l] + MaxTick)
               PROVE  FALSE
    BY DEF TripsInTime
  <2>1. /\ accum \in Nat /\ accum < Full /\ overFor \in Nat /\ Full \in Nat
        /\ MaxTick \in Nat /\ Counted \in Nat /\ Counted <= MaxTick
    BY <1>1, ElapsedBounds, Naturals DEF IInv, TypeOK
  <2>2. \A l \in Levels : TripTime[l] \in Nat
    BY ShareNat
  <2> DEFINE q == overFor - MaxTick
  <2>3. \A l \in Levels : 0 < TripTime[l] /\ TripTime[l] <= q
    BY <2>1, <2>2
  <2>4. q \in Nat /\ q > 0 /\ q <= overFor - Counted
    BY <2>1, <2>2, <2>3
  <2> HIDE DEF q
  <2>5. accum * q >= Full * (overFor - Counted)
    BY <1>1, <2>3, <2>4 DEF IInv, NeverLate, Slowest
  <2>6. q * Full <= (overFor - Counted) * Full
    <3>1. overFor - Counted \in Nat
      BY <2>1, <2>4
    <3> QED
      BY <2>1, <2>4, <3>1, Monotone
  <2>7. (Full - 1) * q < Full * q
    BY <2>1, <2>4
  <2>8. accum * q <= (Full - 1) * q
    BY <2>1, <2>4, Monotone
  <2> DEFINE x == accum * q
             y == (Full - 1) * q
             z == Full * q
             w == Full * (overFor - Counted)
  <2>9. x \in Int /\ y \in Int /\ z \in Int /\ w \in Int
    BY <2>1, <2>4
  <2>10. z <= w
    BY <2>1, <2>4, <2>6
  <2>11. x >= w /\ x <= y /\ y < z
    BY <2>5, <2>7, <2>8
  <2> HIDE DEF x, y, z, w
  <2> QED
    BY <2>9, <2>10, <2>11
<1> QED
  BY <1>1, Invariance, PTL

\* The accumulator of ptoc.tick never decides too early: every part of it was
\* paid for by a reading above pickup since the last full rest.
THEOREM UnhurriedTrip == Spec => NoHastyTrip
<1>1. ASSUME IInv, [Next]_vars, ~ latched, latched'
      PROVE  \E l \in Levels : overReads' * MaxTick >= TripTime[l]
  <2>1. PICK readOk \in BOOLEAN, blocked \in BOOLEAN, driven \in BOOLEAN :
          Evaluate(readOk, blocked, driven)
    BY <1>1 DEF Next, Calm, Tick, CurrentChanges, Advance, Restart, Start, vars
  <2>2. Reached(readOk) /\ Recorded(readOk)
    BY <1>1, <2>1 DEF Evaluate
  <2>3. readOk = TRUE /\ current # "normal" /\ Share(current) > 0
    BY <2>2 DEF Reached
  <2> DEFINE a == accum + Elapsed * Share(current)
  <2>4. a >= Full
    BY <2>2, <2>3 DEF Reached, Accumulated
  <2>5. /\ accum \in Nat /\ Elapsed \in Nat /\ Full \in Nat /\ Full > 0 /\ MaxTick \in Nat
        /\ MaxTick > 0 /\ overReads \in Nat /\ current \in Levels
    BY <1>1, <2>3, ElapsedBounds, Naturals DEF IInv, TypeOK
  <2>6. a \in Nat
    BY <2>5, ShareNat, ProductNat
  <2>7. \A q \in Nat : Quickest(q) =>
          overReads = Full \/ a * q <= Full * (MaxTick * (overReads + 1))
    BY <1>1, <2>3, <2>6, StepAbove
  <2> HIDE DEF a
  <2>8. /\ overReads' = Full \/ overReads' = overReads + 1
        /\ overReads = Full => overReads' = Full
    BY <1>1, <2>2, <2>3, RecordedAbove
  <2>9. CASE overReads' = Full
    <3>1. TripTime[current] \in Nat /\ Share(current) \in Nat
      BY <2>5, ShareNat
    <3>2. TripTime[current] > 0 /\ Full = Share(current) * TripTime[current]
      BY <2>3, <2>5, <3>1, OvercurrentAssumption DEF Share
    <3>3. 1 * TripTime[current] <= Share(current) * TripTime[current]
      BY <2>3, <3>1, Monotone
    <3>4. 1 * Full <= MaxTick * Full
      BY <2>5, Monotone
    <3>5. Full * MaxTick >= TripTime[current]
      BY <2>5, <3>1, <3>2, <3>3, <3>4
    <3> QED
      BY <2>5, <2>9, <3>5
  <2>10. CASE overReads' # Full
    <3> DEFINE n == MaxTick * (overReads + 1)
    <3>1. overReads # Full /\ overReads' * MaxTick = n
      BY <2>5, <2>8, <2>10
    <3>2. n \in Nat
      BY <2>5, ProductNat
    <3> HIDE DEF n
    <3>3. SUFFICES ASSUME \A l \in Levels : ~ (n >= TripTime[l]) PROVE FALSE
      BY <3>1
    <3>4. Quickest(n + 1)
      BY <3>2, <3>3, ShareNat DEF Quickest
    <3>5. a * (n + 1) <= Full * n
      BY <2>7, <3>1, <3>2, <3>4 DEF n
    <3>6. Full * (n + 1) <= a * (n + 1)
      BY <2>4, <2>5, <2>6, <3>2, Monotone
    <3>7. Full * (n + 1) = Full * n + Full /\ Full * n \in Int /\ a * (n + 1) \in Int
      BY <2>5, <2>6, <3>2
    <3> QED
      BY <2>5, <3>5, <3>6, <3>7
  <2> QED
    BY <2>9, <2>10
<1>2. IInv /\ [Next]_vars =>
        [~ latched /\ latched' =>
           \E l \in Levels : overReads' * MaxTick >= TripTime[l]]_vars
  BY <1>1
<1> QED
  BY <1>2, Invariance, PTL DEF Spec, NoHastyTrip
=============================================================================
