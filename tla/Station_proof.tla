---------------------------- MODULE Station_proof ----------------------------
(***************************************************************************)
(* Stations of any size, beyond what Toolchain_proof says of them.         *)
(*                                                                         *)
(* A station of usual answers compiles: no name of it is taken twice, no   *)
(* breaker is numbered twice, every transformer and tap it refers to is    *)
(* there, and so nothing in the schema or the compiler refuses it.  The    *)
(* argument goes through the document that Toolchain_proof describes.      *)
(* Breakers of the whole station have numbers of their own, because every  *)
(* layout numbers its breakers without a gap from where the level before   *)
(* it stopped; names of bays, buses and devices carry those numbers; hence *)
(* no two of them look alike.                                              *)
(*                                                                         *)
(* The diagram of a station fits on its canvas.  The devices of a level    *)
(* have keys: a breaker and its two disconnects have the breaker's number, *)
(* an exit has its tap's.  Each drawer puts the device of a key at a place *)
(* a table gives, and places of different keys are too far apart for their *)
(* symbols to meet.  Two transformers stay clear of each other if their    *)
(* taps are far enough apart; the drawer sees to nothing more.             *)
(***************************************************************************)
EXTENDS Toolchain_proof

-----------------------------------------------------------------------------
(* Every breaker of a station has a number of its own. *)

\* Some breaker has this number.
HasNumber(C, m) == \E a, b : Cbr(m, a, b) \in C

\* The numbers of some breakers leave none out, from the first one on.
Filled(C, start) ==
    \A m \in Nat : HasNumber(C, m) => start <= m /\ \A x \in start .. m : HasNumber(C, x)

\* A breaker beside a tap is a breaker.
LEMMA TouchingNumber ==
    ASSUME NEW C, NEW t, NEW m \in Touching(C, t)
    PROVE  HasNumber(C, m)
BY DEF Touching, HasNumber

\* A name tells the number, and so does the breaker.
LEMMA SameNumber ==
    ASSUME NEW m, NEW a, NEW b, NEW k, NEW p, NEW q, Cbr(m, a, b) = Cbr(k, p, q)
    PROVE  m = k
BY CbrAlike

\* The builders of the layouts number without gaps.
LEMMA LayoutFilled ==
    ASSUME NEW layout \in Layouts, NEW tps \in Seq(TapSet), NEW start \in Nat, ~Refuses(layout, tps)
    PROVE  Filled(CbrsOf(layout, tps, start), start)
<1> DEFINE n == Len(tps)
           C == CbrsOf(layout, tps, start)
<1>1. n \in Nat /\ DOMAIN tps = 1 .. n
  OBVIOUS
<1>2. CASE layout \in {"single_bus", "main_and_transfer", "ring_bus"}
  <2>1. \A i \in 1 .. n : HasNumber(C, start + i - 1)
    <3> SUFFICES ASSUME NEW i \in 1 .. n PROVE HasNumber(C, start + i - 1)
      OBVIOUS
    <3>1. start + i - 1 \in Touching(C, i)
      <4>1. CASE layout \in {"single_bus", "main_and_transfer"}
        BY <4>1, OnlyBreaker
      <4>2. CASE layout = "ring_bus"
        <5>1. n >= 3
          BY <1>1, <4>2 DEF Refuses
        <5>2. Touching(C, i) = {start + i - 1, IF i = 1 THEN start + n - 1 ELSE start + i - 2}
          BY <4>2, <5>1, RingBreakers
        <5>3. QED
          BY <5>2
      <4>3. QED
        BY <1>2, <4>1, <4>2
    <3>2. QED
      BY <3>1, TouchingNumber
  <2>2. \A m : HasNumber(C, m) => (\E i \in 1 .. n : m = start + i - 1) \/ m = start + n
    <3> SUFFICES ASSUME NEW m, NEW a, NEW b, Cbr(m, a, b) \in C
                 PROVE  (\E i \in 1 .. n : m = start + i - 1) \/ m = start + n
      BY DEF HasNumber
    <3>1. CASE layout = "single_bus"
      <4>1. PICK i \in 1 .. n : Cbr(m, a, b) = Cbr(start + i - 1, Bus(1), TapNode(i))
        BY <1>1, <3>1, SingleBusYard
      <4>2. QED
        BY <4>1, SameNumber
    <3>2. CASE layout = "main_and_transfer"
      <4>1. \/ \E i \in 1 .. n : Cbr(m, a, b) = Cbr(start + i - 1, Bus(1), TapNode(i))
            \/ Cbr(m, a, b) = Cbr(start + n, Bus(1), Bus(2))
        BY <1>1, <3>2, MainAndTransferYard
      <4>2. QED
        BY <4>1, SameNumber
    <3>3. CASE layout = "ring_bus"
      <4>1. \A cb \in CbrsOf("ring_bus", tps, start) :
               \E i \in DOMAIN tps : cb = Cbr(start + i - 1, TapNode(i), TapNode((i % Len(tps)) + 1))
        BY RingBusYard
      <4>2. PICK i \in 1 .. n : Cbr(m, a, b) = Cbr(start + i - 1, TapNode(i), TapNode((i % n) + 1))
        BY <1>1, <3>3, <4>1
      <4>3. QED
        BY <4>2, SameNumber
    <3>4. QED
      BY <1>2, <3>1, <3>2, <3>3
  <2> HIDE DEF C, n
  <2>3. ASSUME NEW m \in Nat, HasNumber(C, m), NEW x \in start .. m PROVE HasNumber(C, x)
    <3>1. CASE x = m
      BY <2>3, <3>1
    <3>2. CASE x # m
      <4>1. x - start + 1 \in 1 .. n /\ x = start + (x - start + 1) - 1
        BY <1>1, <2>2, <2>3, <3>2
      <4>2. QED
        BY <2>1, <4>1
    <3>3. QED
      BY <3>1, <3>2
  <2>4. \A m \in Nat : HasNumber(C, m) => start <= m
    BY <1>1, <2>2
  <2>5. QED
    BY <2>3, <2>4 DEF Filled, C
<1>3. CASE layout = "breaker_and_half"
  <2> DEFINE h == n \div 2
             Low(d) == start + 3 * (d - 1)
  <2>1. h \in Nat /\ n = 2 * h
    <3>1. n % 2 = 0 /\ n \in Nat
      BY <1>1, <1>3 DEF Refuses
    <3> HIDE DEF n
    <3>2. QED
      BY <3>1
  <2>2. ASSUME NEW d \in 1 .. h
        PROVE  HasNumber(C, Low(d)) /\ HasNumber(C, Low(d) + 1) /\ HasNumber(C, Low(d) + 2)
    <3>1. /\ Touching(C, 2 * d - 1) = {start + 3 * (d - 1), start + 3 * (d - 1) + 1}
          /\ Touching(C, 2 * d) = {start + 3 * (d - 1) + 1, start + 3 * (d - 1) + 2}
      BY <1>3, <2>1, DiameterBreakers
    <3>2. /\ Low(d) \in Touching(C, 2 * d - 1) /\ Low(d) + 1 \in Touching(C, 2 * d - 1)
          /\ Low(d) + 2 \in Touching(C, 2 * d)
      BY <3>1
    <3> HIDE DEF Low, C
    <3>3. QED
      BY <3>2, TouchingNumber
  <2>3. ASSUME NEW m, HasNumber(C, m)
        PROVE  \E d \in 1 .. h : m = Low(d) \/ m = Low(d) + 1 \/ m = Low(d) + 2
    <3>1. PICK a, b : Cbr(m, a, b) \in C
      BY <2>3 DEF HasNumber
    <3>2. PICK d \in 1 .. h :
             \/ Cbr(m, a, b) = Cbr(Low(d), Bus(1), TapNode(2 * d - 1))
             \/ Cbr(m, a, b) = Cbr(Low(d) + 1, TapNode(2 * d - 1), TapNode(2 * d - 1 + 1))
             \/ Cbr(m, a, b) = Cbr(Low(d) + 2, TapNode(2 * d - 1 + 1), Bus(2))
      BY <1>3, <3>1, BreakerAndHalfYard
    <3> HIDE DEF Low, h
    <3>3. m = Low(d) \/ m = Low(d) + 1 \/ m = Low(d) + 2
      BY <3>2, SameNumber
    <3>4. QED
      BY <3>3
  <2> HIDE DEF C, n, h
  <2>4. ASSUME NEW m \in Nat, HasNumber(C, m), NEW x \in start .. m PROVE HasNumber(C, x)
    <3> DEFINE y == x - start
               d == y \div 3 + 1
    <3>1. PICK e \in 1 .. h : m = Low(e) \/ m = Low(e) + 1 \/ m = Low(e) + 2
      BY <2>3, <2>4
    <3>2. y \in Nat /\ y <= 3 * (e - 1) + 2 /\ e \in Nat /\ e <= h
      BY <2>1, <3>1
    <3>3. x = start + y
      OBVIOUS
    <3> HIDE DEF y
    <3>4. d \in Nat /\ d >= 1 /\ d <= e
      BY <3>2
    <3>5. y = 3 * (d - 1) \/ y = 3 * (d - 1) + 1 \/ y = 3 * (d - 1) + 2
      BY <3>2
    <3>6. d \in 1 .. h
      BY <2>1, <3>2, <3>4
    <3> HIDE DEF d
    <3>7. x = Low(d) \/ x = Low(d) + 1 \/ x = Low(d) + 2
      BY <3>3, <3>4, <3>5
    <3>8. QED
      BY <2>2, <3>6, <3>7
  <2>5. \A m \in Nat : HasNumber(C, m) => start <= m
    <3> SUFFICES ASSUME NEW m \in Nat, HasNumber(C, m) PROVE start <= m
      OBVIOUS
    <3>1. PICK e \in 1 .. h : m = Low(e) \/ m = Low(e) + 1 \/ m = Low(e) + 2
      BY <2>3
    <3>2. QED
      BY <2>1, <3>1
  <2>6. QED
    BY <2>4, <2>5 DEF Filled, C
<1>4. QED
  BY <1>2, <1>3 DEF Layouts

\* A level uses numbers from its first one on, and no more than it has devices.
LEMMA NumbersFit ==
    ASSUME NEW name, NEW kv, NEW layout \in Layouts, NEW tps \in Seq(TapSet), NEW start \in Nat,
           ~Refuses(layout, tps), NEW m \in Nat,
           BreakerOf(m) \in Range(Build(name, kv, layout, tps, start).breakers)
    PROVE  start <= m /\ m < start + Len(Build(name, kv, layout, tps, start).breakers)
<1> DEFINE s == Build(name, kv, layout, tps, start).breakers
           C == CbrsOf(layout, tps, start)
<1>1. s \in Seq(Devices) /\ Range(s) = LevelDevices(layout, tps, start)
  BY BuiltDevices
<1>2. Yard(C) /\ Filled(C, start)
  BY LayoutYard, LayoutFilled
<1>3. \A k \in Nat : BreakerOf(k) \in LevelDevices(layout, tps, start) <=> HasNumber(C, k)
  <2> DEFINE cells == Cells(layout, tps, start)
  <2>1. cells \in Seq(CellsOf(tps))
    BY CellsTyped
  <2>2. \A cb \in C : \E k \in Nat, a, b \in Nodes : cb = Cbr(k, a, b) /\ Isolated(cb) = BreakerOf(k)
    <3> SUFFICES ASSUME NEW cb \in C
                 PROVE  \E k \in Nat, a, b \in Nodes : cb = Cbr(k, a, b) /\ Isolated(cb) = BreakerOf(k)
      OBVIOUS
    <3>1. PICK c \in Range(cells) : cb \in Range(c.cbs)
      BY DEF CbrsOf
    <3>2. c \in CellsOf(tps)
      BY <2>1, <3>1 DEF Range
    <3>3. cb \in Cbrs
      BY <3>1, <3>2 DEF CellsOf, Range
    <3>4. QED
      BY <3>3, CbrShape DEF Cbrs
  <2>3. ASSUME NEW k \in Nat, HasNumber(C, k) PROVE BreakerOf(k) \in LevelDevices(layout, tps, start)
    <3>1. PICK a, b : Cbr(k, a, b) \in C
      BY <2>3 DEF HasNumber
    <3>2. PICK c \in Range(cells) : Cbr(k, a, b) \in Range(c.cbs)
      BY <3>1 DEF CbrsOf
    <3>3. Isolated(Cbr(k, a, b)) = BreakerOf(k)
      <4>1. PICK x \in Nat, p \in Nodes, q \in Nodes : Cbr(k, a, b) = Cbr(x, p, q) /\ Isolated(Cbr(k, a, b)) = BreakerOf(x)
        BY <2>2, <3>1
      <4>2. QED
        BY <4>1, SameNumber
    <3>4. BreakerOf(k) \in CellDevices(tps, c)
      BY <3>2, <3>3 DEF CellDevices, DevicesOf
    <3>5. QED
      BY <3>2, <3>4 DEF LevelDevices
  <2>4. ASSUME NEW k \in Nat, BreakerOf(k) \in LevelDevices(layout, tps, start) PROVE HasNumber(C, k)
    <3>1. PICK c \in Range(cells) : BreakerOf(k) \in DevicesOf(tps, Range(c.cbs), Range(c.taps))
      BY <2>4 DEF LevelDevices, CellDevices
    <3>2. c \in CellsOf(tps)
      BY <2>1, <3>1 DEF Range
    <3>3. \A d \in Disconnects : d # BreakerOf(k)
      BY BreakerFields DEF Disconnects, Dis
    <3>4. \A cb \in Range(c.cbs) : PairOf(cb) \subseteq Disconnects /\ cb \in C
      <4> SUFFICES ASSUME NEW cb \in Range(c.cbs) PROVE PairOf(cb) \subseteq Disconnects /\ cb \in C
        OBVIOUS
      <4>1. cb \in C
        BY <3>1 DEF CbrsOf
      <4>2. QED
        BY <2>2, <4>1, PairOfCbr
    <3>5. \A i \in Range(c.taps) : ExitDisconnect(tps, i) \in Disconnects
      <4>1. \A i \in Range(c.taps) : i \in DOMAIN tps
        BY <3>2 DEF CellsOf, Range
      <4>2. QED
        BY <4>1, ExitTyped
    <3>6. PICK cb \in Range(c.cbs) : BreakerOf(k) = Isolated(cb)
      BY <3>1, <3>3, <3>4, <3>5 DEF DevicesOf
    <3>7. PICK x \in Nat, a \in Nodes, b \in Nodes : cb = Cbr(x, a, b) /\ Isolated(cb) = BreakerOf(x)
      BY <2>2, <3>4
    <3>8. x = k
      BY <3>6, <3>7 DEF BreakerOf, CbrName
    <3>9. QED
      BY <3>4, <3>7, <3>8 DEF HasNumber
  <2>5. QED
    BY <2>3, <2>4
<1> HIDE DEF s, C
<1>4. HasNumber(C, m)
  BY <1>1, <1>3 DEF s
<1>5. start <= m /\ \A x \in start .. m : HasNumber(C, x)
  BY <1>2, <1>4 DEF Filled
<1>6. \A x \in start .. m : x \in Nat /\ \E p \in DOMAIN s : s[p] = BreakerOf(x)
  <2>1. \A x \in start .. m : x \in Nat
    OBVIOUS
  <2>2. \A x \in start .. m : BreakerOf(x) \in Range(s)
    BY <1>1, <1>3, <1>5, <2>1
  <2>3. QED
    BY <2>1, <2>2 DEF Range
<1> DEFINE at == [x \in start .. m |-> CHOOSE p \in DOMAIN s : s[p] = BreakerOf(x)]
<1>7. at \in [start .. m -> DOMAIN s] /\ \A x \in start .. m : s[at[x]] = BreakerOf(x)
  BY <1>6
<1> HIDE DEF at
<1>8. \A x, y \in start .. m : at[x] = at[y] => x = y
  <2> SUFFICES ASSUME NEW x \in start .. m, NEW y \in start .. m, at[x] = at[y] PROVE x = y
    OBVIOUS
  <2>1. BreakerOf(x) = BreakerOf(y)
    BY <1>7
  <2>2. QED
    BY <2>1 DEF BreakerOf, CbrName
<1> DEFINE n == Len(s)
<1>9. n \in Nat /\ DOMAIN s = 1 .. n
  BY <1>1
<1> HIDE DEF n
<1>10. /\ IsFiniteSet(start .. m) /\ Cardinality(start .. m) = m - start + 1
       /\ IsFiniteSet(1 .. n) /\ Cardinality(1 .. n) = n
  <2>1. IsFiniteSet(start .. m) /\ Cardinality(start .. m) = IF start > m THEN 0 ELSE m - start + 1
    BY FS_Interval
  <2>2. IsFiniteSet(1 .. n) /\ Cardinality(1 .. n) = IF 1 > n THEN 0 ELSE n - 1 + 1
    BY <1>9, FS_Interval
  <2>3. QED
    BY <1>5, <1>9, <2>1, <2>2
<1>11. ~ (n < m - start + 1)
  <2> SUFFICES ASSUME n < m - start + 1 PROVE FALSE
    OBVIOUS
  <2> DEFINE A == start .. m
             B == 1 .. n
  <2>1. IsFiniteSet(A) /\ IsFiniteSet(B) /\ Cardinality(B) < Cardinality(A) /\ at \in [A -> B]
    BY <1>7, <1>9, <1>10
  <2> HIDE DEF A, B
  <2>2. \E x, y \in A : x # y /\ at[x] = at[y]
    BY <2>1, FS_PigeonHole
  <2>3. QED
    BY <1>8, <2>2 DEF A
<1>12. m < start + Len(s)
  BY <1>5, <1>9, <1>11 DEF n
<1>13. QED
  BY <1>5, <1>12 DEF s

\* The numbers of a level come after those of the levels before it.
LevelsNumbered(lvs) ==
    \A j, k \in DOMAIN lvs : j < k => \A m, n \in Nat :
        BreakerOf(m) \in Range(lvs[j].breakers) /\ BreakerOf(n) \in Range(lvs[k].breakers) => m < n
NumberInv ==
    /\ \A k \in DOMAIN levels : \A m \in Nat :
         BreakerOf(m) \in Range(levels[k].breakers) => m < breakerIndex
    /\ LevelsNumbered(levels)

\* Every turn of the dialogue keeps them in order.
LEMMA NumbersKept == StationInv /\ NumberInv /\ Next => NumberInv'
<1> SUFFICES ASSUME StationInv, NumberInv, Next PROVE NumberInv'
  OBVIOUS
<1>1. CASE CompleteLevel
  <2> DEFINE lv == Build(draft.name, draft.kv, draft.layout, taps, breakerIndex)
             n == Len(levels)
  <2>1. /\ taps \in Seq(TapSet) /\ draft.layout \in Layouts /\ breakerIndex \in Nat
        /\ ~Refuses(draft.layout, taps)
    BY <1>1 DEF StationInv, DraftTyped, LevelsBuilt, CompleteLevel
  <2>2. levels' = Append(levels, lv) /\ breakerIndex' = breakerIndex + Len(lv.breakers)
    BY <1>1 DEF CompleteLevel, NextBreakerIndex
  <2>3. \A m \in Nat : BreakerOf(m) \in Range(lv.breakers) =>
           breakerIndex <= m /\ m < breakerIndex + Len(lv.breakers)
    BY <2>1, NumbersFit
  <2>4. Len(lv.breakers) \in Nat
    <3>1. lv.breakers \in Seq(Devices)
      BY <2>1, BuiltDevices
    <3>2. QED
      BY <3>1
  <2>5. levels \in Seq(BuiltLevels)
    BY DEF StationInv, LevelsBuilt
  <2> HIDE DEF lv
  <2>6. /\ n \in Nat /\ DOMAIN levels = 1 .. n /\ DOMAIN levels' = 1 .. n + 1
        /\ \A k \in 1 .. n : levels'[k] = levels[k]
        /\ levels'[n + 1] = lv
    BY <2>2, <2>5
  <2> HIDE DEF n
  <2>7. ASSUME NEW k \in DOMAIN levels', NEW m \in Nat, BreakerOf(m) \in Range(levels'[k].breakers)
        PROVE  m < breakerIndex'
    <3>1. CASE k \in 1 .. n
      BY <2>1, <2>2, <2>4, <2>6, <2>7, <3>1 DEF NumberInv, LevelsNumbered
    <3>2. CASE k = n + 1
      BY <2>2, <2>3, <2>6, <2>7, <3>2
    <3>3. QED
      BY <2>6, <3>1, <3>2
  <2>8. ASSUME NEW j \in DOMAIN levels', NEW k \in DOMAIN levels', j < k, NEW m \in Nat, NEW x \in Nat,
               BreakerOf(m) \in Range(levels'[j].breakers), BreakerOf(x) \in Range(levels'[k].breakers)
        PROVE  m < x
    <3>1. j \in 1 .. n /\ levels'[j] = levels[j]
      BY <2>6, <2>8
    <3>2. CASE k \in 1 .. n
      BY <2>6, <2>8, <3>1, <3>2 DEF NumberInv, LevelsNumbered
    <3>3. CASE k = n + 1
      <4>1. m < breakerIndex
        BY <2>6, <2>8, <3>1 DEF NumberInv, LevelsNumbered
      <4>2. breakerIndex <= x
        BY <2>3, <2>6, <2>8, <3>3
      <4>3. QED
        BY <2>1, <4>1, <4>2
    <3>4. QED
      BY <2>6, <3>2, <3>3
  <2>9. QED
    BY <2>7, <2>8 DEF NumberInv, LevelsNumbered
<1>2. CASE UNCHANGED <<levels, breakerIndex>>
  BY <1>2 DEF NumberInv, LevelsNumbered
<1>3. QED
  BY <1>1, <1>2 DEF Next, NameLevel, AddTap, RedoTaps, Crash, AddAnother, CollectSettings, Confirm, built

-----------------------------------------------------------------------------
(* What comes of the usual answers alone. *)

\* A usual answer is counted as none.
LEMMA UsualAnswer ==
    ASSUME NEW usual, NEW others, NEW a \in Answers(usual, others)
    PROVE  a[2] \in {0, 1} /\ (a[2] = 0 => a[1] \in usual)
BY DEF Answers

\* At least as many elements are listed as there are places.
LEMMA LenAt ==
    ASSUME NEW S, NEW s \in Seq(S), NEW P \in SUBSET DOMAIN s
    PROVE  Cardinality(P) \in Nat /\ Cardinality(P) <= Len(At(s, P))
<1> DEFINE t == At(s, P)
           n == Len(t)
<1>1. t \in Seq(S)
  BY AtPicks
<1>2. PICK f \in [DOMAIN t -> P] : \A k \in P : \E p \in DOMAIN t : f[p] = k
  BY AtPlaces
<1>3. IsFiniteSet(P) /\ Cardinality(P) \in Nat
  <2>1. Len(s) \in Nat /\ DOMAIN s = 1 .. Len(s)
    OBVIOUS
  <2>2. IsFiniteSet(1 .. Len(s))
    BY <2>1, FS_Interval
  <2>3. QED
    BY <2>1, <2>2, FS_Subset, FS_CardinalityType
<1> HIDE DEF t
<1>4. n \in Nat /\ DOMAIN t = 1 .. n
  BY <1>1
<1> HIDE DEF n
<1>5. IsFiniteSet(1 .. n) /\ Cardinality(1 .. n) = n
  <2>1. IsFiniteSet(1 .. n) /\ Cardinality(1 .. n) = IF 1 > n THEN 0 ELSE n - 1 + 1
    BY <1>4, FS_Interval
  <2>2. QED
    BY <1>4, <2>1
<1> DEFINE g == [k \in P |-> CHOOSE p \in DOMAIN t : f[p] = k]
<1>6. g \in [P -> DOMAIN t] /\ \A k \in P : f[g[k]] = k
  BY <1>2
<1> HIDE DEF g
<1>7. ~ (n < Cardinality(P))
  <2> SUFFICES ASSUME n < Cardinality(P) PROVE FALSE
    OBVIOUS
  <2>1. IsFiniteSet(DOMAIN t) /\ Cardinality(DOMAIN t) < Cardinality(P)
    BY <1>4, <1>5
  <2>2. \E x, y \in P : x # y /\ g[x] = g[y]
    BY <1>3, <1>6, <2>1, FS_PigeonHole
  <2>3. QED
    BY <1>6, <2>2
<1>8. QED
  BY <1>3, <1>4, <1>7 DEF n, t

UsualTaps(tps) == \A i \in DOMAIN tps : tps[i].name = <<"Tap", i, <<>>>>
IsUsualLevel(lv, k) ==
    \E kv \in Voltages, layout \in Layouts, tps \in Seq(TapSet), start \in Nat :
        /\ lv = Build(<<"V", k, <<>>>>, kv, layout, tps, start)
        /\ ~Refuses(layout, tps) /\ UsualTaps(tps)
IsUsualSpec(s) == \E kv \in LvVoltages, m \in Nat : s = [name |-> Xfmr(m), kv |-> kv, outputs |-> <<Feed(1)>>]
IsUsualTransformer(x) == \E kv \in LvVoltages : x.lv = LvLevel(x.name, kv, <<Feed(1)>>)

\* Transformers have numbers that were free.
TapsOfTransformers(tps) == {i \in DOMAIN tps : tps[i].kind = "transformer"}
NumberedFrom(name, from, to) == \E m \in Nat : from <= m /\ m < to /\ name = Xfmr(m)
UsualSpecs(tps, sps, from) ==
    LET X == TapsOfTransformers(tps)
    IN  /\ \A i \in DOMAIN tps \ X : sps[i] = NoSpec
        /\ \A i \in X : IsUsualSpec(sps[i]) /\ NumberedFrom(sps[i].name, from, from + Cardinality(X))
        /\ \A i, j \in X : sps[i].name = sps[j].name => i = j
UsualTransformers ==
    /\ \A i \in DOMAIN transformers : /\ IsUsualTransformer(transformers[i])
                                      /\ NumberedFrom(transformers[i].name, 0, xfmrIndex)
    /\ \A i, j \in DOMAIN transformers : transformers[i].name = transformers[j].name => i = j
UsualDraft == phase = "taps" => draft.name = <<"V", Len(levels) + 1, <<>>>> /\ draft.kv \in Voltages
UsualScada == phase \in {"confirm", "accepted"} => settings.scada.iedName = <<"SCADA", 1, <<>>>>

UsualLevels == \A k \in DOMAIN levels : IsUsualLevel(levels[k], k)
UsualWork == UsualTaps(taps) /\ UsualSpecs(taps, specs, xfmrIndex)
UsualStation == UsualLevels /\ UsualTransformers /\ UsualWork /\ UsualDraft /\ UsualScada

\* As long as no other answer has been given.
UsualInv == odd \in Nat /\ (odd = 0 => UsualStation)

\* They are numbered on when a transformer is added, ...
LEMMA SpecAdded ==
    ASSUME NEW tps \in Seq(TapSet), NEW sps, DOMAIN sps = DOMAIN tps, sps \in Seq(SpecSet), NEW from \in Nat,
           UsualSpecs(tps, sps, from), NEW tap \in TapSet, NEW spec \in SpecSet,
           IF tap.kind = "transformer"
           THEN /\ IsUsualSpec(spec)
                /\ spec.name = Xfmr(from + Cardinality(TapsOfTransformers(tps)))
           ELSE spec = NoSpec
    PROVE  UsualSpecs(Append(tps, tap), Append(sps, spec), from)
<1> DEFINE n == Len(tps)
           new == Append(tps, tap)
           more == Append(sps, spec)
           X == TapsOfTransformers(tps)
           Y == TapsOfTransformers(new)
<1>1. /\ n \in Nat /\ DOMAIN tps = 1 .. n /\ DOMAIN new = 1 .. n + 1
      /\ \A i \in 1 .. n : new[i] = tps[i]
      /\ new[n + 1] = tap
  OBVIOUS
<1>2. (\A i \in 1 .. n : more[i] = sps[i]) /\ more[n + 1] = spec
  <2>1. Len(sps) = n
    BY <1>1
  <2>2. QED
    BY <1>1, <2>1
<1>3. IsFiniteSet(X) /\ X \subseteq 1 .. n /\ Cardinality(X) \in Nat
  <2>1. X \subseteq 1 .. n
    BY <1>1 DEF TapsOfTransformers
  <2>2. IsFiniteSet(1 .. n)
    BY <1>1, FS_Interval
  <2>3. QED
    BY <2>1, <2>2, FS_Subset, FS_CardinalityType
<1> HIDE DEF n, new, more
<1>4. Y = IF tap.kind = "transformer" THEN X \cup {n + 1} ELSE X
  BY <1>1 DEF TapsOfTransformers
<1> HIDE DEF X, Y
<1>5. n + 1 \notin X
  BY <1>1, <1>3
<1>6. Cardinality(Y) = IF tap.kind = "transformer" THEN Cardinality(X) + 1 ELSE Cardinality(X)
  BY <1>3, <1>4, <1>5, FS_AddElement
<1>7. /\ \A i \in DOMAIN tps \ X : sps[i] = NoSpec
      /\ \A i \in X : IsUsualSpec(sps[i]) /\ NumberedFrom(sps[i].name, from, from + Cardinality(X))
      /\ \A i, j \in X : sps[i].name = sps[j].name => i = j
  BY DEF UsualSpecs, X
<1>8. \A i \in DOMAIN new \ Y : more[i] = NoSpec
  <2> SUFFICES ASSUME NEW i \in DOMAIN new \ Y PROVE more[i] = NoSpec
    OBVIOUS
  <2>1. CASE i \in 1 .. n
    BY <1>1, <1>2, <1>4, <1>7, <2>1
  <2>2. CASE i = n + 1
    BY <1>2, <1>4, <2>2
  <2>3. QED
    BY <1>1, <2>1, <2>2
<1>9. ASSUME NEW i \in X
      PROVE  /\ more[i] = sps[i] /\ IsUsualSpec(more[i])
             /\ NumberedFrom(more[i].name, from, from + Cardinality(X))
             /\ NumberedFrom(more[i].name, from, from + Cardinality(Y))
  <2>1. more[i] = sps[i]
    BY <1>2, <1>3
  <2>2. IsUsualSpec(more[i]) /\ NumberedFrom(more[i].name, from, from + Cardinality(X))
    BY <1>7, <2>1
  <2>3. NumberedFrom(more[i].name, from, from + Cardinality(Y))
    BY <1>3, <1>6, <2>2 DEF NumberedFrom
  <2>4. QED
    BY <2>1, <2>2, <2>3
<1>10. CASE tap.kind # "transformer"
  <2>1. Y = X
    BY <1>4, <1>10
  <2>2. \A i, j \in Y : more[i].name = more[j].name => i = j
    BY <1>7, <1>9, <2>1
  <2>3. QED
    BY <1>8, <1>9, <2>1, <2>2 DEF UsualSpecs, Y, new, more
<1>11. CASE tap.kind = "transformer"
  <2> DEFINE last == from + Cardinality(X)
  <2>1. IsUsualSpec(spec) /\ spec.name = Xfmr(last) /\ more[n + 1] = spec
    BY <1>2, <1>11 DEF X
  <2>2. last \in Nat /\ Y = X \cup {n + 1} /\ from + Cardinality(Y) = last + 1 /\ from <= last
    BY <1>3, <1>4, <1>6, <1>11
  <2>3. NumberedFrom(spec.name, from, from + Cardinality(Y))
    BY <2>1, <2>2 DEF NumberedFrom
  <2>4. \A i \in X : more[i].name # spec.name
    <3> SUFFICES ASSUME NEW i \in X PROVE more[i].name # spec.name
      OBVIOUS
    <3>1. PICK m \in Nat : m < last /\ more[i].name = Xfmr(m)
      BY <1>9 DEF NumberedFrom
    <3>2. Xfmr(m) # Xfmr(last)
      BY <2>2, <3>1 DEF Xfmr
    <3>3. QED
      BY <2>1, <3>1, <3>2
  <2>5. \A i, j \in Y : more[i].name = more[j].name => i = j
    BY <1>7, <1>9, <2>1, <2>2, <2>4
  <2>6. QED
    BY <1>8, <1>9, <2>1, <2>2, <2>3, <2>5 DEF UsualSpecs, Y, new, more
<1>12. QED
  BY <1>10, <1>11

\* ... and where a level is completed.
LEMMA TransformersAdded ==
    ASSUME StationInv, UsualTransformers, UsualSpecs(taps, specs, xfmrIndex), CompleteLevel
    PROVE  UsualTransformers'
<1> DEFINE numbers == [i \in DOMAIN taps |-> i]
           marked == {i \in DOMAIN taps : specs[i] # NoSpec}
           X == TapsOfTransformers(taps)
           on == At(numbers, marked)
           old == transformers
           new == NewTransformers
           n == Len(old)
           m == Len(on)
           next == xfmrIndex + Cardinality(X)
<1>1. /\ taps \in Seq(TapSet) /\ specs \in Seq(SpecSet) /\ DOMAIN specs = DOMAIN taps
      /\ xfmrIndex \in Nat /\ old \in Seq(TransformerSet)
  BY DEF StationInv, DraftTyped, TransformersPlaced
<1>2. numbers \in Seq(Nat) /\ DOMAIN numbers = DOMAIN taps
  <2>1. numbers = [k \in 1 .. Len(taps) |-> numbers[k]] /\ Len(taps) \in Nat /\ DOMAIN taps = 1 .. Len(taps)
    BY <1>1
  <2>2. \A k \in 1 .. Len(taps) : numbers[k] \in Nat
    BY <2>1
  <2> HIDE DEF numbers
  <2>3. numbers \in Seq(Nat)
    BY <2>1, <2>2, SeqOfValues
  <2>4. QED
    BY <2>1, <2>3
<1>3. /\ \A i \in DOMAIN taps \ X : specs[i] = NoSpec
      /\ \A i \in X : IsUsualSpec(specs[i]) /\ NumberedFrom(specs[i].name, xfmrIndex, next)
      /\ \A i, j \in X : specs[i].name = specs[j].name => i = j
  BY DEF UsualSpecs
<1>4. marked = X
  <2>1. X \subseteq DOMAIN taps
    BY DEF TapsOfTransformers
  <2>2. \A s : IsUsualSpec(s) => s # NoSpec
    <3>1. \A k : Xfmr(k)[1] = "XFMR" /\ NoSpec.name[1] = ""
      BY DEF Xfmr, NoSpec
    <3>2. ASSUME NEW s, IsUsualSpec(s) PROVE s.name[1] = "XFMR"
      <4>1. PICK kv \in LvVoltages, k \in Nat : s = [name |-> Xfmr(k), kv |-> kv, outputs |-> <<Feed(1)>>]
        BY <3>2 DEF IsUsualSpec
      <4>2. s.name = Xfmr(k)
        BY <4>1
      <4>3. QED
        BY <3>1, <4>2
    <3>3. QED
      BY <3>1, <3>2
  <2>3. QED
    BY <1>3, <2>1, <2>2
<1>5. \A i \in DOMAIN taps : numbers[i] = i
  OBVIOUS
<1>6. new = [k \in DOMAIN on |->
               [name |-> specs[on[k]].name, level |-> Len(levels) + 1, tap |-> on[k],
                lv |-> LvLevel(specs[on[k]].name, specs[on[k]].kv, specs[on[k]].outputs)]]
  BY DEF NewTransformers
<1>7. marked \in SUBSET DOMAIN numbers
  BY <1>2
<1> HIDE DEF numbers, marked
<1>8. on \in Seq(Nat) /\ Cardinality(X) \in Nat /\ Cardinality(X) <= m
  BY <1>2, <1>4, <1>7, LenAt, AtPicks
<1>9. PICK f \in [DOMAIN on -> marked] :
         /\ \A p \in DOMAIN on : on[p] = numbers[f[p]]
         /\ \A p, q \in DOMAIN on : p < q => f[p] < f[q]
  BY <1>2, <1>7, AtPlaces
<1> HIDE DEF on, next, new
<1>10. \A p \in DOMAIN on : on[p] \in X /\ on[p] = f[p] /\ f[p] \in Nat
  <2>1. X \subseteq DOMAIN taps /\ DOMAIN taps \subseteq Nat
    BY <1>1 DEF TapsOfTransformers
  <2>2. QED
    BY <1>4, <1>5, <1>9, <2>1
<1>11. m \in Nat /\ DOMAIN on = 1 .. m /\ DOMAIN new = 1 .. m /\ new = [k \in 1 .. m |-> new[k]]
  BY <1>6, <1>8
<1>12. \A p, q \in 1 .. m : on[p] = on[q] => p = q
  <2> SUFFICES ASSUME NEW p \in 1 .. m, NEW q \in 1 .. m, on[p] = on[q] PROVE p = q
    OBVIOUS
  <2>1. f[p] = f[q] /\ f[p] \in Nat
    BY <1>10, <1>11
  <2>2. ~ (p < q) /\ ~ (q < p)
    BY <1>9, <1>11, <2>1
  <2>3. QED
    BY <2>2
<1>13. \A k \in 1 .. m : /\ new[k].name = specs[on[k]].name
                         /\ new[k].lv = LvLevel(specs[on[k]].name, specs[on[k]].kv, specs[on[k]].outputs)
  BY <1>6, <1>11
<1>14. \A k \in 1 .. m : IsUsualTransformer(new[k]) /\ NumberedFrom(new[k].name, xfmrIndex, next)
  <2> SUFFICES ASSUME NEW k \in 1 .. m
               PROVE  IsUsualTransformer(new[k]) /\ NumberedFrom(new[k].name, xfmrIndex, next)
    OBVIOUS
  <2>1. IsUsualSpec(specs[on[k]]) /\ NumberedFrom(specs[on[k]].name, xfmrIndex, next)
    BY <1>3, <1>10, <1>11
  <2>2. PICK kv \in LvVoltages, x \in Nat : specs[on[k]] = [name |-> Xfmr(x), kv |-> kv, outputs |-> <<Feed(1)>>]
    BY <2>1 DEF IsUsualSpec
  <2>3. specs[on[k]].kv = kv /\ specs[on[k]].outputs = <<Feed(1)>>
    BY <2>2
  <2>4. QED
    BY <1>13, <2>1, <2>3 DEF IsUsualTransformer
<1>15. \A j, k \in 1 .. m : new[j].name = new[k].name => j = k
  <2> SUFFICES ASSUME NEW j \in 1 .. m, NEW k \in 1 .. m, new[j].name = new[k].name PROVE j = k
    OBVIOUS
  <2>1. specs[on[j]].name = specs[on[k]].name /\ on[j] \in X /\ on[k] \in X
    BY <1>10, <1>11, <1>13
  <2>2. QED
    BY <1>3, <1>12, <2>1
<1>16. transformers' = old \o new /\ xfmrIndex' = xfmrIndex + Len(new)
  BY DEF CompleteLevel, new
<1>17. Len(new) = m
  BY <1>11, NewTransformersTyped DEF new
<1>18. next \in Nat /\ xfmrIndex <= next /\ next <= xfmrIndex' /\ xfmrIndex' \in Nat
  BY <1>1, <1>8, <1>11, <1>16, <1>17 DEF next
<1>19. n \in Nat /\ Counted(old, n) /\ DOMAIN old = 1 .. n
  BY <1>1 DEF Counted
<1> HIDE DEF n, m, X
<1>20. Parted(old, new, n, m)
  BY <1>11, <1>19, TwoParts DEF Counted
<1>21. \A k \in 1 .. n : IsUsualTransformer(old[k]) /\ NumberedFrom(old[k].name, 0, xfmrIndex)
  BY <1>19 DEF UsualTransformers
<1>22. \A j \in 1 .. n, k \in 1 .. m : old[j].name # new[k].name
  <2> SUFFICES ASSUME NEW j \in 1 .. n, NEW k \in 1 .. m, old[j].name = new[k].name PROVE FALSE
    OBVIOUS
  <2>1. PICK x \in Nat : x < xfmrIndex /\ old[j].name = Xfmr(x)
    BY <1>21 DEF NumberedFrom
  <2>2. PICK y \in Nat : xfmrIndex <= y /\ new[k].name = Xfmr(y)
    BY <1>14 DEF NumberedFrom
  <2>3. \A a, b : Xfmr(a) = Xfmr(b) => a = b
    BY DEF Xfmr
  <2>5. x = y
    BY <2>1, <2>2, <2>3
  <2>6. QED
    BY <1>1, <2>1, <2>2, <2>5
<1> DEFINE all == old \o new
<1>23. \A p \in DOMAIN all : IsUsualTransformer(all[p]) /\ NumberedFrom(all[p].name, 0, xfmrIndex')
  <2>1. \A name : NumberedFrom(name, 0, xfmrIndex) => NumberedFrom(name, 0, xfmrIndex')
    BY <1>1, <1>18 DEF NumberedFrom
  <2>2. \A name : NumberedFrom(name, xfmrIndex, next) => NumberedFrom(name, 0, xfmrIndex')
    BY <1>1, <1>18 DEF NumberedFrom
  <2>3. /\ DOMAIN all = 1 .. n + m
        /\ \A k \in 1 .. n : all[k] = old[k]
        /\ \A k \in 1 .. m : all[n + k] = new[k]
        /\ \A p \in 1 .. n + m : p \in 1 .. n \/ \E k \in 1 .. m : p = n + k
    BY <1>20 DEF Parted
  <2> HIDE DEF all
  <2>4. QED
    BY <1>14, <1>21, <2>1, <2>2, <2>3
<1>24. \A p, q \in DOMAIN all : all[p].name = all[q].name => p = q
  <2>1. \A j, k \in 1 .. n : old[j].name = old[k].name => j = k
    BY <1>19 DEF UsualTransformers
  <2> SUFFICES ASSUME NEW p \in DOMAIN all, NEW q \in DOMAIN all, all[p].name = all[q].name PROVE p = q
    OBVIOUS
  <2>2. (p \in 1 .. n \/ \E k \in 1 .. m : p = n + k) /\ (q \in 1 .. n \/ \E k \in 1 .. m : q = n + k)
    BY <1>20 DEF Parted
  <2>3. /\ \A k \in 1 .. n : all[k] = old[k]
        /\ \A k \in 1 .. m : all[n + k] = new[k]
    BY <1>20 DEF Parted
  <2> HIDE DEF all
  <2>4. CASE p \in 1 .. n /\ q \in 1 .. n
    BY <2>1, <2>3, <2>4
  <2>5. ASSUME NEW k \in 1 .. m, p = n + k, q \in 1 .. n PROVE FALSE
    BY <1>22, <2>3, <2>5
  <2>6. ASSUME NEW k \in 1 .. m, q = n + k, p \in 1 .. n PROVE FALSE
    BY <1>22, <2>3, <2>6
  <2>7. ASSUME NEW j \in 1 .. m, NEW k \in 1 .. m, p = n + j, q = n + k PROVE p = q
    BY <1>15, <2>3, <2>7
  <2>8. QED
    BY <2>2, <2>4, <2>5, <2>6, <2>7
<1>25. QED
  BY <1>16, <1>23, <1>24 DEF UsualTransformers

\* With no taps there is nothing to show.
LEMMA NoWork == ASSUME NEW from PROVE UsualTaps(<<>>) /\ UsualSpecs(<<>>, <<>>, from)
BY DEF UsualTaps, UsualSpecs, TapsOfTransformers

\* A transformer described in the usual way bears the next number.
LEMMA SpecCounted ==
    ASSUME StationInv, NEW s \in TransformerSpecs
    PROVE  /\ s.count \in Nat
           /\ s.count = 0 => IsUsualSpec(s.spec) /\ s.spec.name = Xfmr(XfmrNum)
<1>1. PICK name \in AskStr({Xfmr(XfmrNum)}, IedNames),
           kv \in {v \in AskFloat(LvVoltages, 0) : ~AtMost(draft.kv, v)},
           outputs \in Answers({<<Feed(1)>>}, {<<Feed(1), Feed(2)>>}) :
         s = SpecAnswer(name, kv, outputs)
  BY DEF TransformerSpecs
<1>2. name[2] \in {0, 1} /\ (name[2] = 0 => name[1] \in {Xfmr(XfmrNum)})
  BY <1>1, UsualAnswer DEF AskStr
<1>3. outputs[2] \in {0, 1} /\ (outputs[2] = 0 => outputs[1] \in {<<Feed(1)>>})
  BY <1>1, UsualAnswer
<1>4. kv \in LvVoltages /\ XfmrNum \in Nat
  BY <1>1, XfmrNumNat DEF AskFloat
<1>5. /\ s.count = name[2] + outputs[2]
      /\ s.spec = [name |-> name[1], kv |-> kv, outputs |-> outputs[1]]
  BY <1>1 DEF SpecAnswer
<1>6. ASSUME s.count = 0 PROVE IsUsualSpec(s.spec) /\ s.spec.name = Xfmr(XfmrNum)
  <2>1. name[1] = Xfmr(XfmrNum) /\ outputs[1] = <<Feed(1)>>
    BY <1>2, <1>3, <1>5, <1>6
  <2>2. QED
    BY <1>4, <1>5, <2>1 DEF IsUsualSpec
<1>7. QED
  BY <1>2, <1>3, <1>5, <1>6

\* With usual answers the station stays a usual one: a level is named, ...
LEMMA UsualNameLevel == ASSUME StationInv, UsualInv, NameLevel PROVE UsualInv'
<1> DEFINE usual == <<"V", Len(levels) + 1, <<>>>>
<1>1. PICK name \in AskStr({usual}, Identifiers), kv \in Answers(AskFloat(Voltages, 0), AskFloat(OddVoltages, 0)),
           layout \in Layouts :
              /\ Take(<<name, name[2] + kv[2]>>)
              /\ draft' = [name |-> name[1], kv |-> kv[1], layout |-> layout]
  BY DEF NameLevel
<1>2. /\ name[2] \in {0, 1} /\ (name[2] = 0 => name[1] = usual)
      /\ kv[2] \in {0, 1} /\ (kv[2] = 0 => kv[1] \in Voltages)
  <2>1. name[2] \in {0, 1} /\ (name[2] = 0 => name[1] \in {usual})
    BY <1>1, UsualAnswer DEF AskStr
  <2>2. kv[2] \in {0, 1} /\ (kv[2] = 0 => kv[1] \in AskFloat(Voltages, 0))
    BY <1>1, UsualAnswer
  <2>3. QED
    BY <2>1, <2>2 DEF AskFloat
<1>3. odd' = odd + (name[2] + kv[2]) /\ odd \in Nat
  BY <1>1 DEF Take, UsualInv
<1>4. odd' \in Nat /\ (odd' = 0 => odd = 0 /\ name[2] = 0 /\ kv[2] = 0)
  BY <1>2, <1>3
<1>5. ASSUME odd' = 0 PROVE UsualStation'
  <2>1. UsualStation
    BY <1>4, <1>5 DEF UsualInv
  <2>2. draft'.name = usual /\ draft'.kv \in Voltages
    BY <1>1, <1>2, <1>4, <1>5
  <2>3. phase' = "taps" /\ taps' = <<>> /\ specs' = <<>> /\ UNCHANGED <<built, settings>>
    BY DEF NameLevel
  <2>4. UsualWork'
    BY <2>3, NoWork DEF UsualWork
  <2>5. UsualLevels' /\ UsualTransformers' /\ UsualScada'
    BY <2>1, <2>3 DEF UsualStation, UsualLevels, UsualTransformers, UsualScada, built
  <2>6. UsualDraft'
    BY <2>2, <2>3 DEF UsualDraft, built
  <2>7. QED
    BY <2>4, <2>5, <2>6 DEF UsualStation
<1>6. QED
  BY <1>4, <1>5 DEF UsualInv

\* ... a tap is added, ...
LEMMA UsualAddTap == ASSUME StationInv, UsualInv, AddTap, StationInv' PROVE UsualInv'
<1> DEFINE usual == <<"Tap", Len(taps) + 1, <<>>>>
<1>0. PICK name \in AskStr({usual}, Identifiers), kind \in Kinds :
         \E s \in IF kind = "transformer" THEN TransformerSpecs ELSE {[spec |-> NoSpec, count |-> 0]} :
            /\ Take(<<name, name[2] + s.count>>)
            /\ taps' = Append(taps, [name |-> name[1], kind |-> kind])
            /\ specs' = Append(specs, s.spec)
  BY DEF AddTap
<1>1. PICK s \in IF kind = "transformer" THEN TransformerSpecs ELSE {[spec |-> NoSpec, count |-> 0]} :
         /\ Take(<<name, name[2] + s.count>>)
         /\ taps' = Append(taps, [name |-> name[1], kind |-> kind])
         /\ specs' = Append(specs, s.spec)
  BY <1>0
<1>2. name[2] \in {0, 1} /\ (name[2] = 0 => name[1] = usual)
  <2>1. name[2] \in {0, 1} /\ (name[2] = 0 => name[1] \in {usual})
    BY <1>0, UsualAnswer DEF AskStr
  <2>2. QED
    BY <2>1
<1>3. /\ s.count \in Nat
      /\ s.count = 0 => IF kind = "transformer" THEN IsUsualSpec(s.spec) /\ s.spec.name = Xfmr(XfmrNum)
                        ELSE s.spec = NoSpec
  <2>1. CASE kind = "transformer"
    <3>1. s \in TransformerSpecs
      BY <1>1, <2>1
    <3>2. QED
      BY <2>1, <3>1, SpecCounted
  <2>2. CASE kind # "transformer"
    BY <1>1, <2>2
  <2>3. QED
    BY <2>1, <2>2
<1>4. odd' = odd + (name[2] + s.count) /\ odd \in Nat
  BY <1>1 DEF Take, UsualInv
<1>5. odd' \in Nat /\ (odd' = 0 => odd = 0 /\ name[2] = 0 /\ s.count = 0)
  BY <1>2, <1>3, <1>4
<1>6. ASSUME odd' = 0 PROVE UsualStation'
  <2> DEFINE tap == [name |-> name[1], kind |-> kind]
  <2>1. UsualStation
    BY <1>5, <1>6 DEF UsualInv
  <2>2. name[1] = usual /\ s.count = 0
    BY <1>2, <1>5, <1>6
  <2>3. /\ taps \in Seq(TapSet) /\ specs \in Seq(SpecSet) /\ DOMAIN specs = DOMAIN taps /\ xfmrIndex \in Nat
        /\ taps' \in Seq(TapSet) /\ specs' \in Seq(SpecSet)
    BY DEF StationInv, DraftTyped, TransformersPlaced
  <2>4. /\ Len(taps) \in Nat /\ DOMAIN taps = 1 .. Len(taps) /\ DOMAIN taps' = 1 .. Len(taps) + 1
        /\ \A i \in 1 .. Len(taps) : taps'[i] = taps[i]
        /\ taps'[Len(taps) + 1] = tap
    BY <1>1, <2>3
  <2>5. tap \in TapSet /\ s.spec \in SpecSet
    <3>1. taps'[Len(taps) + 1] \in TapSet
      BY <2>3, <2>4
    <3>2. Len(specs) \in Nat /\ Len(specs) + 1 \in DOMAIN specs' /\ specs'[Len(specs) + 1] = s.spec
      BY <1>1, <2>3
    <3>3. specs'[Len(specs) + 1] \in SpecSet
      BY <2>3, <3>2
    <3>4. QED
      BY <2>4, <3>1, <3>2, <3>3
  <2>6. UsualTaps(taps)'
    <3>1. UsualTaps(taps)
      BY <2>1 DEF UsualStation, UsualWork
    <3>2. \A i \in 1 .. Len(taps) : taps[i].name = <<"Tap", i, <<>>>>
      BY <2>4, <3>1 DEF UsualTaps
    <3>3. taps'[Len(taps) + 1].name = usual
      BY <2>2, <2>4
    <3>4. \A i \in 1 .. Len(taps) + 1 : i \in 1 .. Len(taps) \/ i = Len(taps) + 1
      BY <2>4
    <3>5. \A i \in 1 .. Len(taps) + 1 : taps'[i].name = <<"Tap", i, <<>>>>
      BY <2>4, <3>2, <3>3, <3>4
    <3>6. QED
      BY <2>4, <3>5 DEF UsualTaps
  <2>7. UsualSpecs(taps, specs, xfmrIndex)'
    <3>1. UsualSpecs(taps, specs, xfmrIndex)
      BY <2>1 DEF UsualStation, UsualWork
    <3>2. XfmrNum = xfmrIndex + Cardinality(TapsOfTransformers(taps))
      BY DEF XfmrNum, TransformerTaps, TapsOfTransformers
    <3>3. IF tap.kind = "transformer"
          THEN /\ IsUsualSpec(s.spec)
               /\ s.spec.name = Xfmr(xfmrIndex + Cardinality(TapsOfTransformers(taps)))
          ELSE s.spec = NoSpec
      BY <1>3, <2>2, <3>2
    <3> HIDE DEF tap
    <3>4. UsualSpecs(Append(taps, tap), Append(specs, s.spec), xfmrIndex)
      BY <2>3, <2>5, <3>1, <3>3, SpecAdded
    <3>5. xfmrIndex' = xfmrIndex
      BY DEF AddTap, built
    <3>6. QED
      BY <1>1, <3>4, <3>5 DEF tap
  <2>8. UNCHANGED <<phase, built, draft, settings>>
    BY DEF AddTap
  <2>9. QED
    BY <2>1, <2>6, <2>7, <2>8
       DEF UsualStation, UsualLevels, UsualTransformers, UsualWork, UsualDraft, UsualScada, built
<1>7. QED
  BY <1>5, <1>6 DEF UsualInv

\* ... a level is completed, ...
LEMMA UsualCompleteLevel == ASSUME StationInv, UsualInv, CompleteLevel PROVE UsualInv'
<1> DEFINE lv == Build(draft.name, draft.kv, draft.layout, taps, breakerIndex)
<1>1. odd' = odd /\ odd \in Nat
  BY DEF CompleteLevel, UsualInv
<1>2. ASSUME odd = 0 PROVE UsualStation'
  <2>1. UsualStation
    BY <1>2 DEF UsualInv
  <2>2. UsualTransformers'
    BY <2>1, TransformersAdded DEF UsualStation, UsualWork
  <2>3. /\ phase = "taps" /\ phase' = "another" /\ taps' = <<>> /\ specs' = <<>>
        /\ levels' = Append(levels, lv) /\ ~Refuses(draft.layout, taps)
    BY DEF CompleteLevel
  <2>4. UsualWork' /\ UsualDraft' /\ UsualScada'
    BY <2>3, NoWork DEF UsualWork, UsualDraft, UsualScada
  <2>5. UsualLevels'
    <3>1. draft.name = <<"V", Len(levels) + 1, <<>>>> /\ draft.kv \in Voltages
      BY <2>1, <2>3 DEF UsualStation, UsualDraft
    <3>2. draft.layout \in Layouts /\ taps \in Seq(TapSet) /\ breakerIndex \in Nat /\ UsualTaps(taps)
      BY <2>1, <2>3 DEF StationInv, DraftTyped, LevelsBuilt, UsualStation, UsualWork
    <3>3. IsUsualLevel(lv, Len(levels) + 1)
      BY <2>3, <3>1, <3>2 DEF IsUsualLevel
    <3> HIDE DEF lv
    <3>4. /\ Len(levels) \in Nat /\ DOMAIN levels = 1 .. Len(levels)
          /\ DOMAIN levels' = 1 .. Len(levels) + 1
          /\ \A k \in 1 .. Len(levels) : levels'[k] = levels[k]
          /\ levels'[Len(levels) + 1] = lv
      <4>1. levels \in Seq(BuiltLevels)
        BY DEF StationInv, LevelsBuilt
      <4>2. QED
        BY <2>3, <4>1
    <3>5. \A k \in 1 .. Len(levels) + 1 : k \in 1 .. Len(levels) \/ k = Len(levels) + 1
      BY <3>4
    <3>6. \A k \in 1 .. Len(levels) : IsUsualLevel(levels[k], k)
      BY <2>1, <3>4 DEF UsualStation, UsualLevels
    <3>7. \A k \in 1 .. Len(levels) + 1 : IsUsualLevel(levels'[k], k)
      BY <3>3, <3>4, <3>5, <3>6
    <3>8. QED
      BY <3>4, <3>7 DEF UsualLevels
  <2>6. QED
    BY <2>2, <2>4, <2>5 DEF UsualStation
<1>3. QED
  BY <1>1, <1>2 DEF UsualInv

\* ... and the SCADA is named.
LEMMA UsualCollectSettings == ASSUME UsualInv, CollectSettings PROVE UsualInv'
<1> DEFINE usual == [iedName |-> <<"SCADA", 1, <<>>>>, undervoltage |-> TRUE, trip |-> TRUE]
<1>1. PICK p \in ProtectionAnswers, n \in NetworkAnswers, i \in IedSettingsAnswers, s \in ScadaAnswers :
         /\ Take(<<p, p[2] + n[2] + i[2] + s[2]>>)
         /\ settings' = [protection |-> p[1], network |-> n[1], ied |-> i[1], scada |-> s[1]]
  BY DEF CollectSettings
<1>2. p[2] \in {0, 1} /\ n[2] \in {0, 1} /\ i[2] \in {0, 1}
  <2>1. p[2] \in {0, 1}
    BY <1>1 DEF ProtectionAnswers, Section, Answers
  <2>2. n[2] \in {0, 1}
    BY <1>1 DEF NetworkAnswers, Section, Answers
  <2>3. i[2] \in {0, 1}
    BY <1>1 DEF IedSettingsAnswers, Section, Answers
  <2>4. QED
    BY <2>1, <2>2, <2>3
<1>3. s[2] \in {0, 1} /\ (s[2] = 0 => s[1] = usual)
  <2>1. s[2] \in {0, 1} /\ (s[2] = 0 => s[1] \in {usual})
    BY <1>1, UsualAnswer DEF ScadaAnswers, Section
  <2>2. QED
    BY <2>1
<1>4. odd' = odd + (p[2] + n[2] + i[2] + s[2]) /\ odd \in Nat
  BY <1>1 DEF Take, UsualInv
<1>5. odd' \in Nat /\ (odd' = 0 => odd = 0 /\ s[2] = 0)
  BY <1>2, <1>3, <1>4
<1>6. ASSUME odd' = 0 PROVE UsualStation'
  <2>1. UsualStation /\ s[1] = usual
    BY <1>3, <1>5, <1>6 DEF UsualInv
  <2>2. settings'.scada = s[1]
    BY <1>1
  <2>3. settings'.scada.iedName = <<"SCADA", 1, <<>>>>
    BY <2>1, <2>2
  <2>4. phase' = "confirm" /\ UNCHANGED <<built, level>>
    BY DEF CollectSettings
  <2>5. QED
    BY <2>1, <2>3, <2>4
       DEF UsualStation, UsualLevels, UsualTransformers, UsualWork, UsualDraft, UsualScada, built, level
<1>7. QED
  BY <1>5, <1>6 DEF UsualInv

\* Every turn of the dialogue leaves a usual station, or counts another answer.
LEMMA UsualKept == StationInv /\ UsualInv /\ Next => UsualInv'
<1> SUFFICES ASSUME StationInv, UsualInv, Next PROVE UsualInv'
  OBVIOUS
<1>1. CASE AddTap
  <2>1. StationInv'
    BY <1>1, AddTapStation
  <2>2. QED
    BY <1>1, <2>1, UsualAddTap
<1>2. CASE RedoTaps
  BY <1>2, NoWork
     DEF RedoTaps, UsualInv, UsualStation, UsualLevels, UsualTransformers, UsualWork, UsualDraft, UsualScada, built
<1>3. CASE Crash
  BY <1>3 DEF Crash, UsualInv, UsualStation, UsualLevels, UsualTransformers, UsualWork, UsualDraft, UsualScada,
              built, level
<1>4. CASE AddAnother
  BY <1>4 DEF AddAnother, UsualInv, UsualStation, UsualLevels, UsualTransformers, UsualWork, UsualDraft,
              UsualScada, built, level
<1>5. CASE Confirm
  BY <1>5 DEF Confirm, UsualInv, UsualStation, UsualLevels, UsualTransformers, UsualWork, UsualDraft, UsualScada,
              built, level
<1>6. QED
  BY <1>1, <1>2, <1>3, <1>4, <1>5, UsualNameLevel, UsualCompleteLevel, UsualCollectSettings DEF Next

\* The dialogue begins with one.
LEMMA UsualInit == Init => UsualInv /\ NumberInv
BY NoWork DEF Init, UsualInv, UsualStation, UsualLevels, UsualTransformers, UsualWork, UsualDraft, UsualScada, NumberInv,
                   LevelsNumbered

-----------------------------------------------------------------------------
(* The names in a usual station. *)

IsUsual(st) ==
    /\ StationOk(st) /\ LevelsNumbered(st.levels)
    /\ \A k \in DOMAIN st.levels : IsUsualLevel(st.levels[k], k)
    /\ \A i \in DOMAIN st.transformers : /\ IsUsualTransformer(st.transformers[i])
                                         /\ \E m \in Nat : st.transformers[i].name = Xfmr(m)
    /\ \A i, j \in DOMAIN st.transformers : st.transformers[i].name = st.transformers[j].name => i = j
    /\ st.scada.iedName = <<"SCADA", 1, <<>>>>

\* Breakers of one level have different names, ...
LEMMA LevelBreakersDiffer ==
    ASSUME NEW lv \in BuiltLevels, NEW p \in DOMAIN Breakers(lv), NEW q \in DOMAIN Breakers(lv), p < q
    PROVE  Breakers(lv)[p].name # Breakers(lv)[q].name
<1> DEFINE s == lv.breakers
           P == {x \in DOMAIN s : s[x].type = "CBR"}
           t == Breakers(lv)
<1>1. s \in Seq(Devices)
  BY BuiltLevelShape
<1>2. t = At(s, P) /\ P \in SUBSET DOMAIN s
  BY DEF Breakers, Chosen, IsCbr
<1>3. \E f \in [DOMAIN At(s, P) -> P] :
         /\ \A x \in DOMAIN At(s, P) : At(s, P)[x] = s[f[x]]
         /\ \A x, y \in DOMAIN At(s, P) : x < y => f[x] < f[y]
  <2> HIDE DEF s, P
  <2> QED
    BY <1>1, <1>2, AtPlaces
<1>4. PICK f \in [DOMAIN t -> P] : /\ \A x \in DOMAIN t : t[x] = s[f[x]]
                                   /\ \A x, y \in DOMAIN t : x < y => f[x] < f[y]
  BY <1>2, <1>3
<1> HIDE DEF t
<1>5. /\ p \in DOMAIN t /\ q \in DOMAIN t /\ f[p] < f[q]
      /\ f[p] \in DOMAIN s /\ f[q] \in DOMAIN s /\ s[f[p]].type = "CBR" /\ s[f[q]].type = "CBR"
  <2>1. p \in DOMAIN t /\ q \in DOMAIN t
    BY DEF t
  <2>2. f[p] \in P /\ f[q] \in P
    BY <1>4, <2>1
  <2>3. QED
    BY <1>4, <2>1, <2>2
<1> HIDE DEF P
<1>6. PICK i \in Nat, j \in Nat : i < j /\ s[f[p]].name = CbrName(i) /\ s[f[q]].name = CbrName(j)
  BY <1>5, LevelOrder
<1>7. t[p].name = CbrName(i) /\ t[q].name = CbrName(j)
  BY <1>4, <1>5, <1>6
<1>8. CbrName(i) # CbrName(j)
  BY <1>6, NumberInName
<1>9. QED
  BY <1>7, <1>8 DEF t

\* ... and so have those of a station.
LEMMA BreakersDiffer ==
    ASSUME NEW st, StationOk(st), LevelsNumbered(st.levels),
           NEW i \in 1 .. BreakersOf(st), NEW j \in 1 .. BreakersOf(st),
           AllBreakers(st)[i].name = AllBreakers(st)[j].name
    PROVE  i = j
<1> DEFINE L == st.levels
           lists == [x \in DOMAIN L |-> Breakers(L[x])]
           all == AllBreakers(st)
<1>1. L \in Seq(BuiltLevels)
  BY DEF StationOk
<1>2. \A x \in DOMAIN L : x \in Nat /\ L[x] \in BuiltLevels
  BY <1>1
<1>3. lists \in Seq(Seq(BreakerSet))
  <2>1. \A x \in DOMAIN L : lists[x] \in Seq(BreakerSet)
    BY <1>2, LevelBreakers
  <2> DEFINE W == Seq(BreakerSet)
  <2>2. DOMAIN lists = DOMAIN L /\ lists = [x \in DOMAIN L |-> lists[x]]
    OBVIOUS
  <2> HIDE DEF L, lists, W
  <2>3. QED
    BY <1>1, <2>1, <2>2, ImageSeq DEF W
<1>4. all = FlattenSeq(lists)
  BY DEF AllBreakers, Each
<1>5. DOMAIN lists = DOMAIN L /\ \A x \in DOMAIN L : lists[x] = Breakers(L[x])
  OBVIOUS
<1>6. i \in DOMAIN all /\ j \in DOMAIN all
  BY Counts
<1> HIDE DEF all, lists, L
<1>7. PICK at : Lists(all, lists, at)
  BY <1>3, <1>4, FlattenLists
<1>8. ASSUME NEW x \in DOMAIN all, NEW y \in DOMAIN all, x < y PROVE all[x].name # all[y].name
  <2> DEFINE v == at[x][1]
             w == at[y][1]
             p == at[x][2]
             q == at[y][2]
  <2>1. /\ at[x] \in Places(lists) /\ at[y] \in Places(lists)
        /\ all[x] = lists[v][p] /\ all[y] = lists[w][q]
        /\ v < w \/ (v = w /\ p < q)
    BY <1>7, <1>8 DEF Lists
  <2>2. /\ v \in DOMAIN L /\ w \in DOMAIN L /\ p \in DOMAIN Breakers(L[v]) /\ q \in DOMAIN Breakers(L[w])
        /\ all[x] = Breakers(L[v])[p] /\ all[y] = Breakers(L[w])[q]
    BY <1>5, <2>1 DEF Places
  <2> HIDE DEF v, w, p, q
  <2>3. CASE v = w /\ p < q
    BY <1>2, <2>2, <2>3, LevelBreakersDiffer
  <2>4. CASE v < w
    <3>1. all[x] \in Range(Breakers(L[v])) /\ all[y] \in Range(Breakers(L[w]))
      BY <2>2 DEF Range
    <3>2. all[x] \in Range(L[v].breakers) \cap BreakerSet /\ all[y] \in Range(L[w].breakers) \cap BreakerSet
      BY <1>2, <2>2, <3>1, LevelBreakers
    <3>3. PICK m \in Nat, n \in Nat : all[x] = BreakerOf(m) /\ all[y] = BreakerOf(n)
      BY <3>2 DEF BreakerSet
    <3>4. m < n
      BY <2>2, <2>4, <3>2, <3>3 DEF LevelsNumbered, L
    <3>5. CbrName(m) # CbrName(n)
      BY <3>4, NumberInName
    <3>6. QED
      BY <3>3, <3>5, BreakerFields
  <2>5. QED
    BY <2>1, <2>3, <2>4 DEF v, w, p, q
<1>9. ~ (i < j) /\ ~ (j < i)
  BY <1>6, <1>8 DEF all
<1>10. i \in Nat /\ j \in Nat
  BY Counts
<1>11. QED
  BY <1>9, <1>10

\* No two IEDs of a usual station have the same name.
LEMMA UsualIedsDiffer ==
    ASSUME NEW st, IsUsual(st), NEW i \in 1 .. ScadaPlace(st), NEW j \in 1 .. ScadaPlace(st),
           IedAt(st, i).name = IedAt(st, j).name
    PROVE  i = j
<1> DEFINE n == BreakersOf(st)
           m == XfmrsOf(st)
           Nm(k) == IedAt(st, k).name
<1>1. StationOk(st)
  BY DEF IsUsual
<1>2. n \in Nat /\ m \in Nat /\ DOMAIN st.transformers = 1 .. m
  BY <1>1, Counts
<1>3. \A k \in 1 .. n : Nm(k)[1] = "CB" /\ Nm(k) = AllBreakers(st)[k].name
  <2>1. \A k \in 1 .. n : Nm(k) = AllBreakers(st)[k].name /\ AllBreakers(st)[k] \in BreakerSet
    BY <1>1, Counts, NamesOfIeds
  <2>2. \A b \in BreakerSet : b.name[1] = "CB"
    BY BreakerFields DEF BreakerSet, CbrName
  <2>3. QED
    BY <2>1, <2>2
<1>4. \A k \in 1 .. m : Nm(n + k)[1] = "XFMR" /\ Nm(n + k) = st.transformers[k].name
  <2>1. \A k \in 1 .. m : Nm(n + k) = st.transformers[k].name
    BY <1>1, NamesOfIeds
  <2>2. \A k \in 1 .. m : \E x \in Nat : st.transformers[k].name = Xfmr(x)
    BY <1>2 DEF IsUsual
  <2>3. \A x : Xfmr(x)[1] = "XFMR"
    BY DEF Xfmr
  <2>4. QED
    BY <2>1, <2>2, <2>3
<1>5. Nm(n + m + 1)[1] = "SCADA"
  <2>1. Nm(n + m + 1) = st.scada.iedName
    BY <1>1, NamesOfIeds DEF ScadaPlace
  <2>2. QED
    BY <2>1 DEF IsUsual
<1>6. \A k \in 1 .. n + m + 1 : \/ k \in 1 .. n \/ (\E x \in 1 .. m : k = n + x) \/ k = n + m + 1
  <2>1. \A k \in 1 .. n + m + 1 : \/ k \in 1 .. n \/ (k - n \in 1 .. m /\ k = n + (k - n)) \/ k = n + m + 1
    BY <1>2
  <2>2. QED
    BY <2>1
<1>7. \A x, y \in 1 .. m : Nm(n + x) = Nm(n + y) => x = y
  <2>1. \A x, y \in 1 .. m : st.transformers[x].name = st.transformers[y].name => x = y
    BY <1>2 DEF IsUsual
  <2>2. QED
    BY <1>4, <2>1
<1>8. \A x, y \in 1 .. n : Nm(x) = Nm(y) => x = y
  <2>1. \A x, y \in 1 .. n : AllBreakers(st)[x].name = AllBreakers(st)[y].name => x = y
    BY <1>1, BreakersDiffer DEF IsUsual
  <2>2. QED
    BY <1>3, <2>1
<1>9. i \in 1 .. n + m + 1 /\ j \in 1 .. n + m + 1 /\ Nm(i) = Nm(j)
  BY DEF ScadaPlace
<1> HIDE DEF n, m, Nm
<1>10. CASE i \in 1 .. n
  BY <1>3, <1>4, <1>5, <1>6, <1>8, <1>9, <1>10
<1>11. ASSUME NEW x \in 1 .. m, i = n + x PROVE i = j
  <2>1. \E y \in 1 .. m : j = n + y
    BY <1>3, <1>4, <1>5, <1>6, <1>9, <1>11
  <2>2. QED
    BY <1>7, <1>9, <1>11, <2>1
<1>12. CASE i = n + m + 1
  BY <1>3, <1>4, <1>5, <1>6, <1>9, <1>12
<1>13. QED
  BY <1>6, <1>9, <1>10, <1>11, <1>12

\* The schema finds no name of an IED twice, ...
LEMMA UsualIedNames ==
    ASSUME NEW st, IsUsual(st)
    PROVE  Distinct(Names(Document(st).ieds))
<1> DEFINE s == Document(st).ieds
           t == [k \in DOMAIN s |-> s[k].name]
<1>1. Names(s) = t
  BY DEF Names, Each
<1>2. DOMAIN s = 1 .. ScadaPlace(st)
  BY IedsOfDocument DEF IsUsual
<1>3. \A i, j \in 1 .. ScadaPlace(st) : IedAt(st, i).name = IedAt(st, j).name => i = j
  BY UsualIedsDiffer
<1>4. \A i, j \in DOMAIN s : s[i].name = s[j].name => i = j
  BY <1>2, <1>3 DEF IedAt
<1> HIDE DEF s
<1>5. Distinct(t)
  BY <1>4 DEF Distinct
<1>6. QED
  BY <1>1, <1>5 DEF s

\* ... an access point for every IED, ...
LEMMA UsualAps ==
    ASSUME NEW st, IsUsual(st), NEW net \in Range(Document(st).subnets)
    PROVE  /\ Distinct(Each(LAMBDA ap : ap.ied, net.aps))
           /\ \A ap \in Range(net.aps) : \E ied \in Range(Document(st).ieds) : ied.name = ap.ied
<1> DEFINE n == ScadaPlace(st)
           s == SubNetwork(st).aps
           ieds == Document(st).ieds
           t == [k \in DOMAIN s |-> s[k].ied]
<1>1. StationOk(st)
  BY DEF IsUsual
<1>2. net = SubNetwork(st)
  <2>1. Document(st).subnets = <<SubNetwork(st)>>
    BY DEF Document
  <2>2. QED
    BY <2>1, OneElement
<1>3. DOMAIN s = 1 .. n /\ DOMAIN ieds = 1 .. n
  BY <1>1, ApsOfDocument, IedsOfDocument
<1>4. \A i \in 1 .. n : s[i].ied = ieds[i].name
  BY <1>1, NamesOfIeds DEF ApAt, IedAt
<1>5. \A i, j \in 1 .. n : ieds[i].name = ieds[j].name => i = j
  BY UsualIedsDiffer DEF IedAt
<1>6. Each(LAMBDA ap : ap.ied, net.aps) = t
  BY <1>2 DEF Each
<1> HIDE DEF s, ieds, n
<1>7. Distinct(t)
  BY <1>3, <1>4, <1>5 DEF Distinct
<1>8. \A ap \in Range(s) : \E ied \in Range(ieds) : ied.name = ap.ied
  BY <1>3, <1>4 DEF Range
<1>9. QED
  BY <1>2, <1>6, <1>7, <1>8 DEF s, ieds

\* ... and different names for transformers and levels.
LEMMA UsualSubstationNames ==
    ASSUME NEW st, IsUsual(st)
    PROVE  Distinct(Names(Document(st).substation.transformers) \o Names(Document(st).substation.levels))
<1> DEFINE n == Len(st.levels)
           m == XfmrsOf(st)
           lvs == [k \in 1 .. m |-> st.transformers[k].lv]
           all == AllLevels(st)
           sub == Document(st).substation
           s == [k \in 1 .. m |-> st.transformers[k].name]
           t == [k \in 1 .. n |-> st.levels[k].name]
           u == [k \in 1 .. m |-> st.transformers[k].lv.name]
           v == [k \in 1 .. n + m |-> all[k].name]
<1>1. m \in Nat /\ DOMAIN st.transformers = 1 .. m
  BY Counts DEF IsUsual
<1>2. n \in Nat /\ DOMAIN st.levels = 1 .. n /\ st.levels = [k \in 1 .. n |-> st.levels[k]]
  <2>1. st.levels \in Seq(BuiltLevels)
    BY DEF IsUsual, StationOk
  <2>2. QED
    BY <2>1
<1>3. all = st.levels \o lvs
  BY <1>1 DEF AllLevels, Each
<1>4. lvs = [k \in 1 .. m |-> lvs[k]] /\ \A k \in 1 .. m : lvs[k] = st.transformers[k].lv
  OBVIOUS
<1>5. /\ DOMAIN all = 1 .. n + m
      /\ \A k \in 1 .. n : all[k] = st.levels[k]
      /\ \A k \in 1 .. m : all[n + k] = st.transformers[k].lv
      /\ \A p \in 1 .. n + m : p \in 1 .. n \/ \E k \in 1 .. m : p = n + k
  <2> DEFINE l == st.levels
  <2>1. Counted(l, n) /\ Counted(lvs, m)
    BY <1>2, <1>4 DEF Counted
  <2> HIDE DEF l, n, m, lvs, all
  <2>2. Parted(l, lvs, n, m)
    BY <1>1, <1>2, <2>1, TwoParts
  <2>3. QED
    BY <1>3, <1>4, <2>2 DEF l, Parted
<1>6. Names(sub.transformers) = s /\ Names(sub.levels) = v
  <2>1. /\ sub.transformers = [k \in 1 .. m |-> TransformerElement(st, st.transformers[k])]
        /\ sub.levels = [k \in DOMAIN all |-> LevelElement(all[k])]
    BY <1>1 DEF Document, SubstationElement, Each
  <2>2. /\ \A x : TransformerElement(st, x).name = x.name
        /\ \A lv : LevelElement(lv).name = lv.name
    BY DEF TransformerElement, LevelElement
  <2> HIDE DEF all, sub, m, n
  <2>3. QED
    BY <1>5, <2>1, <2>2 DEF Names, Each
<1>7. \A k \in 1 .. n : all[k].name = <<"V", k, <<>>>>
  <2> SUFFICES ASSUME NEW k \in 1 .. n PROVE all[k].name = <<"V", k, <<>>>>
    OBVIOUS
  <2>1. IsUsualLevel(st.levels[k], k)
    BY <1>2 DEF IsUsual
  <2>2. st.levels[k].name = <<"V", k, <<>>>>
    BY <2>1, TapsOfBuild DEF IsUsualLevel
  <2>3. QED
    BY <1>5, <2>2
<1>8. \A k \in 1 .. m : \E x \in Nat : s[k] = Xfmr(x) /\ all[n + k].name = Suffixed(Xfmr(x), "LV")
  <2> SUFFICES ASSUME NEW k \in 1 .. m
               PROVE  \E x \in Nat : s[k] = Xfmr(x) /\ all[n + k].name = Suffixed(Xfmr(x), "LV")
    OBVIOUS
  <2>1. IsUsualTransformer(st.transformers[k]) /\ \E x \in Nat : st.transformers[k].name = Xfmr(x)
    BY <1>1 DEF IsUsual
  <2>2. PICK x \in Nat : st.transformers[k].name = Xfmr(x)
    BY <2>1
  <2>3. PICK kv \in LvVoltages : st.transformers[k].lv = LvLevel(st.transformers[k].name, kv, <<Feed(1)>>)
    BY <2>1 DEF IsUsualTransformer
  <2>4. st.transformers[k].lv.name = Suffixed(Xfmr(x), "LV")
    BY <2>2, <2>3 DEF LvLevel, Level
  <2>5. QED
    BY <1>5, <2>2, <2>4
<1>9. \A j, k \in 1 .. m : s[j] = s[k] => j = k
  BY <1>1 DEF IsUsual
<1>10. s = [k \in 1 .. m |-> s[k]] /\ v = [k \in 1 .. n + m |-> v[k]] /\ \A k \in 1 .. n + m : v[k] = all[k].name
  OBVIOUS
<1> HIDE DEF n, m, s, v, all
<1>11. Parted(s, v, m, n + m)
  <2>1. n + m \in Nat
    BY <1>1, <1>2
  <2>2. QED
    BY <1>1, <1>10, <2>1, TwoParts DEF Counted
<1> DEFINE w == s \o v
<1>12. /\ DOMAIN w = 1 .. m + (n + m)
       /\ \A k \in 1 .. m : w[k] = s[k]
       /\ \A k \in 1 .. n + m : w[m + k] = all[k].name
       /\ \A p \in 1 .. m + (n + m) : p \in 1 .. m \/ \E k \in 1 .. n + m : p = m + k
  BY <1>10, <1>11 DEF Parted
<1>13. \A x, y : Xfmr(x) = Xfmr(y) => x = y
  BY DEF Xfmr
<1>14. /\ \A x : /\ Xfmr(x)[1] = "XFMR" /\ Xfmr(x)[3] = <<>>
                 /\ Suffixed(Xfmr(x), "LV")[1] = "XFMR" /\ Suffixed(Xfmr(x), "LV")[3] = <<"LV">>
                 /\ Suffixed(Xfmr(x), "LV")[2] = Xfmr(x)[2]
       /\ \A k : <<"V", k, <<>>>>[1] = "V" /\ <<"V", k, <<>>>>[2] = k
       /\ <<>> # <<"LV">>
  BY DEF Xfmr, Suffixed
<1>15. \A p \in 1 .. m + (n + m) :
          \/ p \in 1 .. m /\ w[p][1] = "XFMR" /\ w[p][3] = <<>>
          \/ \E k \in 1 .. n : p = m + k /\ w[p][1] = "V" /\ w[p][2] = k
          \/ \E k \in 1 .. m : p = m + (n + k) /\ w[p][1] = "XFMR" /\ w[p][3] = <<"LV">> /\ w[p][2] = s[k][2]
  <2> SUFFICES ASSUME NEW p \in 1 .. m + (n + m)
               PROVE  \/ p \in 1 .. m /\ w[p][1] = "XFMR" /\ w[p][3] = <<>>
                      \/ \E k \in 1 .. n : p = m + k /\ w[p][1] = "V" /\ w[p][2] = k
                      \/ \E k \in 1 .. m : p = m + (n + k) /\ w[p][1] = "XFMR" /\ w[p][3] = <<"LV">>
                                           /\ w[p][2] = s[k][2]
    OBVIOUS
  <2> HIDE DEF w
  <2>1. CASE p \in 1 .. m
    BY <1>8, <1>12, <1>14, <2>1
  <2>2. ASSUME NEW k \in 1 .. n, p = m + k PROVE w[p][1] = "V" /\ w[p][2] = k
    <3>1. k \in 1 .. n + m
      BY <1>1, <1>2
    <3>2. w[p] = <<"V", k, <<>>>>
      BY <1>7, <1>12, <2>2, <3>1
    <3>3. QED
      BY <1>14, <3>2
  <2>3. ASSUME NEW k \in 1 .. m, p = m + (n + k)
        PROVE  w[p][1] = "XFMR" /\ w[p][3] = <<"LV">> /\ w[p][2] = s[k][2]
    <3>1. n + k \in 1 .. n + m
      BY <1>1, <1>2
    <3>2. w[p] = all[n + k].name
      BY <1>12, <2>3, <3>1
    <3>3. QED
      BY <1>8, <1>14, <3>2
  <2>4. QED
    BY <1>5, <1>12, <2>1, <2>2, <2>3
<1>16. \A j, k \in 1 .. m : s[j][2] = s[k][2] => j = k
  <2>1. \A j, k \in 1 .. m : s[j][2] = s[k][2] => s[j] = s[k]
    <3>1. \A x : Xfmr(x)[2] = x
      BY DEF Xfmr
    <3>2. QED
      BY <1>8, <3>1
  <2>2. QED
    BY <1>9, <2>1
<1>17. ASSUME NEW p \in DOMAIN w, NEW q \in DOMAIN w, w[p] = w[q] PROVE p = q
  <2>1. p \in 1 .. m + (n + m) /\ q \in 1 .. m + (n + m)
    BY <1>12
  <2> HIDE DEF w
  <2>2. CASE p \in 1 .. m /\ w[p][1] = "XFMR" /\ w[p][3] = <<>>
    <3>1. q \in 1 .. m
      BY <1>14, <1>15, <1>17, <2>1, <2>2
    <3>2. QED
      BY <1>9, <1>12, <1>17, <2>2, <3>1
  <2>3. ASSUME NEW k \in 1 .. n, p = m + k, w[p][1] = "V", w[p][2] = k PROVE p = q
    BY <1>15, <1>17, <2>1, <2>3
  <2>4. ASSUME NEW k \in 1 .. m, p = m + (n + k), w[p][1] = "XFMR", w[p][3] = <<"LV">>, w[p][2] = s[k][2]
        PROVE  p = q
    <3>1. PICK j \in 1 .. m : q = m + (n + j) /\ w[q][2] = s[j][2]
      BY <1>14, <1>15, <1>17, <2>1, <2>4
    <3>2. QED
      BY <1>16, <1>17, <2>4, <3>1
  <2>5. QED
    BY <1>15, <2>1, <2>2, <2>3, <2>4
<1>18. Distinct(w)
  BY <1>17 DEF Distinct
<1>19. QED
  BY <1>6, <1>18

-----------------------------------------------------------------------------
(* The names in a bay. *)

\* The number of a bay is its place, but for the tie; its taps are one, or two in a row, or none.
IsPlaced(cell, c, n) ==
    /\ \/ cell.bay[1] # "Tie" /\ cell.bay[2] = c /\ c <= n
       \/ cell.bay[1] = "Tie" /\ c = n + 1
    /\ cell.taps = <<>> \/ \E f \in Nat : cell.taps = <<f>> \/ cell.taps = <<f, f + 1>>

\* The bays of every layout are placed like that.
LEMMA CellPlaced ==
    ASSUME NEW layout \in Layouts, NEW tps \in Seq(TapSet), NEW start \in Nat,
           NEW c \in DOMAIN Cells(layout, tps, start)
    PROVE  IsPlaced(Cells(layout, tps, start)[c], c, Len(tps)) /\ c \in Nat
<1> DEFINE cells == Cells(layout, tps, start)
           n == Len(tps)
<1>1. n \in Nat /\ DOMAIN tps = 1 .. n
  OBVIOUS
<1>2. ASSUME NEW i \in 1 .. n, NEW cbs PROVE IsPlaced(Cell(<<"Bay", i, <<>>>>, cbs, <<i>>), i, n)
  <2> DEFINE cell == Cell(<<"Bay", i, <<>>>>, cbs, <<i>>)
  <2>1. cell.bay[1] = "Bay" /\ cell.bay[2] = i /\ cell.taps = <<i>> /\ i \in Nat /\ i <= n
    BY <1>1 DEF Cell
  <2> HIDE DEF cell
  <2>2. IsPlaced(cell, i, n)
    BY <2>1 DEF IsPlaced
  <2>3. QED
    BY <2>2 DEF cell
<1>3. CASE layout = "single_bus"
  <2>1. cells = SingleBus(tps, start)
    BY <1>3 DEF Cells
  <2>2. c \in 1 .. n /\ cells[c] = Cell(<<"Bay", c, <<>>>>, <<Cbr(start + c - 1, Bus(1), TapNode(c))>>, <<c>>)
    BY <1>1, <2>1 DEF SingleBus
  <2>3. QED
    BY <1>1, <1>2, <2>2
<1>4. CASE layout = "ring_bus"
  <2>1. cells = RingBus(tps, start)
    BY <1>4 DEF Cells
  <2> DEFINE w == Cbr(start + c - 1, TapNode(c), TapNode((c % n) + 1))
  <2>2. c \in 1 .. n /\ cells[c] = Cell(<<"Bay", c, <<>>>>, <<w>>, <<c>>)
    BY <1>1, <2>1 DEF RingBus
  <2> HIDE DEF w
  <2>3. QED
    BY <1>1, <1>2, <2>2
<1>5. CASE layout = "main_and_transfer"
  <2> DEFINE s == SingleBus(tps, start)
             w == Cbr(start + n, Bus(1), Bus(2))
             tie == Cell(<<"Tie", 0, <<>>>>, <<w>>, <<>>)
  <2>1. cells = Append(s, tie)
    BY <1>5 DEF Cells, MainAndTransfer
  <2>2. s = [i \in 1 .. n |-> s[i]]
    BY <1>1 DEF SingleBus
  <2>3. \A i \in 1 .. n : s[i] = Cell(<<"Bay", i, <<>>>>, <<Cbr(start + i - 1, Bus(1), TapNode(i))>>, <<i>>)
    BY <1>1 DEF SingleBus
  <2>4. IsPlaced(tie, n + 1, n)
    <3>1. tie.bay[1] = "Tie" /\ tie.taps = <<>>
      BY DEF Cell
    <3> HIDE DEF tie
    <3>2. QED
      BY <3>1 DEF IsPlaced
  <2> HIDE DEF s, tie, w
  <2>5. s \in Seq(Range(s)) /\ Len(s) = n
    <3>1. \A i \in 1 .. n : s[i] \in Range(s)
      BY <2>2 DEF Range
    <3>2. QED
      BY <1>1, <2>2, <3>1, SeqOfValues
  <2>6. /\ DOMAIN cells = 1 .. n + 1 /\ \A i \in 1 .. n : cells[i] = s[i]
        /\ cells[n + 1] = tie
    <3> DEFINE S == Range(s) \cup {tie}
    <3>1. s \in Seq(S) /\ tie \in S
      BY <2>5
    <3> HIDE DEF S
    <3>2. QED
      BY <1>1, <2>1, <2>5, <3>1
  <2>7. CASE c \in 1 .. n
    <3>1. cells[c] = Cell(<<"Bay", c, <<>>>>, <<Cbr(start + c - 1, Bus(1), TapNode(c))>>, <<c>>)
      BY <2>3, <2>6, <2>7
    <3>2. IsPlaced(cells[c], c, n)
      BY <1>2, <2>7, <3>1
    <3>3. QED
      BY <1>1, <2>7, <3>2
  <2>8. CASE c = n + 1
    BY <1>1, <2>4, <2>6, <2>8
  <2>9. QED
    BY <1>1, <2>6, <2>7, <2>8
<1>6. CASE layout = "breaker_and_half"
  <2> DEFINE f == 2 * c - 1
             m == start + 3 * (c - 1)
             cbs == <<Cbr(m, Bus(1), TapNode(f)), Cbr(m + 1, TapNode(f), TapNode(f + 1)),
                      Cbr(m + 2, TapNode(f + 1), Bus(2))>>
  <2>1. cells = BreakerAndHalf(tps, start)
    BY <1>6 DEF Cells
  <2>2. c \in 1 .. n \div 2 /\ cells[c] = Cell(<<"Diameter", c, <<>>>>, cbs, <<f, f + 1>>)
    BY <2>1 DEF BreakerAndHalf
  <2>3. c \in Nat /\ c <= n /\ f \in Nat
    BY <1>1, <2>2
  <2> HIDE DEF cbs, f
  <2>4. cells[c].bay[1] = "Diameter" /\ cells[c].bay[2] = c /\ cells[c].taps = <<f, f + 1>>
    BY <2>2 DEF Cell
  <2> HIDE DEF cells, n
  <2>5. IsPlaced(cells[c], c, n)
    BY <2>3, <2>4 DEF IsPlaced
  <2>6. QED
    BY <2>3, <2>5 DEF cells, n
<1>7. QED
  BY <1>3, <1>4, <1>5, <1>6 DEF Layouts

\* Breakers and taps of a bay are different ones.
CellApart(cell) ==
    /\ \A k, l \in DOMAIN cell.cbs : cell.cbs[k].name = cell.cbs[l].name => k = l
    /\ \A k, l \in DOMAIN cell.taps : cell.taps[k] = cell.taps[l] => k = l

\* Bays have different names, and are made of different parts.
LEMMA CellsApart ==
    ASSUME NEW layout \in Layouts, NEW tps \in Seq(TapSet), NEW start \in Nat
    PROVE  /\ \A c, d \in DOMAIN Cells(layout, tps, start) :
                Cells(layout, tps, start)[c].bay = Cells(layout, tps, start)[d].bay => c = d
           /\ \A c \in DOMAIN Cells(layout, tps, start) : CellApart(Cells(layout, tps, start)[c])
<1> DEFINE cells == Cells(layout, tps, start)
           n == Len(tps)
<1>1. n \in Nat
  OBVIOUS
<1>2. \A c \in DOMAIN cells : IsPlaced(cells[c], c, n) /\ c \in Nat
  BY CellPlaced
<1>3. ASSUME NEW c \in DOMAIN cells, NEW k \in DOMAIN cells[c].cbs, NEW l \in DOMAIN cells[c].cbs,
             cells[c].cbs[k].name = cells[c].cbs[l].name
      PROVE  k = l
  <2> DEFINE w == Width(layout)
  <2>1. /\ c \in Nat \ {0} /\ k \in 1 .. w /\ l \in 1 .. w
        /\ \E a, b : cells[c].cbs[k] = Cbr(start + w * (c - 1) + (k - 1), a, b)
        /\ \E a, b : cells[c].cbs[l] = Cbr(start + w * (c - 1) + (l - 1), a, b)
    BY CellNumbers
  <2>2. start + w * (c - 1) + (k - 1) = start + w * (c - 1) + (l - 1)
    BY <1>3, <2>1, CbrAlike
  <2>3. w \in {1, 3}
    BY DEF Width
  <2> HIDE DEF w
  <2>4. QED
    BY <2>1, <2>2, <2>3
<1> HIDE DEF cells, n
<1>4. ASSUME NEW c \in DOMAIN cells, NEW d \in DOMAIN cells, cells[c].bay = cells[d].bay PROVE c = d
  BY <1>1, <1>2, <1>4 DEF IsPlaced
<1>5. ASSUME NEW c \in DOMAIN cells, NEW k \in DOMAIN cells[c].taps, NEW l \in DOMAIN cells[c].taps,
             cells[c].taps[k] = cells[c].taps[l]
      PROVE  k = l
  <2> DEFINE t == cells[c].taps
  <2>1. t = <<>> \/ \E f \in Nat : t = <<f>> \/ t = <<f, f + 1>>
    BY <1>2 DEF IsPlaced
  <2> HIDE DEF t
  <2>2. CASE t = <<>>
    BY <1>5, <2>2 DEF t
  <2>3. ASSUME NEW f \in Nat, t = <<f>> PROVE k = l
    BY <1>5, <2>3 DEF t
  <2>4. ASSUME NEW f \in Nat, t = <<f, f + 1>> PROVE k = l
    BY <1>5, <2>4 DEF t
  <2>5. QED
    BY <2>1, <2>2, <2>3, <2>4
<1>6. QED
  BY <1>3, <1>4, <1>5 DEF CellApart, cells

\* The elements of a list bear different labels.
Apart(s, h) == \A p, q \in DOMAIN s : h[s[p]] = h[s[q]] => p = q

\* Two lists whose labels are different ones make one.
LEMMA ApartJoined ==
    ASSUME NEW S, NEW s \in Seq(S), NEW t \in Seq(S), NEW h, Apart(s, h), Apart(t, h),
           \A p \in DOMAIN s, q \in DOMAIN t : h[s[p]] # h[t[q]]
    PROVE  s \o t \in Seq(S) /\ Apart(s \o t, h)
<1> DEFINE n == Len(s)
           m == Len(t)
           u == s \o t
<1>1. n \in Nat /\ m \in Nat /\ DOMAIN s = 1 .. n /\ DOMAIN t = 1 .. m
  OBVIOUS
<1>2. Counted(s, n) /\ Counted(t, m)
  BY DEF Counted
<1> HIDE DEF n, m
<1>3. /\ DOMAIN u = 1 .. n + m
      /\ \A k \in 1 .. n : u[k] = s[k]
      /\ \A k \in 1 .. m : u[n + k] = t[k]
      /\ \A p \in 1 .. n + m : p \in 1 .. n \/ \E k \in 1 .. m : p = n + k
  <2>1. Parted(s, t, n, m)
    BY <1>1, <1>2, TwoParts
  <2>2. QED
    BY <2>1 DEF Parted
<1> HIDE DEF u
<1>4. ASSUME NEW p \in DOMAIN u, NEW q \in DOMAIN u, h[u[p]] = h[u[q]] PROVE p = q
  <2>1. CASE p \in 1 .. n /\ q \in 1 .. n
    BY <1>1, <1>3, <1>4, <2>1 DEF Apart
  <2>2. ASSUME NEW k \in 1 .. m, p = n + k, q \in 1 .. n PROVE FALSE
    BY <1>1, <1>3, <1>4, <2>2
  <2>3. ASSUME NEW k \in 1 .. m, q = n + k, p \in 1 .. n PROVE FALSE
    <3>1. u[p] = s[p] /\ u[q] = t[k] /\ p \in DOMAIN s /\ k \in DOMAIN t
      BY <1>1, <1>3, <2>3
    <3>2. QED
      BY <1>4, <3>1
  <2>4. ASSUME NEW j \in 1 .. m, NEW k \in 1 .. m, p = n + j, q = n + k PROVE p = q
    <3>0. u[p] = t[j] /\ u[q] = t[k] /\ j \in DOMAIN t /\ k \in DOMAIN t
      BY <1>1, <1>3, <2>4
    <3>1. j = k
      BY <1>4, <3>0 DEF Apart
    <3>2. QED
      BY <2>4, <3>1
  <2>5. QED
    BY <1>3, <2>1, <2>2, <2>3, <2>4
<1>5. s \o t \in Seq(S)
  OBVIOUS
<1>6. QED
  BY <1>4, <1>5 DEF Apart, u

\* Lists of lists, where a label tells the list and the place in it.
LEMMA ApartFlattened ==
    ASSUME NEW S, NEW ss \in Seq(Seq(S)), NEW h,
           \A k, l \in DOMAIN ss : \A i \in DOMAIN ss[k], j \in DOMAIN ss[l] :
              h[ss[k][i]] = h[ss[l][j]] => k = l /\ i = j
    PROVE  FlattenSeq(ss) \in Seq(S) /\ Apart(FlattenSeq(ss), h)
<1> DEFINE t == FlattenSeq(ss)
<1>1. t \in Seq(S) /\ \E at : Lists(t, ss, at)
  BY FlattenLists
<1> HIDE DEF t
<1>2. PICK at : Lists(t, ss, at)
  BY <1>1
<1>3. ASSUME NEW p \in DOMAIN t, NEW q \in DOMAIN t, h[t[p]] = h[t[q]] PROVE p = q
  <2>1. /\ at[p] \in Places(ss) /\ at[q] \in Places(ss)
        /\ t[p] = ss[at[p][1]][at[p][2]] /\ t[q] = ss[at[q][1]][at[q][2]]
    BY <1>2 DEF Lists
  <2>2. /\ at[p] \in Nat \X Nat /\ at[q] \in Nat \X Nat
        /\ at[p][1] \in DOMAIN ss /\ at[p][2] \in DOMAIN ss[at[p][1]]
        /\ at[q][1] \in DOMAIN ss /\ at[q][2] \in DOMAIN ss[at[q][1]]
    BY <2>1 DEF Places
  <2>3. at[p][1] = at[q][1] /\ at[p][2] = at[q][2]
    <3> DEFINE k == at[p][1]
               i == at[p][2]
               l == at[q][1]
               j == at[q][2]
    <3>1. /\ k \in DOMAIN ss /\ i \in DOMAIN ss[k] /\ l \in DOMAIN ss /\ j \in DOMAIN ss[l]
          /\ h[ss[k][i]] = h[ss[l][j]]
      BY <1>3, <2>1, <2>2
    <3> HIDE DEF k, i, l, j
    <3>2. k = l /\ i = j
      BY <3>1
    <3>3. QED
      BY <3>2 DEF k, i, l, j
  <2>4. at[p] = at[q]
    <3>1. \A x, y \in Nat \X Nat : x[1] = y[1] /\ x[2] = y[2] => x = y
      OBVIOUS
    <3>2. QED
      BY <2>2, <2>3, <3>1
  <2>5. QED
    BY <1>1, <1>2, <2>4, ListsInjective, ZenonT(60)
<1>4. QED
  BY <1>1, <1>3 DEF Apart, t

\* A list of marked copies.
LEMMA ApartMapped ==
    ASSUME NEW S, NEW T, NEW s \in Seq(S), NEW t, t = [k \in DOMAIN s |-> t[k]], NEW h,
           \A k \in DOMAIN s : t[k] \in T,
           \A k, l \in DOMAIN s : h[t[k]] = h[t[l]] => k = l
    PROVE  t \in Seq(T) /\ Apart(t, h)
<1>1. DOMAIN t = DOMAIN s
  OBVIOUS
<1>2. t \in Seq(T)
  BY <1>1, ImageSeq
<1>3. QED
  BY <1>1, <1>2 DEF Apart

\* What tells the kinds of names in a bay apart.
Look(name) == <<name[1], name[3]>>
DeviceLooks == {<<"CB", <<>>>>, <<"CB", <<"DA">>>>, <<"CB", <<"DB">>>>, <<"Tap", <<"D">>>>}
NodeLooks == {<<"Tap", <<>>>>, <<"CB", <<"A">>>>, <<"CB", <<"B">>>>, <<"Tap", <<"Exit">>>>}

\* No two kinds look the same.
LEMMA LooksDiffer ==
    /\ \A u, w : <<"CB", <<u>>>> = <<"CB", <<w>>>> => u = w
    /\ \A u, w : <<"Tap", <<u>>>> = <<"Tap", <<w>>>> => u = w
    /\ \A u, w : <<"CB", u>> # <<"Tap", w>>
    /\ \A w : <<"CB", <<>>>> # <<"CB", <<w>>>> /\ <<"Tap", <<>>>> # <<"Tap", <<w>>>>
<1>1. \A w : <<>> # <<w>>
  OBVIOUS
<1>2. \A u, w : <<u>> = <<w>> => u = w
  OBVIOUS
<1>3. QED
  BY <1>1, <1>2

\* The name and the number of a breaker of a cell.
LEMMA CbrNamed ==
    ASSUME NEW tps, NEW cell \in CellsOf(tps), NEW k \in DOMAIN cell.cbs
    PROVE  cell.cbs[k].name = CbrName(cell.cbs[k].name[2]) /\ cell.cbs[k].name[2] \in Nat
<1>1. cell.cbs[k] \in Cbrs
  BY DEF CellsOf
<1>2. PICK n \in Nat, a \in Nodes, b \in Nodes : cell.cbs[k] = Cbr(n, a, b)
  BY <1>1 DEF Cbrs
<1>3. Cbr(n, a, b).name = CbrName(n) /\ Cbr(n, a, b).name[2] = n
  BY CbrShape
<1>4. cell.cbs[k].name = CbrName(n) /\ cell.cbs[k].name[2] = n
  BY <1>2, <1>3
<1>5. QED
  BY <1>4

\* The taps of a cell that have an exit.
ExitsOf(tps, cell) == At(cell.taps, {k \in DOMAIN cell.taps : HasExit(tps[cell.taps[k]])})

\* They are taps, and different ones.
LEMMA ExitsApart ==
    ASSUME NEW tps, NEW cell \in CellsOf(tps), CellApart(cell)
    PROVE  /\ ExitsOf(tps, cell) \in Seq(DOMAIN tps)
           /\ \A k, l \in DOMAIN ExitsOf(tps, cell) : ExitsOf(tps, cell)[k] = ExitsOf(tps, cell)[l] => k = l
<1> DEFINE s == cell.taps
           has == {k \in DOMAIN s : HasExit(tps[s[k]])}
<1>1. s \in Seq(DOMAIN tps)
  BY DEF CellsOf
<1>2. \A k, l \in has : s[k] = s[l] => k = l
  BY DEF CellApart
<1>3. has \in SUBSET DOMAIN s
  OBVIOUS
<1>4. ExitsOf(tps, cell) = At(s, has)
  BY DEF ExitsOf
<1> HIDE DEF s, has
<1>5. At(s, has) \in Seq(DOMAIN tps) /\ Distinct(At(s, has))
  BY <1>1, <1>2, <1>3, AtPicks, DistinctAt
<1>6. QED
  BY <1>4, <1>5 DEF Distinct

\* Names of one kind that are equal have equal numbers and suffixes.
LEMMA SuffixedAlike ==
    ASSUME NEW stem, NEW m, NEW n, NEW u, NEW w,
           Suffixed(<<stem, m, <<>>>>, u) = Suffixed(<<stem, n, <<>>>>, w)
    PROVE  m = n /\ u = w
<1>1. Suffixed(<<stem, m, <<>>>>, u) = <<stem, m, <<u>>>> /\ Suffixed(<<stem, n, <<>>>>, w) = <<stem, n, <<w>>>>
  BY DEF Suffixed
<1>2. <<stem, m, <<u>>>> = <<stem, n, <<w>>>>
  BY <1>1
<1>3. m = n /\ <<u>> = <<w>>
  BY <1>2
<1>4. QED
  BY <1>3

\* The look of a suffixed name.
LEMMA SuffixedLook ==
    ASSUME NEW stem, NEW n, NEW w, NEW name, name = Suffixed(<<stem, n, <<>>>>, w)
    PROVE  Look(name) = <<stem, <<w>>>>
BY DEF Look, Suffixed

\* The look of a plain name.
LEMMA PlainLook ==
    ASSUME NEW stem, NEW n, NEW name, name = <<stem, n, <<>>>>
    PROVE  Look(name) = <<stem, <<>>>>
BY DEF Look

\* The devices of a bay have names of their own, when its taps have the usual ones.
LEMMA UsualBayDevices ==
    ASSUME NEW tps \in Seq(TapSet), UsualTaps(tps), NEW cell \in CellsOf(tps), CellApart(cell)
    PROVE  LET s == Equipped(tps, cell).breakers
           IN  /\ \A p, q \in DOMAIN s : s[p].name = s[q].name => p = q
               /\ \A p \in DOMAIN s : Look(s[p].name) \in DeviceLooks
<1> DEFINE cbs == cell.cbs
           C == Range(cbs)
           D == {Isolated(cb) : cb \in C} \cup (UNION {PairOf(cb) : cb \in C})
                \cup {ExitDisconnect(tps, i) : i \in DOMAIN tps}
           h == [d \in D |-> d.name]
           exits == ExitsOf(tps, cell)
           one == [k \in DOMAIN cbs |-> Isolated(cbs[k])]
           pairs == [k \in DOMAIN cbs |-> IsolatingPair(cbs[k])]
           two == FlattenSeq(pairs)
           three == [k \in DOMAIN exits |-> ExitDisconnect(tps, exits[k])]
           Num(k) == cbs[k].name[2]
<1>1. cbs \in Seq(Cbrs) /\ \A k \in DOMAIN cbs : cbs[k].name = CbrName(Num(k))
  BY CbrNamed DEF CellsOf
<1>2. \A k, l \in DOMAIN cbs : Num(k) = Num(l) => k = l
  BY <1>1 DEF CellApart
<1>3. /\ exits \in Seq(DOMAIN tps)
      /\ \A k, l \in DOMAIN exits : exits[k] = exits[l] => k = l
  BY ExitsApart
<1>4. Equipped(tps, cell).breakers = (one \o two) \o three
  BY DEF Equipped, Chosen, Each, ExitsOf
<1>5. /\ DOMAIN one = DOMAIN cbs /\ one = [k \in DOMAIN cbs |-> one[k]]
      /\ \A k \in DOMAIN cbs : one[k] = Isolated(cbs[k]) /\ one[k] \in D
  <2>1. \A k \in DOMAIN cbs : cbs[k] \in C
    BY DEF Range
  <2>2. QED
    BY <2>1
<1>6. /\ DOMAIN pairs = DOMAIN cbs /\ pairs = [k \in DOMAIN cbs |-> pairs[k]]
      /\ \A k \in DOMAIN cbs : pairs[k] = IsolatingPair(cbs[k])
  OBVIOUS
<1>7. /\ DOMAIN three = DOMAIN exits /\ three = [k \in DOMAIN exits |-> three[k]]
      /\ \A k \in DOMAIN exits : three[k] = ExitDisconnect(tps, exits[k]) /\ three[k] \in D
  <2>1. \A k \in DOMAIN exits : exits[k] \in DOMAIN tps
    <3> HIDE DEF exits
    <3>1. QED
      BY <1>3
  <2> HIDE DEF exits, C
  <2>2. QED
    BY <2>1
<1>8. \A k \in DOMAIN cbs : PairOf(cbs[k]) \subseteq D
  BY DEF Range
<1>9. \A d \in D : h[d] = d.name
  OBVIOUS
<1> HIDE DEF D, h, one, pairs, two, three, exits, C, cbs, Num
<1>10. \A k \in DOMAIN cbs : h[one[k]] = CbrName(Num(k))
  <2>1. \A k \in DOMAIN cbs : one[k].name = cbs[k].name
    BY <1>5 DEF Isolated
  <2>2. QED
    BY <1>1, <1>5, <1>9, <2>1
<1>11. one \in Seq(D) /\ Apart(one, h)
  <2>1. \A k, l \in DOMAIN cbs : h[one[k]] = h[one[l]] => k = l
    BY <1>2, <1>10, NumberInName
  <2>2. QED
    BY <1>1, <1>5, <2>1, ApartMapped
<1> DEFINE W == <<"DA", "DB">>
<1>12. /\ \A k \in DOMAIN cbs : DOMAIN pairs[k] = 1 .. 2 /\ pairs[k] \in Seq(D)
       /\ \A k \in DOMAIN cbs : \A i \in 1 .. 2 : h[pairs[k][i]] = Suffixed(CbrName(Num(k)), W[i])
  <2> SUFFICES ASSUME NEW k \in DOMAIN cbs
               PROVE  /\ DOMAIN pairs[k] = 1 .. 2 /\ pairs[k] \in Seq(D)
                      /\ \A i \in 1 .. 2 : h[pairs[k][i]] = Suffixed(CbrName(Num(k)), W[i])
    OBVIOUS
  <2> DEFINE cb == cbs[k]
             d == Dis(Suffixed(cb.name, "DA"), cb.a, SideA(cb.name[2]))
             e == Dis(Suffixed(cb.name, "DB"), SideB(cb.name[2]), cb.b)
  <2>1. PairOf(cb) = {d, e} /\ pairs[k] = <<d, e>>
    BY <1>6 DEF PairOf, IsolatingPair
  <2>2. d.name = Suffixed(CbrName(Num(k)), "DA") /\ e.name = Suffixed(CbrName(Num(k)), "DB")
    BY <1>1 DEF Dis
  <2>3. d \in D /\ e \in D
    BY <1>8, <2>1
  <2> HIDE DEF d, e, cb
  <2>4. h[d] = Suffixed(CbrName(Num(k)), "DA") /\ h[e] = Suffixed(CbrName(Num(k)), "DB")
    BY <1>9, <2>2, <2>3
  <2>5. DOMAIN <<d, e>> = 1 .. 2 /\ <<d, e>> \in Seq(D) /\ <<d, e>>[1] = d /\ <<d, e>>[2] = e
    BY <2>3
  <2>6. \A i \in 1 .. 2 : i = 1 \/ i = 2
    OBVIOUS
  <2>7. QED
    BY <2>1, <2>4, <2>5, <2>6
<1>13. two \in Seq(D) /\ Apart(two, h)
  <2>1. pairs \in Seq(Seq(D))
    <3> DEFINE R == Seq(D)
    <3>1. \A k \in DOMAIN cbs : pairs[k] \in R
      BY <1>12
    <3> HIDE DEF R
    <3>2. pairs \in Seq(R)
      BY <1>1, <1>6, <3>1, ImageSeq
    <3>3. QED
      BY <3>2 DEF R
  <2>2. ASSUME NEW k \in DOMAIN cbs, NEW l \in DOMAIN cbs, NEW i \in 1 .. 2, NEW j \in 1 .. 2,
               h[pairs[k][i]] = h[pairs[l][j]]
        PROVE  k = l /\ i = j
    <3>1. Suffixed(CbrName(Num(k)), W[i]) = Suffixed(CbrName(Num(l)), W[j])
      BY <1>12, <2>2
    <3>2. Num(k) = Num(l) /\ W[i] = W[j]
      <4> HIDE DEF W
      <4>1. QED
        BY <3>1, SuffixedAlike DEF CbrName
    <3>4. i = j
      BY <3>2
    <3>5. QED
      BY <1>2, <3>2, <3>4
  <2>3. \A k, l \in DOMAIN pairs : \A i \in DOMAIN pairs[k], j \in DOMAIN pairs[l] :
           h[pairs[k][i]] = h[pairs[l][j]] => k = l /\ i = j
    BY <1>6, <1>12, <2>2
  <2>4. QED
    BY <2>1, <2>3, ApartFlattened DEF two
<1>14. \A p \in DOMAIN two : Look(h[two[p]]) \in {<<"CB", <<"DA">>>>, <<"CB", <<"DB">>>>}
  <2>1. pairs \in Seq(Seq(D))
    <3> DEFINE R == Seq(D)
    <3>1. \A k \in DOMAIN cbs : pairs[k] \in R
      BY <1>12
    <3> HIDE DEF R
    <3>2. pairs \in Seq(R)
      BY <1>1, <1>6, <3>1, ImageSeq
    <3>3. QED
      BY <3>2 DEF R
  <2>2. Range(two) = UNION {Range(pairs[k]) : k \in DOMAIN pairs}
    BY <2>1, RangeFlatten DEF two
  <2> SUFFICES ASSUME NEW p \in DOMAIN two
               PROVE  Look(h[two[p]]) \in {<<"CB", <<"DA">>>>, <<"CB", <<"DB">>>>}
    OBVIOUS
  <2>3. two[p] \in Range(two)
    BY DEF Range
  <2>4. PICK k \in DOMAIN cbs : two[p] \in Range(pairs[k])
    BY <1>6, <2>2, <2>3
  <2>5. PICK i \in 1 .. 2 : two[p] = pairs[k][i]
    BY <1>12, <2>4 DEF Range
  <2>6. Look(h[two[p]]) = <<"CB", <<W[i]>>>>
    <3>1. h[two[p]] = Suffixed(CbrName(Num(k)), W[i])
      BY <1>12, <2>5
    <3> HIDE DEF W
    <3>2. QED
      BY <3>1, SuffixedLook DEF CbrName
  <2>7. W[i] = "DA" \/ W[i] = "DB"
    OBVIOUS
  <2>8. QED
    BY <2>6, <2>7
<1> HIDE DEF W
<1>15. \A k \in DOMAIN exits : h[three[k]] = Suffixed(<<"Tap", exits[k], <<>>>>, "D")
  <2>1. \A i \in DOMAIN tps : ExitDisconnect(tps, i).name = Suffixed(<<"Tap", i, <<>>>>, "D")
    BY DEF ExitDisconnect, Dis, UsualTaps
  <2>2. \A k \in DOMAIN exits : exits[k] \in DOMAIN tps
    BY <1>3
  <2>3. QED
    BY <1>7, <1>9, <2>1, <2>2
<1>16. three \in Seq(D) /\ Apart(three, h)
  <2>1. \A k, l \in DOMAIN exits : h[three[k]] = h[three[l]] => k = l
    <3>1. \A k, l \in DOMAIN exits : h[three[k]] = h[three[l]] => exits[k] = exits[l]
      <4>1. \A m, n : Suffixed(<<"Tap", m, <<>>>>, "D") = Suffixed(<<"Tap", n, <<>>>>, "D") => m = n
        BY SuffixedAlike
      <4>2. QED
        BY <1>15, <4>1, ZenonT(60)
    <3>2. QED
      BY <1>3, <3>1
  <2>2. QED
    BY <1>3, <1>7, <2>1, ApartMapped
<1>17. \A p \in DOMAIN one : Look(h[one[p]]) = <<"CB", <<>>>>
  BY <1>5, <1>10, PlainLook DEF CbrName
<1>18. \A p \in DOMAIN three : Look(h[three[p]]) = <<"Tap", <<"D">>>>
  BY <1>7, <1>15, SuffixedLook
<1> DEFINE both == one \o two
           all == both \o three
<1>19. both \in Seq(D) /\ Apart(both, h)
  <2>1. \A w : <<"CB", <<>>>> # <<"CB", <<w>>>>
    BY LooksDiffer
  <2>3. \A p \in DOMAIN one, q \in DOMAIN two : h[one[p]] # h[two[q]]
    BY <1>14, <1>17, <2>1
  <2>2. QED
    BY <1>11, <1>13, <2>3, ApartJoined
<1>20. Range(both) = Range(one) \cup Range(two)
  BY <1>11, <1>13, RangeConcat
<1> HIDE DEF both
<1>21. \A p \in DOMAIN both : Look(h[both[p]]) \in {<<"CB", <<>>>>, <<"CB", <<"DA">>>>, <<"CB", <<"DB">>>>}
  <2>1. \A p \in DOMAIN both : both[p] \in Range(one) \/ both[p] \in Range(two)
    BY <1>20 DEF Range
  <2>2. QED
    BY <1>14, <1>17, <2>1 DEF Range
<1>22. all \in Seq(D) /\ Apart(all, h)
  <2>1. \A p \in DOMAIN both, q \in DOMAIN three : h[both[p]] # h[three[q]]
    BY <1>18, <1>21, LooksDiffer
  <2>2. QED
    BY <1>16, <1>19, <2>1, ApartJoined
<1>23. Range(all) = Range(both) \cup Range(three)
  BY <1>16, <1>19, RangeConcat
<1> HIDE DEF all
<1>24. \A p \in DOMAIN all : Look(h[all[p]]) \in DeviceLooks
  <2>1. \A p \in DOMAIN all : all[p] \in Range(both) \/ all[p] \in Range(three)
    BY <1>23 DEF Range
  <2>2. QED
    BY <1>18, <1>21, <2>1 DEF Range, DeviceLooks
<1>25. \A p \in DOMAIN all : h[all[p]] = all[p].name
  BY <1>9, <1>22
<1>26. Equipped(tps, cell).breakers = all
  BY <1>4 DEF all, both
<1>27. QED
  BY <1>22, <1>24, <1>25, <1>26 DEF Apart

\* The names of the nodes of a bay.
LEMMA UsualNodeNames ==
    ASSUME NEW lv, UsualTaps(lv.taps)
    PROVE  /\ \A i \in DOMAIN lv.taps : /\ NodeName(lv, TapNode(i)) = <<"Tap", i, <<>>>>
                                        /\ NodeName(lv, ExitNode(i)) = Suffixed(<<"Tap", i, <<>>>>, "Exit")
           /\ \A n : NodeName(lv, SideA(n)) = <<"CB", n, <<"A">>>> /\ NodeName(lv, SideB(n)) = <<"CB", n, <<"B">>>>
           /\ \A i : NodeName(lv, Bus(i)) = <<"Bus", 0, <<>>>>
<1>1. \A i \in DOMAIN lv.taps : lv.taps[i].name = <<"Tap", i, <<>>>>
  BY DEF UsualTaps
<1>2. \A i : /\ NodeName(lv, TapNode(i)) = lv.taps[i].name
             /\ NodeName(lv, ExitNode(i)) = Suffixed(lv.taps[i].name, "Exit")
             /\ NodeName(lv, Bus(i)) = <<"Bus", 0, <<>>>>
  BY DEF NodeName, TapNode, ExitNode, Bus
<1>3. \A n : NodeName(lv, SideA(n)) = <<"CB", n, <<"A">>>> /\ NodeName(lv, SideB(n)) = <<"CB", n, <<"B">>>>
  BY DEF NodeName, SideA, SideB
<1>4. QED
  BY <1>1, <1>2, <1>3

\* Names of one kind that are equal have equal numbers and sides.
LEMMA SidesAlike ==
    ASSUME NEW m, NEW n, NEW u, NEW w, <<"CB", m, <<u>>>> = <<"CB", n, <<w>>>>
    PROVE  m = n /\ u = w
<1>1. m = n /\ <<u>> = <<w>>
  OBVIOUS
<1>2. QED
  BY <1>1

\* The nodes of a bay have names of their own, and none that a device has.
LEMMA UsualBayNodes ==
    ASSUME NEW tps \in Seq(TapSet), NEW lv, lv.taps = tps, UsualTaps(tps),
           NEW cell \in CellsOf(tps), CellApart(cell)
    PROVE  LET s == Equipped(tps, cell).nodes
           IN  /\ \E m \in Nat : DOMAIN s = 1 .. m
               /\ \A p, q \in DOMAIN s : NodeName(lv, s[p]) = NodeName(lv, s[q]) => p = q
               /\ \A p \in DOMAIN s : Look(NodeName(lv, s[p])) \in NodeLooks
<1> DEFINE cbs == cell.cbs
           Num(k) == cbs[k].name[2]
           D == {TapNode(i) : i \in DOMAIN tps} \cup {ExitNode(i) : i \in DOMAIN tps}
                \cup {SideA(Num(k)) : k \in DOMAIN cbs} \cup {SideB(Num(k)) : k \in DOMAIN cbs}
           h == [d \in D |-> NodeName(lv, d)]
           places == cell.taps
           exits == ExitsOf(tps, cell)
           one == [k \in DOMAIN places |-> TapNode(places[k])]
           pairs == [k \in DOMAIN cbs |-> <<SideA(Num(k)), SideB(Num(k))>>]
           two == FlattenSeq(pairs)
           three == [k \in DOMAIN exits |-> ExitNode(exits[k])]
           W == <<"A", "B">>
<1>1. cbs \in Seq(Cbrs) /\ \A k \in DOMAIN cbs : cbs[k].name = CbrName(Num(k))
  BY CbrNamed DEF CellsOf
<1>2. \A k, l \in DOMAIN cbs : Num(k) = Num(l) => k = l
  BY <1>1 DEF CellApart
<1>3. /\ exits \in Seq(DOMAIN tps)
      /\ \A k, l \in DOMAIN exits : exits[k] = exits[l] => k = l
      /\ places \in Seq(DOMAIN tps)
      /\ \A k, l \in DOMAIN places : places[k] = places[l] => k = l
  <2>1. places \in Seq(DOMAIN tps)
    BY DEF CellsOf
  <2>2. \A k, l \in DOMAIN places : places[k] = places[l] => k = l
    BY DEF CellApart
  <2>3. QED
    BY <2>1, <2>2, ExitsApart
<1>4. Equipped(tps, cell).nodes = (one \o two) \o three
  BY DEF Equipped, Chosen, Each, ExitsOf
<1>5. /\ \A i \in DOMAIN tps : NodeName(lv, TapNode(i)) = <<"Tap", i, <<>>>>
      /\ \A i \in DOMAIN tps : NodeName(lv, ExitNode(i)) = Suffixed(<<"Tap", i, <<>>>>, "Exit")
      /\ \A n : NodeName(lv, SideA(n)) = <<"CB", n, <<"A">>>> /\ NodeName(lv, SideB(n)) = <<"CB", n, <<"B">>>>
  BY UsualNodeNames
<1>6. \A d \in D : h[d] = NodeName(lv, d)
  OBVIOUS
<1>7. /\ \A i \in DOMAIN tps : TapNode(i) \in D /\ ExitNode(i) \in D
      /\ \A k \in DOMAIN cbs : SideA(Num(k)) \in D /\ SideB(Num(k)) \in D
  OBVIOUS
<1>8. /\ DOMAIN one = DOMAIN places /\ one = [k \in DOMAIN places |-> one[k]]
      /\ \A k \in DOMAIN places : one[k] = TapNode(places[k])
      /\ DOMAIN three = DOMAIN exits /\ three = [k \in DOMAIN exits |-> three[k]]
      /\ \A k \in DOMAIN exits : three[k] = ExitNode(exits[k])
  OBVIOUS
<1>9. /\ DOMAIN pairs = DOMAIN cbs /\ pairs = [k \in DOMAIN cbs |-> pairs[k]]
      /\ \A k \in DOMAIN cbs : pairs[k] = <<SideA(Num(k)), SideB(Num(k))>>
  OBVIOUS
<1> HIDE DEF D, h, one, pairs, two, three, exits, places, cbs, Num
<1>10. /\ \A k \in DOMAIN places : places[k] \in DOMAIN tps
       /\ \A k \in DOMAIN exits : exits[k] \in DOMAIN tps
  BY <1>3
<1>11. /\ \A k \in DOMAIN places : one[k] \in D /\ h[one[k]] = <<"Tap", places[k], <<>>>>
       /\ \A k \in DOMAIN exits : three[k] \in D /\ h[three[k]] = Suffixed(<<"Tap", exits[k], <<>>>>, "Exit")
  <2>1. \A k \in DOMAIN places : one[k] \in D /\ h[one[k]] = <<"Tap", places[k], <<>>>>
    BY <1>5, <1>6, <1>7, <1>8, <1>10
  <2>2. \A k \in DOMAIN exits : three[k] \in D /\ h[three[k]] = Suffixed(<<"Tap", exits[k], <<>>>>, "Exit")
    BY <1>5, <1>6, <1>7, <1>8, <1>10
  <2>3. QED
    BY <2>1, <2>2
<1>12. one \in Seq(D) /\ Apart(one, h)
  <2>1. \A m, n : <<"Tap", m, <<>>>> = <<"Tap", n, <<>>>> => m = n
    OBVIOUS
  <2>2. \A k, l \in DOMAIN places : h[one[k]] = h[one[l]] => k = l
    BY <1>3, <1>11, <2>1
  <2>3. QED
    BY <1>3, <1>8, <1>11, <2>2, ApartMapped
<1>13. /\ \A k \in DOMAIN cbs : DOMAIN pairs[k] = 1 .. 2 /\ pairs[k] \in Seq(D)
       /\ \A k \in DOMAIN cbs : \A i \in 1 .. 2 : h[pairs[k][i]] = <<"CB", Num(k), <<W[i]>>>>
  <2> SUFFICES ASSUME NEW k \in DOMAIN cbs
               PROVE  /\ DOMAIN pairs[k] = 1 .. 2 /\ pairs[k] \in Seq(D)
                      /\ \A i \in 1 .. 2 : h[pairs[k][i]] = <<"CB", Num(k), <<W[i]>>>>
    OBVIOUS
  <2> DEFINE d == SideA(Num(k))
             e == SideB(Num(k))
  <2>1. pairs[k] = <<d, e>> /\ d \in D /\ e \in D
    BY <1>7, <1>9
  <2>2. h[d] = <<"CB", Num(k), <<"A">>>> /\ h[e] = <<"CB", Num(k), <<"B">>>>
    BY <1>5, <1>6, <2>1
  <2> HIDE DEF d, e
  <2>3. DOMAIN <<d, e>> = 1 .. 2 /\ <<d, e>> \in Seq(D) /\ <<d, e>>[1] = d /\ <<d, e>>[2] = e
    BY <2>1
  <2>4. \A i \in 1 .. 2 : i = 1 \/ i = 2
    OBVIOUS
  <2>5. QED
    BY <2>1, <2>2, <2>3, <2>4
<1>14. pairs \in Seq(Seq(D))
  <2> DEFINE R == Seq(D)
  <2>1. \A k \in DOMAIN cbs : pairs[k] \in R
    BY <1>13
  <2> HIDE DEF R
  <2>2. pairs \in Seq(R)
    BY <1>1, <1>9, <2>1, ImageSeq
  <2>3. QED
    BY <2>2 DEF R
<1>15. two \in Seq(D) /\ Apart(two, h)
  <2>1. ASSUME NEW k \in DOMAIN cbs, NEW l \in DOMAIN cbs, NEW i \in 1 .. 2, NEW j \in 1 .. 2,
               h[pairs[k][i]] = h[pairs[l][j]]
        PROVE  k = l /\ i = j
    <3>1. <<"CB", Num(k), <<W[i]>>>> = <<"CB", Num(l), <<W[j]>>>>
      BY <1>13, <2>1
    <3>2. Num(k) = Num(l) /\ W[i] = W[j]
      <4> HIDE DEF W
      <4>1. QED
        BY <3>1, SidesAlike
    <3>3. i = j
      BY <3>2
    <3>4. QED
      BY <1>2, <3>2, <3>3
  <2>2. \A k, l \in DOMAIN pairs : \A i \in DOMAIN pairs[k], j \in DOMAIN pairs[l] :
           h[pairs[k][i]] = h[pairs[l][j]] => k = l /\ i = j
    BY <1>9, <1>13, <2>1
  <2>3. QED
    BY <1>14, <2>2, ApartFlattened DEF two
<1>16. \A p \in DOMAIN two : Look(h[two[p]]) \in {<<"CB", <<"A">>>>, <<"CB", <<"B">>>>}
  <2>1. Range(two) = UNION {Range(pairs[k]) : k \in DOMAIN pairs}
    BY <1>14, RangeFlatten DEF two
  <2> SUFFICES ASSUME NEW p \in DOMAIN two
               PROVE  Look(h[two[p]]) \in {<<"CB", <<"A">>>>, <<"CB", <<"B">>>>}
    OBVIOUS
  <2>2. two[p] \in Range(two)
    BY DEF Range
  <2>3. PICK k \in DOMAIN cbs : two[p] \in Range(pairs[k])
    BY <1>9, <2>1, <2>2
  <2>4. PICK i \in 1 .. 2 : two[p] = pairs[k][i]
    BY <1>13, <2>3 DEF Range
  <2>5. Look(h[two[p]]) = <<"CB", <<W[i]>>>>
    <3>1. h[two[p]] = <<"CB", Num(k), <<W[i]>>>>
      BY <1>13, <2>4
    <3> HIDE DEF W
    <3>2. QED
      BY <3>1 DEF Look
  <2>6. W[i] = "A" \/ W[i] = "B"
    OBVIOUS
  <2>7. QED
    BY <2>5, <2>6
<1> HIDE DEF W
<1>17. three \in Seq(D) /\ Apart(three, h)
  <2>1. \A m, n : Suffixed(<<"Tap", m, <<>>>>, "Exit") = Suffixed(<<"Tap", n, <<>>>>, "Exit") => m = n
    BY SuffixedAlike
  <2>2. \A k, l \in DOMAIN exits : h[three[k]] = h[three[l]] => exits[k] = exits[l]
    <3>1. \A k \in DOMAIN exits : h[three[k]] = Suffixed(<<"Tap", exits[k], <<>>>>, "Exit")
      BY <1>11
    <3>2. QED
      BY <2>1, <3>1, ZenonT(60)
  <2>3. \A k, l \in DOMAIN exits : h[three[k]] = h[three[l]] => k = l
    BY <1>3, <2>2
  <2>4. QED
    BY <1>3, <1>8, <1>11, <2>3, ApartMapped
<1>18. \A p \in DOMAIN one : Look(h[one[p]]) = <<"Tap", <<>>>>
  BY <1>8, <1>11, PlainLook
<1>19. \A p \in DOMAIN three : Look(h[three[p]]) = <<"Tap", <<"Exit">>>>
  <2>1. \A i : Look(Suffixed(<<"Tap", i, <<>>>>, "Exit")) = <<"Tap", <<"Exit">>>>
    BY SuffixedLook
  <2>2. \A p \in DOMAIN three : h[three[p]] = Suffixed(<<"Tap", exits[p], <<>>>>, "Exit")
    BY <1>8, <1>11
  <2>3. QED
    BY <2>1, <2>2
<1> DEFINE both == one \o two
           all == both \o three
<1>20. both \in Seq(D) /\ Apart(both, h)
  <2>1. \A w : <<"Tap", <<>>>> # <<"CB", w>>
    OBVIOUS
  <2>2. \A p \in DOMAIN one, q \in DOMAIN two : h[one[p]] # h[two[q]]
    BY <1>16, <1>18, <2>1
  <2>3. QED
    BY <1>12, <1>15, <2>2, ApartJoined
<1>21. Range(both) = Range(one) \cup Range(two)
  BY <1>12, <1>15, RangeConcat
<1> HIDE DEF both
<1>22. \A p \in DOMAIN both : Look(h[both[p]]) \in {<<"Tap", <<>>>>, <<"CB", <<"A">>>>, <<"CB", <<"B">>>>}
  <2>1. \A p \in DOMAIN both : both[p] \in Range(one) \/ both[p] \in Range(two)
    BY <1>21 DEF Range
  <2>2. QED
    BY <1>16, <1>18, <2>1 DEF Range
<1>23. all \in Seq(D) /\ Apart(all, h)
  <2>1. \A w : <<"Tap", <<>>>> # <<"Tap", <<w>>>>
    BY LooksDiffer
  <2>2. \A u, w : <<"CB", u>> # <<"Tap", w>>
    OBVIOUS
  <2>3. \A p \in DOMAIN both, q \in DOMAIN three : h[both[p]] # h[three[q]]
    BY <1>19, <1>22, <2>1, <2>2
  <2>4. QED
    BY <1>17, <1>20, <2>3, ApartJoined
<1>24. Range(all) = Range(both) \cup Range(three)
  BY <1>17, <1>20, RangeConcat
<1> HIDE DEF all
<1>25. \A p \in DOMAIN all : Look(h[all[p]]) \in NodeLooks
  <2>1. \A p \in DOMAIN all : all[p] \in Range(both) \/ all[p] \in Range(three)
    BY <1>24 DEF Range
  <2>2. QED
    BY <1>19, <1>22, <2>1 DEF Range, NodeLooks
<1>26. \A p \in DOMAIN all : h[all[p]] = NodeName(lv, all[p])
  BY <1>6, <1>23
<1>27. Equipped(tps, cell).nodes = all
  BY <1>4 DEF all, both
<1>28. \E m \in Nat : DOMAIN all = 1 .. m
  BY <1>23
<1>29. QED
  BY <1>23, <1>25, <1>26, <1>27, <1>28 DEF Apart

\* The devices and the nodes of a bay have names of their own.
BayApart(lv, bay) ==
    /\ \E n, m \in Nat : DOMAIN bay.breakers = 1 .. n /\ DOMAIN bay.nodes = 1 .. m
    /\ \A p, q \in DOMAIN bay.breakers : bay.breakers[p].name = bay.breakers[q].name => p = q
    /\ \A p, q \in DOMAIN bay.nodes : NodeName(lv, bay.nodes[p]) = NodeName(lv, bay.nodes[q]) => p = q
    /\ \A p \in DOMAIN bay.breakers, q \in DOMAIN bay.nodes : bay.breakers[p].name # NodeName(lv, bay.nodes[q])

\* What the schema asks of the element of a bay, ...
BayValid(element) == Distinct(Names(element.equipment) \o Names(element.nodes))

\* ... which such a bay grants.
LEMMA BayDistinct ==
    ASSUME NEW lv, NEW bay, BayApart(lv, bay)
    PROVE  BayValid(BayElement(lv, bay))
<1> DEFINE s == [k \in DOMAIN bay.breakers |-> bay.breakers[k].name]
           t == [k \in DOMAIN bay.nodes |-> NodeName(lv, bay.nodes[k])]
           w == s \o t
           element == BayElement(lv, bay)
<1>1. PICK n \in Nat, m \in Nat : DOMAIN bay.breakers = 1 .. n /\ DOMAIN bay.nodes = 1 .. m
  BY DEF BayApart
<1>2. Names(element.equipment) = s /\ Names(element.nodes) = t
  BY DEF BayElement, Names, Each
<1>3. /\ \A p, q \in 1 .. n : s[p] = s[q] => p = q
      /\ \A p, q \in 1 .. m : t[p] = t[q] => p = q
      /\ \A p \in 1 .. n, q \in 1 .. m : s[p] # t[q]
  BY <1>1 DEF BayApart
<1>4. Counted(s, n) /\ Counted(t, m)
  BY <1>1 DEF Counted
<1> HIDE DEF s, t, element
<1>5. /\ DOMAIN w = 1 .. n + m
      /\ \A k \in 1 .. n : w[k] = s[k]
      /\ \A k \in 1 .. m : w[n + k] = t[k]
      /\ \A p \in 1 .. n + m : p \in 1 .. n \/ \E k \in 1 .. m : p = n + k
  <2>1. Parted(s, t, n, m)
    BY <1>1, <1>4, TwoParts
  <2>2. QED
    BY <2>1 DEF Parted
<1> HIDE DEF w
<1>6. ASSUME NEW p \in 1 .. n + m, NEW q \in 1 .. n + m, w[p] = w[q] PROVE p = q
  <2>1. CASE p \in 1 .. n /\ q \in 1 .. n
    BY <1>3, <1>5, <1>6, <2>1
  <2>2. ASSUME NEW k \in 1 .. m, p = n + k, q \in 1 .. n PROVE FALSE
    <3>1. w[p] = t[k] /\ w[q] = s[q]
      BY <1>5, <2>2
    <3>2. QED
      BY <1>3, <1>6, <2>2, <3>1
  <2>3. ASSUME NEW k \in 1 .. m, q = n + k, p \in 1 .. n PROVE FALSE
    <3>1. w[q] = t[k] /\ w[p] = s[p]
      BY <1>5, <2>3
    <3>2. QED
      BY <1>3, <1>6, <2>3, <3>1
  <2>4. ASSUME NEW j \in 1 .. m, NEW k \in 1 .. m, p = n + j, q = n + k PROVE p = q
    <3>1. w[p] = t[j] /\ w[q] = t[k]
      BY <1>5, <2>4
    <3>2. QED
      BY <1>3, <1>6, <2>4, <3>1
  <2>5. QED
    BY <1>5, <2>1, <2>2, <2>3, <2>4
<1>7. Distinct(w)
  BY <1>5, <1>6 DEF Distinct
<1>8. QED
  BY <1>2, <1>7 DEF BayValid, element, w

\* What the schema asks of the element of a level, ...
LevelValid(element) ==
    element.kv # NaN /\ Distinct(Names(element.bays)) /\ \A bay \in Range(element.bays) : BayValid(bay)

\* ... which follows from its bays.
LEMMA BaysDistinct ==
    ASSUME NEW lv, lv.kv # NaN,
           \A i, j \in DOMAIN lv.bays : lv.bays[i].name = lv.bays[j].name => i = j,
           \A i \in DOMAIN lv.bays : BayApart(lv, lv.bays[i])
    PROVE  LevelValid(LevelElement(lv))
<1> DEFINE element == LevelElement(lv)
           s == element.bays
           t == [k \in DOMAIN s |-> s[k].name]
<1>1. element.kv = lv.kv /\ s = [k \in DOMAIN lv.bays |-> BayElement(lv, lv.bays[k])]
  BY DEF LevelElement, Each
<1>2. Names(s) = t
  BY DEF Names, Each
<1> HIDE DEF element
<1>3. DOMAIN s = DOMAIN lv.bays /\ \A k \in DOMAIN s : s[k] = BayElement(lv, lv.bays[k])
  BY <1>1
<1>4. \A k \in DOMAIN s : s[k].name = lv.bays[k].name
  <2>1. \A bay : BayElement(lv, bay).name = bay.name
    BY DEF BayElement
  <2>2. QED
    BY <1>3, <2>1
<1> HIDE DEF s
<1>5. Distinct(t)
  BY <1>3, <1>4 DEF Distinct
<1>6. \A k \in DOMAIN s : BayValid(s[k])
  BY <1>3, BayDistinct
<1>7. \A bay \in Range(s) : BayValid(bay)
  BY <1>6 DEF Range
<1>8. QED
  BY <1>1, <1>2, <1>5, <1>7 DEF LevelValid, s, element

\* The bay of a bare bus has one node.
LEMMA BusBayApart == ASSUME NEW lv, NEW name, NEW i PROVE BayApart(lv, BusBay(name, i))
<1> DEFINE bay == BusBay(name, i)
<1>1. bay.breakers = <<>> /\ bay.nodes = <<Bus(i)>>
  BY DEF BusBay
<1> HIDE DEF bay
<1>2. DOMAIN bay.breakers = 1 .. 0 /\ DOMAIN bay.nodes = 1 .. 1
  BY <1>1
<1>3. \A p, q \in 1 .. 1 : p = q
  OBVIOUS
<1>4. \A p \in 1 .. 0 : FALSE
  OBVIOUS
<1>5. \E n, m \in Nat : DOMAIN bay.breakers = 1 .. n /\ DOMAIN bay.nodes = 1 .. m
  <2>1. 0 \in Nat /\ 1 \in Nat
    OBVIOUS
  <2>2. QED
    BY <1>2, <2>1
<1>6. BayApart(lv, bay)
  BY <1>2, <1>3, <1>4, <1>5 DEF BayApart
<1>7. QED
  BY <1>6 DEF bay

\* The bay of a cell has the devices and nodes seen above.
LEMMA CellBayApart ==
    ASSUME NEW tps \in Seq(TapSet), NEW lv, lv.taps = tps, UsualTaps(tps),
           NEW cell \in CellsOf(tps), CellApart(cell)
    PROVE  BayApart(lv, Equipped(tps, cell))
<1> DEFINE bay == Equipped(tps, cell)
           s == bay.breakers
           t == bay.nodes
<1>1. /\ \A p, q \in DOMAIN s : s[p].name = s[q].name => p = q
      /\ \A p \in DOMAIN s : Look(s[p].name) \in DeviceLooks
  BY UsualBayDevices
<1>2. /\ \E m \in Nat : DOMAIN t = 1 .. m
      /\ \A p, q \in DOMAIN t : NodeName(lv, t[p]) = NodeName(lv, t[q]) => p = q
      /\ \A p \in DOMAIN t : Look(NodeName(lv, t[p])) \in NodeLooks
  BY UsualBayNodes
<1>3. DeviceLooks \cap NodeLooks = {}
  <2>1. /\ \A w : <<"CB", <<>>>> # <<"CB", <<w>>>> /\ <<"Tap", <<>>>> # <<"Tap", <<w>>>>
        /\ \A u, w : <<"CB", u>> # <<"Tap", w>>
    BY LooksDiffer
  <2>2. /\ <<"CB", <<"DA">>>> # <<"CB", <<"A">>>> /\ <<"CB", <<"DA">>>> # <<"CB", <<"B">>>>
        /\ <<"CB", <<"DB">>>> # <<"CB", <<"A">>>> /\ <<"CB", <<"DB">>>> # <<"CB", <<"B">>>>
        /\ <<"Tap", <<"D">>>> # <<"Tap", <<"Exit">>>>
    <3>1. "DA" # "A" /\ "DA" # "B" /\ "DB" # "A" /\ "DB" # "B" /\ "D" # "Exit"
      OBVIOUS
    <3>2. /\ \A u, w : <<"CB", <<u>>>> = <<"CB", <<w>>>> => u = w
          /\ \A u, w : <<"Tap", <<u>>>> = <<"Tap", <<w>>>> => u = w
      BY LooksDiffer
    <3>3. QED
      BY <3>1, <3>2
  <2>3. \A x \in DeviceLooks : x \notin NodeLooks
    BY <2>1, <2>2 DEF DeviceLooks, NodeLooks
  <2>4. QED
    BY <2>3
<1>4. s \in Seq(Devices)
  BY EquippedDevices
<1>5. \E n \in Nat : DOMAIN s = 1 .. n
  BY <1>4
<1>7. \A p \in DOMAIN s, q \in DOMAIN t : s[p].name # NodeName(lv, t[q])
  BY <1>1, <1>2, <1>3
<1> HIDE DEF s, t
<1>8. QED
  BY <1>1, <1>2, <1>5, <1>7 DEF BayApart, s, t

\* The bare buses have names of their own.
LEMMA BusesDiffer ==
    ASSUME NEW layout \in Layouts
    PROVE  \E n \in Nat : /\ DOMAIN BusBays(layout) = 1 .. n
                          /\ \A i, j \in 1 .. n : BusBays(layout)[i] = BusBays(layout)[j] => i = j
                          /\ \A i \in 1 .. n : BusBays(layout)[i] \notin {"Diameter", "Bay", "Tie"}
<1> DEFINE buses == BusBays(layout)
<1>1. \/ buses = <<"BusA", "BusB">> \/ buses = <<"Bus">>
      \/ buses = <<"MainBus", "TransferBus">> \/ buses = <<>>
  BY DEF BusBays, Layouts
<1> HIDE DEF buses
<1>2. ASSUME NEW a, NEW b, a # b, buses = <<a, b>>, a \notin {"Diameter", "Bay", "Tie"},
             b \notin {"Diameter", "Bay", "Tie"}
      PROVE  /\ DOMAIN buses = 1 .. 2
             /\ \A i, j \in 1 .. 2 : buses[i] = buses[j] => i = j
             /\ \A i \in 1 .. 2 : buses[i] \notin {"Diameter", "Bay", "Tie"}
  <2>1. DOMAIN buses = 1 .. 2 /\ buses[1] = a /\ buses[2] = b
    BY <1>2
  <2>2. \A i \in 1 .. 2 : i = 1 \/ i = 2
    OBVIOUS
  <2>3. QED
    BY <1>2, <2>1, <2>2
<1>3. CASE buses = <<"BusA", "BusB">> \/ buses = <<"MainBus", "TransferBus">>
  <2>1. "BusA" # "BusB" /\ "MainBus" # "TransferBus"
    OBVIOUS
  <2>2. /\ "BusA" \notin {"Diameter", "Bay", "Tie"} /\ "BusB" \notin {"Diameter", "Bay", "Tie"}
        /\ "MainBus" \notin {"Diameter", "Bay", "Tie"} /\ "TransferBus" \notin {"Diameter", "Bay", "Tie"}
    OBVIOUS
  <2>3. 2 \in Nat
    OBVIOUS
  <2>4. QED
    BY <1>2, <1>3, <2>1, <2>2, <2>3 DEF buses
<1>4. CASE buses = <<"Bus">>
  <2>1. DOMAIN buses = 1 .. 1 /\ buses[1] = "Bus" /\ 1 \in Nat
    BY <1>4
  <2>2. \A i \in 1 .. 1 : i = 1
    OBVIOUS
  <2>3. "Bus" \notin {"Diameter", "Bay", "Tie"}
    OBVIOUS
  <2>4. QED
    BY <2>1, <2>2, <2>3 DEF buses
<1>5. CASE buses = <<>>
  <2>1. DOMAIN buses = 1 .. 0 /\ 0 \in Nat /\ \A i \in 1 .. 0 : FALSE
    BY <1>5
  <2>2. QED
    BY <2>1 DEF buses
<1>6. QED
  BY <1>1, <1>3, <1>4, <1>5

\* The schema takes a level of usual answers, ...
LEMMA UsualLevelValid ==
    ASSUME NEW name, NEW kv, kv # NaN, NEW layout \in Layouts, NEW tps \in Seq(TapSet), NEW start \in Nat,
           ~Refuses(layout, tps), UsualTaps(tps)
    PROVE  LevelValid(LevelElement(Build(name, kv, layout, tps, start)))
<1> DEFINE lv == Build(name, kv, layout, tps, start)
           buses == BusBays(layout)
           cells == Cells(layout, tps, start)
           bare == [i \in DOMAIN buses |-> BusBay(buses[i], i)]
           full == [k \in DOMAIN cells |-> Equipped(tps, cells[k])]
           bays == lv.bays
<1>1. lv.taps = tps /\ lv.kv = kv
  BY TapsOfBuild
<1>2. bays = bare \o full
  BY DEF Build, Level
<1> HIDE DEF lv
<1>3. PICK n \in Nat : /\ DOMAIN buses = 1 .. n
                       /\ \A i, j \in 1 .. n : buses[i] = buses[j] => i = j
                       /\ \A i \in 1 .. n : buses[i] \notin {"Diameter", "Bay", "Tie"}
  BY BusesDiffer
<1>4. cells \in Seq(CellsOf(tps))
  BY CellsTyped
<1>5. PICK m \in Nat : DOMAIN cells = 1 .. m
  BY <1>4
<1>6. /\ \A c, d \in 1 .. m : cells[c].bay = cells[d].bay => c = d
      /\ \A c \in 1 .. m : CellApart(cells[c])
  BY <1>5, CellsApart
<1>7. \A c \in 1 .. m : cells[c] \in CellsOf(tps)
  BY <1>4, <1>5
<1>8. \A k \in 1 .. n : bare[k] = BusBay(buses[k], k)
  BY <1>3
<1>9. \A k \in 1 .. m : full[k] = Equipped(tps, cells[k])
  BY <1>5
<1>10. Counted(bare, n) /\ Counted(full, m)
  BY <1>3, <1>5 DEF Counted
<1> HIDE DEF buses, cells, bare, full
<1>11. /\ DOMAIN bays = 1 .. n + m
       /\ \A k \in 1 .. n : bays[k] = BusBay(buses[k], k)
       /\ \A k \in 1 .. m : bays[n + k] = Equipped(tps, cells[k])
       /\ \A p \in 1 .. n + m : p \in 1 .. n \/ \E k \in 1 .. m : p = n + k
  <2>1. Parted(bare, full, n, m)
    BY <1>3, <1>5, <1>10, TwoParts
  <2>2. QED
    BY <1>2, <1>8, <1>9, <2>1 DEF Parted
<1> HIDE DEF bays
<1>12. \A k \in 1 .. n : bays[k].name = <<buses[k], 0, <<>>>> /\ BayApart(lv, bays[k])
  <2>1. \A k \in 1 .. n : bays[k].name = <<buses[k], 0, <<>>>>
    <3>1. \A bus, i : BusBay(bus, i).name = <<bus, 0, <<>>>>
      BY DEF BusBay
    <3>2. QED
      BY <1>11, <3>1
  <2>2. \A k \in 1 .. n : BayApart(lv, bays[k])
    BY <1>11, BusBayApart
  <2>3. QED
    BY <2>1, <2>2
<1>13. \A k \in 1 .. m : bays[n + k].name = cells[k].bay /\ BayApart(lv, bays[n + k])
  <2>1. \A k \in 1 .. m : bays[n + k].name = cells[k].bay
    <3>1. \A cell : Equipped(tps, cell).name = cell.bay
      BY DEF Equipped
    <3>2. QED
      BY <1>11, <3>1
  <2>2. \A k \in 1 .. m : BayApart(lv, bays[n + k])
    <3>1. \A k \in 1 .. m : BayApart(lv, Equipped(tps, cells[k]))
      BY <1>1, <1>6, <1>7, CellBayApart
    <3>2. QED
      BY <1>11, <3>1
  <2>3. QED
    BY <2>1, <2>2
<1>14. \A k \in 1 .. m : cells[k].bay[1] \in {"Diameter", "Bay", "Tie"}
  <2>1. \A k \in 1 .. m : cells[k].bay \in BayNames
    BY <1>7 DEF CellsOf
  <2>2. QED
    BY <2>1 DEF BayNames
<1>15. \A k \in 1 .. n : bays[k].name[1] = buses[k]
  BY <1>12
<1>16. \A i \in DOMAIN bays : BayApart(lv, bays[i])
  BY <1>11, <1>12, <1>13
<1>17. ASSUME NEW i \in 1 .. n + m, NEW j \in 1 .. n + m, bays[i].name = bays[j].name PROVE i = j
  <2>1. CASE i \in 1 .. n /\ j \in 1 .. n
    BY <1>3, <1>15, <1>17, <2>1
  <2>2. ASSUME NEW k \in 1 .. m, i = n + k, j \in 1 .. n PROVE FALSE
    <3>1. bays[i].name[1] \in {"Diameter", "Bay", "Tie"} /\ bays[j].name[1] = buses[j]
      BY <1>13, <1>14, <1>15, <2>2
    <3>2. QED
      BY <1>3, <1>17, <2>2, <3>1
  <2>3. ASSUME NEW k \in 1 .. m, j = n + k, i \in 1 .. n PROVE FALSE
    <3>1. bays[j].name[1] \in {"Diameter", "Bay", "Tie"} /\ bays[i].name[1] = buses[i]
      BY <1>13, <1>14, <1>15, <2>3
    <3>2. QED
      BY <1>3, <1>17, <2>3, <3>1
  <2>4. ASSUME NEW k \in 1 .. m, NEW l \in 1 .. m, i = n + k, j = n + l PROVE i = j
    <3>1. cells[k].bay = cells[l].bay
      BY <1>13, <1>17, <2>4
    <3>2. QED
      BY <1>6, <2>4, <3>1
  <2>5. QED
    BY <1>11, <2>1, <2>2, <2>3, <2>4
<1>18. QED
  BY <1>1, <1>11, <1>16, <1>17, BaysDistinct DEF bays, lv

\* ... and the low side of a transformer.
LEMMA LvLevelValid ==
    ASSUME NEW name, NEW kv, kv # NaN, name[1] = "XFMR"
    PROVE  LevelValid(LevelElement(LvLevel(name, kv, <<Feed(1)>>)))
<1> DEFINE lv == LvLevel(name, kv, <<Feed(1)>>)
           d == Dis(Tallied(Suffixed(name, "DIS"), 1), Bus(1), TapNode(1))
           out == [name |-> <<"Output", 1, <<>>>>, breakers |-> <<d>>, nodes |-> <<TapNode(1)>>]
           bare == <<BusBay("LVBus", 1)>>
           full == [i \in DOMAIN <<Feed(1)>> |->
                       [name |-> <<"Output", i, <<>>>>,
                        breakers |-> <<Dis(Tallied(Suffixed(name, "DIS"), i), Bus(1), TapNode(i))>>,
                        nodes |-> <<TapNode(i)>>]]
           bays == lv.bays
<1>1. lv.taps = <<Feed(1)>> /\ lv.kv = kv /\ bays = bare \o full
  BY DEF LvLevel, Level
<1>2. DOMAIN <<Feed(1)>> = 1 .. 1
  OBVIOUS
<1>3. Counted(bare, 1) /\ bare[1] = BusBay("LVBus", 1)
  BY DEF Counted
<1>4. Counted(full, 1) /\ full[1] = out
  BY <1>2 DEF Counted
<1> HIDE DEF lv, bare, full
<1>5. DOMAIN bays = 1 .. 2 /\ bays[1] = BusBay("LVBus", 1) /\ bays[2] = out
  <2>1. Parted(bare, full, 1, 1)
    BY <1>3, <1>4, TwoParts
  <2>2. QED
    BY <1>1, <1>3, <1>4, <2>1 DEF Parted
<1> HIDE DEF bays
<1>6. bays[1].name = <<"LVBus", 0, <<>>>> /\ bays[2].name = <<"Output", 1, <<>>>>
  BY <1>5 DEF BusBay
<1>7. BayApart(lv, bays[1])
  BY <1>5, BusBayApart
<1>8. BayApart(lv, out)
  <2>1. out.breakers = <<d>> /\ out.nodes = <<TapNode(1)>>
    OBVIOUS
  <2>2. d.name[1] = "XFMR"
    BY DEF Dis, Suffixed, Tallied
  <2>3. NodeName(lv, TapNode(1)) = <<"Feed", 1, <<>>>>
    <3>1. NodeName(lv, TapNode(1)) = lv.taps[1].name
      BY DEF NodeName, TapNode
    <3>2. QED
      BY <1>1, <3>1 DEF Feed
  <2> HIDE DEF d, out
  <2>4. DOMAIN out.breakers = 1 .. 1 /\ DOMAIN out.nodes = 1 .. 1 /\ out.breakers[1] = d /\ out.nodes[1] = TapNode(1)
    BY <2>1
  <2>5. d.name # NodeName(lv, TapNode(1))
    BY <2>2, <2>3
  <2>6. 1 \in Nat /\ \A i \in 1 .. 1 : i = 1
    OBVIOUS
  <2>7. QED
    BY <2>4, <2>5, <2>6 DEF BayApart
<1>9. \A i \in 1 .. 2 : i = 1 \/ i = 2
  OBVIOUS
<1>10. \A i \in DOMAIN bays : BayApart(lv, bays[i])
  BY <1>5, <1>7, <1>8, <1>9
<1>11. \A i, j \in DOMAIN bays : bays[i].name = bays[j].name => i = j
  <2>1. bays[1].name # bays[2].name
    BY <1>6
  <2>2. QED
    BY <1>5, <1>9, <2>1
<1>12. QED
  BY <1>1, <1>10, <1>11, BaysDistinct DEF bays, lv

\* The voltages usually typed are numbers.
UsualNumbers == NaN \notin Voltages \cup LvVoltages

\* A usual level passes, ...
LEMMA UsualLevelPasses ==
    ASSUME UsualNumbers, NEW lv, NEW k, IsUsualLevel(lv, k)
    PROVE  lv.kv # NaN /\ LevelValid(LevelElement(lv))
<1>1. PICK kv \in Voltages, layout \in Layouts, tps \in Seq(TapSet), start \in Nat :
             /\ lv = Build(<<"V", k, <<>>>>, kv, layout, tps, start)
             /\ ~Refuses(layout, tps) /\ UsualTaps(tps)
  BY DEF IsUsualLevel
<1>2. kv # NaN
  BY DEF UsualNumbers
<1>3. lv.kv = kv
  BY <1>1, TapsOfBuild
<1> DEFINE name == <<"V", k, <<>>>>
<1> HIDE DEF name
<1>4. LevelValid(LevelElement(Build(name, kv, layout, tps, start)))
  BY <1>1, <1>2, UsualLevelValid
<1>5. QED
  BY <1>1, <1>2, <1>3, <1>4 DEF name

\* ... and so does a usual transformer.
LEMMA UsualTransformerPasses ==
    ASSUME UsualNumbers, NEW x, IsUsualTransformer(x), NEW m, x.name = Xfmr(m)
    PROVE  LevelValid(LevelElement(x.lv))
<1>1. PICK kv \in LvVoltages : x.lv = LvLevel(x.name, kv, <<Feed(1)>>)
  BY DEF IsUsualTransformer
<1>2. kv # NaN
  BY DEF UsualNumbers
<1>3. x.name[1] = "XFMR"
  BY DEF Xfmr
<1>4. QED
  BY <1>1, <1>2, <1>3, LvLevelValid

\* The levels of the document, and those of the transformers.
LEMMA UsualLevelsPass ==
    ASSUME UsualNumbers, NEW st, IsUsual(st), NEW element \in Range(Document(st).substation.levels)
    PROVE  LevelValid(element)
<1> DEFINE n == Len(st.levels)
           m == XfmrsOf(st)
           lvs == [k \in 1 .. m |-> st.transformers[k].lv]
           all == AllLevels(st)
<1>1. m \in Nat /\ DOMAIN st.transformers = 1 .. m
  BY Counts DEF IsUsual
<1>2. n \in Nat /\ DOMAIN st.levels = 1 .. n /\ st.levels = [k \in 1 .. n |-> st.levels[k]]
  <2>1. st.levels \in Seq(BuiltLevels)
    BY DEF IsUsual, StationOk
  <2>2. QED
    BY <2>1
<1>3. all = st.levels \o lvs
  BY <1>1 DEF AllLevels, Each
<1>4. lvs = [k \in 1 .. m |-> lvs[k]] /\ \A k \in 1 .. m : lvs[k] = st.transformers[k].lv
  OBVIOUS
<1>5. /\ DOMAIN all = 1 .. n + m
      /\ \A k \in 1 .. n : all[k] = st.levels[k]
      /\ \A k \in 1 .. m : all[n + k] = st.transformers[k].lv
      /\ \A p \in 1 .. n + m : p \in 1 .. n \/ \E k \in 1 .. m : p = n + k
  <2> DEFINE l == st.levels
  <2>1. Counted(l, n) /\ Counted(lvs, m)
    BY <1>2, <1>4 DEF Counted
  <2> HIDE DEF l, n, m, lvs, all
  <2>2. Parted(l, lvs, n, m)
    BY <1>1, <1>2, <2>1, TwoParts
  <2>3. QED
    BY <1>3, <1>4, <2>2 DEF l, Parted
<1>6. Document(st).substation.levels = [k \in DOMAIN all |-> LevelElement(all[k])]
  BY DEF Document, SubstationElement, Each
<1> HIDE DEF n, m, lvs, all
<1>7. PICK p \in DOMAIN all : element = LevelElement(all[p])
  BY <1>6 DEF Range
<1>8. CASE p \in 1 .. n
  <2>1. IsUsualLevel(st.levels[p], p)
    BY <1>2, <1>8 DEF IsUsual
  <2>2. QED
    BY <1>5, <1>7, <1>8, <2>1, UsualLevelPasses
<1>9. ASSUME NEW k \in 1 .. m, p = n + k PROVE LevelValid(element)
  <2>1. IsUsualTransformer(st.transformers[k]) /\ \E x \in Nat : st.transformers[k].name = Xfmr(x)
    BY <1>1 DEF IsUsual
  <2>2. LevelValid(LevelElement(st.transformers[k].lv))
    BY <2>1, UsualTransformerPasses
  <2>3. QED
    BY <1>5, <1>7, <1>9, <2>2
<1>10. QED
  BY <1>5, <1>7, <1>8, <1>9

\* The names of the control blocks of an IED with one device.
LEMMA CbNamesOf ==
    ASSUME NEW ied, NEW d, ied.devices = <<d>>, NEW cb \in CbNames(ied)
    PROVE  (\E k \in DOMAIN d.ln0.reports : cb = d.ln0.reports[k].name) \/ cb \in Range(d.ln0.smv)
<1>1. CbNames(ied) = UNION {Range(Names(e.ln0.reports)) \cup Range(e.ln0.smv) : e \in Range(ied.devices)}
  BY DEF CbNames
<1>2. Range(ied.devices) = {d}
  BY OneElement
<1>3. cb \in Range(Names(d.ln0.reports)) \/ cb \in Range(d.ln0.smv)
  BY <1>1, <1>2
<1>4. Names(d.ln0.reports) = [k \in DOMAIN d.ln0.reports |-> d.ln0.reports[k].name]
  BY DEF Names, Each
<1>5. QED
  BY <1>3, <1>4 DEF Range

\* Names of control blocks made of usual names are short enough, 
LEMMA UsualControlBlocks ==
    ASSUME NEW st, IsUsual(st), NEW ied \in Range(Document(st).ieds), NEW cb \in CbNames(ied)
    PROVE  FitsCbName(cb)
<1>1. StationOk(st) /\ \A i \in 1 .. XfmrsOf(st) : \E m \in Nat : st.transformers[i].name = Xfmr(m)
  <2>1. DOMAIN st.transformers = 1 .. XfmrsOf(st)
    BY Counts DEF IsUsual
  <2>2. QED
    BY <2>1 DEF IsUsual
<1>2. PICK i \in 1 .. ScadaPlace(st) : ied = IedAt(st, i)
  BY <1>1, IedsOfDocument DEF IedAt, Range
<1>3. CASE i \in 1 .. BreakersOf(st)
  <2> DEFINE d == ied.devices[1]
             rc == Report(CbName("rcbStatus1", NoName), "dsGoose1")
  <2>1. PICK b, il, rt : ied = BreakerIed(st, b, il, rt)
    BY <1>1, <1>2, <1>3, IedsOfDocument
  <2>2. ied.devices = <<d>> /\ d.ln0.reports = <<rc>> /\ d.ln0.smv = <<>>
    <3> HIDE DEF rc
    <3>1. \A a, e, f : LET o == BreakerIed(st, a, e, f).devices
                     IN  o = <<o[1]>> /\ o[1].ln0.reports = <<Report(CbName("rcbStatus1", NoName), "dsGoose1")>>
                         /\ o[1].ln0.smv = <<>>
      BY DEF BreakerIed, Ied, Ln0
    <3>2. QED
      BY <2>1, <3>1 DEF rc
  <2>3. rc.name = CbName("rcbStatus1", NoName)
    BY DEF Report
  <2> HIDE DEF d, rc
  <2>4. cb = rc.name
    <3>1. (\E k \in DOMAIN d.ln0.reports : cb = d.ln0.reports[k].name) \/ cb \in Range(d.ln0.smv)
      BY <2>2, CbNamesOf
    <3>2. Range(d.ln0.smv) = {}
      BY <2>2 DEF Range
    <3>3. QED
      BY <2>2, <3>1, <3>2
  <2>5. cb[2][1] = ""
    <3>1. cb[2] = NoName
      BY <2>3, <2>4 DEF CbName
    <3>2. NoName[1] = ""
      BY DEF NoName
    <3>3. QED
      BY <3>1, <3>2
  <2>6. QED
    BY <2>5, WideAssumption DEF FitsCbName
<1>4. ASSUME NEW j \in 1 .. XfmrsOf(st), i = BreakersOf(st) + j PROVE FitsCbName(cb)
  <2> DEFINE x == st.transformers[j]
             d == ied.devices[1]
             rc == Report(CbName("rcb", x.name), "dsStatus1")
             svc == CbName("svc", x.name)
  <2>1. ied = TransformerIed(st, x)
    BY <1>1, <1>2, <1>4, IedsOfDocument
  <2>2. ied.devices = <<d>> /\ d.ln0.reports = <<rc>> /\ d.ln0.smv = <<svc>>
    <3> HIDE DEF rc, svc
    <3>1. \A y : LET o == TransformerIed(st, y).devices
               IN  o = <<o[1]>> /\ o[1].ln0.reports = <<Report(CbName("rcb", y.name), "dsStatus1")>>
                   /\ o[1].ln0.smv = <<CbName("svc", y.name)>>
      BY DEF TransformerIed, Ied, Ln0
    <3>2. QED
      BY <2>1, <3>1 DEF rc, svc
  <2>3. rc.name = CbName("rcb", x.name)
    BY DEF Report
  <2>4. x.name[1] = "XFMR"
    BY <1>1 DEF Xfmr
  <2> HIDE DEF d, rc, x, svc
  <2>5. cb = rc.name \/ cb = svc
    <3>1. (\E k \in DOMAIN d.ln0.reports : cb = d.ln0.reports[k].name) \/ cb \in Range(d.ln0.smv)
      BY <2>2, CbNamesOf
    <3>2. Range(d.ln0.smv) = {svc}
      BY <2>2, OneElement
    <3>3. \A k \in DOMAIN d.ln0.reports : d.ln0.reports[k] = rc
      <4>1. d.ln0.reports = <<rc>>
        BY <2>2
      <4>2. QED
        BY <4>1
    <3>4. QED
      BY <3>1, <3>2, <3>3
  <2>6. cb[2][1] = "XFMR"
    BY <2>3, <2>4, <2>5 DEF CbName, svc
  <2>7. QED
    BY <2>6, WideAssumption DEF FitsCbName
<1>5. CASE i = ScadaPlace(st)
  <2> DEFINE d == ied.devices[1]
  <2>1. ied = ScadaIed(st)
    BY <1>1, <1>2, <1>5, IedsOfDocument
  <2>2. ied.devices = <<d>> /\ d.ln0.reports = <<>> /\ d.ln0.smv = <<>>
    <3>1. LET o == ScadaIed(st).devices
          IN  o = <<o[1]>> /\ o[1].ln0.reports = <<>> /\ o[1].ln0.smv = <<>>
      BY DEF ScadaIed, Ied, Ln0
    <3>2. QED
      BY <2>1, <3>1
  <2> HIDE DEF d
  <2>3. (\E k \in DOMAIN d.ln0.reports : cb = d.ln0.reports[k].name) \/ cb \in Range(d.ln0.smv)
    BY <2>2, CbNamesOf
  <2>4. Range(d.ln0.smv) = {} /\ DOMAIN d.ln0.reports = {}
    BY <2>2 DEF Range
  <2>5. QED
    BY <2>3, <2>4
<1>6. QED
  BY <1>1, <1>3, <1>4, <1>5, PublisherPlaces

\* and so are those of their access points.
LEMMA UsualSmv ==
    ASSUME NEW st, IsUsual(st), NEW ap \in Range(SubNetwork(st).aps), NEW s \in Range(ap.smv)
    PROVE  FitsCbName(s.cbName)
<1>1. StationOk(st) /\ \A i \in 1 .. XfmrsOf(st) : \E m \in Nat : st.transformers[i].name = Xfmr(m)
  <2>1. DOMAIN st.transformers = 1 .. XfmrsOf(st)
    BY Counts DEF IsUsual
  <2>2. QED
    BY <2>1 DEF IsUsual
<1>2. PICK i \in 1 .. ScadaPlace(st) : ap = ApAt(st, i)
  BY <1>1, ApsOfDocument DEF ApAt, Range
<1>3. \A e : e.smv = <<>> => Range(e.smv) = {}
  BY DEF Range
<1>4. CASE i \in 1 .. BreakersOf(st)
  <2>1. \A k, b : BreakerAp(st, k, b).smv = <<>>
    BY DEF BreakerAp
  <2>2. ap = BreakerAp(st, i, AllBreakers(st)[i])
    BY <1>1, <1>2, <1>4, ApsOfDocument
  <2>3. QED
    BY <1>3, <2>1, <2>2
<1>5. ASSUME NEW j \in 1 .. XfmrsOf(st), i = BreakersOf(st) + j PROVE FitsCbName(s.cbName)
  <2> DEFINE x == st.transformers[j]
  <2>1. ap = TransformerAp(st, j, x)
    BY <1>1, <1>2, <1>5, ApsOfDocument
  <2>2. \A y : TransformerAp(st, j, y).smv = <<Smv(j, y)>>
    BY DEF TransformerAp
  <2>3. x.name[1] = "XFMR"
    BY <1>1 DEF Xfmr
  <2> HIDE DEF x
  <2>4. s = Smv(j, x)
    BY <2>1, <2>2, OneElement
  <2>5. s.cbName[2] = x.name
    BY <2>4 DEF Smv, CbName
  <2>6. QED
    BY <2>3, <2>5, WideAssumption DEF FitsCbName
<1>6. CASE i = ScadaPlace(st)
  <2>1. ScadaAp(st).smv = <<>>
    BY DEF ScadaAp
  <2>2. ap = ScadaAp(st)
    BY <1>1, <1>2, <1>6, ApsOfDocument
  <2>3. QED
    BY <1>3, <2>1, <2>2
<1>7. QED
  BY <1>1, <1>4, <1>5, <1>6, PublisherPlaces

\* What a usual station is written as passes the schema, and nothing raises.
LEMMA UsualDocument ==
    ASSUME UsualNumbers, NEW st, IsUsual(st)
    PROVE  SchemaValid(Document(st)) /\ ~WriteRaises(st)
<1> DEFINE written == Document(st)
<1>1. Distinct(Names(written.ieds))
  BY UsualIedNames
<1>2. \A net \in Range(written.subnets) :
         /\ Distinct(Each(LAMBDA ap : ap.ied, net.aps))
         /\ \A ap \in Range(net.aps) : /\ \E ied \in Range(written.ieds) : ied.name = ap.ied
                                      /\ \A s \in Range(ap.smv) : FitsCbName(s.cbName)
  <2> SUFFICES ASSUME NEW net \in Range(written.subnets)
               PROVE  /\ Distinct(Each(LAMBDA ap : ap.ied, net.aps))
                      /\ \A ap \in Range(net.aps) : /\ \E ied \in Range(written.ieds) : ied.name = ap.ied
                                                   /\ \A s \in Range(ap.smv) : FitsCbName(s.cbName)
    OBVIOUS
  <2>1. net = SubNetwork(st)
    <3>1. written.subnets = <<SubNetwork(st)>>
      BY DEF Document
    <3>2. QED
      BY <3>1, OneElement
  <2>2. \A ap \in Range(net.aps) : \A s \in Range(ap.smv) : FitsCbName(s.cbName)
    BY <2>1, UsualSmv
  <2>3. QED
    BY <2>2, UsualAps
<1>2a. \A ied \in Range(written.ieds) : \A cb \in CbNames(ied) : FitsCbName(cb)
  BY UsualControlBlocks
<1>3. Distinct(Names(written.substation.transformers) \o Names(written.substation.levels))
  BY UsualSubstationNames
<1>4. \A lv \in Range(written.substation.levels) : LevelValid(lv)
  BY UsualLevelsPass
<1>5. \A lv \in Range(st.levels) : lv.kv # NaN
  <2> SUFFICES ASSUME NEW lv \in Range(st.levels) PROVE lv.kv # NaN
    OBVIOUS
  <2>1. PICK k \in DOMAIN st.levels : lv = st.levels[k]
    BY DEF Range
  <2>2. IsUsualLevel(lv, k)
    BY <2>1 DEF IsUsual
  <2>3. QED
    BY <2>2, UsualLevelPasses
<1> HIDE DEF written
<1>6. \A lv \in Range(written.substation.levels) :
         /\ lv.kv # NaN
         /\ Distinct(Names(lv.bays))
         /\ \A bay \in Range(lv.bays) : Distinct(Names(bay.equipment) \o Names(bay.nodes))
  BY <1>4 DEF LevelValid, BayValid
<1>7. SchemaValid(written)
  BY <1>1, <1>2, <1>2a, <1>3, <1>6 DEF SchemaValid
<1>8. ~WriteRaises(st)
  BY <1>5 DEF WriteRaises
<1>9. QED
  BY <1>7, <1>8 DEF written

\* The dialogue that has given usual answers only, to its end, made a usual station.
LEMMA UsualAccepted ==
    ASSUME StationInv, UsualInv, NumberInv, phase = "accepted", odd = 0
    PROVE  IsUsual(Station)
<1>1. /\ Station.levels = levels /\ Station.transformers = transformers
      /\ Station.network = settings.network /\ Station.scada = settings.scada
  BY DEF Station
<1>2. UsualLevels /\ UsualTransformers /\ UsualScada
  BY DEF UsualInv, UsualStation
<1>3. settings.network \in NetworkSet /\ settings.scada \in ScadaSet
  BY DEF StationInv, SettingsTyped
<1>4. /\ levels \in Seq(BuiltLevels) /\ transformers \in Seq(TransformerSet)
      /\ \A x \in Range(transformers) : /\ x.level \in DOMAIN levels
                                        /\ x.tap \in DOMAIN levels[x.level].taps
  BY DEF StationInv, LevelsBuilt, TransformersPlaced
<1>5. StationOk(Station)
  BY <1>1, <1>3, <1>4 DEF StationOk
<1>6. LevelsNumbered(levels)
  BY DEF NumberInv
<1>7. \A k \in DOMAIN levels : IsUsualLevel(levels[k], k)
  BY <1>2 DEF UsualLevels
<1>8. /\ \A i \in DOMAIN transformers : /\ IsUsualTransformer(transformers[i])
                                        /\ \E m \in Nat : transformers[i].name = Xfmr(m)
      /\ \A i, j \in DOMAIN transformers : transformers[i].name = transformers[j].name => i = j
  BY <1>2 DEF UsualTransformers, NumberedFrom
<1>9. settings.scada.iedName = <<"SCADA", 1, <<>>>>
  BY <1>2 DEF UsualScada
<1> DEFINE st == Station
<1> HIDE DEF st
<1>10. /\ st.levels = levels /\ st.transformers = transformers /\ st.scada = settings.scada
       /\ StationOk(st)
  BY <1>1, <1>5 DEF st
<1>11. IsUsual(st)
  BY <1>6, <1>7, <1>8, <1>9, <1>10 DEF IsUsual
<1>12. QED
  BY <1>11 DEF st

\* While the dialogue goes on, nothing has been written.
LEMMA DialogueOpen == ASSUME OutcomeInv, Dialogue PROVE status' = "open"
<1>1. phase \notin {"accepted"}
  BY DEF Dialogue, Next, NameLevel, AddTap, RedoTaps, Crash, CompleteLevel, AddAnother, CollectSettings, Confirm
<1>2. status = "open" /\ status' = status
  BY <1>1 DEF OutcomeInv, Dialogue, tools
<1>3. QED
  BY <1>2

\* The tools leave the answers alone.
LEMMA UsualStays == ASSUME UsualInv, NumberInv, UNCHANGED vars PROVE UsualInv' /\ NumberInv'
BY DEF UsualInv, NumberInv, LevelsNumbered, UsualStation, UsualLevels, UsualTransformers, UsualWork, UsualDraft,
       UsualScada, vars

\* A document made of usual answers passes the schema and compiles, when the
\* voltages usually typed are numbers: the two halves of UsualAnswersCompile.
THEOREM UsualAnswers == UsualNumbers => (ToolSpec => []UsualAnswersCompile)
<1> SUFFICES ASSUME UsualNumbers PROVE ToolSpec => []UsualAnswersCompile
  OBVIOUS
<1> DEFINE Passes == odd = 0 => status \notin {"raised", "refused"}
           UInv == UsualInv /\ NumberInv /\ Passes
<1>1. ToolInit => UInv
  BY UsualInit DEF ToolInit
<1>2. ToolInv /\ UInv /\ [ToolNext]_<<vars, tools>> => UInv'
  <2> SUFFICES ASSUME ToolInv, UInv, [ToolNext]_<<vars, tools>> PROVE UInv'
    OBVIOUS
  <2>0. StationInv /\ OutcomeInv
    BY DEF ToolInv
  <2>1. CASE Dialogue
    <3>1. UsualInv' /\ NumberInv'
      BY <2>0, <2>1, UsualKept, NumbersKept DEF Dialogue
    <3>2. status' = "open"
      BY <2>0, <2>1, DialogueOpen
    <3>3. QED
      BY <3>1, <3>2
  <2>2. CASE WriteStation
    <3>1. UsualInv' /\ NumberInv'
      BY <2>2, UsualStays DEF WriteStation
    <3>2. ASSUME odd' = 0 PROVE status' \notin {"raised", "refused"}
      <4>1. odd = 0 /\ phase = "accepted"
        BY <2>2, <3>2 DEF WriteStation, vars
      <4>2. IsUsual(Station)
        BY <2>0, <4>1, UsualAccepted
      <4> DEFINE st == Station
      <4> HIDE DEF st
      <4>3. SchemaValid(Document(st)) /\ ~WriteRaises(st)
        BY <4>2, UsualDocument DEF st
      <4>4. status' = "valid"
        BY <2>2, <4>3 DEF WriteStation, st
      <4>5. QED
        BY <4>4
    <3>3. QED
      BY <3>1, <3>2
  <2>3. CASE Compile
    <3>1. UsualInv' /\ NumberInv'
      BY <2>3, UsualStays DEF Compile
    <3>2. status' \in {"error", "compiled"}
      BY <2>3 DEF Compile
    <3>3. QED
      BY <3>1, <3>2
  <2>4. CASE UNCHANGED <<vars, tools>>
    <3>1. UsualInv' /\ NumberInv'
      BY <2>4, UsualStays
    <3>2. status' = status /\ odd' = odd
      BY <2>4 DEF vars, tools
    <3>3. QED
      BY <3>1, <3>2
  <2>5. QED
    BY <2>1, <2>2, <2>3, <2>4 DEF ToolNext
<1>3. UInv /\ status # "error" => UsualAnswersCompile
  BY DEF UsualAnswersCompile
<1>4. QED
  BY <1>1, <1>2, <1>3, ToolInvariant, DocumentsCompile, PTL DEF ToolSpec

-----------------------------------------------------------------------------
(* The diagram: which devices a level has. *)

\* A device of a level is known by its kind and the number of its breaker, or of its tap.
KeyType(key) == IF key[1] = "CBR" THEN "CBR" ELSE "DIS"
KeyName(tps, start, key) ==
    CASE key[1] = "CBR" -> CbrName(start + key[2] - 1)
      [] key[1] = "D" -> Suffixed(tps[key[2]].name, "D")
      [] OTHER -> Suffixed(CbrName(start + key[2] - 1), key[1])
IsKeyed(tps, start, d, key) == d.type = KeyType(key) /\ d.name = KeyName(tps, start, key)

\* A list holds one device for every key.
KeyedBy(tps, start, s, K, f) ==
    /\ f \in [DOMAIN s -> K]
    /\ \A i \in DOMAIN s : IsKeyed(tps, start, s[i], f[i])
    /\ \A i, j \in DOMAIN s : f[i] = f[j] => i = j
    /\ \A key \in K : \E i \in DOMAIN s : f[i] = key
Keyed(tps, start, s, K) == \E f : KeyedBy(tps, start, s, K, f)

\* Two lists with different keys make one.
LEMMA KeyedJoined ==
    ASSUME NEW tps, NEW start, NEW S, NEW s \in Seq(S), NEW t \in Seq(S), NEW K, NEW L,
           Keyed(tps, start, s, K), Keyed(tps, start, t, L), K \cap L = {}
    PROVE  Keyed(tps, start, s \o t, K \cup L)
<1> DEFINE n == Len(s)
           m == Len(t)
           u == s \o t
<1>1. n \in Nat /\ m \in Nat /\ DOMAIN s = 1 .. n /\ DOMAIN t = 1 .. m
  OBVIOUS
<1>2. Counted(s, n) /\ Counted(t, m)
  BY DEF Counted
<1> HIDE DEF n, m
<1>3. /\ DOMAIN u = 1 .. n + m
      /\ \A k \in 1 .. n : u[k] = s[k]
      /\ \A k \in 1 .. m : u[n + k] = t[k]
      /\ \A p \in 1 .. n + m : p \in 1 .. n \/ \E k \in 1 .. m : p = n + k
  <2>1. Parted(s, t, n, m)
    BY <1>1, <1>2, TwoParts
  <2>2. QED
    BY <2>1 DEF Parted
<1>4. PICK f : KeyedBy(tps, start, s, K, f)
  BY DEF Keyed
<1>5. PICK g : KeyedBy(tps, start, t, L, g)
  BY DEF Keyed
<1> HIDE DEF u
<1> DEFINE h == [p \in 1 .. n + m |-> IF p \in 1 .. n THEN f[p] ELSE g[p - n]]
<1>6. /\ \A k \in 1 .. n : k \in 1 .. n + m /\ h[k] = f[k]
      /\ \A k \in 1 .. m : n + k \in 1 .. n + m /\ h[n + k] = g[k]
  <2>1. \A k \in 1 .. n : k \in 1 .. n + m
    BY <1>1
  <2>2. \A k \in 1 .. m : n + k \in 1 .. n + m /\ n + k \notin 1 .. n /\ n + k - n = k
    BY <1>1
  <2>3. \A p \in 1 .. n + m : h[p] = IF p \in 1 .. n THEN f[p] ELSE g[p - n]
    OBVIOUS
  <2> HIDE DEF h
  <2>4. \A k \in 1 .. n : h[k] = f[k]
    BY <2>1, <2>3
  <2>5. ASSUME NEW k \in 1 .. m PROVE h[n + k] = g[k]
    <3> DEFINE p == n + k
    <3>1. p \in 1 .. n + m /\ p \notin 1 .. n /\ p - n = k
      BY <1>1
    <3> HIDE DEF p
    <3>2. h[p] = g[p - n]
      BY <2>3, <3>1
    <3>3. QED
      BY <3>1, <3>2 DEF p
  <2>6. QED
    BY <2>1, <2>2, <2>4, <2>5
<1>7. DOMAIN h = 1 .. n + m /\ h = [p \in 1 .. n + m |-> h[p]]
  OBVIOUS
<1> HIDE DEF h
<1>8. /\ \A k \in 1 .. n : f[k] \in K /\ IsKeyed(tps, start, s[k], f[k])
      /\ \A k \in 1 .. m : g[k] \in L /\ IsKeyed(tps, start, t[k], g[k])
      /\ \A j, k \in 1 .. n : f[j] = f[k] => j = k
      /\ \A j, k \in 1 .. m : g[j] = g[k] => j = k
      /\ \A key \in K : \E k \in 1 .. n : f[k] = key
      /\ \A key \in L : \E k \in 1 .. m : g[k] = key
  BY <1>1, <1>4, <1>5 DEF KeyedBy
<1>9. ASSUME NEW p \in 1 .. n + m PROVE h[p] \in K \cup L /\ IsKeyed(tps, start, u[p], h[p])
  <2>1. CASE p \in 1 .. n
    BY <1>3, <1>6, <1>8, <2>1
  <2>2. ASSUME NEW k \in 1 .. m, p = n + k PROVE h[p] \in K \cup L /\ IsKeyed(tps, start, u[p], h[p])
    BY <1>3, <1>6, <1>8, <2>2
  <2>3. QED
    BY <1>3, <2>1, <2>2
<1>10. ASSUME NEW p \in 1 .. n + m, NEW q \in 1 .. n + m, h[p] = h[q] PROVE p = q
  <2>1. CASE p \in 1 .. n /\ q \in 1 .. n
    BY <1>6, <1>8, <1>10, <2>1
  <2>2. ASSUME NEW k \in 1 .. m, p = n + k, q \in 1 .. n PROVE FALSE
    <3>1. h[p] \in L /\ h[q] \in K
      BY <1>6, <1>8, <2>2
    <3>2. QED
      BY <1>10, <3>1
  <2>3. ASSUME NEW k \in 1 .. m, q = n + k, p \in 1 .. n PROVE FALSE
    <3>1. h[q] \in L /\ h[p] \in K
      BY <1>6, <1>8, <2>3
    <3>2. QED
      BY <1>10, <3>1
  <2>4. ASSUME NEW j \in 1 .. m, NEW k \in 1 .. m, p = n + j, q = n + k PROVE p = q
    <3>1. g[j] = g[k]
      BY <1>6, <1>10, <2>4
    <3>2. QED
      BY <1>8, <2>4, <3>1
  <2>5. QED
    BY <1>3, <2>1, <2>2, <2>3, <2>4
<1>11. ASSUME NEW key \in K \cup L PROVE \E p \in 1 .. n + m : h[p] = key
  <2>1. CASE key \in K
    BY <1>6, <1>8, <2>1
  <2>2. CASE key \in L
    BY <1>6, <1>8, <2>2
  <2>3. QED
    BY <2>1, <2>2
<1>12. KeyedBy(tps, start, u, K \cup L, h)
  <2>1. h \in [1 .. n + m -> K \cup L]
    BY <1>7, <1>9
  <2>2. QED
    BY <1>3, <1>9, <1>10, <1>11, <2>1 DEF KeyedBy
<1>13. QED
  BY <1>12 DEF Keyed, u

\* Lists of which no two have a key in common make one.
LEMMA KeyedFlattened ==
    ASSUME NEW tps, NEW start, NEW S, NEW ss \in Seq(Seq(S)), NEW KK, NEW all,
           \A k \in DOMAIN ss : Keyed(tps, start, ss[k], KK[k]) /\ KK[k] \subseteq all,
           \A k, l \in DOMAIN ss : k # l => KK[k] \cap KK[l] = {},
           \A key \in all : \E k \in DOMAIN ss : key \in KK[k]
    PROVE  Keyed(tps, start, FlattenSeq(ss), all)
<1> DEFINE t == FlattenSeq(ss)
           ff == [k \in DOMAIN ss |-> CHOOSE f : KeyedBy(tps, start, ss[k], KK[k], f)]
<1>1. t \in Seq(S) /\ \E at : Lists(t, ss, at)
  BY FlattenLists
<1> HIDE DEF t
<1>2. PICK at : Lists(t, ss, at)
  BY <1>1
<1>3. \A k \in DOMAIN ss : KeyedBy(tps, start, ss[k], KK[k], ff[k])
  <2>1. \A k \in DOMAIN ss : \E f : KeyedBy(tps, start, ss[k], KK[k], f)
    BY DEF Keyed
  <2>2. QED
    BY <2>1
<1> HIDE DEF ff
<1> DEFINE h == [p \in DOMAIN t |-> ff[at[p][1]][at[p][2]]]
<1>4. /\ DOMAIN h = DOMAIN t /\ h = [p \in DOMAIN t |-> h[p]]
      /\ \A p \in DOMAIN t : h[p] = ff[at[p][1]][at[p][2]]
  OBVIOUS
<1> HIDE DEF h
<1>5. \A p \in DOMAIN t : /\ at[p] \in Nat \X Nat
                          /\ at[p][1] \in DOMAIN ss /\ at[p][2] \in DOMAIN ss[at[p][1]]
                          /\ t[p] = ss[at[p][1]][at[p][2]]
  BY <1>2 DEF Lists, Places
<1>6. ASSUME NEW k \in DOMAIN ss, NEW i \in DOMAIN ss[k]
      PROVE  ff[k][i] \in KK[k] /\ IsKeyed(tps, start, ss[k][i], ff[k][i])
  BY <1>3 DEF KeyedBy
<1>7. ASSUME NEW p \in DOMAIN t PROVE h[p] \in KK[at[p][1]] /\ IsKeyed(tps, start, t[p], h[p])
  <2> DEFINE k == at[p][1]
             i == at[p][2]
  <2>1. k \in DOMAIN ss /\ i \in DOMAIN ss[k] /\ t[p] = ss[k][i] /\ h[p] = ff[k][i]
    BY <1>4, <1>5
  <2> HIDE DEF k, i
  <2>2. h[p] \in KK[k] /\ IsKeyed(tps, start, t[p], h[p])
    BY <1>6, <2>1
  <2>3. QED
    BY <2>2 DEF k
<1>8. ASSUME NEW p \in DOMAIN t, NEW q \in DOMAIN t, h[p] = h[q] PROVE p = q
  <2> DEFINE k == at[p][1]
             i == at[p][2]
             l == at[q][1]
             j == at[q][2]
  <2>1. /\ k \in DOMAIN ss /\ i \in DOMAIN ss[k] /\ h[p] = ff[k][i] /\ h[p] \in KK[k]
        /\ l \in DOMAIN ss /\ j \in DOMAIN ss[l] /\ h[q] = ff[l][j] /\ h[q] \in KK[l]
    BY <1>4, <1>5, <1>7
  <2> HIDE DEF k, i, l, j
  <2>2. k = l
    <3>1. KK[k] \cap KK[l] # {}
      BY <1>8, <2>1
    <3>2. QED
      BY <2>1, <3>1
  <2>3. i = j
    <3>1. \A x, y \in DOMAIN ss[k] : ff[k][x] = ff[k][y] => x = y
      BY <1>3, <2>1 DEF KeyedBy
    <3>2. QED
      BY <1>8, <2>1, <2>2, <3>1
  <2>4. at[p] = at[q]
    <3>1. \A x, y \in Nat \X Nat : x[1] = y[1] /\ x[2] = y[2] => x = y
      OBVIOUS
    <3>2. QED
      BY <1>5, <2>2, <2>3, <3>1 DEF k, i, l, j
  <2>5. QED
    BY <1>1, <1>2, <2>4, ListsInjective
<1>9. ASSUME NEW key \in all PROVE \E p \in DOMAIN t : h[p] = key
  <2>1. PICK k \in DOMAIN ss : key \in KK[k]
    OBVIOUS
  <2>2. PICK i \in DOMAIN ss[k] : ff[k][i] = key
    BY <1>3, <2>1 DEF KeyedBy
  <2>3. k \in Nat /\ i \in Nat
    <3>1. Len(ss) \in Nat /\ DOMAIN ss = 1 .. Len(ss) /\ ss[k] \in Seq(S)
      OBVIOUS
    <3>2. Len(ss[k]) \in Nat /\ DOMAIN ss[k] = 1 .. Len(ss[k])
      BY <3>1
    <3>3. QED
      BY <3>1, <3>2
  <2>4. <<k, i>> \in Places(ss)
    BY <2>3 DEF Places
  <2>5. PICK p \in DOMAIN t : at[p] = <<k, i>>
    BY <1>2, <2>4 DEF Lists
  <2>6. h[p] = ff[k][i]
    BY <1>4, <2>5
  <2>7. QED
    BY <2>2, <2>6
<1>10. KeyedBy(tps, start, t, all, h)
  <2>1. \A p \in DOMAIN t : h[p] \in all
    BY <1>5, <1>7
  <2>2. h \in [DOMAIN t -> all]
    BY <1>4, <2>1
  <2>3. QED
    BY <1>7, <1>8, <1>9, <2>2 DEF KeyedBy
<1>11. QED
  BY <1>10 DEF Keyed, t

\* A list whose devices have different keys holds one for each of them.
LEMMA KeyedMapped ==
    ASSUME NEW tps, NEW start, NEW s, NEW f, f = [i \in DOMAIN s |-> f[i]],
           \A i \in DOMAIN s : IsKeyed(tps, start, s[i], f[i]),
           \A i, j \in DOMAIN s : f[i] = f[j] => i = j
    PROVE  Keyed(tps, start, s, {f[i] : i \in DOMAIN s})
<1> DEFINE K == {f[i] : i \in DOMAIN s}
<1>1. \A i \in DOMAIN s : f[i] \in K
  OBVIOUS
<1>2. \A key \in K : \E i \in DOMAIN s : f[i] = key
  OBVIOUS
<1> HIDE DEF K
<1>3. f \in [DOMAIN s -> K]
  BY <1>1
<1>4. KeyedBy(tps, start, s, K, f)
  BY <1>2, <1>3 DEF KeyedBy
<1>5. QED
  BY <1>4 DEF Keyed, K

\* The isolating pair of a breaker.
LEMMA KeyedPair ==
    ASSUME NEW tps, NEW start, NEW m, NEW cb, cb.name = CbrName(start + m - 1)
    PROVE  Keyed(tps, start, IsolatingPair(cb), {"DA", "DB"} \X {m})
<1> DEFINE s == IsolatingPair(cb)
           f == <<<<"DA", m>>, <<"DB", m>>>>
<1>1. DOMAIN s = {1, 2} /\ DOMAIN f = {1, 2}
  BY DEF IsolatingPair
<1>2. /\ s[1].type = "DIS" /\ s[1].name = Suffixed(CbrName(start + m - 1), "DA")
      /\ s[2].type = "DIS" /\ s[2].name = Suffixed(CbrName(start + m - 1), "DB")
  BY DEF IsolatingPair, Dis
<1>3. f[1] = <<"DA", m>> /\ f[2] = <<"DB", m>> /\ f = [i \in {1, 2} |-> f[i]]
  OBVIOUS
<1> HIDE DEF s, f
<1>4. IsKeyed(tps, start, s[1], f[1]) /\ IsKeyed(tps, start, s[2], f[2])
  BY <1>2, <1>3 DEF IsKeyed, KeyType, KeyName
<1>5. f[1] # f[2]
  BY <1>3
<1>6. Keyed(tps, start, s, {f[i] : i \in DOMAIN s})
  <2>1. \A i \in DOMAIN s : IsKeyed(tps, start, s[i], f[i])
    BY <1>1, <1>4
  <2>2. \A i, j \in DOMAIN s : f[i] = f[j] => i = j
    BY <1>1, <1>5
  <2>3. f = [i \in DOMAIN s |-> f[i]]
    BY <1>1, <1>3
  <2>4. QED
    BY <2>1, <2>2, <2>3, KeyedMapped
<1>7. {f[i] : i \in DOMAIN s} = {"DA", "DB"} \X {m}
  BY <1>1, <1>3
<1>8. QED
  BY <1>6, <1>7 DEF s

\* The keys of a cell whose breakers come after the first so many of the level.
BreakerKinds == {"CBR", "DA", "DB"}
CellKeys(tps, cell, base) ==
    (BreakerKinds \X {base + j : j \in DOMAIN cell.cbs})
    \cup ({"D"} \X {i \in Range(cell.taps) : HasExit(tps[i])})

\* A bay holds a device for each of them.
LEMMA KeyedCell ==
    ASSUME NEW tps \in Seq(TapSet), NEW start \in Nat, NEW cell \in CellsOf(tps), CellApart(cell), NEW base \in Nat,
           \A j \in DOMAIN cell.cbs : cell.cbs[j].name = CbrName(start + (base + j) - 1)
    PROVE  Keyed(tps, start, Equipped(tps, cell).breakers, CellKeys(tps, cell, base))
<1> DEFINE cbs == cell.cbs
           D == DOMAIN cbs
           one == Each(Isolated, cbs)
           pairs == Each(IsolatingPair, cbs)
           exits == ExitsOf(tps, cell)
           three == Each(LAMBDA i : ExitDisconnect(tps, i), exits)
           ones == {"CBR"} \X {base + j : j \in D}
           KK == [j \in D |-> {"DA", "DB"} \X {base + j}]
           twos == UNION {KK[j] : j \in D}
           threes == {"D"} \X Range(exits)
           S == Range(one) \cup (UNION {Range(pairs[k]) : k \in D}) \cup Range(three)
<1>1. cbs \in Seq(Cbrs) /\ D \subseteq Nat
  BY DEF CellsOf
<1>2. exits \in Seq(DOMAIN tps) /\ \A k, l \in DOMAIN exits : exits[k] = exits[l] => k = l
  BY ExitsApart
<1>3. Equipped(tps, cell).breakers = (one \o FlattenSeq(pairs)) \o three
  BY DEF Equipped, Chosen, ExitsOf
<1>4. /\ DOMAIN one = D /\ one = [j \in D |-> one[j]] /\ \A j \in D : one[j] = Isolated(cbs[j])
      /\ DOMAIN pairs = D /\ pairs = [j \in D |-> pairs[j]] /\ \A j \in D : pairs[j] = IsolatingPair(cbs[j])
      /\ DOMAIN three = DOMAIN exits /\ three = [k \in DOMAIN exits |-> three[k]]
      /\ \A k \in DOMAIN exits : three[k] = ExitDisconnect(tps, exits[k])
  BY DEF Each
<1>5. CellKeys(tps, cell, base) = (ones \cup twos) \cup threes
  <2>1. Range(exits) = {i \in Range(cell.taps) : HasExit(tps[i])}
    <3> DEFINE has == {k \in DOMAIN cell.taps : HasExit(tps[cell.taps[k]])}
    <3>1. cell.taps \in Seq(DOMAIN tps) /\ has \in SUBSET DOMAIN cell.taps
      BY DEF CellsOf
    <3>2. Range(exits) = {cell.taps[k] : k \in has}
      BY <3>1, RangeAt DEF ExitsOf
    <3>3. QED
      BY <3>2 DEF Range
  <2>2. twos = {"DA", "DB"} \X {base + j : j \in D}
    <3>1. \A j \in D : KK[j] = {"DA", "DB"} \X {base + j}
      OBVIOUS
    <3> HIDE DEF KK, D
    <3>2. ASSUME NEW z, z \in twos PROVE z \in {"DA", "DB"} \X {base + j : j \in D}
      BY <3>1, <3>2
    <3>3. ASSUME NEW z, z \in {"DA", "DB"} \X {base + j : j \in D} PROVE z \in twos
      <4>1. PICK j \in D : z[2] = base + j
        BY <3>3
      <4>2. z \in KK[j]
        BY <3>1, <3>3, <4>1
      <4>3. QED
        BY <4>2
    <3>4. QED
      BY <3>2, <3>3
  <2> HIDE DEF twos, exits
  <2>3. QED
    BY <2>1, <2>2 DEF CellKeys, BreakerKinds
<1> HIDE DEF one, pairs, exits, three, cbs
<1>6. one \in Seq(S) /\ three \in Seq(S) /\ pairs \in Seq(Seq(S))
  <2>1. \A j \in D : one[j] \in S
    BY <1>4 DEF Range
  <2>2. \A k \in DOMAIN exits : three[k] \in S
    BY <1>4 DEF Range
  <2>3. ASSUME NEW j \in D PROVE pairs[j] \in Seq(S)
    <3>1. pairs[j] = <<pairs[j][1], pairs[j][2]>> /\ DOMAIN pairs[j] = {1, 2}
      BY <1>4 DEF IsolatingPair
    <3>2. Range(pairs[j]) \subseteq S
      OBVIOUS
    <3>3. pairs[j][1] \in S /\ pairs[j][2] \in S
      BY <3>1, <3>2 DEF Range
    <3> HIDE DEF S
    <3>4. <<pairs[j][1], pairs[j][2]>> \in Seq(S)
      BY <3>3
    <3>5. QED
      BY <3>1, <3>4
  <2> HIDE DEF S
  <2>4. one \in Seq(S)
    BY <1>1, <1>4, <2>1, ImageSeq
  <2>5. three \in Seq(S)
    BY <1>2, <1>4, <2>2, ImageSeq
  <2>6. pairs \in Seq(Seq(S))
    BY <1>1, <1>4, <2>3, ImageSeq
  <2>7. QED
    BY <2>4, <2>5, <2>6
<1> HIDE DEF S
<1>7. Keyed(tps, start, one, ones)
  <2> DEFINE f == [j \in D |-> <<"CBR", base + j>>]
  <2>1. f = [j \in D |-> f[j]] /\ \A j \in D : f[j] = <<"CBR", base + j>>
    OBVIOUS
  <2>2. {f[j] : j \in D} = ones
    OBVIOUS
  <2> HIDE DEF f
  <2>3. \A j \in D : IsKeyed(tps, start, one[j], f[j])
    <3> SUFFICES ASSUME NEW j \in D PROVE IsKeyed(tps, start, one[j], f[j])
      OBVIOUS
    <3>1. one[j].name = CbrName(start + (base + j) - 1) /\ one[j].type = "CBR"
      <4>1. cbs[j].name = CbrName(start + (base + j) - 1)
        BY DEF cbs
      <4>2. cbs[j].type = "CBR"
        <5>1. cbs[j] \in Cbrs
          BY <1>1
        <5>2. QED
          BY <5>1 DEF Cbrs, Cbr
      <4>3. QED
        BY <1>4, <4>1, <4>2 DEF Isolated
    <3>2. QED
      BY <2>1, <3>1 DEF IsKeyed, KeyType, KeyName
  <2>4. \A i, j \in D : f[i] = f[j] => i = j
    BY <1>1, <2>1
  <2>5. Keyed(tps, start, one, {f[j] : j \in DOMAIN one})
    BY <1>4, <2>1, <2>3, <2>4, KeyedMapped
  <2>6. QED
    BY <1>4, <2>2, <2>5
<1>8. Keyed(tps, start, FlattenSeq(pairs), twos)
  <2>1. \A j \in D : KK[j] = {"DA", "DB"} \X {base + j}
    OBVIOUS
  <2> HIDE DEF KK
  <2>2. \A j \in DOMAIN pairs : Keyed(tps, start, pairs[j], KK[j])
    <3> SUFFICES ASSUME NEW j \in D PROVE Keyed(tps, start, pairs[j], KK[j])
      BY <1>4
    <3>1. cbs[j].name = CbrName(start + (base + j) - 1)
      BY DEF cbs
    <3>2. Keyed(tps, start, IsolatingPair(cbs[j]), {"DA", "DB"} \X {base + j})
      BY <3>1, KeyedPair
    <3>3. QED
      BY <1>4, <2>1, <3>2
  <2>3. ASSUME NEW i \in DOMAIN pairs, NEW j \in DOMAIN pairs, i # j PROVE KK[i] \cap KK[j] = {}
    <3>1. base + i # base + j
      BY <1>1, <1>4, <2>3
    <3>2. QED
      BY <1>4, <2>1, <3>1
  <2>3a. \A i, j \in DOMAIN pairs : i # j => KK[i] \cap KK[j] = {}
    BY <2>3
  <2>4. \A j \in DOMAIN pairs : KK[j] \subseteq twos
    BY <1>4
  <2>5. \A key \in twos : \E j \in DOMAIN pairs : key \in KK[j]
    BY <1>4
  <2> HIDE DEF twos, ones, threes, D
  <2>6. QED
    BY <1>6, <2>2, <2>3a, <2>4, <2>5, KeyedFlattened
<1>9. Keyed(tps, start, three, threes)
  <2> DEFINE f == [k \in DOMAIN exits |-> <<"D", exits[k]>>]
  <2>1. f = [k \in DOMAIN exits |-> f[k]] /\ \A k \in DOMAIN exits : f[k] = <<"D", exits[k]>>
    OBVIOUS
  <2>2. {f[k] : k \in DOMAIN exits} = threes
    BY DEF Range
  <2> HIDE DEF f
  <2>3. \A k \in DOMAIN exits : IsKeyed(tps, start, three[k], f[k])
    BY <1>4, <2>1 DEF IsKeyed, KeyType, KeyName, ExitDisconnect, Dis
  <2>4. \A i, j \in DOMAIN exits : f[i] = f[j] => i = j
    BY <1>2, <2>1
  <2>5. Keyed(tps, start, three, {f[k] : k \in DOMAIN three})
    BY <1>4, <2>1, <2>3, <2>4, KeyedMapped
  <2>6. QED
    BY <1>4, <2>2, <2>5
<1>10. ones \cap twos = {} /\ (ones \cup twos) \cap threes = {}
  OBVIOUS
<1> DEFINE two == FlattenSeq(pairs)
<1>11. two \in Seq(S)
  BY <1>6, FlattenLists
<1>12. Keyed(tps, start, two, twos)
  BY <1>8
<1> HIDE DEF two, ones, twos, threes
<1>13. Keyed(tps, start, one \o two, ones \cup twos)
  BY <1>6, <1>7, <1>10, <1>11, <1>12, KeyedJoined
<1> DEFINE both == one \o two
<1>14. both \in Seq(S) /\ Keyed(tps, start, both, ones \cup twos)
  BY <1>6, <1>11, <1>13
<1>15. Equipped(tps, cell).breakers = both \o three
  BY <1>3 DEF two
<1> HIDE DEF both
<1>16. Keyed(tps, start, both \o three, (ones \cup twos) \cup threes)
  BY <1>6, <1>9, <1>10, <1>14, KeyedJoined
<1>17. QED
  BY <1>5, <1>15, <1>16

\* How many breakers a layout builds for some taps.
BreakerCount(layout, tps) ==
    CASE layout = "breaker_and_half" -> 3 * (Len(tps) \div 2)
      [] layout = "main_and_transfer" -> Len(tps) + 1
      [] OTHER -> Len(tps)

\* The cells share out the breakers and the taps.
CellsShare(layout, tps, cells) ==
    /\ \A c \in DOMAIN cells :
         /\ c \in Nat \ {0} /\ DOMAIN cells[c].cbs = 1 .. Width(layout) /\ Range(cells[c].taps) \subseteq DOMAIN tps
         /\ \A j \in 1 .. Width(layout) : Width(layout) * (c - 1) + j \in 1 .. BreakerCount(layout, tps)
    /\ \A m \in 1 .. BreakerCount(layout, tps) :
         \E c \in DOMAIN cells, j \in 1 .. Width(layout) : m = Width(layout) * (c - 1) + j
    /\ \A i \in DOMAIN tps : \E c \in DOMAIN cells : i \in Range(cells[c].taps)
    /\ \A c, d \in DOMAIN cells : \A i \in Range(cells[c].taps) : i \in Range(cells[d].taps) => c = d

\* What a tuple of one, two or three holds, and its places.
LEMMA ShortTuples ==
    /\ \A x : DOMAIN <<x>> = 1 .. 1 /\ Range(<<x>>) = {x}
    /\ \A x, y : Range(<<x, y>>) = {x, y}
    /\ \A x, y, z : DOMAIN <<x, y, z>> = 1 .. 3
    /\ DOMAIN <<>> = {} /\ Range(<<>>) = {}
<1>1. /\ \A x : DOMAIN <<x>> = 1 .. 1 /\ <<x>>[1] = x
      /\ \A x, y : DOMAIN <<x, y>> = {1, 2} /\ <<x, y>>[1] = x /\ <<x, y>>[2] = y
      /\ \A x, y, z : DOMAIN <<x, y, z>> = 1 .. 3
      /\ DOMAIN <<>> = {}
  OBVIOUS
<1>2. 1 .. 1 = {1}
  OBVIOUS
<1>3. QED
  BY <1>1, <1>2 DEF Range

\* In the layouts where every tap has a cell of its own there may be one more for the tie, ...
LEMMA ColumnsShare ==
    ASSUME NEW layout \in {"single_bus", "main_and_transfer", "ring_bus"}, NEW tps \in Seq(TapSet), NEW cells,
           DOMAIN cells = 1 .. BreakerCount(layout, tps),
           \A c \in 1 .. Len(tps) : \E cb : Range(cells[c].taps) = {c} /\ cells[c].cbs = <<cb>>,
           \A c \in DOMAIN cells : c > Len(tps) => \E cb : cells[c].taps = <<>> /\ cells[c].cbs = <<cb>>
    PROVE  CellsShare(layout, tps, cells)
<1> DEFINE n == Len(tps)
           N == BreakerCount(layout, tps)
<1>1. n \in Nat /\ DOMAIN tps = 1 .. n /\ Width(layout) = 1 /\ N \in Nat /\ n <= N
  BY DEF Width, BreakerCount
<1> HIDE DEF n, N
<1>2. DOMAIN cells = 1 .. N
  BY DEF N
<1>3. ASSUME NEW c \in 1 .. N
      PROVE  /\ DOMAIN cells[c].cbs = 1 .. 1
             /\ Range(cells[c].taps) = IF c <= n THEN {c} ELSE {}
  <2>1. CASE c <= n
    <3>1. c \in 1 .. Len(tps)
      BY <1>1, <2>1 DEF n
    <3>2. QED
      BY <2>1, <3>1, ShortTuples
  <2>2. CASE ~(c <= n)
    <3>0. c \in Nat
      BY <1>1
    <3>1. c > n
      <4>1. n \in Nat
        BY <1>1
      <4>2. QED
        BY <2>2, <3>0, <4>1
    <3>1a. c \in DOMAIN cells
      BY <1>2
    <3>2. PICK cb : cells[c].taps = <<>> /\ cells[c].cbs = <<cb>>
      BY <3>1, <3>1a DEF n
    <3>3. QED
      BY <2>2, <3>2, ShortTuples
  <2>3. QED
    BY <2>1, <2>2
<1>4. \A c \in 1 .. N : \A j \in 1 .. 1 : 1 * (c - 1) + j = c
  BY <1>1
<1>5. \A c \in 1 .. N : /\ c \in Nat \ {0} /\ DOMAIN cells[c].cbs = 1 .. 1 /\ Range(cells[c].taps) \subseteq 1 .. n
                        /\ \A j \in 1 .. 1 : 1 * (c - 1) + j \in 1 .. N
  <2> SUFFICES ASSUME NEW c \in 1 .. N
               PROVE  /\ c \in Nat \ {0} /\ DOMAIN cells[c].cbs = 1 .. 1 /\ Range(cells[c].taps) \subseteq 1 .. n
                      /\ \A j \in 1 .. 1 : 1 * (c - 1) + j \in 1 .. N
    OBVIOUS
  <2>1. c \in Nat \ {0} /\ \A j \in 1 .. 1 : 1 * (c - 1) + j \in 1 .. N
    BY <1>1
  <2>2. c <= n => c \in 1 .. n
    BY <1>1
  <2>3. Range(cells[c].taps) \subseteq 1 .. n
    BY <1>3, <2>2
  <2>4. QED
    BY <1>3, <2>1, <2>3
<1>6. \A m \in 1 .. N : \E c \in 1 .. N, j \in 1 .. 1 : m = 1 * (c - 1) + j
  BY <1>4
<1>7. \A i \in 1 .. n : i \in 1 .. N /\ i \in Range(cells[i].taps)
  BY <1>1, <1>3
<1>8. ASSUME NEW c \in 1 .. N, NEW d \in 1 .. N, NEW i \in Range(cells[c].taps), i \in Range(cells[d].taps)
      PROVE  c = d
  <2>1. i = c
    BY <1>3
  <2>2. i = d
    BY <1>3, <1>8
  <2>3. QED
    BY <2>1, <2>2
<1>9. /\ \A c \in DOMAIN cells :
           /\ c \in Nat \ {0} /\ DOMAIN cells[c].cbs = 1 .. 1 /\ Range(cells[c].taps) \subseteq DOMAIN tps
           /\ \A j \in 1 .. 1 : 1 * (c - 1) + j \in 1 .. N
      /\ \A m \in 1 .. N : \E c \in DOMAIN cells, j \in 1 .. 1 : m = 1 * (c - 1) + j
      /\ \A i \in DOMAIN tps : \E c \in DOMAIN cells : i \in Range(cells[c].taps)
  BY <1>1, <1>2, <1>5, <1>6, <1>7
<1>10. \A c, d \in DOMAIN cells : \A i \in Range(cells[c].taps) : i \in Range(cells[d].taps) => c = d
  BY <1>2, <1>8
<1>11. QED
  BY <1>1, <1>9, <1>10 DEF CellsShare, N

\* ... and in the others a cell has two taps and three breakers.
LEMMA DiametersShare ==
    ASSUME NEW tps \in Seq(TapSet), Len(tps) % 2 = 0, NEW cells, DOMAIN cells = 1 .. Len(tps) \div 2,
           \A c \in DOMAIN cells : /\ \E u, v, w : cells[c].cbs = <<u, v, w>>
                                   /\ Range(cells[c].taps) = {2 * c - 1, 2 * c}
    PROVE  CellsShare("breaker_and_half", tps, cells)
<1> DEFINE n == Len(tps)
           h == n \div 2
           N == BreakerCount("breaker_and_half", tps)
<1>1. n \in Nat /\ DOMAIN tps = 1 .. n /\ Width("breaker_and_half") = 3 /\ N = 3 * h /\ h \in Nat /\ n = 2 * h
  BY DEF Width, BreakerCount
<1> HIDE DEF n, N
<1>2. DOMAIN cells = 1 .. h
  BY DEF n
<1> HIDE DEF h
<1>3. \A c \in 1 .. h : DOMAIN cells[c].cbs = 1 .. 3 /\ Range(cells[c].taps) = {2 * c - 1, 2 * c}
  <2>1. \A c \in 1 .. h : \E u, v, w : cells[c].cbs = <<u, v, w>>
    BY <1>2
  <2>2. \A c \in 1 .. h : Range(cells[c].taps) = {2 * c - 1, 2 * c}
    BY <1>2
  <2>3. \A x, y, z : DOMAIN <<x, y, z>> = 1 .. 3
    BY ShortTuples
  <2>4. \A c \in 1 .. h : DOMAIN cells[c].cbs = 1 .. 3
    BY <2>1, <2>3
  <2>5. QED
    BY <2>2, <2>4
<1>4. ASSUME NEW c \in 1 .. h
      PROVE  /\ c \in Nat \ {0} /\ {2 * c - 1, 2 * c} \subseteq 1 .. n
             /\ \A j \in 1 .. 3 : 3 * (c - 1) + j \in 1 .. N
  BY <1>1
<1>5. ASSUME NEW m \in 1 .. N PROVE \E c \in 1 .. h, j \in 1 .. 3 : m = 3 * (c - 1) + j
  <2> DEFINE q == (m - 1) \div 3
  <2>1. q \in Nat /\ m - 1 >= 3 * q /\ m - 1 < 3 * q + 3
    BY <1>1
  <2> HIDE DEF q
  <2>2. q + 1 \in 1 .. h /\ m - 3 * q \in 1 .. 3 /\ m = 3 * ((q + 1) - 1) + (m - 3 * q)
    BY <1>1, <2>1
  <2>3. QED
    BY <2>2
<1>6. ASSUME NEW i \in 1 .. n PROVE \E c \in 1 .. h : i \in {2 * c - 1, 2 * c}
  <2> DEFINE q == (i - 1) \div 2
  <2>1. q \in Nat /\ i - 1 >= 2 * q /\ i - 1 < 2 * q + 2
    BY <1>1
  <2> HIDE DEF q
  <2>2. q + 1 \in 1 .. h /\ (i = 2 * (q + 1) - 1 \/ i = 2 * (q + 1))
    BY <1>1, <2>1
  <2>3. QED
    BY <2>2
<1>7. ASSUME NEW c \in 1 .. h, NEW d \in 1 .. h, NEW i \in {2 * c - 1, 2 * c}, i \in {2 * d - 1, 2 * d}
      PROVE  c = d
  BY <1>1, <1>7
<1>8. /\ \A c \in DOMAIN cells :
           /\ c \in Nat \ {0} /\ DOMAIN cells[c].cbs = 1 .. 3 /\ Range(cells[c].taps) \subseteq DOMAIN tps
           /\ \A j \in 1 .. 3 : 3 * (c - 1) + j \in 1 .. N
      /\ \A i \in DOMAIN tps : \E c \in DOMAIN cells : i \in Range(cells[c].taps)
  <2>1. \A c \in 1 .. h : Range(cells[c].taps) = {2 * c - 1, 2 * c}
    BY <1>3
  <2>2. \A i \in 1 .. n : \E c \in 1 .. h : i \in Range(cells[c].taps)
    BY <1>6, <2>1
  <2>3. \A c \in 1 .. h : /\ c \in Nat \ {0} /\ Range(cells[c].taps) \subseteq 1 .. n
                          /\ \A j \in 1 .. 3 : 3 * (c - 1) + j \in 1 .. N
    BY <1>4, <2>1
  <2>4. QED
    BY <1>1, <1>2, <1>3, <2>2, <2>3
<1>9. ASSUME NEW c \in DOMAIN cells, NEW d \in DOMAIN cells, NEW i \in Range(cells[c].taps),
             i \in Range(cells[d].taps)
      PROVE  c = d
  <2>1. c \in 1 .. h /\ d \in 1 .. h /\ i \in {2 * c - 1, 2 * c} /\ i \in {2 * d - 1, 2 * d}
    BY <1>2, <1>3, <1>9
  <2>2. QED
    BY <1>7, <2>1
<1>10. \A m \in 1 .. N : \E c \in DOMAIN cells, j \in 1 .. 3 : m = 3 * (c - 1) + j
  BY <1>2, <1>5
<1> DEFINE w == Width("breaker_and_half")
<1>11. w = 3
  BY <1>1
<1> HIDE DEF w
<1>12. /\ \A c \in DOMAIN cells :
            /\ c \in Nat \ {0} /\ DOMAIN cells[c].cbs = 1 .. w /\ Range(cells[c].taps) \subseteq DOMAIN tps
            /\ \A j \in 1 .. w : w * (c - 1) + j \in 1 .. N
       /\ \A m \in 1 .. N : \E c \in DOMAIN cells, j \in 1 .. w : m = w * (c - 1) + j
       /\ \A i \in DOMAIN tps : \E c \in DOMAIN cells : i \in Range(cells[c].taps)
  BY <1>8, <1>10, <1>11, Zenon
<1>13. QED
  BY <1>9, <1>12 DEF CellsShare, N, w

\* The cells of every layout do.
LEMMA LayoutShares ==
    ASSUME NEW layout \in Layouts, NEW tps \in Seq(TapSet), NEW start \in Nat, ~Refuses(layout, tps)
    PROVE  CellsShare(layout, tps, Cells(layout, tps, start))
<1> DEFINE n == Len(tps)
           cells == Cells(layout, tps, start)
           W(c) == Cell(<<"Bay", c, <<>>>>, <<Cbr(start + c - 1, Bus(1), TapNode(c))>>, <<c>>)
<1>1. n \in Nat /\ DOMAIN tps = 1 .. n
  OBVIOUS
<1>2. CASE layout = "single_bus"
  <2>1. cells = SingleBus(tps, start) /\ BreakerCount(layout, tps) = n
    BY <1>2 DEF Cells, BreakerCount
  <2>2. DOMAIN cells = 1 .. n /\ \A c \in 1 .. n : cells[c] = W(c)
    BY <1>1, <2>1 DEF SingleBus
  <2>3. \A c \in 1 .. n : cells[c].taps = <<c>> /\ cells[c].cbs = <<Cbr(start + c - 1, Bus(1), TapNode(c))>>
    BY <2>2 DEF Cell
  <2> HIDE DEF cells
  <2>4. \A c \in 1 .. n : \E cb : Range(cells[c].taps) = {c} /\ cells[c].cbs = <<cb>>
    BY <2>3, ShortTuples
  <2>5. \A c \in DOMAIN cells : ~(c > n)
    BY <1>1, <2>2
  <2>6. QED
    BY <1>2, <2>1, <2>2, <2>4, <2>5, ColumnsShare DEF cells
<1>3. CASE layout = "ring_bus"
  <2>1. cells = RingBus(tps, start) /\ BreakerCount(layout, tps) = n
    BY <1>3 DEF Cells, BreakerCount
  <2>2. /\ DOMAIN cells = 1 .. n
        /\ \A c \in 1 .. n : cells[c] = Cell(<<"Bay", c, <<>>>>,
                                             <<Cbr(start + c - 1, TapNode(c), TapNode((c % n) + 1))>>, <<c>>)
    BY <1>1, <2>1 DEF RingBus
  <2>3. \A c \in 1 .. n : /\ cells[c].taps = <<c>>
                          /\ cells[c].cbs = <<Cbr(start + c - 1, TapNode(c), TapNode((c % n) + 1))>>
    BY <2>2 DEF Cell
  <2> HIDE DEF cells
  <2>4. \A c \in 1 .. n : \E cb : Range(cells[c].taps) = {c} /\ cells[c].cbs = <<cb>>
    BY <2>3, ShortTuples
  <2>5. \A c \in DOMAIN cells : ~(c > n)
    BY <1>1, <2>2
  <2>6. QED
    BY <1>3, <2>1, <2>2, <2>4, <2>5, ColumnsShare DEF cells
<1>4. CASE layout = "main_and_transfer"
  <2> DEFINE s == SingleBus(tps, start)
             w == Cbr(start + n, Bus(1), Bus(2))
             tie == Cell(<<"Tie", 0, <<>>>>, <<w>>, <<>>)
  <2>1. cells = Append(s, tie) /\ BreakerCount(layout, tps) = n + 1
    BY <1>4 DEF Cells, MainAndTransfer, BreakerCount
  <2>2. s = [c \in 1 .. n |-> s[c]] /\ \A c \in 1 .. n : s[c] = W(c)
    BY <1>1 DEF SingleBus
  <2>3. tie.taps = <<>> /\ tie.cbs = <<w>>
    BY DEF Cell
  <2> HIDE DEF s, tie
  <2>4. s \in Seq({s[c] : c \in 1 .. n}) /\ Len(s) = n
    BY <1>1, <2>2, SeqOfValues
  <2>5. DOMAIN cells = 1 .. n + 1 /\ (\A c \in 1 .. n : cells[c] = s[c]) /\ cells[n + 1] = tie
    BY <1>1, <2>1, <2>4
  <2>6. \A c \in 1 .. n : cells[c].taps = <<c>> /\ cells[c].cbs = <<Cbr(start + c - 1, Bus(1), TapNode(c))>>
    BY <2>2, <2>5 DEF Cell
  <2> HIDE DEF cells
  <2>7. \A c \in 1 .. n : \E cb : Range(cells[c].taps) = {c} /\ cells[c].cbs = <<cb>>
    BY <2>6, ShortTuples
  <2>8. \A c \in DOMAIN cells : c > n => \E cb : cells[c].taps = <<>> /\ cells[c].cbs = <<cb>>
    <3>1. \A c \in 1 .. n + 1 : c > n => c = n + 1
      BY <1>1
    <3>2. QED
      BY <2>3, <2>5, <3>1
  <2>9. QED
    BY <1>4, <2>1, <2>5, <2>7, <2>8, ColumnsShare DEF cells
<1>5. CASE layout = "breaker_and_half"
  <2> DEFINE h == n \div 2
  <2>1. cells = BreakerAndHalf(tps, start) /\ n % 2 = 0
    BY <1>5 DEF Cells, Refuses
  <2>2. DOMAIN cells = 1 .. h /\ h \in Nat
    BY <1>1, <2>1 DEF BreakerAndHalf
  <2>3. \A c \in 1 .. h : /\ cells[c].taps = <<2 * c - 1, 2 * c - 1 + 1>>
                          /\ \E u, v, w : cells[c].cbs = <<u, v, w>>
    BY <2>1 DEF BreakerAndHalf, Cell
  <2>4. \A c \in 1 .. h : 2 * c - 1 + 1 = 2 * c
    BY <2>2
  <2> HIDE DEF cells
  <2>5. \A c \in 1 .. h : Range(cells[c].taps) = {2 * c - 1, 2 * c}
    BY <2>3, <2>4, ShortTuples, ZenonT(60)
  <2>6. QED
    BY <1>5, <2>1, <2>2, <2>3, <2>5, DiametersShare DEF cells
<1>6. QED
  BY <1>2, <1>3, <1>4, <1>5 DEF Layouts

LevelKeys(layout, tps) ==
    (BreakerKinds \X (1 .. BreakerCount(layout, tps))) \cup ({"D"} \X {i \in DOMAIN tps : HasExit(tps[i])})

\* What the keys look like.
LEMMA KeyShape ==
    ASSUME NEW A, NEW B, NEW key
    PROVE  key \in (BreakerKinds \X A) \cup ({"D"} \X B) <=>
              \/ \E u \in BreakerKinds, m \in A : key = <<u, m>>
              \/ \E i \in B : key = <<"D", i>>
<1>1. key \in BreakerKinds \X A <=> \E u \in BreakerKinds, m \in A : key = <<u, m>>
  OBVIOUS
<1>2. key \in {"D"} \X B <=> \E i \in B : key = <<"D", i>>
  OBVIOUS
<1>3. QED
  BY <1>1, <1>2

\* The keys of the cells are different ones and make up those of the level.
LEMMA KeysOfCells ==
    ASSUME NEW layout, NEW tps, NEW cells, CellsShare(layout, tps, cells)
    PROVE  /\ \A c \in DOMAIN cells : CellKeys(tps, cells[c], Width(layout) * (c - 1)) \subseteq LevelKeys(layout, tps)
           /\ \A c, d \in DOMAIN cells : c # d =>
                CellKeys(tps, cells[c], Width(layout) * (c - 1)) \cap CellKeys(tps, cells[d], Width(layout) * (d - 1)) = {}
           /\ \A key \in LevelKeys(layout, tps) :
                \E c \in DOMAIN cells : key \in CellKeys(tps, cells[c], Width(layout) * (c - 1))
<1> DEFINE w == Width(layout)
           N == BreakerCount(layout, tps)
           base(c) == w * (c - 1)
           KK(c) == CellKeys(tps, cells[c], base(c))
<1>1. /\ \A c \in DOMAIN cells :
           /\ c \in Nat \ {0} /\ DOMAIN cells[c].cbs = 1 .. w /\ Range(cells[c].taps) \subseteq DOMAIN tps
           /\ \A j \in 1 .. w : base(c) + j \in 1 .. N
      /\ \A m \in 1 .. N : \E c \in DOMAIN cells, j \in 1 .. w : m = base(c) + j
      /\ \A i \in DOMAIN tps : \E c \in DOMAIN cells : i \in Range(cells[c].taps)
      /\ \A c, d \in DOMAIN cells : \A i \in Range(cells[c].taps) : i \in Range(cells[d].taps) => c = d
  BY DEF CellsShare
<1>2. w \in {1, 3}
  BY DEF Width
<1>3. ASSUME NEW c \in DOMAIN cells, NEW d \in DOMAIN cells, NEW j \in 1 .. w, NEW k \in 1 .. w,
             base(c) + j = base(d) + k
      PROVE  c = d
  <2>1. c \in Nat \ {0} /\ d \in Nat \ {0}
    BY <1>1
  <2>2. CASE w = 1
    BY <1>3, <2>1, <2>2
  <2>3. CASE w = 3
    BY <1>3, <2>1, <2>3
  <2>4. QED
    BY <1>2, <2>2, <2>3
<1> HIDE DEF w, N, base
<1>4. \A c \in DOMAIN cells : \A key :
         key \in KK(c) <=> \/ \E u \in BreakerKinds, j \in 1 .. w : key = <<u, base(c) + j>>
                           \/ \E i \in Range(cells[c].taps) : HasExit(tps[i]) /\ key = <<"D", i>>
  <2> SUFFICES ASSUME NEW c \in DOMAIN cells, NEW key
               PROVE  key \in KK(c) <=> \/ \E u \in BreakerKinds, j \in 1 .. w : key = <<u, base(c) + j>>
                                        \/ \E i \in Range(cells[c].taps) : HasExit(tps[i]) /\ key = <<"D", i>>
    OBVIOUS
  <2> DEFINE A == {base(c) + j : j \in DOMAIN cells[c].cbs}
             B == {i \in Range(cells[c].taps) : HasExit(tps[i])}
  <2>1. key \in (BreakerKinds \X A) \cup ({"D"} \X B) <=>
              \/ \E u \in BreakerKinds, m \in A : key = <<u, m>>
              \/ \E i \in B : key = <<"D", i>>
    BY KeyShape
  <2>2. (\E u \in BreakerKinds, m \in A : key = <<u, m>>)
        <=> \E u \in BreakerKinds, j \in 1 .. w : key = <<u, base(c) + j>>
    <3>1. \A m : m \in A <=> \E j \in 1 .. w : m = base(c) + j
      BY <1>1
    <3> HIDE DEF A
    <3>2. QED
      BY <3>1
  <2>3. (\E i \in B : key = <<"D", i>>) <=> \E i \in Range(cells[c].taps) : HasExit(tps[i]) /\ key = <<"D", i>>
    OBVIOUS
  <2>4. KK(c) = (BreakerKinds \X A) \cup ({"D"} \X B)
    BY DEF CellKeys
  <2>5. QED
    BY <2>1, <2>2, <2>3, <2>4
<1> HIDE DEF KK
<1>5. \A key : key \in LevelKeys(layout, tps) <=>
                 \/ \E u \in BreakerKinds, m \in 1 .. N : key = <<u, m>>
                 \/ \E i \in DOMAIN tps : HasExit(tps[i]) /\ key = <<"D", i>>
  <2> SUFFICES ASSUME NEW key
               PROVE  key \in LevelKeys(layout, tps) <=>
                         \/ \E u \in BreakerKinds, m \in 1 .. N : key = <<u, m>>
                         \/ \E i \in DOMAIN tps : HasExit(tps[i]) /\ key = <<"D", i>>
    OBVIOUS
  <2> DEFINE B == {i \in DOMAIN tps : HasExit(tps[i])}
  <2>1. key \in (BreakerKinds \X (1 .. N)) \cup ({"D"} \X B) <=>
              \/ \E u \in BreakerKinds, m \in 1 .. N : key = <<u, m>>
              \/ \E i \in B : key = <<"D", i>>
    BY KeyShape
  <2>2. (\E i \in B : key = <<"D", i>>) <=> \E i \in DOMAIN tps : HasExit(tps[i]) /\ key = <<"D", i>>
    OBVIOUS
  <2>3. LevelKeys(layout, tps) = (BreakerKinds \X (1 .. N)) \cup ({"D"} \X B)
    BY DEF LevelKeys, N
  <2>4. QED
    BY <2>1, <2>2, <2>3
<1>6. ASSUME NEW c \in DOMAIN cells, NEW key \in KK(c) PROVE key \in LevelKeys(layout, tps)
  <2>1. CASE \E u \in BreakerKinds, j \in 1 .. w : key = <<u, base(c) + j>>
    <3>1. PICK u \in BreakerKinds, j \in 1 .. w : key = <<u, base(c) + j>>
      BY <2>1
    <3>2. base(c) + j \in 1 .. N
      BY <1>1
    <3>3. QED
      BY <1>5, <3>1, <3>2
  <2>2. CASE \E i \in Range(cells[c].taps) : HasExit(tps[i]) /\ key = <<"D", i>>
    <3>1. PICK i \in Range(cells[c].taps) : HasExit(tps[i]) /\ key = <<"D", i>>
      BY <2>2
    <3>2. i \in DOMAIN tps
      BY <1>1
    <3>3. QED
      BY <1>5, <3>1, <3>2
  <2>3. QED
    BY <1>4, <2>1, <2>2
<1>7. ASSUME NEW c \in DOMAIN cells, NEW d \in DOMAIN cells, c # d, NEW key \in KK(c), key \in KK(d) PROVE FALSE
  <2>1. CASE \E u \in BreakerKinds, j \in 1 .. w : key = <<u, base(c) + j>>
    <3>1. PICK u \in BreakerKinds, j \in 1 .. w : key = <<u, base(c) + j>>
      BY <2>1
    <3>2. key[1] # "D"
      BY <3>1 DEF BreakerKinds
    <3>3. PICK v \in BreakerKinds, k \in 1 .. w : key = <<v, base(d) + k>>
      BY <1>4, <1>7, <3>2
    <3>4. base(c) + j = base(d) + k
      BY <3>1, <3>3
    <3>5. QED
      BY <1>3, <1>7, <3>4
  <2>2. CASE \E i \in Range(cells[c].taps) : HasExit(tps[i]) /\ key = <<"D", i>>
    <3>1. PICK i \in Range(cells[c].taps) : HasExit(tps[i]) /\ key = <<"D", i>>
      BY <2>2
    <3>2. key[1] \notin BreakerKinds
      BY <3>1 DEF BreakerKinds
    <3>3. PICK k \in Range(cells[d].taps) : key = <<"D", k>>
      BY <1>4, <1>7, <3>2
    <3>4. i = k
      BY <3>1, <3>3
    <3>5. QED
      BY <1>1, <1>7, <3>3, <3>4
  <2>3. QED
    BY <1>4, <1>7, <2>1, <2>2
<1>8. ASSUME NEW key \in LevelKeys(layout, tps) PROVE \E c \in DOMAIN cells : key \in KK(c)
  <2>1. CASE \E u \in BreakerKinds, m \in 1 .. N : key = <<u, m>>
    BY <1>1, <1>4, <2>1
  <2>2. CASE \E i \in DOMAIN tps : HasExit(tps[i]) /\ key = <<"D", i>>
    BY <1>1, <1>4, <2>2
  <2>3. QED
    BY <1>5, <2>1, <2>2
<1>9. /\ \A c \in DOMAIN cells : KK(c) \subseteq LevelKeys(layout, tps)
      /\ \A c, d \in DOMAIN cells : c # d => KK(c) \cap KK(d) = {}
      /\ \A key \in LevelKeys(layout, tps) : \E c \in DOMAIN cells : key \in KK(c)
  BY <1>6, <1>7, <1>8
<1>10. QED
  BY <1>9 DEF KK, base, w

\* A built level holds a device for every key of its layout.
LEMMA KeyedLevel ==
    ASSUME NEW name, NEW kv, NEW layout \in Layouts, NEW tps \in Seq(TapSet), NEW start \in Nat,
           ~Refuses(layout, tps)
    PROVE  Keyed(tps, start, Build(name, kv, layout, tps, start).breakers, LevelKeys(layout, tps))
<1> DEFINE cells == Cells(layout, tps, start)
           all == LevelKeys(layout, tps)
           w == Width(layout)
<1>1. IsListed(layout, tps, start, Build(name, kv, layout, tps, start).breakers)
  BY ListsOfBuild
<1>2. PICK lists, n : /\ BayLists(layout, tps, start, lists, n)
                      /\ Build(name, kv, layout, tps, start).breakers = FlattenSeq(lists)
  BY <1>1 DEF IsListed
<1>3. /\ n \in Nat /\ lists \in Seq(Seq(Devices))
      /\ \A b \in DOMAIN lists : \A j \in DOMAIN lists[b] : \E c \in DOMAIN cells : b = n + c
      /\ \A c \in DOMAIN cells : n + c \in DOMAIN lists /\ lists[n + c] = Equipped(tps, cells[c]).breakers
  BY <1>2 DEF BayLists
<1>4. /\ \A c \in DOMAIN cells : CellKeys(tps, cells[c], w * (c - 1)) \subseteq all
      /\ \A c, d \in DOMAIN cells : c # d =>
           CellKeys(tps, cells[c], w * (c - 1)) \cap CellKeys(tps, cells[d], w * (d - 1)) = {}
      /\ \A key \in all : \E c \in DOMAIN cells : key \in CellKeys(tps, cells[c], w * (c - 1))
  BY LayoutShares, KeysOfCells
<1>5. ASSUME NEW c \in DOMAIN cells
      PROVE  Keyed(tps, start, Equipped(tps, cells[c]).breakers, CellKeys(tps, cells[c], w * (c - 1)))
  <2> DEFINE base == w * (c - 1)
  <2>1. cells[c] \in CellsOf(tps) /\ CellApart(cells[c]) /\ c \in Nat \ {0}
    <3>1. cells \in Seq(CellsOf(tps))
      BY CellsTyped
    <3>2. CellApart(cells[c])
      BY CellsApart
    <3>3. QED
      BY <3>1, <3>2
  <2>2. base \in Nat
    <3>1. w = 1 \/ w = 3
      BY DEF Width
    <3> HIDE DEF w
    <3>2. QED
      BY <2>1, <3>1
  <2>3. \A j \in DOMAIN cells[c].cbs : cells[c].cbs[j].name = CbrName(start + (base + j) - 1)
    <3> SUFFICES ASSUME NEW j \in DOMAIN cells[c].cbs PROVE cells[c].cbs[j].name = CbrName(start + (base + j) - 1)
      OBVIOUS
    <3>1. PICK a, b : cells[c].cbs[j] = Cbr(start + base + (j - 1), a, b)
      BY CellNumbers
    <3>2. j \in Nat
      <4>1. j \in 1 .. w /\ (w = 1 \/ w = 3)
        BY CellNumbers DEF Width
      <4> HIDE DEF w
      <4>2. QED
        BY <4>1
    <3> HIDE DEF base
    <3>3. start + base + (j - 1) = start + (base + j) - 1
      BY <2>2, <3>2
    <3>4. QED
      BY <3>1, <3>3 DEF Cbr, CbrName
  <2> HIDE DEF cells, base
  <2>4. Keyed(tps, start, Equipped(tps, cells[c]).breakers, CellKeys(tps, cells[c], base))
    BY <2>1, <2>2, <2>3, KeyedCell
  <2>5. QED
    BY <2>4 DEF base
<1>6. \A c \in DOMAIN cells : c \in Nat
  <2>1. cells \in Seq(CellsOf(tps))
    BY CellsTyped
  <2> HIDE DEF cells
  <2>2. QED
    BY <2>1
<1> HIDE DEF cells, all, w
<1> DEFINE KK == [b \in DOMAIN lists |-> IF b - n \in DOMAIN cells THEN CellKeys(tps, cells[b - n], w * (b - n - 1))
                                         ELSE {}]
<1>7. ASSUME NEW b \in DOMAIN lists
      PROVE  \/ \E c \in DOMAIN cells : /\ b = n + c /\ KK[b] = CellKeys(tps, cells[c], w * (c - 1))
                                        /\ lists[b] = Equipped(tps, cells[c]).breakers
             \/ KK[b] = {} /\ lists[b] = <<>>
  <2>0. b \in Nat
    BY <1>3
  <2>1. KK[b] = IF b - n \in DOMAIN cells THEN CellKeys(tps, cells[b - n], w * (b - n - 1)) ELSE {}
    OBVIOUS
  <2> HIDE DEF KK
  <2>2. CASE b - n \in DOMAIN cells
    <3> DEFINE c == b - n
    <3>1. c \in DOMAIN cells /\ KK[b] = CellKeys(tps, cells[c], w * (c - 1)) /\ b = n + c
      BY <1>3, <2>0, <2>1, <2>2
    <3> HIDE DEF c
    <3>2. QED
      BY <1>3, <3>1
  <2>3. CASE b - n \notin DOMAIN cells
    <3>1. \A c \in DOMAIN cells : b # n + c
      BY <1>3, <1>6, <2>0, <2>3
    <3>2. DOMAIN lists[b] = {}
      BY <1>3, <3>1
    <3>3. lists[b] \in Seq(Devices)
      BY <1>3
    <3>4. lists[b] = <<>>
      BY <3>2, <3>3
    <3>5. QED
      BY <2>1, <2>3, <3>4
  <2>4. QED
    BY <2>2, <2>3
<1>8. ASSUME NEW b \in DOMAIN lists PROVE Keyed(tps, start, lists[b], KK[b]) /\ KK[b] \subseteq all
  <2>1. Keyed(tps, start, <<>>, {})
    <3>1. KeyedBy(tps, start, <<>>, {}, <<>>)
      BY DEF KeyedBy
    <3>2. QED
      BY <3>1 DEF Keyed
  <2> HIDE DEF KK
  <2>2. CASE KK[b] = {} /\ lists[b] = <<>>
    BY <2>1, <2>2
  <2>3. ASSUME NEW c \in DOMAIN cells, KK[b] = CellKeys(tps, cells[c], w * (c - 1)),
               lists[b] = Equipped(tps, cells[c]).breakers
        PROVE  Keyed(tps, start, lists[b], KK[b]) /\ KK[b] \subseteq all
    BY <1>4, <1>5, <2>3
  <2>4. QED
    BY <1>7, <2>2, <2>3
<1>9. ASSUME NEW b \in DOMAIN lists, NEW d \in DOMAIN lists, b # d PROVE KK[b] \cap KK[d] = {}
  <2> HIDE DEF KK
  <2>1. CASE KK[b] = {} \/ KK[d] = {}
    BY <2>1
  <2>2. CASE ~(KK[b] = {} \/ KK[d] = {})
    <3>1. PICK c \in DOMAIN cells : b = n + c /\ KK[b] = CellKeys(tps, cells[c], w * (c - 1))
      BY <1>7, <2>2
    <3>2. PICK e \in DOMAIN cells : d = n + e /\ KK[d] = CellKeys(tps, cells[e], w * (e - 1))
      BY <1>7, <2>2
    <3>3. c # e
      BY <1>9, <3>1, <3>2
    <3>4. QED
      BY <1>4, <3>1, <3>2, <3>3
  <2>3. QED
    BY <2>1, <2>2
<1>10. ASSUME NEW key \in all PROVE \E b \in DOMAIN lists : key \in KK[b]
  <2>1. PICK c \in DOMAIN cells : key \in CellKeys(tps, cells[c], w * (c - 1))
    BY <1>4
  <2> DEFINE b == n + c
  <2>2. b \in DOMAIN lists /\ b - n = c
    BY <1>3, <1>6
  <2>3. KK[b] = IF b - n \in DOMAIN cells THEN CellKeys(tps, cells[b - n], w * (b - n - 1)) ELSE {}
    BY <2>2
  <2> HIDE DEF KK, b
  <2>4. KK[b] = CellKeys(tps, cells[c], w * (c - 1))
    BY <2>2, <2>3
  <2>5. QED
    BY <2>1, <2>2, <2>4
<1> HIDE DEF KK
<1>11. \A b, d \in DOMAIN lists : b # d => KK[b] \cap KK[d] = {}
  BY <1>9
<1>12. Keyed(tps, start, FlattenSeq(lists), all)
  BY <1>3, <1>8, <1>10, <1>11, KeyedFlattened
<1>13. QED
  BY <1>2, <1>12 DEF all

\* L numbers that rise and are all those of an interval.
Rising(f, L, N, start) ==
    /\ \A m \in 1 .. L : f[m] \in Nat /\ start <= f[m] /\ f[m] < start + N
    /\ \A l, m \in 1 .. L : l < m => f[l] < f[m]
    /\ \A x \in 1 .. N : \E m \in 1 .. L : f[m] = start + x - 1

\* Such numbers are numbered on.
LEMMA Enumerated ==
    ASSUME NEW L \in Nat, NEW N \in Nat, NEW start \in Nat, NEW f, Rising(f, L, N, start)
    PROVE  L = N /\ \A m \in 1 .. N : f[m] = start + m - 1
<1> USE DEF Rising
<1>1. \A m \in 1 .. L : m <= N => f[m] = start + m - 1
  <2> DEFINE T == {m \in 1 .. L : m <= N /\ f[m] # start + m - 1}
  <2> SUFFICES ASSUME T # {} PROVE FALSE
    OBVIOUS
  <2>0. T \in SUBSET Nat
    OBVIOUS
  <2>1. PICK m \in T : \A l \in T : m <= l
    <3> HIDE DEF T
    <3>1. QED
      BY <2>0, LeastNat
  <2>2. m \in 1 .. L /\ m <= N /\ f[m] # start + m - 1 /\ \A l \in 1 .. L : l < m => f[l] = start + l - 1
    BY <2>1
  <2>2a. m \in 1 .. N
    BY <2>2
  <2>3. PICK l \in 1 .. L : f[l] = start + m - 1
    BY <2>2a
  <2>4. l > m
    BY <2>2, <2>3
  <2>5. f[m] < start + m - 1 /\ start <= f[m] /\ f[m] \in Nat
    BY <2>2, <2>3, <2>4
  <2> DEFINE k == f[m] - start + 1
  <2>6. k \in 1 .. L /\ k < m /\ start + k - 1 = f[m]
    BY <2>2, <2>5
  <2> HIDE DEF k
  <2>7. f[k] = f[m]
    BY <2>2, <2>6
  <2>8. f[k] < f[m]
    BY <2>2, <2>6
  <2>9. f[k] \in Nat /\ f[m] \in Nat
    BY <2>2, <2>6
  <2>10. QED
    BY <2>7, <2>8, <2>9
<1>2. L <= N
  <2> SUFFICES ASSUME L > N PROVE FALSE
    OBVIOUS
  <2>1. L \in 1 .. L /\ L > N
    OBVIOUS
  <2>2. f[L] \in Nat /\ start <= f[L] /\ f[L] < start + N
    BY <2>1
  <2> DEFINE k == f[L] - start + 1
  <2>3. k \in 1 .. L /\ k <= N /\ k < L /\ start + k - 1 = f[L]
    BY <2>1, <2>2
  <2> HIDE DEF k
  <2>4. f[k] = f[L]
    BY <1>1, <2>3
  <2>5. f[k] < f[L]
    BY <2>1, <2>3
  <2>6. QED
    BY <2>2, <2>4, <2>5
<1>3. N <= L
  <2> SUFFICES ASSUME N > L PROVE FALSE
    OBVIOUS
  <2>1. N \in 1 .. N
    OBVIOUS
  <2>2. PICK m \in 1 .. L : f[m] = start + N - 1
    BY <2>1
  <2>3. m <= N /\ m # N /\ m \in Nat
    OBVIOUS
  <2>4. f[m] = start + m - 1
    BY <1>1, <2>3
  <2>5. QED
    BY <2>2, <2>3, <2>4
<1>4. QED
  BY <1>1, <1>2, <1>3

\* The breakers among some devices have N numbers, from a first one on.
NumberedOn(s, start, N) ==
    /\ \A i \in DOMAIN s : s[i].type = "CBR" => \E m \in 1 .. N : s[i].name = CbrName(start + m - 1)
    /\ \A m \in 1 .. N : \E i \in DOMAIN s : s[i].type = "CBR" /\ s[i].name = CbrName(start + m - 1)

\* Which numbers the breakers of a level have.
LEMMA BuiltNumbers ==
    ASSUME NEW name, NEW kv, NEW layout \in Layouts, NEW tps \in Seq(TapSet), NEW start \in Nat,
           ~Refuses(layout, tps)
    PROVE  NumberedOn(Build(name, kv, layout, tps, start).breakers, start, BreakerCount(layout, tps))
<1> DEFINE s == Build(name, kv, layout, tps, start).breakers
           N == BreakerCount(layout, tps)
           K == LevelKeys(layout, tps)
<1>1. Keyed(tps, start, s, K)
  BY KeyedLevel
<1>2. PICK f : KeyedBy(tps, start, s, K, f)
  BY <1>1 DEF Keyed
<1> HIDE DEF s, K
<1>3. /\ \A i \in DOMAIN s : f[i] \in K /\ IsKeyed(tps, start, s[i], f[i])
      /\ \A key \in K : \E i \in DOMAIN s : f[i] = key
  BY <1>2 DEF KeyedBy
<1>4. \A key : key \in K <=> \/ \E u \in BreakerKinds, m \in 1 .. N : key = <<u, m>>
                             \/ \E i \in {j \in DOMAIN tps : HasExit(tps[j])} : key = <<"D", i>>
  BY KeyShape DEF K, LevelKeys
<1> HIDE DEF N
<1>5. ASSUME NEW i \in DOMAIN s, s[i].type = "CBR" PROVE \E m \in 1 .. N : s[i].name = CbrName(start + m - 1)
  <2>1. f[i][1] = "CBR"
    BY <1>3, <1>5 DEF IsKeyed, KeyType
  <2>2. PICK u \in BreakerKinds, m \in 1 .. N : f[i] = <<u, m>>
    BY <1>3, <1>4, <2>1
  <2>3. KeyName(tps, start, f[i]) = CbrName(start + m - 1)
    BY <2>1, <2>2 DEF KeyName
  <2>4. QED
    BY <1>3, <2>3 DEF IsKeyed
<1>6. ASSUME NEW m \in 1 .. N
      PROVE  \E i \in DOMAIN s : s[i].type = "CBR" /\ s[i].name = CbrName(start + m - 1)
  <2>1. <<"CBR", m>> \in K
    BY <1>4 DEF BreakerKinds
  <2>2. PICK i \in DOMAIN s : f[i] = <<"CBR", m>>
    BY <1>3, <2>1
  <2>3. KeyType(f[i]) = "CBR" /\ KeyName(tps, start, f[i]) = CbrName(start + m - 1)
    BY <2>2 DEF KeyType, KeyName
  <2>4. QED
    BY <1>3, <2>2, <2>3 DEF IsKeyed
<1>7. NumberedOn(s, start, N)
  BY <1>5, <1>6 DEF NumberedOn
<1>8. QED
  BY <1>7 DEF s, N

\* Breakers lists them one after the other.
LEMMA BreakersListed ==
    ASSUME NEW name \in NameSet, NEW kv \in Voltages \cup OddVoltages, NEW layout \in Layouts,
           NEW tps \in Seq(TapSet), NEW start \in Nat, ~Refuses(layout, tps)
    PROVE  LET t == Breakers(Build(name, kv, layout, tps, start))
               N == BreakerCount(layout, tps)
           IN  t \in Seq(Devices) /\ Len(t) = N /\ \A m \in 1 .. N : t[m].name = CbrName(start + m - 1)
<1> DEFINE lv == Build(name, kv, layout, tps, start)
           s == lv.breakers
           t == Breakers(lv)
           N == BreakerCount(layout, tps)
           P == {k \in DOMAIN s : s[k].type = "CBR"}
<1>1. lv \in BuiltLevels
  BY TapsOfBuild DEF BuiltLevels
<1>2. \A k, l \in DOMAIN s : k < l /\ s[k].type = "CBR" /\ s[l].type = "CBR" =>
         \E i, j \in Nat : i < j /\ s[k].name = CbrName(i) /\ s[l].name = CbrName(j)
  <2> HIDE DEF lv
  <2>1. QED
    BY <1>1, LevelOrder
<1>3. /\ \A k \in P : \E m \in 1 .. N : s[k].name = CbrName(start + m - 1)
      /\ \A m \in 1 .. N : \E k \in P : s[k].name = CbrName(start + m - 1)
  <2>1. NumberedOn(s, start, N)
    BY BuiltNumbers
  <2> HIDE DEF s, N
  <2>2. QED
    BY <2>1 DEF NumberedOn
<1>4. s \in Seq(Devices)
  BY BuiltDevices
<1>5. t = At(s, P)
  BY DEF Breakers, Chosen, IsCbr
<1>6. N \in Nat
  <2>1. Len(tps) \in Nat
    OBVIOUS
  <2>2. QED
    BY <2>1 DEF BreakerCount
<1>7. P \in SUBSET DOMAIN s /\ \A k \in P : s[k].type = "CBR"
  OBVIOUS
<1> HIDE DEF lv, s, t, N, P
<1>8. t \in Seq(Devices) /\ Picks(t, s, P)
  BY <1>4, <1>5, <1>7, AtPicks
<1>9. PICK f \in [DOMAIN t -> P] : /\ \A p \in DOMAIN t : t[p] = s[f[p]]
                                   /\ \A p, q \in DOMAIN t : p < q => f[p] < f[q]
                                   /\ \A k \in P : \E p \in DOMAIN t : f[p] = k
  BY <1>8 DEF Picks
<1> DEFINE L == Len(t)
           g == [p \in DOMAIN t |-> CHOOSE x \in Nat : t[p].name = CbrName(x)]
<1>10. L \in Nat /\ DOMAIN t = 1 .. L
  BY <1>8
<1> HIDE DEF L
<1>11. ASSUME NEW p \in 1 .. L
       PROVE  /\ g[p] \in Nat /\ t[p].name = CbrName(g[p])
              /\ \E m \in 1 .. N : g[p] = start + m - 1
  <2>0. f[p] \in P /\ t[p] = s[f[p]]
    BY <1>9, <1>10
  <2>1. PICK m \in 1 .. N : t[p].name = CbrName(start + m - 1)
    BY <1>3, <2>0
  <2>2. start + m - 1 \in Nat
    BY <1>6
  <2>3. g[p] = CHOOSE x \in Nat : t[p].name = CbrName(x)
    BY <1>10
  <2> HIDE DEF g
  <2>4. g[p] \in Nat /\ t[p].name = CbrName(g[p])
    BY <2>1, <2>2, <2>3
  <2>5. g[p] = start + m - 1
    BY <2>1, <2>4, NumberInName
  <2>6. QED
    BY <2>4, <2>5
<1> HIDE DEF g
<1>12. \A p \in 1 .. L : g[p] \in Nat /\ start <= g[p] /\ g[p] < start + N
  <2> SUFFICES ASSUME NEW p \in 1 .. L PROVE g[p] \in Nat /\ start <= g[p] /\ g[p] < start + N
    OBVIOUS
  <2>1. PICK m \in 1 .. N : g[p] = start + m - 1
    BY <1>11
  <2>2. QED
    BY <1>6, <2>1
<1>13. ASSUME NEW p \in 1 .. L, NEW q \in 1 .. L, p < q PROVE g[p] < g[q]
  <2>1. f[p] \in P /\ f[q] \in P /\ f[p] < f[q] /\ t[p] = s[f[p]] /\ t[q] = s[f[q]]
    BY <1>9, <1>10, <1>13
  <2>2. PICK i \in Nat, j \in Nat : i < j /\ t[p].name = CbrName(i) /\ t[q].name = CbrName(j)
    BY <1>2, <1>7, <2>1
  <2>3. g[p] = i /\ g[q] = j
    BY <1>11, <2>2, NumberInName
  <2>4. QED
    BY <2>2, <2>3
<1>14. ASSUME NEW x \in 1 .. N PROVE \E p \in 1 .. L : g[p] = start + x - 1
  <2>1. PICK k \in P : s[k].name = CbrName(start + x - 1)
    BY <1>3
  <2>2. PICK p \in 1 .. L : f[p] = k
    BY <1>9, <1>10
  <2>3. t[p].name = CbrName(start + x - 1)
    BY <1>9, <1>10, <2>1, <2>2
  <2>4. g[p] = start + x - 1
    BY <1>11, <2>3, NumberInName
  <2>5. QED
    BY <2>4
<1>15. L = N /\ \A m \in 1 .. N : g[m] = start + m - 1
  <2>1. \A l, m \in 1 .. L : l < m => g[l] < g[m]
    BY <1>13
  <2>2. \A x \in 1 .. N : \E m \in 1 .. L : g[m] = start + x - 1
    BY <1>14
  <2>3. L \in Nat /\ N \in Nat /\ start \in Nat
    BY <1>6, <1>10
  <2>4. Rising(g, L, N, start)
    BY <1>12, <2>1, <2>2 DEF Rising
  <2>5. QED
    BY <2>3, <2>4, Enumerated
<1>16. t \in Seq(Devices) /\ Len(t) = N /\ \A m \in 1 .. N : t[m].name = CbrName(start + m - 1)
  BY <1>8, <1>11, <1>15 DEF L
<1>17. QED
  BY <1>16 DEF t, lv, N

\* Where every tap has a breaker of its own, that is the one a trip of the tap finds.
LEMMA ColumnBreaker ==
    ASSUME NEW name \in NameSet, NEW kv \in Voltages \cup OddVoltages,
           NEW layout \in {"single_bus", "main_and_transfer"},
           NEW tps \in Seq(TapSet), NEW start \in Nat, ~Refuses(layout, tps), NEW i \in DOMAIN tps
    PROVE  BreakersBounding(TapNode(i), Build(name, kv, layout, tps, start).breakers)[1].name
             = CbrName(start + i - 1)
<1> DEFINE lv == Build(name, kv, layout, tps, start)
           C == CbrsOf(layout, tps, start)
           t == Bounding(lv, i)
<1>2. layout \in Layouts
  BY DEF Layouts
<1>1. lv.taps = tps /\ lv.breakers \in Seq(Devices) /\ Range(lv.breakers) = LevelDevices(layout, tps, start)
  BY <1>2, TapsOfBuild, BuiltDevices
<1>3. PICK numbers \in SUBSET DOMAIN tps : LevelDevices(layout, tps, start) = DevicesOf(tps, C, numbers)
  BY <1>2, LayoutDevices
<1>4. Yard(C)
  BY <1>2, LayoutYard
<1>5. lv \in BuiltLevels
  BY <1>2, TapsOfBuild DEF BuiltLevels
<1>6. i \in Nat /\ i \in 1 .. Len(tps)
  OBVIOUS
<1>7. Touching(C, i) = {start + i - 1}
  BY <1>6, OnlyBreaker
<1> HIDE DEF lv, C
<1>8. OpenedFor(lv, i) = {CbrName(m) : m \in Touching(C, i)}
  BY <1>1, <1>3, <1>4, <1>6, OpenedNumbers
<1>9. t \in Seq(Devices) /\ {t[p].name : p \in DOMAIN t} = {CbrName(start + i - 1)}
  <2>1. t \in Seq(Devices)
    BY <1>5, BoundingOrder
  <2>2. OpenedFor(lv, i) = {t[p].name : p \in DOMAIN t}
    BY BoundingNames
  <2>3. {CbrName(m) : m \in Touching(C, i)} = {CbrName(start + i - 1)}
    BY <1>7
  <2>4. QED
    BY <1>8, <2>1, <2>2, <2>3
<1>10. t = BreakersBounding(TapNode(i), lv.breakers)
  BY DEF Bounding
<1> HIDE DEF t
<1>11. DOMAIN t = 1 .. Len(t) /\ Len(t) \in Nat
  BY <1>9
<1>12. 1 \in DOMAIN t
  <2>1. PICK p \in DOMAIN t : t[p].name = CbrName(start + i - 1)
    BY <1>9
  <2>2. QED
    BY <1>11, <2>1
<1>13. QED
  BY <1>9, <1>10, <1>12 DEF lv

-----------------------------------------------------------------------------
(* Devices and their symbols. *)

\* A one-to-one function relates as many things as it has arguments.
LEMMA SameMany ==
    ASSUME NEW A, IsFiniteSet(A), NEW B, NEW g, DOMAIN g = A, g = [i \in A |-> g[i]],
           \A i \in A : g[i] \in B,
           \A i, j \in A : g[i] = g[j] => i = j,
           \A b \in B : \E i \in A : g[i] = b
    PROVE  IsFiniteSet(B) /\ Cardinality(B) = Cardinality(A)
<1>1. g \in [A -> B]
  OBVIOUS
<1>2. g \in Bijection(A, B)
  BY <1>1 DEF Bijection, Injection, Surjection, IsInjective
<1>3. ExistsBijection(A, B)
  BY <1>2 DEF ExistsBijection
<1>4. QED
  BY <1>3, FS_Bijection

\* The symbol of a device.
Mark(tps, start, key, x, y) ==
    Symbol(KeyType(key), KeyName(tps, start, key), x, y, IF key[1] = "CBR" THEN 480 ELSE 420)

\* The fields of a symbol.
LEMMA MarkFields ==
    ASSUME NEW tps, NEW start, NEW key, NEW x, NEW y
    PROVE  /\ Mark(tps, start, key, x, y).what = KeyType(key)
           /\ Mark(tps, start, key, x, y).name = KeyName(tps, start, key)
           /\ Mark(tps, start, key, x, y).x = x /\ Mark(tps, start, key, x, y).y = y
           /\ Mark(tps, start, key, x, y).half \in {420, 480}
BY DEF Mark, Symbol

Far(a, b) == a >= b + 960 \/ b >= a + 960

\* Every device has a symbol of its own, far from that of any other, and only taps have one besides.
Placed(tps, start, K, X, Y, drawn) ==
    /\ \A key \in K : X[key] \in Nat /\ Y[key] \in Nat /\ Mark(tps, start, key, X[key], Y[key]) \in drawn
    /\ \A p \in drawn : p.what = "tap" \/ \E key \in K : p = Mark(tps, start, key, X[key], Y[key])
    /\ \A key, other \in K : key # other => Far(X[key], X[other]) \/ Far(Y[key], Y[other])

\* Symbols that are far from each other do not overlap; one overlaps itself.
LEMMA FarApart ==
    ASSUME NEW p, NEW q, p.x \in Nat, p.y \in Nat, q.x \in Nat, q.y \in Nat,
           p.half \in {420, 480}, q.half \in {420, 480}
    PROVE  /\ Far(p.x, q.x) \/ Far(p.y, q.y) => ~Overlap(p, q)
           /\ Overlap(p, p)
BY DEF Far, Overlap

\* What is placed so is what DiagramFits asks for.
LEMMA ShownWhenPlaced ==
    ASSUME NEW tps, NEW start, NEW S, NEW s \in Seq(S), NEW K, Keyed(tps, start, s, K),
           NEW X, NEW Y, NEW drawn, Placed(tps, start, K, X, Y, drawn)
    PROVE  ShowsDevices(drawn, s) /\ NoneOverlap(Switches(drawn))
<1> DEFINE m(key) == Mark(tps, start, key, X[key], Y[key])
           sw == Switches(drawn)
<1>1. PICK f : KeyedBy(tps, start, s, K, f)
  BY DEF Keyed
<1>2. /\ \A i \in DOMAIN s : f[i] \in K /\ s[i].type = KeyType(f[i]) /\ s[i].name = KeyName(tps, start, f[i])
      /\ \A i, j \in DOMAIN s : f[i] = f[j] => i = j
      /\ \A key \in K : \E i \in DOMAIN s : f[i] = key
  BY <1>1 DEF KeyedBy, IsKeyed
<1>3. \A key \in K : /\ X[key] \in Nat /\ Y[key] \in Nat /\ m(key) \in drawn
                     /\ m(key).what = KeyType(key) /\ m(key).name = KeyName(tps, start, key)
                     /\ m(key).x = X[key] /\ m(key).y = Y[key] /\ m(key).half \in {420, 480}
  BY MarkFields DEF Placed
<1>4. \A p \in drawn : p.what = "tap" \/ \E key \in K : p = m(key)
  BY DEF Placed
<1>5. \A key, other \in K : key # other => Far(X[key], X[other]) \/ Far(Y[key], Y[other])
  BY DEF Placed
<1>6. \A key : KeyType(key) \in {"CBR", "DIS"}
  BY DEF KeyType
<1> HIDE DEF m
<1>7. \A p : p \in sw <=> \E key \in K : p = m(key)
  <2>1. ASSUME NEW p, p \in sw PROVE \E key \in K : p = m(key)
    <3>1. p \in drawn /\ p.what \in {"CBR", "DIS"}
      BY <2>1 DEF Switches
    <3>2. p.what # "tap"
      BY <3>1
    <3>3. QED
      BY <1>4, <3>1, <3>2
  <2>2. ASSUME NEW key \in K PROVE m(key) \in sw
    <3>1. m(key) \in drawn /\ m(key).what \in {"CBR", "DIS"}
      BY <1>3, <1>6
    <3>2. QED
      BY <3>1 DEF Switches
  <2> HIDE DEF sw
  <2>3. QED
    BY <2>1, <2>2
<1>8. ASSUME NEW key \in K, NEW other \in K, key # other PROVE ~Overlap(m(key), m(other))
  <2> DEFINE p == m(key)
             q == m(other)
  <2>1. /\ p.x \in Nat /\ p.y \in Nat /\ q.x \in Nat /\ q.y \in Nat
        /\ p.half \in {420, 480} /\ q.half \in {420, 480}
        /\ Far(p.x, q.x) \/ Far(p.y, q.y)
    BY <1>3, <1>5, <1>8
  <2> HIDE DEF p, q
  <2>2. ~Overlap(p, q)
    BY <2>1, FarApart
  <2>3. QED
    BY <2>2 DEF p, q
<1>9. \A key, other \in K : m(key) = m(other) => key = other
  <2> SUFFICES ASSUME NEW key \in K, NEW other \in K, m(key) = m(other), key # other PROVE FALSE
    OBVIOUS
  <2> DEFINE p == m(key)
  <2>1. p.x \in Nat /\ p.y \in Nat /\ p.half \in {420, 480}
    BY <1>3
  <2>2. ~Overlap(p, p)
    BY <1>8
  <2> HIDE DEF p
  <2>3. QED
    BY <2>1, <2>2, FarApart
<1>10. NoneOverlap(sw)
  <2> SUFFICES ASSUME NEW p \in sw, NEW q \in sw, p # q PROVE ~Overlap(p, q)
    BY DEF NoneOverlap
  <2> HIDE DEF sw
  <2>1. PICK key \in K : p = m(key)
    BY <1>7
  <2>2. PICK other \in K : q = m(other)
    BY <1>7
  <2>3. QED
    BY <1>8, <2>1, <2>2
<1>11. Len(s) \in Nat /\ DOMAIN s = 1 .. Len(s)
  OBVIOUS
<1>12. IsFiniteSet(DOMAIN s) /\ Cardinality(DOMAIN s) = Len(s)
  <2> DEFINE n == Len(s)
  <2>1. n \in Nat /\ DOMAIN s = 1 .. n
    BY <1>11
  <2> HIDE DEF n
  <2>2. IsFiniteSet(1 .. n) /\ Cardinality(1 .. n) = n
    <3>1. IsFiniteSet(1 .. n) /\ Cardinality(1 .. n) = IF 1 > n THEN 0 ELSE n - 1 + 1
      BY <2>1, FS_Interval
    <3>2. QED
      BY <2>1, <3>1
  <2>3. QED
    BY <2>1, <2>2 DEF n
<1> HIDE DEF sw
<1>13. Cardinality(sw) = Len(s)
  <2> DEFINE g == [i \in DOMAIN s |-> m(f[i])]
  <2>1. DOMAIN g = DOMAIN s /\ g = [i \in DOMAIN s |-> g[i]] /\ \A i \in DOMAIN s : g[i] = m(f[i])
    OBVIOUS
  <2> HIDE DEF g
  <2>2. \A i \in DOMAIN s : g[i] \in sw
    BY <1>2, <1>7, <2>1
  <2>3. \A i, j \in DOMAIN s : g[i] = g[j] => i = j
    BY <1>2, <1>9, <2>1
  <2>4. \A p \in sw : \E i \in DOMAIN s : g[i] = p
    BY <1>2, <1>7, <2>1
  <2>5. Cardinality(sw) = Cardinality(DOMAIN s)
    BY <1>12, <2>1, <2>2, <2>3, <2>4, SameMany
  <2>6. QED
    BY <1>12, <2>5
<1>14. ASSUME NEW d \in DOMAIN s PROVE Count(drawn, s[d].type, s[d].name) = CountSeq(s, s[d].type, s[d].name)
  <2> DEFINE A == {i \in DOMAIN s : s[i].type = s[d].type /\ s[i].name = s[d].name}
             B == {p \in drawn : p.what = s[d].type /\ p.name = s[d].name}
             g == [i \in A |-> m(f[i])]
  <2>1. DOMAIN g = A /\ g = [i \in A |-> g[i]] /\ \A i \in A : g[i] = m(f[i])
    OBVIOUS
  <2> HIDE DEF g
  <2>2. IsFiniteSet(A)
    <3>1. A \subseteq DOMAIN s
      OBVIOUS
    <3> HIDE DEF A
    <3>2. QED
      BY <1>12, <3>1, FS_Subset
  <2>3. \A i \in A : i \in DOMAIN s /\ s[i].type = s[d].type /\ s[i].name = s[d].name
    OBVIOUS
  <2>4. \A i \in DOMAIN s : s[i].type = s[d].type /\ s[i].name = s[d].name => i \in A
    OBVIOUS
  <2>5. \A p : p \in B <=> p \in drawn /\ p.what = s[d].type /\ p.name = s[d].name
    OBVIOUS
  <2> HIDE DEF A, B
  <2>6. \A i \in A : g[i] \in B
    BY <1>2, <1>3, <2>1, <2>3, <2>5
  <2>7. \A i, j \in A : g[i] = g[j] => i = j
    BY <1>2, <1>9, <2>1, <2>3
  <2>8. ASSUME NEW p \in B PROVE \E i \in A : g[i] = p
    <3>1. p \in drawn /\ p.what = s[d].type /\ p.name = s[d].name
      BY <2>5
    <3>2. p.what # "tap"
      BY <1>2, <1>6, <3>1
    <3>3. PICK key \in K : p = m(key)
      BY <1>4, <3>1, <3>2
    <3>4. PICK i \in DOMAIN s : f[i] = key
      BY <1>2
    <3>5. s[i].type = s[d].type /\ s[i].name = s[d].name
      BY <1>2, <1>3, <3>1, <3>3, <3>4
    <3>6. i \in A /\ g[i] = p
      BY <2>1, <2>4, <3>3, <3>4, <3>5
    <3>7. QED
      BY <3>6
  <2>9. Cardinality(B) = Cardinality(A)
    BY <2>1, <2>2, <2>6, <2>7, <2>8, SameMany
  <2>10. QED
    BY <2>9 DEF Count, CountSeq, A, B
<1>15. ShowsDevices(drawn, s)
  <2>1. \A b \in Range(s) : Count(drawn, b.type, b.name) = CountSeq(s, b.type, b.name)
    <3>1. \A b \in Range(s) : \E d \in DOMAIN s : b = s[d]
      BY DEF Range
    <3>2. QED
      BY <1>14, <3>1
  <2>2. QED
    BY <1>13, <2>1 DEF ShowsDevices, sw
<1>16. QED
  BY <1>10, <1>15 DEF sw

-----------------------------------------------------------------------------
(* What the drawers put where. *)

\* The lengths, in sixtieths of a pixel.
LEMMA Lengths ==
    /\ BreakerSize \div 2 = 480 /\ BreakerSize \div 2 + DisconnectGap = 1560 /\ DisconnectSize = 420
    /\ Px(3) = 180 /\ Px(10) = 600 /\ Px(20) = 1200 /\ Px(30) = 1800 /\ Px(50) = 3000 /\ Px(60) = 3600
    /\ StripHeight = 20400 /\ LeftMargin = 9600 /\ TapPitch = 8400 /\ DiameterPitch = 13200
<1>1. 60 * 16 = 960 /\ 60 * 18 = 1080 /\ 60 * 7 = 420 /\ 60 * 3 = 180 /\ 60 * 10 = 600 /\ 60 * 20 = 1200
      /\ 60 * 30 = 1800 /\ 60 * 50 = 3000 /\ 60 * 60 = 3600 /\ 60 * 340 = 20400 /\ 60 * 160 = 9600
      /\ 60 * 140 = 8400 /\ 60 * 220 = 13200
  OBVIOUS
<1>2. QED
  BY <1>1 DEF BreakerSize, DisconnectGap, DisconnectSize, Px, StripHeight, LeftMargin, TapPitch, DiameterPitch

\* How far a device of a breaker is from the place of the breaker.
Shift(u) == CASE u = "DA" -> -1560 [] u = "DB" -> 1560 [] OTHER -> 0

IsFlank(tps, start, m, x, y, p) == \E u \in BreakerKinds : p = Mark(tps, start, <<u, m>>, x, y + Shift(u))
IsExit(tps, start, i, x, y, p) == HasExit(tps[i]) /\ p = Mark(tps, start, <<"D", i>>, x, y)
IsTapAt(p, x, y) == p.what = "tap" /\ p.half = 180 /\ p.x = x /\ p.y = y

\* A flanked breaker.
LEMMA FlankMarks ==
    ASSUME NEW tps, NEW start, NEW m, NEW b, b.name = CbrName(start + m - 1), NEW x \in Int, NEW y \in Int
    PROVE  \A p : p \in Flanked(b, x, y) <=> IsFlank(tps, start, m, x, y, p)
<1>1. /\ BreakerSymbol(b, x, y) = Mark(tps, start, <<"CBR", m>>, x, y)
      /\ DisconnectSymbol(Suffixed(b.name, "DA"), x, y - 1560) = Mark(tps, start, <<"DA", m>>, x, y - 1560)
      /\ DisconnectSymbol(Suffixed(b.name, "DB"), x, y + 1560) = Mark(tps, start, <<"DB", m>>, x, y + 1560)
  BY Lengths DEF BreakerSymbol, DisconnectSymbol, Mark, KeyType, KeyName
<1>2. \A p : p \in Flanked(b, x, y) <=> \/ p = BreakerSymbol(b, x, y)
                                         \/ p = DisconnectSymbol(Suffixed(b.name, "DA"), x, y - 1560)
                                         \/ p = DisconnectSymbol(Suffixed(b.name, "DB"), x, y + 1560)
  BY Lengths DEF Flanked
<1>3. y + Shift("CBR") = y /\ y + Shift("DA") = y - 1560 /\ y + Shift("DB") = y + 1560
  BY DEF Shift
<1>4. \A p : IsFlank(tps, start, m, x, y, p) <=> \/ p = Mark(tps, start, <<"CBR", m>>, x, y)
                                                  \/ p = Mark(tps, start, <<"DA", m>>, x, y - 1560)
                                                  \/ p = Mark(tps, start, <<"DB", m>>, x, y + 1560)
  BY <1>3 DEF IsFlank, BreakerKinds
<1>5. QED
  BY <1>1, <1>2, <1>4

\* Where the exit and the end of the stub of a tap are.
StubPlaces(x, y, dx, dy, ex, ey, tx, ty) ==
    ex = x + dx \div 2 /\ ey = y + dy \div 2 /\ tx = x + dx /\ ty = y + dy

\* A tap with its exit, if it has one.
LEMMA ExitMarks ==
    ASSUME NEW tps \in Seq(TapSet), NEW start, NEW i \in DOMAIN tps, NEW x, NEW y, NEW dx, NEW dy,
           NEW ex, NEW ey, NEW tx, NEW ty, StubPlaces(x, y, dx, dy, ex, ey, tx, ty)
    PROVE  /\ \A p \in TapWithExit(tps[i], x, y, dx, dy) :
                 IsExit(tps, start, i, ex, ey, p) \/ IsTapAt(p, x, y) \/ IsTapAt(p, tx, ty)
           /\ \A p : IsExit(tps, start, i, ex, ey, p) => p \in TapWithExit(tps[i], x, y, dx, dy)
<1>1. tps[i] \in TapSet
  OBVIOUS
<1>2. HasExit(tps[i]) <=> tps[i].kind # "transformer"
  BY <1>1 DEF HasExit, TapSet, TapKinds
<1>3. DisconnectSymbol(Suffixed(tps[i].name, "D"), ex, ey) = Mark(tps, start, <<"D", i>>, ex, ey)
  BY Lengths DEF DisconnectSymbol, Mark, KeyType, KeyName
<1>4. \A a, b : IsTapAt(TapSymbol(tps[i], a, b), a, b)
  BY Lengths DEF TapSymbol, Symbol, IsTapAt
<1>5. TapWithExit(tps[i], x, y, dx, dy) =
        IF tps[i].kind = "transformer" THEN {TapSymbol(tps[i], x, y)}
        ELSE {TapSymbol(tps[i], tx, ty), DisconnectSymbol(Suffixed(tps[i].name, "D"), ex, ey)}
  BY DEF TapWithExit, StubPlaces
<1>6. \A p : IsExit(tps, start, i, ex, ey, p) <=> HasExit(tps[i]) /\ p = Mark(tps, start, <<"D", i>>, ex, ey)
  BY DEF IsExit
<1>7. QED
  BY <1>2, <1>3, <1>4, <1>5, <1>6

\* At a distance from the edges of a strip that keeps any symbol inside.
Clear(p, width, top) ==
    /\ p.half \in {180, 420, 480} /\ p.x \in Nat /\ p.y \in Nat
    /\ 480 <= p.x /\ p.x + 480 <= width
    /\ top + 480 <= p.y /\ p.y + 480 <= top + 20400

\* What keeps it is inside.
LEMMA ClearInside ==
    ASSUME NEW p, NEW width \in Nat, NEW top \in Nat, Clear(p, width, top)
    PROVE  Inside(p, width, top, StripHeight)
<1>1. StripHeight = 20400
  BY Lengths
<1>2. QED
  BY <1>1 DEF Clear, Inside

\* The keys of a level, once more.
LEMMA LevelKeyShape ==
    ASSUME NEW layout, NEW tps, NEW key
    PROVE  key \in LevelKeys(layout, tps) <=>
              \/ \E u \in BreakerKinds, m \in 1 .. BreakerCount(layout, tps) : key = <<u, m>>
              \/ \E i \in DOMAIN tps : HasExit(tps[i]) /\ key = <<"D", i>>
<1> DEFINE N == BreakerCount(layout, tps)
           B == {i \in DOMAIN tps : HasExit(tps[i])}
<1>1. key \in (BreakerKinds \X (1 .. N)) \cup ({"D"} \X B) <=>
              \/ \E u \in BreakerKinds, m \in 1 .. N : key = <<u, m>>
              \/ \E i \in B : key = <<"D", i>>
  BY KeyShape
<1>2. (\E i \in B : key = <<"D", i>>) <=> \E i \in DOMAIN tps : HasExit(tps[i]) /\ key = <<"D", i>>
  OBVIOUS
<1>3. QED
  BY <1>1, <1>2 DEF LevelKeys

\* Breaker m with its disconnects is at FX[m], FY[m], the exit of tap i at EX[i], EY[i].
DrawnAt(layout, tps, start, FX, FY, EX, EY, drawn) ==
    /\ \A p \in drawn : \/ p.what = "tap"
                        \/ \E m \in 1 .. BreakerCount(layout, tps) : IsFlank(tps, start, m, FX[m], FY[m], p)
                        \/ \E i \in DOMAIN tps : IsExit(tps, start, i, EX[i], EY[i], p)
    /\ \A m \in 1 .. BreakerCount(layout, tps) :
         \A p : IsFlank(tps, start, m, FX[m], FY[m], p) => p \in drawn
    /\ \A i \in DOMAIN tps : \A p : IsExit(tps, start, i, EX[i], EY[i], p) => p \in drawn

\* Room for the disconnects above and below the breakers.
Roomy(N, T, FX, FY, EX, EY) ==
    /\ \A m \in 1 .. N : FX[m] \in Nat /\ FY[m] \in Nat /\ FY[m] >= 1560
    /\ \A i \in T : EX[i] \in Nat /\ EY[i] \in Nat
    /\ \A m, n \in 1 .. N : m # n => \/ Far(FX[m], FX[n])
                                     \/ FY[m] >= FY[n] + 4080 \/ FY[n] >= FY[m] + 4080
    /\ \A i, j \in T : i # j => Far(EX[i], EX[j]) \/ Far(EY[i], EY[j])
    /\ \A m \in 1 .. N, i \in T : \/ Far(FX[m], EX[i])
                                  \/ EY[i] >= FY[m] + 2520 \/ FY[m] >= EY[i] + 2520

\* Then every device has a place of its own.
LEMMA RoomyPlaced ==
    ASSUME NEW layout, NEW tps, NEW start, NEW FX, NEW FY, NEW EX, NEW EY, NEW drawn,
           DrawnAt(layout, tps, start, FX, FY, EX, EY, drawn),
           Roomy(BreakerCount(layout, tps), DOMAIN tps, FX, FY, EX, EY)
    PROVE  \E X, Y : Placed(tps, start, LevelKeys(layout, tps), X, Y, drawn)
<1> DEFINE N == BreakerCount(layout, tps)
           K == LevelKeys(layout, tps)
           X == [key \in K |-> IF key[1] = "D" THEN EX[key[2]] ELSE FX[key[2]]]
           Y == [key \in K |-> IF key[1] = "D" THEN EY[key[2]] ELSE FY[key[2]] + Shift(key[1])]
<1>1. \A key : key \in K <=> \/ \E u \in BreakerKinds, m \in 1 .. N : key = <<u, m>>
                             \/ \E i \in DOMAIN tps : HasExit(tps[i]) /\ key = <<"D", i>>
  BY LevelKeyShape
<1>2. \A key \in K : /\ X[key] = IF key[1] = "D" THEN EX[key[2]] ELSE FX[key[2]]
                     /\ Y[key] = IF key[1] = "D" THEN EY[key[2]] ELSE FY[key[2]] + Shift(key[1])
  OBVIOUS
<1> HIDE DEF K, X, Y
<1>3. /\ Shift("CBR") = 0 /\ Shift("DA") = -1560 /\ Shift("DB") = 1560
      /\ \A u \in BreakerKinds : u = "CBR" \/ u = "DA" \/ u = "DB"
  BY DEF Shift, BreakerKinds
<1>4. ASSUME NEW u \in BreakerKinds, NEW m \in 1 .. N
      PROVE  <<u, m>> \in K /\ X[<<u, m>>] = FX[m] /\ Y[<<u, m>>] = FY[m] + Shift(u)
  <2>1. <<u, m>> \in K
    BY <1>1
  <2>2. <<u, m>>[1] = u /\ <<u, m>>[2] = m /\ u # "D"
    BY DEF BreakerKinds
  <2>3. QED
    BY <1>2, <2>1, <2>2
<1>5. ASSUME NEW i \in DOMAIN tps, HasExit(tps[i])
      PROVE  <<"D", i>> \in K /\ X[<<"D", i>>] = EX[i] /\ Y[<<"D", i>>] = EY[i]
  <2>1. <<"D", i>> \in K
    BY <1>1, <1>5
  <2>2. <<"D", i>>[1] = "D" /\ <<"D", i>>[2] = i
    OBVIOUS
  <2>3. QED
    BY <1>2, <2>1, <2>2
<1> HIDE DEF N
<1>6. /\ \A m \in 1 .. N : FX[m] \in Nat /\ FY[m] \in Nat /\ FY[m] >= 1560
      /\ \A i \in DOMAIN tps : EX[i] \in Nat /\ EY[i] \in Nat
      /\ \A m, n \in 1 .. N : m # n => Far(FX[m], FX[n]) \/ FY[m] >= FY[n] + 4080 \/ FY[n] >= FY[m] + 4080
      /\ \A i, j \in DOMAIN tps : i # j => Far(EX[i], EX[j]) \/ Far(EY[i], EY[j])
      /\ \A m \in 1 .. N, i \in DOMAIN tps : \/ Far(FX[m], EX[i])
                                             \/ EY[i] >= FY[m] + 2520 \/ FY[m] >= EY[i] + 2520
  BY DEF Roomy, N
<1>7. /\ \A p \in drawn : \/ p.what = "tap"
                          \/ \E m \in 1 .. N : IsFlank(tps, start, m, FX[m], FY[m], p)
                          \/ \E i \in DOMAIN tps : IsExit(tps, start, i, EX[i], EY[i], p)
      /\ \A m \in 1 .. N : \A p : IsFlank(tps, start, m, FX[m], FY[m], p) => p \in drawn
      /\ \A i \in DOMAIN tps : \A p : IsExit(tps, start, i, EX[i], EY[i], p) => p \in drawn
  BY DEF DrawnAt, N
<1>8. ASSUME NEW key \in K
      PROVE  X[key] \in Nat /\ Y[key] \in Nat /\ Mark(tps, start, key, X[key], Y[key]) \in drawn
  <2>1. ASSUME NEW u \in BreakerKinds, NEW m \in 1 .. N, key = <<u, m>>
        PROVE  X[key] \in Nat /\ Y[key] \in Nat /\ Mark(tps, start, key, X[key], Y[key]) \in drawn
    <3>1. X[key] = FX[m] /\ Y[key] = FY[m] + Shift(u)
      BY <1>4, <2>1
    <3>2. FX[m] \in Nat /\ FY[m] \in Nat /\ FY[m] >= 1560
      BY <1>6
    <3>3. X[key] \in Nat /\ Y[key] \in Nat
      BY <1>3, <3>1, <3>2
    <3>4. IsFlank(tps, start, m, FX[m], FY[m], Mark(tps, start, key, X[key], Y[key]))
      BY <2>1, <3>1 DEF IsFlank
    <3>5. QED
      BY <1>7, <3>3, <3>4
  <2>2. ASSUME NEW i \in DOMAIN tps, HasExit(tps[i]), key = <<"D", i>>
        PROVE  X[key] \in Nat /\ Y[key] \in Nat /\ Mark(tps, start, key, X[key], Y[key]) \in drawn
    <3>1. X[key] = EX[i] /\ Y[key] = EY[i]
      BY <1>5, <2>2
    <3>2. IsExit(tps, start, i, EX[i], EY[i], Mark(tps, start, key, X[key], Y[key]))
      BY <2>2, <3>1 DEF IsExit
    <3>3. QED
      BY <1>6, <1>7, <3>1, <3>2
  <2>3. QED
    BY <1>1, <2>1, <2>2
<1>9. ASSUME NEW p \in drawn PROVE p.what = "tap" \/ \E key \in K : p = Mark(tps, start, key, X[key], Y[key])
  <2>1. ASSUME NEW m \in 1 .. N, IsFlank(tps, start, m, FX[m], FY[m], p)
        PROVE  \E key \in K : p = Mark(tps, start, key, X[key], Y[key])
    <3>1. PICK u \in BreakerKinds : p = Mark(tps, start, <<u, m>>, FX[m], FY[m] + Shift(u))
      BY <2>1 DEF IsFlank
    <3>2. QED
      BY <1>4, <3>1
  <2>2. ASSUME NEW i \in DOMAIN tps, IsExit(tps, start, i, EX[i], EY[i], p)
        PROVE  \E key \in K : p = Mark(tps, start, key, X[key], Y[key])
    <3>1. HasExit(tps[i]) /\ p = Mark(tps, start, <<"D", i>>, EX[i], EY[i])
      BY <2>2 DEF IsExit
    <3>2. QED
      BY <1>5, <3>1
  <2>3. QED
    BY <1>7, <2>1, <2>2
<1>10. ASSUME NEW key \in K, NEW other \in K, key # other
       PROVE  Far(X[key], X[other]) \/ Far(Y[key], Y[other])
  <2>1. ASSUME NEW u \in BreakerKinds, NEW m \in 1 .. N, key = <<u, m>>,
               NEW v \in BreakerKinds, NEW n \in 1 .. N, other = <<v, n>>
        PROVE  Far(X[key], X[other]) \/ Far(Y[key], Y[other])
    <3>1. X[key] = FX[m] /\ Y[key] = FY[m] + Shift(u) /\ X[other] = FX[n] /\ Y[other] = FY[n] + Shift(v)
      BY <1>4, <2>1
    <3>2. FX[m] \in Nat /\ FY[m] \in Nat /\ FX[n] \in Nat /\ FY[n] \in Nat
      BY <1>6
    <3>3. CASE m # n
      <4>1. Far(FX[m], FX[n]) \/ FY[m] >= FY[n] + 4080 \/ FY[n] >= FY[m] + 4080
        BY <1>6, <3>3
      <4>2. QED
        BY <1>3, <3>1, <3>2, <4>1 DEF Far
    <3>4. CASE m = n
      <4>1. u # v
        BY <1>10, <2>1, <3>4
      <4>2. QED
        BY <1>3, <3>1, <3>2, <3>4, <4>1 DEF Far
    <3>5. QED
      BY <3>3, <3>4
  <2>2. ASSUME NEW u \in BreakerKinds, NEW m \in 1 .. N, NEW i \in DOMAIN tps
        PROVE  /\ Far(FX[m], EX[i]) \/ Far(FY[m] + Shift(u), EY[i])
               /\ Far(EX[i], FX[m]) \/ Far(EY[i], FY[m] + Shift(u))
    <3>1. FX[m] \in Nat /\ FY[m] \in Nat /\ EX[i] \in Nat /\ EY[i] \in Nat
      BY <1>6
    <3>2. Far(FX[m], EX[i]) \/ EY[i] >= FY[m] + 2520 \/ FY[m] >= EY[i] + 2520
      BY <1>6
    <3>3. QED
      BY <1>3, <3>1, <3>2 DEF Far
  <2>3. ASSUME NEW u \in BreakerKinds, NEW m \in 1 .. N, key = <<u, m>>,
               NEW i \in DOMAIN tps, HasExit(tps[i]), other = <<"D", i>>
        PROVE  Far(X[key], X[other]) \/ Far(Y[key], Y[other])
    BY <1>4, <1>5, <2>2, <2>3
  <2>4. ASSUME NEW u \in BreakerKinds, NEW m \in 1 .. N, other = <<u, m>>,
               NEW i \in DOMAIN tps, HasExit(tps[i]), key = <<"D", i>>
        PROVE  Far(X[key], X[other]) \/ Far(Y[key], Y[other])
    BY <1>4, <1>5, <2>2, <2>4
  <2>5. ASSUME NEW i \in DOMAIN tps, HasExit(tps[i]), key = <<"D", i>>,
               NEW j \in DOMAIN tps, HasExit(tps[j]), other = <<"D", j>>
        PROVE  Far(X[key], X[other]) \/ Far(Y[key], Y[other])
    <3>1. i # j
      BY <1>10, <2>5
    <3>2. QED
      BY <1>5, <1>6, <2>5, <3>1
  <2>6. QED
    BY <1>1, <2>1, <2>3, <2>4, <2>5
<1>11. Placed(tps, start, K, X, Y, drawn)
  BY <1>8, <1>9, <1>10 DEF Placed
<1>12. QED
  BY <1>11 DEF K

\* What keeps a breaker with its disconnects off the edges, ...
LEMMA FlankClear ==
    ASSUME NEW tps, NEW start, NEW m, NEW x \in Nat, NEW y \in Nat, NEW p, NEW width \in Nat, NEW top \in Nat,
           480 <= x, x + 480 <= width, top + 2040 <= y, y + 2040 <= top + 20400,
           IsFlank(tps, start, m, x, y, p)
    PROVE  Clear(p, width, top)
<1>1. PICK u \in BreakerKinds : p = Mark(tps, start, <<u, m>>, x, y + Shift(u))
  BY DEF IsFlank
<1>2. Shift(u) \in {-1560, 0, 1560}
  BY DEF Shift
<1>3. p.x = x /\ p.y = y + Shift(u) /\ p.half \in {420, 480}
  BY <1>1, MarkFields
<1>4. QED
  BY <1>2, <1>3 DEF Clear

\* ... an exit, ...
LEMMA ExitClear ==
    ASSUME NEW tps, NEW start, NEW m, NEW x \in Nat, NEW y \in Nat, NEW p, NEW width \in Nat, NEW top \in Nat,
           480 <= x, x + 480 <= width, top + 480 <= y, y + 480 <= top + 20400,
           IsExit(tps, start, m, x, y, p)
    PROVE  Clear(p, width, top)
<1>1. p = Mark(tps, start, <<"D", m>>, x, y)
  BY DEF IsExit
<1>2. p.x = x /\ p.y = y /\ p.half \in {420, 480}
  BY <1>1, MarkFields
<1>3. QED
  BY <1>2 DEF Clear

\* ... and a tap.
LEMMA TapClear ==
    ASSUME NEW x \in Nat, NEW y \in Nat, NEW p, NEW width \in Nat, NEW top \in Nat,
           480 <= x, x + 480 <= width, top + 480 <= y, y + 480 <= top + 20400, IsTapAt(p, x, y)
    PROVE  Clear(p, width, top)
BY DEF IsTapAt, Clear

\* A breaker and an exit for every tap.
ColumnsAt(tps, start, top, mid, drawn) ==
    /\ \A p \in drawn : \E i \in DOMAIN tps :
         \/ IsFlank(tps, start, i, TapX(i), mid, p)
         \/ IsExit(tps, start, i, TapX(i), top + 17700, p)
         \/ IsTapAt(p, TapX(i), top + 17400) \/ IsTapAt(p, TapX(i), top + 18000)
    /\ \A i \in DOMAIN tps : \A p :
         IsFlank(tps, start, i, TapX(i), mid, p) \/ IsExit(tps, start, i, TapX(i), top + 17700, p) => p \in drawn

\* Columns draws them.
LEMMA ColumnMarks ==
    ASSUME NEW name \in NameSet, NEW kv \in Voltages \cup OddVoltages,
           NEW layout \in {"single_bus", "main_and_transfer"},
           NEW tps \in Seq(TapSet), NEW start \in Nat, ~Refuses(layout, tps),
           NEW top \in Nat, NEW railY \in Nat, NEW mid \in Nat, 2 * mid = railY + top + 17400
    PROVE  ColumnsAt(tps, start, top, mid, Columns(Build(name, kv, layout, tps, start), railY, top))
<1> DEFINE lv == Build(name, kv, layout, tps, start)
           col(i) == Flanked(BreakersBounding(TapNode(i), lv.breakers)[1], TapX(i), mid)
                     \cup TapWithExit(tps[i], TapX(i), top + 17400, 0, 600)
           all == Columns(lv, railY, top)
<1>1. lv.taps = tps
  BY TapsOfBuild
<1> DEFINE tapY == top + StripHeight - Px(50)
           half == (railY + tapY) \div 2
           dy == Px(10)
           drawn(i) == Flanked(BreakersBounding(TapNode(i), lv.breakers)[1], TapX(i), half)
                       \cup TapWithExit(lv.taps[i], TapX(i), tapY, 0, dy)
<1>2. tapY = top + 17400 /\ half = mid /\ dy = 600
  <2>1. tapY = top + 17400 /\ dy = 600
    BY Lengths
  <2> HIDE DEF tapY
  <2>2. (railY + tapY) \div 2 = mid
    BY <2>1
  <2>3. QED
    BY <2>1, <2>2
<1>2a. all = UNION {drawn(i) : i \in DOMAIN lv.taps}
  BY DEF Columns
<1>3. all = UNION {col(i) : i \in DOMAIN tps}
  <2> HIDE DEF tapY, half, dy, all, lv
  <2>1. \A i : drawn(i) = col(i)
    BY <1>1, <1>2
  <2> HIDE DEF drawn, col
  <2>2. QED
    BY <1>1, <1>2a, <2>1
<1> HIDE DEF tapY, half, dy, drawn
<1>4. \A p : p \in all <=> \E i \in DOMAIN tps : p \in col(i)
  <2> HIDE DEF col, all
  <2>1. QED
    BY <1>3
<1>5. ASSUME NEW i \in DOMAIN tps
      PROVE  /\ \A p : p \in col(i) => \/ IsFlank(tps, start, i, TapX(i), mid, p)
                                       \/ IsExit(tps, start, i, TapX(i), top + 17700, p)
                                       \/ IsTapAt(p, TapX(i), top + 17400) \/ IsTapAt(p, TapX(i), top + 18000)
             /\ \A p : IsFlank(tps, start, i, TapX(i), mid, p) \/ IsExit(tps, start, i, TapX(i), top + 17700, p)
                         => p \in col(i)
  <2> DEFINE x == TapX(i)
             b == BreakersBounding(TapNode(i), lv.breakers)[1]
             y == top + 17400
             e == TapWithExit(tps[i], x, y, 0, 600)
  <2>1. b.name = CbrName(start + i - 1)
    BY ColumnBreaker
  <2>2. x \in Int /\ i \in Nat
    BY Lengths, SMTT(60) DEF TapX
  <2>3. y \in Int /\ y + 600 \div 2 = top + 17700 /\ y + 600 = top + 18000
    OBVIOUS
  <2>4. x + 0 \div 2 = x /\ x + 0 = x
    BY <2>2
  <2> HIDE DEF b, x, y
  <2>5. \A p : p \in Flanked(b, x, mid) <=> IsFlank(tps, start, i, x, mid, p)
    BY <2>1, <2>2, FlankMarks
  <2>6. /\ \A p \in e : \/ IsExit(tps, start, i, x, top + 17700, p)
                        \/ IsTapAt(p, x, y) \/ IsTapAt(p, x, top + 18000)
        /\ \A p : IsExit(tps, start, i, x, top + 17700, p) => p \in e
    <3> DEFINE ey == top + 17700
               ty == top + 18000
    <3>1. StubPlaces(x, y, 0, 600, x, ey, x, ty)
      BY <2>3, <2>4 DEF StubPlaces
    <3> HIDE DEF ey, ty
    <3>2. /\ \A p \in TapWithExit(tps[i], x, y, 0, 600) :
                IsExit(tps, start, i, x, ey, p) \/ IsTapAt(p, x, y) \/ IsTapAt(p, x, ty)
          /\ \A p : IsExit(tps, start, i, x, ey, p) => p \in TapWithExit(tps[i], x, y, 0, 600)
      BY <3>1, ExitMarks
    <3>3. QED
      BY <3>2 DEF e, ey, ty
  <2>7. \A p : p \in col(i) <=> p \in Flanked(b, x, mid) \/ p \in e
    BY DEF b, x, y
  <2> HIDE DEF e, col
  <2>9. /\ \A p : p \in col(i) => \/ IsFlank(tps, start, i, x, mid, p)
                                  \/ IsExit(tps, start, i, x, top + 17700, p)
                                  \/ IsTapAt(p, x, y) \/ IsTapAt(p, x, top + 18000)
        /\ \A p : IsFlank(tps, start, i, x, mid, p) \/ IsExit(tps, start, i, x, top + 17700, p) => p \in col(i)
    BY <2>5, <2>6, <2>7
  <2>10. QED
    BY <2>9 DEF x, y
<1> HIDE DEF col, all
<1>6. \A p \in all : \E i \in DOMAIN tps :
                 \/ IsFlank(tps, start, i, TapX(i), mid, p)
                 \/ IsExit(tps, start, i, TapX(i), top + 17700, p)
                 \/ IsTapAt(p, TapX(i), top + 17400) \/ IsTapAt(p, TapX(i), top + 18000)
  BY <1>4, <1>5
<1>7. \A i \in DOMAIN tps : \A p :
         IsFlank(tps, start, i, TapX(i), mid, p) \/ IsExit(tps, start, i, TapX(i), top + 17700, p) => p \in all
  BY <1>4, <1>5
<1>8. QED
  BY <1>6, <1>7 DEF all, ColumnsAt

\* A strip as DiagramFits wants it.
DrawnWell(layout, tps, start, width, top, drawn) ==
    /\ \E X, Y : Placed(tps, start, LevelKeys(layout, tps), X, Y, drawn)
    /\ \A p \in drawn : Clear(p, width, top)

\* Where a tap is.
LEMMA TapPlace ==
    ASSUME NEW i \in Nat \ {0}
    PROVE  TapX(i) = 9600 + (i - 1) * 8400 /\ TapX(i) \in Nat /\ TapX(i) >= 9600
<1>1. TapX(i) = 9600 + (i - 1) * 8400
  BY Lengths DEF TapX
<1>2. QED
  BY <1>1

\* Two taps are far from each other.
LEMMA TapsFar ==
    ASSUME NEW i \in Nat \ {0}, NEW j \in Nat \ {0}
    PROVE  /\ i # j => Far(TapX(i), TapX(j))
           /\ i <= j => TapX(i) <= TapX(j)
           /\ TapX(i + 1) = TapX(i) + 8400
<1>1. TapX(i) = 9600 + (i - 1) * 8400 /\ TapX(j) = 9600 + (j - 1) * 8400
  BY TapPlace
<1>2. TapX(i + 1) = 9600 + i * 8400
  <2> DEFINE l == i + 1
  <2>1. l \in Nat \ {0} /\ l - 1 = i
    OBVIOUS
  <2> HIDE DEF l
  <2>2. TapX(l) = 9600 + (l - 1) * 8400
    BY <2>1, TapPlace
  <2>3. QED
    BY <2>1, <2>2 DEF l
<1>3. i # j => Far(TapX(i), TapX(j))
  BY <1>1 DEF Far
<1>4. i <= j => TapX(i) <= TapX(j)
  BY <1>1
<1>5. QED
  BY <1>1, <1>2, <1>3, <1>4

\* A level with one bus.
LEMMA SingleBusDrawn ==
    ASSUME NEW name \in NameSet, NEW kv \in Voltages \cup OddVoltages,
           NEW tps \in Seq(TapSet), NEW start \in Nat, ~Refuses("single_bus", tps),
           NEW top \in Nat, NEW width \in Nat,
           StripWidth(Build(name, kv, "single_bus", tps, start)) <= width
    PROVE  DrawnWell("single_bus", tps, start, width, top, Draw(Build(name, kv, "single_bus", tps, start), top))
<1> DEFINE layout == "single_bus"
           lv == Build(name, kv, layout, tps, start)
           drawn == Draw(lv, top)
           n == Len(tps)
           mid == top + 10500
           rail == top + Px(60)
           FX == [m \in 1 .. n |-> TapX(m)]
           FY == [m \in 1 .. n |-> mid]
           EY == [m \in 1 .. n |-> top + 17700]
<1>1. n \in Nat /\ DOMAIN tps = 1 .. n /\ n > 0 /\ BreakerCount(layout, tps) = n
  BY DEF Refuses, BreakerCount, Width
<1>2. lv.taps = tps /\ lv.layout = layout
  BY TapsOfBuild
<1>3. rail \in Nat /\ mid \in Nat /\ 2 * mid = rail + top + 17400 /\ mid >= 1560
  <2>1. Px(60) = 3600
    BY Lengths
  <2>2. QED
    BY <2>1
<1>4. drawn = Columns(lv, rail, top)
  BY <1>2 DEF Draw, DrawSingleBus
<1>5. TapX(n) + 8400 + 9600 <= width
  <2> HIDE DEF lv
  <2>1. StripWidth(lv) = LeftMargin + (TapX(n) + TapPitch)
    BY <1>2 DEF StripWidth
  <2>2. TapX(n) \in Nat
    BY <1>1, TapPlace
  <2>3. StripWidth(lv) <= width
    BY DEF lv
  <2>4. QED
    BY <2>1, <2>2, <2>3, Lengths, SMTT(60)
<1>6. \A m \in 1 .. n : TapX(m) \in Nat /\ TapX(m) >= 480 /\ TapX(m) + 480 <= width
  <2> SUFFICES ASSUME NEW m \in 1 .. n PROVE TapX(m) \in Nat /\ TapX(m) >= 480 /\ TapX(m) + 480 <= width
    OBVIOUS
  <2>1. m \in Nat \ {0} /\ n \in Nat \ {0} /\ m <= n
    BY <1>1
  <2>2. TapX(m) <= TapX(n) /\ TapX(m) \in Nat /\ TapX(m) >= 9600 /\ TapX(n) \in Nat
    BY <2>1, TapsFar, TapPlace
  <2>3. QED
    BY <1>5, <2>2
<1>7. /\ \A m \in 1 .. n : FX[m] = TapX(m) /\ FY[m] = mid /\ EY[m] = top + 17700
  OBVIOUS
<1>8. ColumnsAt(tps, start, top, mid, Columns(lv, rail, top))
  <2> HIDE DEF mid, rail
  <2>1. layout \in {"single_bus", "main_and_transfer"}
    OBVIOUS
  <2> HIDE DEF layout
  <2>2. ~Refuses(layout, tps)
    BY DEF layout
  <2>3. QED
    BY <1>3, <2>1, <2>2, ColumnMarks
<1>9. mid = top + 10500
  OBVIOUS
<1> HIDE DEF lv, drawn, n, mid, rail, FX, FY, EY
<1>10. DrawnAt(layout, tps, start, FX, FY, FX, EY, drawn)
  <2>1. \A i \in 1 .. n : \A p : IsTapAt(p, TapX(i), top + 17400) \/ IsTapAt(p, TapX(i), top + 18000)
                                   => p.what = "tap"
    BY DEF IsTapAt
  <2>2. /\ \A p \in drawn : \/ p.what = "tap"
                        \/ \E m \in 1 .. n : IsFlank(tps, start, m, FX[m], FY[m], p)
                        \/ \E i \in DOMAIN tps : IsExit(tps, start, i, FX[i], EY[i], p)
        /\ \A m \in 1 .. n : \A p : IsFlank(tps, start, m, FX[m], FY[m], p) => p \in drawn
        /\ \A i \in DOMAIN tps : \A p : IsExit(tps, start, i, FX[i], EY[i], p) => p \in drawn
    BY <1>1, <1>4, <1>7, <1>8, <2>1 DEF ColumnsAt
  <2>3. QED
    BY <1>1, <2>2 DEF DrawnAt
<1>11. Roomy(n, DOMAIN tps, FX, FY, FX, EY)
  <2>1. \A m, l \in 1 .. n : m # l => Far(FX[m], FX[l])
    <3> SUFFICES ASSUME NEW m \in 1 .. n, NEW l \in 1 .. n, m # l PROVE Far(FX[m], FX[l])
      OBVIOUS
    <3>1. m \in Nat \ {0} /\ l \in Nat \ {0}
      BY <1>1
    <3>2. FX[m] = TapX(m) /\ FX[l] = TapX(l)
      BY <1>7
    <3>3. Far(TapX(m), TapX(l))
      BY <3>1, TapsFar
    <3>4. QED
      BY <3>2, <3>3
  <2>2. \A m \in 1 .. n : /\ FX[m] \in Nat /\ FY[m] \in Nat /\ FY[m] >= 1560
                          /\ EY[m] \in Nat /\ FY[m] = mid /\ EY[m] = top + 17700
    BY <1>3, <1>6, <1>7
  <2>3. top + 17700 >= mid + 2520
    BY <1>9
  <2>4. QED
    BY <1>1, <2>1, <2>2, <2>3 DEF Roomy
<1>12. \E X, Y : Placed(tps, start, LevelKeys(layout, tps), X, Y, drawn)
  BY <1>1, <1>10, <1>11, RoomyPlaced
<1>13. ASSUME NEW p \in drawn PROVE Clear(p, width, top)
  <2>1. PICK i \in DOMAIN tps : \/ IsFlank(tps, start, i, TapX(i), mid, p)
                                \/ IsExit(tps, start, i, TapX(i), top + 17700, p)
                                \/ IsTapAt(p, TapX(i), top + 17400) \/ IsTapAt(p, TapX(i), top + 18000)
    BY <1>4, <1>8 DEF ColumnsAt
  <2> DEFINE x == TapX(i)
  <2>2. x \in Nat /\ 480 <= x /\ x + 480 <= width
    BY <1>1, <1>6
  <2> HIDE DEF x
  <2>3. IsFlank(tps, start, i, x, mid, p) => Clear(p, width, top)
    BY <1>3, <1>9, <2>2, FlankClear
  <2>4. ASSUME NEW y \in {top + 17400, top + 17700, top + 18000}
        PROVE  IsExit(tps, start, i, x, y, p) \/ IsTapAt(p, x, y) => Clear(p, width, top)
    <3>1. y \in Nat /\ top + 480 <= y /\ y + 480 <= top + 20400
      OBVIOUS
    <3>2. QED
      BY <2>2, <3>1, ExitClear, TapClear
  <2>5. /\ IsExit(tps, start, i, x, top + 17700, p) => Clear(p, width, top)
        /\ IsTapAt(p, x, top + 17400) \/ IsTapAt(p, x, top + 18000) => Clear(p, width, top)
    BY <2>4
  <2>6. QED
    BY <2>1, <2>3, <2>5 DEF x
<1>14. QED
  BY <1>12, <1>13 DEF DrawnWell, drawn, lv, layout

\* A level with a main and a transfer bus.
LEMMA MainAndTransferDrawn ==
    ASSUME NEW name \in NameSet, NEW kv \in Voltages \cup OddVoltages,
           NEW tps \in Seq(TapSet), NEW start \in Nat, ~Refuses("main_and_transfer", tps),
           NEW top \in Nat, NEW width \in Nat,
           StripWidth(Build(name, kv, "main_and_transfer", tps, start)) <= width
    PROVE  DrawnWell("main_and_transfer", tps, start, width, top,
                     Draw(Build(name, kv, "main_and_transfer", tps, start), top))
<1> DEFINE layout == "main_and_transfer"
           lv == Build(name, kv, layout, tps, start)
           drawn == Draw(lv, top)
           n == Len(tps)
           mid == top + 10200
           tieY == top + 5160
           rail == top + Px(50)
           FX == [m \in 1 .. n + 1 |-> TapX(m)]
           FY == [m \in 1 .. n + 1 |-> IF m <= n THEN mid ELSE tieY]
           EY == [m \in 1 .. n |-> top + 17700]
           tie == Breakers(lv)[n + 1]
           flank == Flanked(tie, TapX(n + 1), (rail + TransferY(top)) \div 2)
<1>1. n \in Nat /\ DOMAIN tps = 1 .. n /\ n > 0 /\ BreakerCount(layout, tps) = n + 1
  BY DEF Refuses, BreakerCount, Width
<1>2. lv.taps = tps /\ lv.layout = layout
  BY TapsOfBuild
<1>3. rail \in Nat /\ mid \in Nat /\ 2 * mid = rail + top + 17400 /\ mid >= 1560
  <2>1. Px(50) = 3000
    BY Lengths
  <2>2. QED
    BY <2>1
<1>4. drawn = Columns(lv, rail, top) \cup flank
  BY <1>2 DEF Draw, DrawMainAndTransfer
<1>5. TapX(n + 1) + 8400 + 9600 <= width
  <2> DEFINE x == TapX(n + 1)
  <2>1. StripWidth(lv) = LeftMargin + (x + TapPitch)
    <3> HIDE DEF lv
    <3>1. QED
      BY <1>2 DEF StripWidth
  <2>2. x \in Nat
    <3>1. n + 1 \in Nat \ {0}
      BY <1>1
    <3> HIDE DEF n
    <3>2. QED
      BY <3>1, TapPlace
  <2>3. StripWidth(lv) <= width
    OBVIOUS
  <2> HIDE DEF lv, x
  <2>4. x + 8400 + 9600 <= width
    BY <2>1, <2>2, <2>3, Lengths
  <2>5. QED
    BY <2>4 DEF x
<1>6. /\ \A m \in 1 .. n + 1 : FX[m] = TapX(m) /\ FY[m] = IF m <= n THEN mid ELSE tieY
      /\ \A m \in 1 .. n : EY[m] = top + 17700
  OBVIOUS
<1>7. ColumnsAt(tps, start, top, mid, Columns(lv, rail, top))
  <2> HIDE DEF mid, rail
  <2>1. layout \in {"single_bus", "main_and_transfer"}
    OBVIOUS
  <2> HIDE DEF layout
  <2>2. ~Refuses(layout, tps)
    BY DEF layout
  <2>3. QED
    BY <1>3, <2>1, <2>2, ColumnMarks
<1>8. tie.name = CbrName(start + (n + 1) - 1)
  <2> DEFINE t == Breakers(lv)
             N == BreakerCount(layout, tps)
  <2>1. t \in Seq(Devices) /\ Len(t) = N /\ \A m \in 1 .. N : t[m].name = CbrName(start + m - 1)
    <3>1. layout \in Layouts /\ ~Refuses(layout, tps)
      BY DEF Layouts
    <3> HIDE DEF layout
    <3>2. QED
      BY <3>1, BreakersListed
  <2>2. N = n + 1 /\ n + 1 \in 1 .. N
    BY <1>1
  <2> HIDE DEF t, N
  <2>3. QED
    BY <2>1, <2>2 DEF t
<1>9. (rail + TransferY(top)) \div 2 = tieY
  <2>1. TransferY(top) = top + 7320 /\ Px(50) = 3000
    BY Lengths, SMTT(60) DEF TransferY
  <2>2. QED
    BY <2>1
<1>10. mid = top + 10200 /\ tieY = top + 5160
  OBVIOUS
<1> HIDE DEF lv, drawn, n, mid, rail, FX, FY, EY, tie, tieY, flank
<1>11. \A m \in 1 .. n + 1 : TapX(m) \in Nat /\ TapX(m) >= 480 /\ TapX(m) + 480 <= width
  <2> SUFFICES ASSUME NEW m \in 1 .. n + 1 PROVE TapX(m) \in Nat /\ TapX(m) >= 480 /\ TapX(m) + 480 <= width
    OBVIOUS
  <2> DEFINE l == n + 1
  <2>1. m \in Nat \ {0} /\ l \in Nat \ {0} /\ m <= l
    BY <1>1
  <2>2. TapX(l) + 8400 + 9600 <= width
    BY <1>5
  <2> HIDE DEF l
  <2>3. TapX(m) <= TapX(l)
    BY <2>1, TapsFar
  <2>3a. TapX(m) \in Nat /\ TapX(m) >= 9600
    BY <2>1, TapPlace
  <2>3b. TapX(l) \in Nat
    <3>1. l \in Nat \ {0}
      BY <2>1
    <3>2. QED
      BY <3>1, TapPlace
  <2>4. QED
    BY <2>2, <2>3, <2>3a, <2>3b
<1>12. \A p : p \in flank <=> IsFlank(tps, start, n + 1, TapX(n + 1), tieY, p)
  <2> DEFINE l == n + 1
  <2>1. l \in 1 .. n + 1
    BY <1>1
  <2>2. TapX(l) \in Int /\ tieY \in Int
    BY <1>10, <1>11, <2>1
  <2>3. flank = Flanked(tie, TapX(l), tieY) /\ tie.name = CbrName(start + l - 1)
    BY <1>8, <1>9 DEF flank
  <2> HIDE DEF l
  <2>4. \A p : p \in flank <=> IsFlank(tps, start, l, TapX(l), tieY, p)
    BY <2>2, <2>3, FlankMarks
  <2>5. QED
    BY <2>4 DEF l
<1>13. /\ n + 1 \in 1 .. n + 1 /\ FX[n + 1] = TapX(n + 1) /\ FY[n + 1] = tieY
       /\ \A m \in 1 .. n : m \in 1 .. n + 1 /\ FX[m] = TapX(m) /\ FY[m] = mid
       /\ \A m \in 1 .. n + 1 : m \in 1 .. n \/ m = n + 1
  BY <1>1, <1>6
<1>14. DrawnAt(layout, tps, start, FX, FY, FX, EY, drawn)
  <2>1. \A i \in 1 .. n : \A p : IsTapAt(p, TapX(i), top + 17400) \/ IsTapAt(p, TapX(i), top + 18000)
                                   => p.what = "tap"
    BY DEF IsTapAt
  <2> DEFINE l == n + 1
             cols == Columns(lv, rail, top)
  <2>2. /\ l \in 1 .. l /\ FX[l] = TapX(l) /\ FY[l] = tieY
        /\ \A m \in 1 .. n : m \in 1 .. l /\ FX[m] = TapX(m) /\ FY[m] = mid /\ EY[m] = top + 17700
        /\ \A m \in 1 .. l : m \in 1 .. n \/ m = l
        /\ \A p : p \in flank <=> IsFlank(tps, start, l, TapX(l), tieY, p)
        /\ BreakerCount(layout, tps) = l
    BY <1>1, <1>6, <1>12, <1>13
  <2>3. \A p : p \in drawn <=> p \in cols \/ p \in flank
    BY <1>4
  <2> HIDE DEF l, cols
  <2>4. ASSUME NEW p \in drawn
        PROVE  \/ p.what = "tap"
               \/ \E m \in 1 .. l : IsFlank(tps, start, m, FX[m], FY[m], p)
               \/ \E i \in DOMAIN tps : IsExit(tps, start, i, FX[i], EY[i], p)
    <3>1. CASE p \in flank
      <4>1. IsFlank(tps, start, l, FX[l], FY[l], p)
        BY <2>2, <3>1
      <4>2. QED
        BY <2>2, <4>1
    <3>2. CASE p \in cols
      BY <1>1, <1>7, <2>1, <2>2, <3>2 DEF ColumnsAt, cols
    <3>3. QED
      BY <2>3, <3>1, <3>2
  <2>5. ASSUME NEW m \in 1 .. l, NEW p, IsFlank(tps, start, m, FX[m], FY[m], p) PROVE p \in drawn
    <3>1. CASE m = l
      BY <2>2, <2>3, <2>5, <3>1
    <3>2. CASE m \in 1 .. n
      <4>1. IsFlank(tps, start, m, TapX(m), mid, p)
        BY <2>2, <2>5, <3>2
      <4>2. p \in cols
        BY <1>1, <1>7, <3>2, <4>1 DEF ColumnsAt, cols
      <4>3. QED
        BY <2>3, <4>2
    <3>3. QED
      BY <2>2, <3>1, <3>2
  <2>6. ASSUME NEW i \in DOMAIN tps, NEW p, IsExit(tps, start, i, FX[i], EY[i], p) PROVE p \in drawn
    <3>1. IsExit(tps, start, i, TapX(i), top + 17700, p)
      BY <1>1, <2>2, <2>6
    <3>2. p \in cols
      BY <1>7, <3>1 DEF ColumnsAt, cols
    <3>3. QED
      BY <2>3, <3>2
  <2>7. QED
    BY <2>2, <2>4, <2>5, <2>6 DEF DrawnAt
<1>15. Roomy(n + 1, DOMAIN tps, FX, FY, FX, EY)
  <2>1. \A m, l \in 1 .. n + 1 : m # l => Far(FX[m], FX[l])
    <3> SUFFICES ASSUME NEW m \in 1 .. n + 1, NEW l \in 1 .. n + 1, m # l PROVE Far(FX[m], FX[l])
      OBVIOUS
    <3>1. m \in Nat \ {0} /\ l \in Nat \ {0} /\ FX[m] = TapX(m) /\ FX[l] = TapX(l)
      BY <1>1, <1>6
    <3>2. QED
      BY <3>1, TapsFar
  <2>2. \A m \in 1 .. n + 1 : FX[m] \in Nat /\ FY[m] \in Nat /\ FY[m] >= 1560 /\ FY[m] <= mid
    BY <1>3, <1>6, <1>10, <1>11
  <2>3. \A m \in 1 .. n : /\ EY[m] \in Nat /\ EY[m] = top + 17700 /\ m \in 1 .. n + 1
    BY <1>1, <1>6
  <2>4. top + 17700 >= mid + 2520 /\ mid \in Nat
    BY <1>10
  <2> DEFINE N == n + 1
  <2> HIDE DEF N
  <2>5. /\ \A m, l \in 1 .. N : m # l => Far(FX[m], FX[l])
        /\ \A m \in 1 .. N : FX[m] \in Nat /\ FY[m] \in Nat /\ FY[m] >= 1560 /\ FY[m] <= mid
        /\ \A m \in DOMAIN tps : EY[m] \in Nat /\ EY[m] = top + 17700 /\ m \in 1 .. N
    BY <1>1, <2>1, <2>2, <2>3 DEF N
  <2>6. \A m \in 1 .. N, i \in DOMAIN tps : EY[i] >= FY[m] + 2520
    BY <2>4, <2>5
  <2>7. Roomy(N, DOMAIN tps, FX, FY, FX, EY)
    BY <2>5, <2>6 DEF Roomy
  <2>8. QED
    BY <2>7 DEF N
<1>16. \E X, Y : Placed(tps, start, LevelKeys(layout, tps), X, Y, drawn)
  BY <1>1, <1>14, <1>15, RoomyPlaced
<1>17. ASSUME NEW m \in 1 .. n + 1, NEW y \in {mid, tieY}, NEW p, IsFlank(tps, start, m, TapX(m), y, p)
       PROVE  Clear(p, width, top)
  <2> DEFINE x == TapX(m)
  <2>1. x \in Nat /\ 480 <= x /\ x + 480 <= width
    BY <1>11
  <2>2. y \in Nat /\ top + 2040 <= y /\ y + 2040 <= top + 20400
    BY <1>10
  <2> HIDE DEF x
  <2>3. IsFlank(tps, start, m, x, y, p)
    BY <1>17 DEF x
  <2>4. QED
    BY <2>1, <2>2, <2>3, FlankClear
<1>18. ASSUME NEW p \in drawn PROVE Clear(p, width, top)
  <2>1. CASE p \in flank
    <3>1. IsFlank(tps, start, n + 1, TapX(n + 1), tieY, p) /\ n + 1 \in 1 .. n + 1
      BY <1>12, <1>13, <2>1
    <3>2. QED
      BY <1>17, <3>1
  <2>2. CASE p \in Columns(lv, rail, top)
    <3>1. PICK i \in DOMAIN tps : \/ IsFlank(tps, start, i, TapX(i), mid, p)
                                  \/ IsExit(tps, start, i, TapX(i), top + 17700, p)
                                  \/ IsTapAt(p, TapX(i), top + 17400) \/ IsTapAt(p, TapX(i), top + 18000)
      BY <1>7, <2>2 DEF ColumnsAt
    <3>2. i \in 1 .. n + 1
      BY <1>1
    <3> DEFINE x == TapX(i)
    <3>3. x \in Nat /\ 480 <= x /\ x + 480 <= width
      BY <1>11, <3>2
    <3>4. IsFlank(tps, start, i, x, mid, p) => Clear(p, width, top)
      BY <1>17, <3>2
    <3> HIDE DEF x
    <3>5. ASSUME NEW y \in {top + 17400, top + 17700, top + 18000}
          PROVE  IsExit(tps, start, i, x, y, p) \/ IsTapAt(p, x, y) => Clear(p, width, top)
      <4>1. y \in Nat /\ top + 480 <= y /\ y + 480 <= top + 20400
        OBVIOUS
      <4>2. QED
        BY <3>3, <4>1, ExitClear, TapClear
    <3>6. /\ IsExit(tps, start, i, x, top + 17700, p) => Clear(p, width, top)
          /\ IsTapAt(p, x, top + 17400) \/ IsTapAt(p, x, top + 18000) => Clear(p, width, top)
      BY <3>5
    <3>7. QED
      BY <3>1, <3>4, <3>6 DEF x
  <2>3. QED
    BY <1>4, <2>1, <2>2
<1>19. QED
  BY <1>16, <1>18 DEF DrawnWell, drawn, lv, layout

-----------------------------------------------------------------------------
(* A breaker and a half. *)

BreakerY(top, k) == top + 1800 + (2 * k - 1) * 2800
SlotY(top, k) == top + 1800 + 2 * k * 2800

\* The places in a diameter.
LEMMA Slots ==
    ASSUME NEW top \in Nat
    PROVE  /\ BreakerY(top, 1) = top + 4600 /\ BreakerY(top, 2) = top + 10200 /\ BreakerY(top, 3) = top + 15800
           /\ SlotY(top, 1) = top + 7400 /\ SlotY(top, 2) = top + 13000
BY DEF BreakerY, SlotY

\* Where a diameter is.
LEMMA DiameterPlace ==
    ASSUME NEW d \in Nat \ {0}
    PROVE  DiameterX(d) = 9600 + (d - 1) * 13200 /\ DiameterX(d) \in Nat /\ DiameterX(d) >= 9600
<1>1. DiameterX(d) = 9600 + (d - 1) * 13200
  BY Lengths DEF DiameterX
<1>2. QED
  BY <1>1

\* Two diameters are far from each other, and from the exits of each other.
LEMMA DiametersFar ==
    ASSUME NEW d \in Nat \ {0}, NEW e \in Nat \ {0}
    PROVE  /\ d < e => DiameterX(d) + 13200 <= DiameterX(e)
           /\ d <= e => DiameterX(d) <= DiameterX(e)
<1>1. DiameterX(d) = 9600 + (d - 1) * 13200
  BY DiameterPlace
<1>2. DiameterX(e) = 9600 + (e - 1) * 13200
  BY DiameterPlace
<1>3. QED
  BY <1>1, <1>2

\* The breakers and taps of a diameter, by their numbers in the level.
BreakerNo(d, k) == 3 * d - 3 + k
TapNo(d, k) == 2 * d - 2 + k

\* One diameter: three breakers, two taps.
DiameterAt(tps, start, top, d, drawn) ==
    /\ \A p \in drawn :
         \/ \E k \in 1 .. 3 : IsFlank(tps, start, BreakerNo(d, k), DiameterX(d), BreakerY(top, k), p)
         \/ \E k \in 1 .. 2 : \/ IsExit(tps, start, TapNo(d, k), DiameterX(d) + 900, SlotY(top, k), p)
                              \/ IsTapAt(p, DiameterX(d), SlotY(top, k))
                              \/ IsTapAt(p, DiameterX(d) + 1800, SlotY(top, k))
    /\ \A k \in 1 .. 3 : \A p :
         IsFlank(tps, start, BreakerNo(d, k), DiameterX(d), BreakerY(top, k), p) => p \in drawn
    /\ \A k \in 1 .. 2 : \A p :
         IsExit(tps, start, TapNo(d, k), DiameterX(d) + 900, SlotY(top, k), p) => p \in drawn

\* The three breakers of a diameter.
ThreeBreakers(cbs, start, d) == \A k \in 1 .. 3 : cbs[k].name = CbrName(start + BreakerNo(d, k) - 1)

DiameterSymbols(tps, top, d, cbs) ==
    (UNION {Flanked(cbs[k], DiameterX(d), BreakerY(top, k)) : k \in 1 .. 3})
    \cup UNION {TapWithExit(tps[TapNo(d, k)], DiameterX(d), SlotY(top, k), 1800, 0) : k \in 1 .. 2}

\* What the drawer draws for a diameter.
LEMMA DiameterMarks ==
    ASSUME NEW tps \in Seq(TapSet), NEW start \in Nat, NEW top \in Nat, NEW d \in Nat \ {0}, 2 * d <= Len(tps),
           NEW cbs, ThreeBreakers(cbs, start, d)
    PROVE  DiameterAt(tps, start, top, d, DiameterSymbols(tps, top, d, cbs))
<1> DEFINE x == DiameterX(d)
           F(k) == Flanked(cbs[k], x, BreakerY(top, k))
           T(k) == TapWithExit(tps[TapNo(d, k)], x, SlotY(top, k), 1800, 0)
           FF == UNION {F(k) : k \in 1 .. 3}
           TT == UNION {T(k) : k \in 1 .. 2}
           all == FF \cup TT
<1>0. all = DiameterSymbols(tps, top, d, cbs)
  BY DEF DiameterSymbols
<1>1. x \in Nat
  <2>1. d \in Nat \ {0}
    OBVIOUS
  <2>2. DiameterX(d) \in Nat
    BY <2>1, DiameterPlace
  <2>3. QED
    BY <2>2
<1>2. \A p : (p \in FF <=> \E k \in 1 .. 3 : p \in F(k)) /\ (p \in TT <=> \E k \in 1 .. 2 : p \in T(k))
  <2> HIDE DEF F, T
  <2>1. QED
    OBVIOUS
<1>3. ASSUME NEW k \in 1 .. 3
      PROVE  \A p : p \in F(k) <=> IsFlank(tps, start, BreakerNo(d, k), x, BreakerY(top, k), p)
  <2> DEFINE m == BreakerNo(d, k)
             b == cbs[k]
             y == BreakerY(top, k)
  <2>1. b.name = CbrName(start + m - 1)
    BY DEF ThreeBreakers
  <2>2. y \in Int /\ x \in Int
    BY <1>1 DEF BreakerY
  <2> HIDE DEF m, b, x, y
  <2>3. \A p : p \in Flanked(b, x, y) <=> IsFlank(tps, start, m, x, y, p)
    BY <2>1, <2>2, FlankMarks
  <2>4. QED
    BY <2>3 DEF b, m, y
<1>4. ASSUME NEW k \in 1 .. 2
      PROVE  /\ \A p \in T(k) : \/ IsExit(tps, start, TapNo(d, k), x + 900, SlotY(top, k), p)
                                \/ IsTapAt(p, x, SlotY(top, k)) \/ IsTapAt(p, x + 1800, SlotY(top, k))
             /\ \A p : IsExit(tps, start, TapNo(d, k), x + 900, SlotY(top, k), p) => p \in T(k)
  <2> DEFINE i == TapNo(d, k)
             y == SlotY(top, k)
             ex == x + 900
             tx == x + 1800
  <2>1. i \in DOMAIN tps
    BY DEF TapNo
  <2>2. y \in Int
    BY DEF SlotY
  <2> HIDE DEF y, i, x
  <2>3. StubPlaces(x, y, 1800, 0, ex, y, tx, y)
    BY <1>1, <2>2 DEF StubPlaces
  <2> HIDE DEF ex, tx
  <2>4. /\ \A p \in TapWithExit(tps[i], x, y, 1800, 0) :
              IsExit(tps, start, i, ex, y, p) \/ IsTapAt(p, x, y) \/ IsTapAt(p, tx, y)
        /\ \A p : IsExit(tps, start, i, ex, y, p) => p \in TapWithExit(tps[i], x, y, 1800, 0)
    BY <2>1, <2>3, ExitMarks
  <2>5. QED
    BY <2>4 DEF i, y, ex, tx
<1>5. \A p : p \in all <=> p \in FF \/ p \in TT
  OBVIOUS
<1> HIDE DEF F, T, FF, TT, x, all
<1>6. DiameterAt(tps, start, top, d, all)
  <2>1. ASSUME NEW p \in all
        PROVE  \/ \E k \in 1 .. 3 : IsFlank(tps, start, BreakerNo(d, k), x, BreakerY(top, k), p)
               \/ \E k \in 1 .. 2 : \/ IsExit(tps, start, TapNo(d, k), x + 900, SlotY(top, k), p)
                                    \/ IsTapAt(p, x, SlotY(top, k)) \/ IsTapAt(p, x + 1800, SlotY(top, k))
    <3>1. CASE p \in FF
      BY <1>2, <1>3, <3>1
    <3>2. CASE p \in TT
      BY <1>2, <1>4, <3>2
    <3>3. QED
      BY <1>5, <3>1, <3>2
  <2>2. ASSUME NEW k \in 1 .. 3, NEW p, IsFlank(tps, start, BreakerNo(d, k), x, BreakerY(top, k), p) PROVE p \in all
    BY <1>2, <1>3, <1>5, <2>2
  <2>3. ASSUME NEW k \in 1 .. 2, NEW p, IsExit(tps, start, TapNo(d, k), x + 900, SlotY(top, k), p)
        PROVE  p \in all
    BY <1>2, <1>4, <1>5, <2>3
  <2>4. QED
    BY <2>1, <2>2, <2>3 DEF DiameterAt, x
<1>7. QED
  BY <1>0, <1>6

\* Breaker m is in diameter (m + 2) \div 3, tap i in diameter (i + 1) \div 2.
LEMMA InDiameter ==
    ASSUME NEW D \in Nat
    PROVE  /\ \A d \in 1 .. D, k \in 1 .. 3 :
                BreakerNo(d, k) \in 1 .. 3 * D /\ (BreakerNo(d, k) + 2) \div 3 = d /\ ((BreakerNo(d, k) - 1) % 3) + 1 = k
           /\ \A d \in 1 .. D, k \in 1 .. 2 :
                TapNo(d, k) \in 1 .. 2 * D /\ (TapNo(d, k) + 1) \div 2 = d /\ ((TapNo(d, k) - 1) % 2) + 1 = k
           /\ \A m \in 1 .. 3 * D : \E d \in 1 .. D, k \in 1 .. 3 : m = BreakerNo(d, k)
           /\ \A i \in 1 .. 2 * D : \E d \in 1 .. D, k \in 1 .. 2 : i = TapNo(d, k)
<1> USE DEF BreakerNo, TapNo
<1>1. ASSUME NEW d \in 1 .. D, NEW k \in 1 .. 3
      PROVE  3 * d - 3 + k \in 1 .. 3 * D /\ (3 * d - 3 + k + 2) \div 3 = d /\ ((3 * d - 3 + k - 1) % 3) + 1 = k
  <2>1. CASE k = 1
    BY <2>1
  <2>2. CASE k = 2
    BY <2>2
  <2>3. CASE k = 3
    BY <2>3
  <2>4. QED
    BY <2>1, <2>2, <2>3
<1>2. ASSUME NEW d \in 1 .. D, NEW k \in 1 .. 2
      PROVE  2 * d - 2 + k \in 1 .. 2 * D /\ (2 * d - 2 + k + 1) \div 2 = d /\ ((2 * d - 2 + k - 1) % 2) + 1 = k
  <2>1. CASE k = 1
    BY <2>1
  <2>2. CASE k = 2
    BY <2>2
  <2>3. QED
    BY <2>1, <2>2
<1>3. ASSUME NEW m \in 1 .. 3 * D PROVE \E d \in 1 .. D, k \in 1 .. 3 : m = 3 * d - 3 + k
  <2> DEFINE d == (m + 2) \div 3
             k == m - (3 * d - 3)
  <2>1. d \in 1 .. D /\ k \in 1 .. 3 /\ m = 3 * d - 3 + k
    OBVIOUS
  <2> HIDE DEF d, k
  <2>2. QED
    BY <2>1
<1>4. ASSUME NEW i \in 1 .. 2 * D PROVE \E d \in 1 .. D, k \in 1 .. 2 : i = 2 * d - 2 + k
  <2> DEFINE d == (i + 1) \div 2
             k == i - (2 * d - 2)
  <2>1. d \in 1 .. D /\ k \in 1 .. 2 /\ i = 2 * d - 2 + k
    OBVIOUS
  <2> HIDE DEF d, k
  <2>2. QED
    BY <2>1
<1>5. QED
  BY <1>1, <1>2, <1>3, <1>4

HalvesAt(tps, start, top, drawn) ==
    \E S : /\ \A d \in 1 .. Len(tps) \div 2 : DiameterAt(tps, start, top, d, S[d])
           /\ \A p : p \in drawn <=> \E d \in 1 .. Len(tps) \div 2 : p \in S[d]

\* The diameters are drawn next to each other.
LEMMA HalvesMarks ==
    ASSUME NEW name \in NameSet, NEW kv \in Voltages \cup OddVoltages,
           NEW tps \in Seq(TapSet), NEW start \in Nat, ~Refuses("breaker_and_half", tps), NEW top \in Nat
    PROVE  HalvesAt(tps, start, top, Draw(Build(name, kv, "breaker_and_half", tps, start), top))
<1> DEFINE layout == "breaker_and_half"
           lv == Build(name, kv, layout, tps, start)
           t == Breakers(lv)
           D == Len(tps) \div 2
           N == BreakerCount(layout, tps)
           S == [d \in 1 .. D |-> DiameterSymbols(tps, top, d, SubSeq(t, 3 * d - 2, 3 * d))]
<1>1. Len(tps) \in Nat /\ DOMAIN tps = 1 .. Len(tps) /\ D \in Nat /\ 2 * D <= Len(tps) /\ N = 3 * D
  BY DEF BreakerCount
<1>2. lv.taps = tps /\ lv.layout = layout
  BY TapsOfBuild
<1>3. t \in Seq(Devices) /\ Len(t) = N /\ \A m \in 1 .. N : t[m].name = CbrName(start + m - 1)
  <2>1. layout \in Layouts /\ ~Refuses(layout, tps)
    BY DEF Layouts
  <2> HIDE DEF layout
  <2>2. QED
    BY <2>1, BreakersListed
<1>4. \A d \in 1 .. D : S[d] = DiameterSymbols(tps, top, d, SubSeq(t, 3 * d - 2, 3 * d))
  OBVIOUS
<1> DEFINE topY == top + Px(30)
           seg == (StripHeight - Px(60)) \div 6
           diam(d) == (UNION {Flanked(SubSeq(t, 3 * d - 2, 3 * d)[k], DiameterX(d), topY + (2 * k - 1) * seg) :
                                k \in 1 .. 3})
                      \cup UNION {TapWithExit(lv.taps[2 * d - 2 + k], DiameterX(d), topY + 2 * k * seg,
                                              Px(30), 0) : k \in 1 .. 2}
<1>5. Draw(lv, top) = UNION {diam(d) : d \in 1 .. Len(lv.taps) \div 2}
  BY <1>2 DEF Draw, DrawBreakerAndHalf
<1>6. topY = top + 1800 /\ seg = 2800 /\ Px(30) = 1800
  <2>1. Px(30) = 1800 /\ Px(60) = 3600 /\ StripHeight = 20400
    BY Lengths
  <2>2. QED
    BY <2>1
<1> HIDE DEF lv, t, N, topY, seg, layout, D
<1>7. ASSUME NEW d \in 1 .. D PROVE diam(d) = S[d]
  <2> HIDE DEF S
  <2>1. \A k : /\ topY + (2 * k - 1) * seg = BreakerY(top, k) /\ topY + 2 * k * seg = SlotY(top, k)
               /\ lv.taps[2 * d - 2 + k] = tps[2 * d - 2 + k]
    BY <1>2, <1>6 DEF BreakerY, SlotY
  <2> DEFINE cbs == SubSeq(t, 3 * d - 2, 3 * d)
             x == DiameterX(d)
             F(k) == Flanked(cbs[k], x, topY + (2 * k - 1) * seg)
             G(k) == Flanked(cbs[k], x, BreakerY(top, k))
             T(k) == TapWithExit(lv.taps[2 * d - 2 + k], x, topY + 2 * k * seg, Px(30), 0)
             U(k) == TapWithExit(tps[2 * d - 2 + k], x, SlotY(top, k), 1800, 0)
  <2>2. diam(d) = (UNION {F(k) : k \in 1 .. 3}) \cup UNION {T(k) : k \in 1 .. 2}
    OBVIOUS
  <2>3. DiameterSymbols(tps, top, d, cbs) = (UNION {G(k) : k \in 1 .. 3}) \cup UNION {U(k) : k \in 1 .. 2}
    BY DEF DiameterSymbols, TapNo
  <2>4. \A k : F(k) = G(k) /\ T(k) = U(k)
    <3> HIDE DEF x, cbs
    <3>1. QED
      BY <1>6, <2>1
  <2> HIDE DEF F, G, T, U, diam
  <2>5. diam(d) = DiameterSymbols(tps, top, d, cbs)
    BY <2>2, <2>3, <2>4
  <2>6. QED
    BY <1>4, <2>5
<1>8. \A p : p \in Draw(lv, top) <=> \E d \in 1 .. D : p \in S[d]
  <2> HIDE DEF S, diam
  <2>1. Draw(lv, top) = UNION {diam(d) : d \in 1 .. D}
    BY <1>2, <1>5 DEF D
  <2>2. \A p : p \in Draw(lv, top) <=> \E d \in 1 .. D : p \in diam(d)
    BY <2>1
  <2>3. QED
    BY <1>7, <2>2
<1>9. ASSUME NEW d \in 1 .. D PROVE DiameterAt(tps, start, top, d, S[d])
  <2> DEFINE cbs == SubSeq(t, 3 * d - 2, 3 * d)
  <2>1. d \in Nat \ {0} /\ 2 * d <= Len(tps)
    BY <1>1
  <2>2. ASSUME NEW k \in 1 .. 3 PROVE cbs[k].name = CbrName(start + BreakerNo(d, k) - 1)
    <3>1. 3 * d - 2 \in 1 .. Len(t) /\ 3 * d \in 1 .. Len(t) /\ 3 * d - 2 <= 3 * d
      BY <1>1, <1>3
    <3>2. cbs[k] = t[3 * d - 2 + k - 1]
      <4> DEFINE a == 3 * d - 2
                 b == 3 * d
      <4>1. a \in Nat /\ b \in Nat /\ k \in 1 .. 1 + b - a
        BY <1>1
      <4> HIDE DEF a, b
      <4>2. SubSeq(t, a, b)[k] = t[a + k - 1]
        BY <1>3, <4>1
      <4>3. QED
        BY <4>2 DEF a, b
    <3> DEFINE m == BreakerNo(d, k)
    <3>3. m \in 1 .. N /\ m = 3 * d - 2 + k - 1
      BY <1>1 DEF BreakerNo
    <3> HIDE DEF m, cbs
    <3>4. cbs[k].name = CbrName(start + m - 1)
      BY <1>3, <3>2, <3>3
    <3>5. QED
      BY <3>4 DEF m
  <2> HIDE DEF cbs, S
  <2>3. ThreeBreakers(cbs, start, d)
    BY <2>2 DEF ThreeBreakers
  <2>4. DiameterAt(tps, start, top, d, DiameterSymbols(tps, top, d, cbs))
    BY <2>1, <2>3, DiameterMarks
  <2>5. QED
    BY <1>4, <2>4 DEF cbs
<1> HIDE DEF S, diam
<1>10. HalvesAt(tps, start, top, Draw(lv, top))
  BY <1>8, <1>9 DEF D, HalvesAt
<1>11. QED
  BY <1>10 DEF lv, layout

\* Where the breakers and exits of D diameters are.
HalfTable(D, top, FX, FY, EX, EY) ==
    /\ \A m \in 1 .. 3 * D : \E d \in 1 .. D, k \in 1 .. 3 : m = BreakerNo(d, k)
    /\ \A i \in 1 .. 2 * D : \E d \in 1 .. D, k \in 1 .. 2 : i = TapNo(d, k)
    /\ \A d \in 1 .. D, k \in 1 .. 3 :
         /\ BreakerNo(d, k) \in 1 .. 3 * D
         /\ FX[BreakerNo(d, k)] = DiameterX(d) /\ FY[BreakerNo(d, k)] = BreakerY(top, k)
    /\ \A d \in 1 .. D, k \in 1 .. 2 :
         /\ TapNo(d, k) \in 1 .. 2 * D
         /\ EX[TapNo(d, k)] = DiameterX(d) + 900 /\ EY[TapNo(d, k)] = SlotY(top, k)

\* There is such a table.
LEMMA HalfTables ==
    ASSUME NEW D \in Nat, NEW top \in Nat
    PROVE  \E FX, FY, EX, EY : HalfTable(D, top, FX, FY, EX, EY)
<1> DEFINE FX == [m \in 1 .. 3 * D |-> DiameterX((m + 2) \div 3)]
           FY == [m \in 1 .. 3 * D |-> BreakerY(top, ((m - 1) % 3) + 1)]
           EX == [i \in 1 .. 2 * D |-> DiameterX((i + 1) \div 2) + 900]
           EY == [i \in 1 .. 2 * D |-> SlotY(top, ((i - 1) % 2) + 1)]
<1>1. /\ \A m \in 1 .. 3 * D : FX[m] = DiameterX((m + 2) \div 3) /\ FY[m] = BreakerY(top, ((m - 1) % 3) + 1)
      /\ \A i \in 1 .. 2 * D : EX[i] = DiameterX((i + 1) \div 2) + 900 /\ EY[i] = SlotY(top, ((i - 1) % 2) + 1)
  OBVIOUS
<1> HIDE DEF FX, FY, EX, EY
<1>2. ASSUME NEW d \in 1 .. D, NEW k \in 1 .. 3
      PROVE  BreakerNo(d, k) \in 1 .. 3 * D /\ FX[BreakerNo(d, k)] = DiameterX(d) /\ FY[BreakerNo(d, k)] = BreakerY(top, k)
  <2> DEFINE m == BreakerNo(d, k)
  <2>1. m \in 1 .. 3 * D /\ (m + 2) \div 3 = d /\ ((m - 1) % 3) + 1 = k
    BY InDiameter, ZenonT(60)
  <2> HIDE DEF m
  <2>2. FX[m] = DiameterX(d) /\ FY[m] = BreakerY(top, k)
    BY <1>1, <2>1, ZenonT(60)
  <2>3. QED
    BY <2>1, <2>2 DEF m
<1>3. ASSUME NEW d \in 1 .. D, NEW k \in 1 .. 2
      PROVE  TapNo(d, k) \in 1 .. 2 * D /\ EX[TapNo(d, k)] = DiameterX(d) + 900 /\ EY[TapNo(d, k)] = SlotY(top, k)
  <2> DEFINE i == TapNo(d, k)
  <2>1. i \in 1 .. 2 * D /\ (i + 1) \div 2 = d /\ ((i - 1) % 2) + 1 = k
    BY InDiameter
  <2> HIDE DEF i
  <2>2. EX[i] = DiameterX((i + 1) \div 2) + 900 /\ EY[i] = SlotY(top, ((i - 1) % 2) + 1)
    BY <1>1, <2>1
  <2>3. EX[i] = DiameterX(d) + 900 /\ EY[i] = SlotY(top, k)
    BY <2>1, <2>2
  <2>4. QED
    BY <2>1, <2>3 DEF i
<1>4. /\ \A m \in 1 .. 3 * D : \E d \in 1 .. D, k \in 1 .. 3 : m = BreakerNo(d, k)
      /\ \A i \in 1 .. 2 * D : \E d \in 1 .. D, k \in 1 .. 2 : i = TapNo(d, k)
  BY InDiameter
<1>5. HalfTable(D, top, FX, FY, EX, EY)
  BY <1>2, <1>3, <1>4 DEF HalfTable
<1>6. QED
  BY <1>5

\* Breaker m of a table, ...
LEMMA HalfBreaker ==
    ASSUME NEW D, NEW top, NEW FX, NEW FY, NEW EX, NEW EY, HalfTable(D, top, FX, FY, EX, EY), NEW m \in 1 .. 3 * D
    PROVE  \E d \in 1 .. D, k \in 1 .. 3 : m = BreakerNo(d, k) /\ FX[m] = DiameterX(d) /\ FY[m] = BreakerY(top, k)
<1>1. PICK d \in 1 .. D, k \in 1 .. 3 : m = BreakerNo(d, k)
  BY DEF HalfTable
<1>2. FX[BreakerNo(d, k)] = DiameterX(d) /\ FY[BreakerNo(d, k)] = BreakerY(top, k)
  BY DEF HalfTable
<1>3. QED
  BY <1>1, <1>2

\* ... and exit i.
LEMMA HalfExit ==
    ASSUME NEW D, NEW top, NEW FX, NEW FY, NEW EX, NEW EY, HalfTable(D, top, FX, FY, EX, EY), NEW i \in 1 .. 2 * D
    PROVE  \E d \in 1 .. D, k \in 1 .. 2 : i = TapNo(d, k) /\ EX[i] = DiameterX(d) + 900 /\ EY[i] = SlotY(top, k)
<1>1. PICK d \in 1 .. D, k \in 1 .. 2 : i = TapNo(d, k)
  BY DEF HalfTable
<1>2. EX[TapNo(d, k)] = DiameterX(d) + 900 /\ EY[TapNo(d, k)] = SlotY(top, k)
  BY DEF HalfTable
<1>3. QED
  BY <1>1, <1>2

\* Two diameters are the same or far from each other.
LEMMA DiametersApart ==
    ASSUME NEW d \in Nat \ {0}, NEW e \in Nat \ {0}
    PROVE  /\ DiameterX(d) \in Nat /\ DiameterX(e) \in Nat
           /\ d = e \/ DiameterX(d) + 13200 <= DiameterX(e) \/ DiameterX(e) + 13200 <= DiameterX(d)
<1>1. DiameterX(d) = 9600 + (d - 1) * 13200
  BY DiameterPlace
<1>2. DiameterX(e) = 9600 + (e - 1) * 13200
  BY DiameterPlace
<1>3. QED
  BY <1>1, <1>2

\* The places of a table leave room.
LEMMA HalfRoomy ==
    ASSUME NEW D \in Nat, NEW top \in Nat, NEW FX, NEW FY, NEW EX, NEW EY, HalfTable(D, top, FX, FY, EX, EY)
    PROVE  Roomy(3 * D, 1 .. 2 * D, FX, FY, EX, EY)
<1>1. /\ \A k \in 1 .. 3 : BreakerY(top, k) \in Nat /\ BreakerY(top, k) >= 1560
      /\ \A k \in 1 .. 2 : SlotY(top, k) \in Nat
      /\ \A k, l \in 1 .. 3 : \/ k = l \/ BreakerY(top, k) >= BreakerY(top, l) + 4080
                              \/ BreakerY(top, l) >= BreakerY(top, k) + 4080
      /\ \A k, l \in 1 .. 2 : k = l \/ Far(SlotY(top, k), SlotY(top, l))
      /\ \A k \in 1 .. 3, l \in 1 .. 2 : \/ SlotY(top, l) >= BreakerY(top, k) + 2520
                                         \/ BreakerY(top, k) >= SlotY(top, l) + 2520
  <2>1. /\ BreakerY(top, 1) = top + 4600 /\ BreakerY(top, 2) = top + 10200 /\ BreakerY(top, 3) = top + 15800
        /\ SlotY(top, 1) = top + 7400 /\ SlotY(top, 2) = top + 13000
    BY Slots
  <2>2. /\ \A k \in 1 .. 3 : k = 1 \/ k = 2 \/ k = 3
        /\ \A k \in 1 .. 2 : k = 1 \/ k = 2
    OBVIOUS
  <2>3. QED
    BY <2>1, <2>2 DEF Far
<1>2. \A d \in 1 .. D : d \in Nat \ {0}
  OBVIOUS
<1>3. \A d \in 1 .. D : DiameterX(d) \in Nat
  BY <1>2, DiametersApart
<1>4. \A d, e \in 1 .. D :
         d = e \/ DiameterX(d) + 13200 <= DiameterX(e) \/ DiameterX(e) + 13200 <= DiameterX(d)
  BY <1>2, DiametersApart
<1>5. ASSUME NEW m \in 1 .. 3 * D PROVE FX[m] \in Nat /\ FY[m] \in Nat /\ FY[m] >= 1560
  <2>1. PICK d \in 1 .. D, k \in 1 .. 3 : FX[m] = DiameterX(d) /\ FY[m] = BreakerY(top, k)
    BY HalfBreaker
  <2>2. QED
    BY <1>1, <1>3, <2>1
<1>6. ASSUME NEW i \in 1 .. 2 * D PROVE EX[i] \in Nat /\ EY[i] \in Nat
  <2>1. PICK d \in 1 .. D, k \in 1 .. 2 : EX[i] = DiameterX(d) + 900 /\ EY[i] = SlotY(top, k)
    BY HalfExit
  <2>2. DiameterX(d) \in Nat /\ SlotY(top, k) \in Nat
    BY <1>1, <1>3
  <2>3. QED
    BY <2>1, <2>2
<1>7. ASSUME NEW m \in 1 .. 3 * D, NEW n \in 1 .. 3 * D, m # n
      PROVE  Far(FX[m], FX[n]) \/ FY[m] >= FY[n] + 4080 \/ FY[n] >= FY[m] + 4080
  <2>1. PICK d \in 1 .. D, k \in 1 .. 3 : m = BreakerNo(d, k) /\ FX[m] = DiameterX(d) /\ FY[m] = BreakerY(top, k)
    BY HalfBreaker
  <2>2. PICK e \in 1 .. D, l \in 1 .. 3 : n = BreakerNo(e, l) /\ FX[n] = DiameterX(e) /\ FY[n] = BreakerY(top, l)
    BY HalfBreaker
  <2>3. d # e \/ k # l
    BY <1>7, <2>1, <2>2
  <2>4. CASE k # l
    <3>1. BreakerY(top, k) >= BreakerY(top, l) + 4080 \/ BreakerY(top, l) >= BreakerY(top, k) + 4080
      BY <1>1, <2>4
    <3>2. QED
      BY <2>1, <2>2, <3>1
  <2>5. CASE d # e
    <3> DEFINE x == DiameterX(d)
               y == DiameterX(e)
    <3>1. x \in Nat /\ y \in Nat /\ (x + 13200 <= y \/ y + 13200 <= x)
      BY <1>3, <1>4, <2>5
    <3> HIDE DEF x, y
    <3>2. Far(x, y)
      BY <3>1 DEF Far
    <3>3. QED
      BY <2>1, <2>2, <3>2 DEF x, y
  <2>6. QED
    BY <2>3, <2>4, <2>5
<1>8. ASSUME NEW i \in 1 .. 2 * D, NEW j \in 1 .. 2 * D, i # j
      PROVE  Far(EX[i], EX[j]) \/ Far(EY[i], EY[j])
  <2>1. PICK d \in 1 .. D, k \in 1 .. 2 : i = TapNo(d, k) /\ EX[i] = DiameterX(d) + 900 /\ EY[i] = SlotY(top, k)
    BY HalfExit
  <2>2. PICK e \in 1 .. D, l \in 1 .. 2 : j = TapNo(e, l) /\ EX[j] = DiameterX(e) + 900 /\ EY[j] = SlotY(top, l)
    BY HalfExit
  <2>3. d # e \/ k # l
    BY <1>8, <2>1, <2>2
  <2>4. CASE k # l
    BY <1>1, <2>1, <2>2, <2>4
  <2>5. CASE d # e
    <3> DEFINE x == DiameterX(d)
               y == DiameterX(e)
    <3>1. x \in Nat /\ y \in Nat /\ (x + 13200 <= y \/ y + 13200 <= x)
      BY <1>3, <1>4, <2>5
    <3>2. EX[i] = x + 900 /\ EX[j] = y + 900
      BY <2>1, <2>2
    <3> HIDE DEF x, y
    <3>3. Far(EX[i], EX[j])
      BY <3>1, <3>2 DEF Far
    <3>4. QED
      BY <3>3
  <2>6. QED
    BY <2>3, <2>4, <2>5
<1>9. ASSUME NEW m \in 1 .. 3 * D, NEW i \in 1 .. 2 * D
      PROVE  EY[i] >= FY[m] + 2520 \/ FY[m] >= EY[i] + 2520
  <2>1. PICK d \in 1 .. D, k \in 1 .. 3 : FX[m] = DiameterX(d) /\ FY[m] = BreakerY(top, k)
    BY HalfBreaker
  <2>2. PICK e \in 1 .. D, l \in 1 .. 2 : EX[i] = DiameterX(e) + 900 /\ EY[i] = SlotY(top, l)
    BY HalfExit
  <2>3. QED
    BY <1>1, <2>1, <2>2
<1> DEFINE N == 3 * D
           T == 1 .. 2 * D
<1>10. /\ \A m \in 1 .. N : FX[m] \in Nat /\ FY[m] \in Nat /\ FY[m] >= 1560
       /\ \A i \in T : EX[i] \in Nat /\ EY[i] \in Nat
       /\ \A m, n \in 1 .. N : m # n => Far(FX[m], FX[n]) \/ FY[m] >= FY[n] + 4080 \/ FY[n] >= FY[m] + 4080
       /\ \A i, j \in T : i # j => Far(EX[i], EX[j]) \/ Far(EY[i], EY[j])
       /\ \A m \in 1 .. N, i \in T : EY[i] >= FY[m] + 2520 \/ FY[m] >= EY[i] + 2520
  BY <1>5, <1>6, <1>7, <1>8, <1>9
<1> HIDE DEF N, T
<1>11. Roomy(N, T, FX, FY, EX, EY)
  BY <1>10 DEF Roomy
<1>12. QED
  BY <1>11 DEF N, T

\* Diameters are drawn as a table says.
LEMMA HalfDrawnAt ==
    ASSUME NEW tps, NEW start, NEW top, NEW D, DOMAIN tps = 1 .. 2 * D, Len(tps) \div 2 = D,
           BreakerCount("breaker_and_half", tps) = 3 * D, NEW drawn, HalvesAt(tps, start, top, drawn),
           NEW FX, NEW FY, NEW EX, NEW EY, HalfTable(D, top, FX, FY, EX, EY)
    PROVE  DrawnAt("breaker_and_half", tps, start, FX, FY, EX, EY, drawn)
<1>1. PICK S : /\ \A d \in 1 .. D : DiameterAt(tps, start, top, d, S[d])
               /\ \A p : p \in drawn <=> \E d \in 1 .. D : p \in S[d]
  BY DEF HalvesAt
<1>2. /\ \A d \in 1 .. D, k \in 1 .. 3 :
           /\ BreakerNo(d, k) \in 1 .. 3 * D
           /\ FX[BreakerNo(d, k)] = DiameterX(d) /\ FY[BreakerNo(d, k)] = BreakerY(top, k)
      /\ \A d \in 1 .. D, k \in 1 .. 2 :
           /\ TapNo(d, k) \in 1 .. 2 * D
           /\ EX[TapNo(d, k)] = DiameterX(d) + 900 /\ EY[TapNo(d, k)] = SlotY(top, k)
  BY DEF HalfTable
<1>3. ASSUME NEW p \in drawn
      PROVE  \/ p.what = "tap"
             \/ \E m \in 1 .. 3 * D : IsFlank(tps, start, m, FX[m], FY[m], p)
             \/ \E i \in 1 .. 2 * D : IsExit(tps, start, i, EX[i], EY[i], p)
  <2>1. PICK d \in 1 .. D : p \in S[d]
    BY <1>1
  <2>2. DiameterAt(tps, start, top, d, S[d])
    BY <1>1
  <2>3. ASSUME NEW k \in 1 .. 3, IsFlank(tps, start, BreakerNo(d, k), DiameterX(d), BreakerY(top, k), p)
        PROVE  \E m \in 1 .. 3 * D : IsFlank(tps, start, m, FX[m], FY[m], p)
    BY <1>2, <2>3, SMTT(60)
  <2>4. ASSUME NEW k \in 1 .. 2, IsExit(tps, start, TapNo(d, k), DiameterX(d) + 900, SlotY(top, k), p)
        PROVE  \E i \in 1 .. 2 * D : IsExit(tps, start, i, EX[i], EY[i], p)
    <3> DEFINE i == TapNo(d, k)
               ex == DiameterX(d) + 900
    <3>1. i \in 1 .. 2 * D /\ EX[i] = ex /\ EY[i] = SlotY(top, k)
      BY <1>2
    <3>2. IsExit(tps, start, i, ex, SlotY(top, k), p)
      BY <2>4
    <3> HIDE DEF i, ex
    <3>3. IsExit(tps, start, i, EX[i], EY[i], p)
      BY <3>1, <3>2
    <3>4. QED
      BY <3>1, <3>3
  <2>5. \A x, y : IsTapAt(p, x, y) => p.what = "tap"
    BY DEF IsTapAt
  <2>6. \/ \E k \in 1 .. 3 : IsFlank(tps, start, BreakerNo(d, k), DiameterX(d), BreakerY(top, k), p)
        \/ \E k \in 1 .. 2 : \/ IsExit(tps, start, TapNo(d, k), DiameterX(d) + 900, SlotY(top, k), p)
                             \/ IsTapAt(p, DiameterX(d), SlotY(top, k))
                             \/ IsTapAt(p, DiameterX(d) + 1800, SlotY(top, k))
    BY <2>1, <2>2 DEF DiameterAt
  <2>7. QED
    BY <2>3, <2>4, <2>5, <2>6
<1>4. ASSUME NEW m \in 1 .. 3 * D, NEW p, IsFlank(tps, start, m, FX[m], FY[m], p) PROVE p \in drawn
  <2>1. PICK d \in 1 .. D, k \in 1 .. 3 :
           m = BreakerNo(d, k) /\ FX[m] = DiameterX(d) /\ FY[m] = BreakerY(top, k)
    BY HalfBreaker
  <2>2. DiameterAt(tps, start, top, d, S[d])
    BY <1>1
  <2>3. p \in S[d]
    BY <1>4, <2>1, <2>2 DEF DiameterAt
  <2>4. QED
    BY <1>1, <2>3
<1>5. ASSUME NEW i \in 1 .. 2 * D, NEW p, IsExit(tps, start, i, EX[i], EY[i], p) PROVE p \in drawn
  <2>1. PICK d \in 1 .. D, k \in 1 .. 2 :
           i = TapNo(d, k) /\ EX[i] = DiameterX(d) + 900 /\ EY[i] = SlotY(top, k)
    BY HalfExit
  <2>2. DiameterAt(tps, start, top, d, S[d])
    BY <1>1
  <2>3. p \in S[d]
    BY <1>5, <2>1, <2>2 DEF DiameterAt
  <2>4. QED
    BY <1>1, <2>3
<1> DEFINE N == 3 * D
           T == 1 .. 2 * D
<1>6. /\ \A p \in drawn : \/ p.what = "tap"
                          \/ \E m \in 1 .. N : IsFlank(tps, start, m, FX[m], FY[m], p)
                          \/ \E i \in T : IsExit(tps, start, i, EX[i], EY[i], p)
      /\ \A m \in 1 .. N : \A p : IsFlank(tps, start, m, FX[m], FY[m], p) => p \in drawn
      /\ \A i \in T : \A p : IsExit(tps, start, i, EX[i], EY[i], p) => p \in drawn
  BY <1>3, <1>4, <1>5
<1>7. BreakerCount("breaker_and_half", tps) = N /\ DOMAIN tps = T
  OBVIOUS
<1> HIDE DEF N, T
<1>8. QED
  BY <1>6, <1>7 DEF DrawnAt

\* A diameter on a strip that is wide enough.
LEMMA DiameterClear ==
    ASSUME NEW tps, NEW start, NEW top \in Nat, NEW d \in Nat, NEW S, DiameterAt(tps, start, top, d, S),
           NEW p \in S, NEW width \in Nat,
           DiameterX(d) \in Nat, DiameterX(d) >= 9600, DiameterX(d) + 13200 <= width
    PROVE  Clear(p, width, top)
<1> DEFINE x == DiameterX(d)
           ex == x + 900
           tx == x + 1800
<1>1. /\ x \in Nat /\ 480 <= x /\ x + 480 <= width
      /\ ex \in Nat /\ 480 <= ex /\ ex + 480 <= width
      /\ tx \in Nat /\ 480 <= tx /\ tx + 480 <= width
  OBVIOUS
<1>2. /\ \A k \in 1 .. 3 : LET y == BreakerY(top, k) IN y \in Nat /\ top + 2040 <= y /\ y + 2040 <= top + 20400
      /\ \A k \in 1 .. 2 : LET y == SlotY(top, k) IN y \in Nat /\ top + 480 <= y /\ y + 480 <= top + 20400
  <2>1. /\ BreakerY(top, 1) = top + 4600 /\ BreakerY(top, 2) = top + 10200 /\ BreakerY(top, 3) = top + 15800
        /\ SlotY(top, 1) = top + 7400 /\ SlotY(top, 2) = top + 13000
    BY Slots
  <2>2. /\ \A k \in 1 .. 3 : k = 1 \/ k = 2 \/ k = 3
        /\ \A k \in 1 .. 2 : k = 1 \/ k = 2
    OBVIOUS
  <2>3. QED
    BY <2>1, <2>2
<1>3. \/ \E k \in 1 .. 3 : IsFlank(tps, start, BreakerNo(d, k), x, BreakerY(top, k), p)
      \/ \E k \in 1 .. 2 : \/ IsExit(tps, start, TapNo(d, k), ex, SlotY(top, k), p)
                           \/ IsTapAt(p, x, SlotY(top, k)) \/ IsTapAt(p, tx, SlotY(top, k))
  BY DEF DiameterAt
<1> HIDE DEF x, ex, tx
<1>4. ASSUME NEW k \in 1 .. 3, IsFlank(tps, start, BreakerNo(d, k), x, BreakerY(top, k), p)
      PROVE  Clear(p, width, top)
  <2> DEFINE m == BreakerNo(d, k)
             y == BreakerY(top, k)
  <2>1. y \in Nat /\ top + 2040 <= y /\ y + 2040 <= top + 20400
    BY <1>2
  <2>2. IsFlank(tps, start, m, x, y, p)
    BY <1>4
  <2> HIDE DEF m, y
  <2>3. QED
    BY <1>1, <2>1, <2>2, FlankClear
<1>5. ASSUME NEW k \in 1 .. 2,
             \/ IsExit(tps, start, TapNo(d, k), ex, SlotY(top, k), p)
             \/ IsTapAt(p, x, SlotY(top, k)) \/ IsTapAt(p, tx, SlotY(top, k))
      PROVE  Clear(p, width, top)
  <2> DEFINE i == TapNo(d, k)
             y == SlotY(top, k)
  <2>1. y \in Nat /\ top + 480 <= y /\ y + 480 <= top + 20400
    BY <1>2
  <2>2. IsExit(tps, start, i, ex, y, p) \/ IsTapAt(p, x, y) \/ IsTapAt(p, tx, y)
    BY <1>5
  <2> HIDE DEF i, y
  <2>3. IsExit(tps, start, i, ex, y, p) => Clear(p, width, top)
    BY <1>1, <2>1, ExitClear
  <2>4. IsTapAt(p, x, y) => Clear(p, width, top)
    BY <1>1, <2>1, TapClear
  <2>5. IsTapAt(p, tx, y) => Clear(p, width, top)
    BY <1>1, <2>1, TapClear
  <2>6. QED
    BY <2>2, <2>3, <2>4, <2>5
<1>6. QED
  BY <1>3, <1>4, <1>5

\* A level with a breaker and a half.
LEMMA BreakerAndHalfDrawn ==
    ASSUME NEW name \in NameSet, NEW kv \in Voltages \cup OddVoltages,
           NEW tps \in Seq(TapSet), NEW start \in Nat, ~Refuses("breaker_and_half", tps),
           NEW top \in Nat, NEW width \in Nat,
           StripWidth(Build(name, kv, "breaker_and_half", tps, start)) <= width
    PROVE  DrawnWell("breaker_and_half", tps, start, width, top,
                     Draw(Build(name, kv, "breaker_and_half", tps, start), top))
<1> DEFINE layout == "breaker_and_half"
           lv == Build(name, kv, layout, tps, start)
           drawn == Draw(lv, top)
           D == Len(tps) \div 2
<1>1. D \in Nat \ {0} /\ DOMAIN tps = 1 .. 2 * D /\ BreakerCount(layout, tps) = 3 * D /\ Len(tps) \div 2 = D
  BY DEF Refuses, BreakerCount
<1>2. lv.taps = tps /\ lv.layout = layout
  BY TapsOfBuild
<1>3. HalvesAt(tps, start, top, drawn)
  BY HalvesMarks
<1> DEFINE w == StripWidth(lv)
<1>4. w <= width /\ w = LeftMargin + (DiameterX(D) + DiameterPitch)
  <2>1. w <= width
    OBVIOUS
  <2> HIDE DEF lv
  <2>2. QED
    BY <1>2, <2>1 DEF StripWidth
<1> HIDE DEF lv, drawn, layout, D, w
<1>5. \A d \in 1 .. D : d \in Nat \ {0} /\ d <= D
  BY <1>1
<1>6. DiameterX(D) \in Nat
  BY <1>1, DiameterPlace
<1>7. ASSUME NEW d \in 1 .. D
      PROVE  DiameterX(d) \in Nat /\ DiameterX(d) >= 9600 /\ DiameterX(d) + 13200 <= width
  <2>1. DiameterX(d) \in Nat /\ DiameterX(d) >= 9600
    BY <1>5, DiameterPlace
  <2>2. DiameterX(d) <= DiameterX(D)
    BY <1>1, <1>5, DiametersFar
  <2> DEFINE x == DiameterX(d)
             y == DiameterX(D)
  <2>3. w = 9600 + (y + 13200) /\ w <= width /\ x <= y /\ x \in Nat /\ y \in Nat
    BY <1>4, <1>6, <2>1, <2>2, Lengths
  <2> HIDE DEF x, y
  <2>4. x + 13200 <= width
    BY <2>3
  <2>5. QED
    BY <2>1, <2>4 DEF x
<1>8. PICK FX, FY, EX, EY : HalfTable(D, top, FX, FY, EX, EY)
  BY <1>1, HalfTables
<1>9. DrawnAt(layout, tps, start, FX, FY, EX, EY, drawn)
  BY <1>1, <1>3, <1>8, HalfDrawnAt DEF layout
<1>10. Roomy(BreakerCount(layout, tps), DOMAIN tps, FX, FY, EX, EY)
  <2>1. Roomy(3 * D, 1 .. 2 * D, FX, FY, EX, EY)
    BY <1>1, <1>8, HalfRoomy
  <2>2. QED
    BY <1>1, <2>1
<1>11. \E X, Y : Placed(tps, start, LevelKeys(layout, tps), X, Y, drawn)
  BY <1>9, <1>10, RoomyPlaced
<1>12. ASSUME NEW p \in drawn PROVE Clear(p, width, top)
  <2>1. PICK S : /\ \A d \in 1 .. D : DiameterAt(tps, start, top, d, S[d])
                 /\ \A q : q \in drawn <=> \E d \in 1 .. D : q \in S[d]
    BY <1>1, <1>3 DEF HalvesAt
  <2>2. PICK d \in 1 .. D : p \in S[d]
    BY <2>1
  <2>3. DiameterAt(tps, start, top, d, S[d]) /\ d \in Nat
    BY <1>5, <2>1
  <2>4. QED
    BY <1>7, <2>2, <2>3, DiameterClear
<1>13. QED
  BY <1>11, <1>12 DEF DrawnWell, drawn, lv, layout

-----------------------------------------------------------------------------
(* Rings. *)

\* The length of a tenth of a segment.
Pitch(n, u) == \A t \in Nat : (6 * RingRadius(n) * t) \div (10 * n) = u * t

\* A ring of at most seven taps is less high than a strip, and a tenth of a segment of it has one of three lengths.
LEMMA RingPitch ==
    ASSUME NEW n \in Nat, n >= 3, n <= 7
    PROVE  /\ 2 * (RingRadius(n) + StubLength) <= StripHeight
           /\ \E u \in {648, 720, 960} : Pitch(n, u)
<1>1. StripHeight = 20400 /\ StubLength = 2160
  <2>1. 60 * 36 = 2160
    OBVIOUS
  <2>2. QED
    BY <2>1, Lengths DEF StubLength, Px
<1>2. n \in {3, 4, 5, 6, 7}
  OBVIOUS
<1>3. CASE n = 3
  <2>1. RingRadius(n) = 4800
    BY <1>3 DEF RingRadius, Px
  <2>2. \A t \in Nat : (6 * 4800 * t) \div (10 * 3) = 960 * t
    OBVIOUS
  <2>3. QED
    BY <1>1, <1>3, <2>1, <2>2 DEF Pitch
<1>4. CASE n = 4
  <2>1. RingRadius(n) = 4800
    BY <1>4 DEF RingRadius, Px
  <2>2. \A t \in Nat : (6 * 4800 * t) \div (10 * 4) = 720 * t
    OBVIOUS
  <2>3. QED
    BY <1>1, <1>4, <2>1, <2>2 DEF Pitch
<1>5. CASE n = 5
  <2>1. RingRadius(n) = 5400
    BY <1>5 DEF RingRadius, Px
  <2>2. \A t \in Nat : (6 * 5400 * t) \div (10 * 5) = 648 * t
    OBVIOUS
  <2>3. QED
    BY <1>1, <1>5, <2>1, <2>2 DEF Pitch
<1>6. CASE n = 6
  <2>1. RingRadius(n) = 6480
    BY <1>6 DEF RingRadius, Px
  <2>2. \A t \in Nat : (6 * 6480 * t) \div (10 * 6) = 648 * t
    OBVIOUS
  <2>3. QED
    BY <1>1, <1>6, <2>1, <2>2 DEF Pitch
<1>7. CASE n = 7
  <2>1. RingRadius(n) = 7560
    BY <1>7 DEF RingRadius, Px
  <2>2. \A t \in Nat : (6 * 7560 * t) \div (10 * 7) = 648 * t
    OBVIOUS
  <2>3. QED
    BY <1>1, <1>7, <2>1, <2>2 DEF Pitch
<1>8. QED
  BY <1>2, <1>3, <1>4, <1>5, <1>6, <1>7

\* Where a device is around a ring, and how far from it.
OffBreaker(u) == CASE u = "CBR" -> 0 [] u = "DA" -> -3 [] u = "DB" -> 3 [] OTHER -> -5
Tenth(key) == 10 * key[2] + OffBreaker(key[1])
FromRing(key) == IF key[1] = "D" THEN 756 ELSE 0
RingMark(tps, start, u, key) == Mark(tps, start, key, u * Tenth(key), FromRing(key))

\* The symbols of a ring.
RingAt(tps, start, u, drawn) ==
    /\ \A p \in drawn : p.what = "tap" \/ \E key \in LevelKeys("ring_bus", tps) : p = RingMark(tps, start, u, key)
    /\ \A key \in LevelKeys("ring_bus", tps) : RingMark(tps, start, u, key) \in drawn

\* No two devices are less than two tenths of a segment apart.
LEMMA TenthsApart ==
    ASSUME NEW tps \in Seq(TapSet), NEW key \in LevelKeys("ring_bus", tps)
    PROVE  /\ Tenth(key) \in Nat
           /\ \A other \in LevelKeys("ring_bus", tps) :
                key # other => Tenth(key) >= Tenth(other) + 2 \/ Tenth(other) >= Tenth(key) + 2
<1> DEFINE K == LevelKeys("ring_bus", tps)
           n == Len(tps)
<1>1. n \in Nat /\ DOMAIN tps = 1 .. n /\ BreakerCount("ring_bus", tps) = n
  BY DEF BreakerCount
<1>2. ASSUME NEW k \in K
      PROVE  \E w \in {"CBR", "DA", "DB", "D"}, m \in 1 .. n : k = <<w, m>>
  BY <1>1, LevelKeyShape DEF BreakerKinds
<1> HIDE DEF K, n
<1>3. \A w \in {"CBR", "DA", "DB", "D"}, m \in 1 .. n : Tenth(<<w, m>>) = 10 * m + OffBreaker(w)
  BY DEF Tenth
<1>4. /\ \A w \in {"CBR", "DA", "DB", "D"} : OffBreaker(w) \in {0, -3, 3, -5}
      /\ \A w, v \in {"CBR", "DA", "DB", "D"} : w # v => OffBreaker(w) # OffBreaker(v)
  <2>1. OffBreaker("CBR") = 0 /\ OffBreaker("DA") = -3 /\ OffBreaker("DB") = 3 /\ OffBreaker("D") = -5
    BY DEF OffBreaker
  <2>2. QED
    BY <2>1
<1>5. PICK w \in {"CBR", "DA", "DB", "D"}, m \in 1 .. n : key = <<w, m>>
  BY <1>2 DEF K
<1> DEFINE a == OffBreaker(w)
           s == Tenth(key)
<1>6. m \in Nat /\ m >= 1 /\ a \in {0, -3, 3, -5} /\ s = 10 * m + a
  BY <1>1, <1>3, <1>4, <1>5
<1>7. ASSUME NEW other \in K, key # other
      PROVE  Tenth(key) >= Tenth(other) + 2 \/ Tenth(other) >= Tenth(key) + 2
  <2>1. PICK v \in {"CBR", "DA", "DB", "D"}, l \in 1 .. n : other = <<v, l>>
    BY <1>2
  <2> DEFINE b == OffBreaker(v)
             t == Tenth(other)
  <2>2. l \in Nat /\ l >= 1 /\ b \in {0, -3, 3, -5} /\ t = 10 * l + b
    BY <1>1, <1>3, <1>4, <2>1
  <2>3. a # b \/ m # l
    BY <1>4, <1>5, <1>7, <2>1
  <2> HIDE DEF b, t
  <2> HIDE DEF a, s
  <2>4. s >= t + 2 \/ t >= s + 2
    BY <1>6, <2>2, <2>3
  <2>5. QED
    BY <2>4 DEF s, t
<1>7a. Tenth(key) \in Nat
  <2> HIDE DEF a, s
  <2>1. s \in Nat
    BY <1>6
  <2>2. QED
    BY <2>1 DEF s
<1>8. QED
  BY <1>7, <1>7a DEF K

\* The devices of a ring are far from each other.
LEMMA RingPlaced ==
    ASSUME NEW tps \in Seq(TapSet), NEW start, NEW u \in {648, 720, 960}, NEW drawn, RingAt(tps, start, u, drawn)
    PROVE  \E X, Y : Placed(tps, start, LevelKeys("ring_bus", tps), X, Y, drawn)
<1> DEFINE K == LevelKeys("ring_bus", tps)
           X == [key \in K |-> u * Tenth(key)]
           Y == [key \in K |-> FromRing(key)]
<1>1. \A key \in K : X[key] = u * Tenth(key) /\ Y[key] = FromRing(key)
  OBVIOUS
<1>2. /\ \A p \in drawn : p.what = "tap" \/ \E key \in K : p = RingMark(tps, start, u, key)
      /\ \A key \in K : RingMark(tps, start, u, key) \in drawn
  BY DEF RingAt
<1>3. /\ \A key \in K : Tenth(key) \in Nat
      /\ \A key, other \in K :
           key # other => Tenth(key) >= Tenth(other) + 2 \/ Tenth(other) >= Tenth(key) + 2
  BY TenthsApart
<1> HIDE DEF K, X, Y
<1>4. \A key \in K : RingMark(tps, start, u, key) = Mark(tps, start, key, X[key], Y[key])
  BY <1>1 DEF RingMark
<1>5. ASSUME NEW key \in K PROVE X[key] \in Nat /\ Y[key] \in Nat
  <2>1. FromRing(key) \in Nat
    BY DEF FromRing
  <2>2. Tenth(key) \in Nat
    BY <1>3
  <2> DEFINE t == Tenth(key)
  <2> HIDE DEF t
  <2>3. u * t \in Nat
    BY <2>2 DEF t
  <2>4. QED
    BY <1>1, <2>1, <2>3 DEF t
<1>6. ASSUME NEW key \in K, NEW other \in K, key # other
      PROVE  Far(X[key], X[other])
  <2> DEFINE s == Tenth(key)
             t == Tenth(other)
  <2>1. s \in Nat /\ t \in Nat /\ (s >= t + 2 \/ t >= s + 2)
    BY <1>3, <1>6
  <2>2. X[key] = u * s /\ X[other] = u * t
    BY <1>1
  <2> HIDE DEF s, t
  <2>3. u * s >= u * t + 960 \/ u * t >= u * s + 960
    <3>1. CASE u = 648
      BY <2>1, <3>1
    <3>2. CASE u = 720
      BY <2>1, <3>2
    <3>3. CASE u = 960
      BY <2>1, <3>3
    <3>4. QED
      BY <3>1, <3>2, <3>3
  <2>4. QED
    BY <2>2, <2>3 DEF Far
<1>7. Placed(tps, start, K, X, Y, drawn)
  BY <1>2, <1>4, <1>5, <1>6 DEF Placed
<1>8. QED
  BY <1>7 DEF K

\* One segment of a ring.
RingSegment(tps, bs, i, u) ==
    {BreakerSymbol(bs[i], u * (10 * i), 0), DisconnectSymbol(Suffixed(bs[i].name, "DA"), u * (10 * i - 3), 0),
     DisconnectSymbol(Suffixed(bs[i].name, "DB"), u * (10 * i + 3), 0)}
    \cup (IF tps[i].kind = "transformer" THEN {}
          ELSE {DisconnectSymbol(Suffixed(tps[i].name, "D"), u * (10 * i - 5), (StubLength * 35) \div 100)})
    \cup {TapSymbol(tps[i], u * (10 * i - 5), StubLength)}

RingNames(bs, start, i) == bs[i].name = CbrName(start + i - 1)
SegmentKeys(tps, i) == (BreakerKinds \X {i}) \cup (IF HasExit(tps[i]) THEN {<<"D", i>>} ELSE {})
SegmentAt(tps, start, u, i, S) ==
    /\ \A p \in S : p.what = "tap" \/ \E key \in SegmentKeys(tps, i) : p = RingMark(tps, start, u, key)
    /\ \A key \in SegmentKeys(tps, i) : RingMark(tps, start, u, key) \in S

\* Its symbols: those of a breaker and of the exit of a tap, and the tap.
LEMMA SegmentMarks ==
    ASSUME NEW tps \in Seq(TapSet), NEW start, NEW bs, NEW i \in DOMAIN tps, NEW u,
           RingNames(bs, start, i)
    PROVE  SegmentAt(tps, start, u, i, RingSegment(tps, bs, i, u))
<1>1. HasExit(tps[i]) <=> tps[i].kind # "transformer"
  <2>1. tps[i] \in TapSet
    OBVIOUS
  <2>2. QED
    BY <2>1 DEF HasExit, TapSet, TapKinds
<1>2. (StubLength * 35) \div 100 = 756
  <2>1. Px(36) = 2160
    BY DEF Px
  <2>2. (2160 * 35) \div 100 = 756
    OBVIOUS
  <2>3. QED
    BY <2>1, <2>2 DEF StubLength
<1>3. /\ OffBreaker("CBR") = 0 /\ OffBreaker("DA") = -3 /\ OffBreaker("DB") = 3 /\ OffBreaker("D") = -5
      /\ FromRing(<<"CBR", i>>) = 0 /\ FromRing(<<"DA", i>>) = 0 /\ FromRing(<<"DB", i>>) = 0
      /\ FromRing(<<"D", i>>) = 756
  BY DEF OffBreaker, FromRing
<1>4. i \in Nat
  OBVIOUS
<1>5. /\ Tenth(<<"CBR", i>>) = 10 * i /\ Tenth(<<"DA", i>>) = 10 * i - 3 /\ Tenth(<<"DB", i>>) = 10 * i + 3
      /\ Tenth(<<"D", i>>) = 10 * i - 5
  BY <1>3, <1>4 DEF Tenth
<1>6. /\ BreakerSymbol(bs[i], u * (10 * i), 0) = RingMark(tps, start, u, <<"CBR", i>>)
      /\ DisconnectSymbol(Suffixed(bs[i].name, "DA"), u * (10 * i - 3), 0) = RingMark(tps, start, u, <<"DA", i>>)
      /\ DisconnectSymbol(Suffixed(bs[i].name, "DB"), u * (10 * i + 3), 0) = RingMark(tps, start, u, <<"DB", i>>)
      /\ DisconnectSymbol(Suffixed(tps[i].name, "D"), u * (10 * i - 5), 756) = RingMark(tps, start, u, <<"D", i>>)
  <2> DEFINE t1 == u * (10 * i)
             t2 == u * (10 * i - 3)
             t3 == u * (10 * i + 3)
             t4 == u * (10 * i - 5)
  <2>1. /\ RingMark(tps, start, u, <<"CBR", i>>) = Mark(tps, start, <<"CBR", i>>, t1, 0)
        /\ RingMark(tps, start, u, <<"DA", i>>) = Mark(tps, start, <<"DA", i>>, t2, 0)
        /\ RingMark(tps, start, u, <<"DB", i>>) = Mark(tps, start, <<"DB", i>>, t3, 0)
        /\ RingMark(tps, start, u, <<"D", i>>) = Mark(tps, start, <<"D", i>>, t4, 756)
    BY <1>3, <1>5 DEF RingMark
  <2> HIDE DEF t1, t2, t3, t4
  <2>2. /\ BreakerSymbol(bs[i], t1, 0) = Mark(tps, start, <<"CBR", i>>, t1, 0)
        /\ DisconnectSymbol(Suffixed(bs[i].name, "DA"), t2, 0) = Mark(tps, start, <<"DA", i>>, t2, 0)
        /\ DisconnectSymbol(Suffixed(bs[i].name, "DB"), t3, 0) = Mark(tps, start, <<"DB", i>>, t3, 0)
        /\ DisconnectSymbol(Suffixed(tps[i].name, "D"), t4, 756) = Mark(tps, start, <<"D", i>>, t4, 756)
    BY Lengths DEF BreakerSymbol, DisconnectSymbol, Mark, KeyType, KeyName, RingNames
  <2>3. QED
    BY <2>1, <2>2 DEF t1, t2, t3, t4
<1>7. TapSymbol(tps[i], u * (10 * i - 5), StubLength).what = "tap"
  BY DEF TapSymbol, Symbol
<1> DEFINE tap == TapSymbol(tps[i], u * (10 * i - 5), StubLength)
           R(w) == RingMark(tps, start, u, <<w, i>>)
<1>8. RingSegment(tps, bs, i, u) =
        {R("CBR"), R("DA"), R("DB")} \cup (IF tps[i].kind = "transformer" THEN {} ELSE {R("D")}) \cup {tap}
  BY <1>2, <1>6 DEF RingSegment
<1>9. tap.what = "tap" /\ BreakerKinds = {"CBR", "DA", "DB"}
  BY <1>7 DEF BreakerKinds
<1> HIDE DEF tap, R
<1>10. /\ \A p \in RingSegment(tps, bs, i, u) :
            p.what = "tap" \/ (\E w \in BreakerKinds : p = R(w)) \/ (HasExit(tps[i]) /\ p = R("D"))
       /\ \A w \in BreakerKinds : R(w) \in RingSegment(tps, bs, i, u)
       /\ HasExit(tps[i]) => R("D") \in RingSegment(tps, bs, i, u)
  BY <1>1, <1>8, <1>9
<1>11. \A key : key \in SegmentKeys(tps, i) <=> \/ key = <<"CBR", i>> \/ key = <<"DA", i>> \/ key = <<"DB", i>>
                                                \/ (HasExit(tps[i]) /\ key = <<"D", i>>)
  BY DEF SegmentKeys, BreakerKinds
<1> DEFINE S == RingSegment(tps, bs, i, u)
           M(key) == RingMark(tps, start, u, key)
<1>12. /\ \A p \in S : p.what = "tap" \/ p = M(<<"CBR", i>>) \/ p = M(<<"DA", i>>) \/ p = M(<<"DB", i>>)
                      \/ (HasExit(tps[i]) /\ p = M(<<"D", i>>))
       /\ M(<<"CBR", i>>) \in S /\ M(<<"DA", i>>) \in S /\ M(<<"DB", i>>) \in S
       /\ HasExit(tps[i]) => M(<<"D", i>>) \in S
  BY <1>9, <1>10 DEF R
<1> HIDE DEF S, M
<1>13. \A p \in S : p.what = "tap" \/ \E key \in SegmentKeys(tps, i) : p = M(key)
  BY <1>11, <1>12
<1>14. \A key \in SegmentKeys(tps, i) : M(key) \in S
  BY <1>11, <1>12
<1>15. QED
  BY <1>13, <1>14 DEF SegmentAt, S, M

Segments(tps, start, u, n, SS, drawn) ==
    /\ DOMAIN tps = 1 .. n /\ BreakerCount("ring_bus", tps) = n
    /\ \A i \in 1 .. n : SegmentAt(tps, start, u, i, SS[i])
    /\ \A p : p \in drawn <=> \E i \in 1 .. n : p \in SS[i]

\* The segments together.
LEMMA SegmentsJoined ==
    ASSUME NEW tps \in Seq(TapSet), NEW start, NEW u, NEW n, NEW SS, NEW drawn, Segments(tps, start, u, n, SS, drawn)
    PROVE  RingAt(tps, start, u, drawn)
<1> DEFINE K == LevelKeys("ring_bus", tps)
<1>0. /\ DOMAIN tps = 1 .. n /\ BreakerCount("ring_bus", tps) = n
      /\ \A i \in 1 .. n : SegmentAt(tps, start, u, i, SS[i])
      /\ \A p : p \in drawn <=> \E i \in 1 .. n : p \in SS[i]
  BY DEF Segments
<1>1. \A key : key \in K <=> \E i \in 1 .. n : key \in SegmentKeys(tps, i)
  <2>1. \A key : key \in K <=> \/ \E w \in BreakerKinds, m \in 1 .. n : key = <<w, m>>
                               \/ \E i \in 1 .. n : HasExit(tps[i]) /\ key = <<"D", i>>
    <3>1. \A key : key \in LevelKeys("ring_bus", tps) <=>
                     \/ \E w \in BreakerKinds, m \in 1 .. BreakerCount("ring_bus", tps) : key = <<w, m>>
                     \/ \E i \in DOMAIN tps : HasExit(tps[i]) /\ key = <<"D", i>>
      BY LevelKeyShape
    <3>2. QED
      BY <1>0, <3>1
  <2>2. \A key, i : key \in SegmentKeys(tps, i) <=> \/ \E w \in BreakerKinds : key = <<w, i>>
                                                   \/ (HasExit(tps[i]) /\ key = <<"D", i>>)
    BY DEF SegmentKeys
  <2> HIDE DEF K
  <2>3. QED
    BY <2>1, <2>2
<1> HIDE DEF K
<1>2. \A i \in 1 .. n :
        /\ \A p \in SS[i] : p.what = "tap" \/ \E key \in SegmentKeys(tps, i) : p = RingMark(tps, start, u, key)
        /\ \A key \in SegmentKeys(tps, i) : RingMark(tps, start, u, key) \in SS[i]
  BY <1>0 DEF SegmentAt
<1>3. /\ \A p \in drawn : p.what = "tap" \/ \E key \in K : p = RingMark(tps, start, u, key)
      /\ \A key \in K : RingMark(tps, start, u, key) \in drawn
  BY <1>0, <1>1, <1>2
<1>4. QED
  BY <1>3 DEF RingAt, K

\* A level with a ring.
LEMMA RingDrawn ==
    ASSUME NEW name \in NameSet, NEW kv \in Voltages \cup OddVoltages,
           NEW tps \in Seq(TapSet), NEW start \in Nat, ~Refuses("ring_bus", tps), Len(tps) <= 7, NEW top
    PROVE  \E X, Y : Placed(tps, start, LevelKeys("ring_bus", tps), X, Y,
                            Draw(Build(name, kv, "ring_bus", tps, start), top))
<1> DEFINE layout == "ring_bus"
           lv == Build(name, kv, layout, tps, start)
           bs == Breakers(lv)
           n == Len(tps)
           drawn == Draw(lv, top)
<1>1. n \in Nat /\ n >= 3 /\ n <= 7 /\ DOMAIN tps = 1 .. n /\ BreakerCount(layout, tps) = n
  BY DEF Refuses, BreakerCount
<1>2. lv.taps = tps /\ lv.layout = layout
  BY TapsOfBuild
<1>3. \A m \in 1 .. n : bs[m].name = CbrName(start + m - 1)
  <2> DEFINE t == Breakers(lv)
             N == BreakerCount(layout, tps)
  <2>1. t \in Seq(Devices) /\ Len(t) = N /\ \A m \in 1 .. N : t[m].name = CbrName(start + m - 1)
    <3>1. layout \in Layouts /\ ~Refuses(layout, tps)
      BY DEF Layouts
    <3> HIDE DEF layout
    <3>2. QED
      BY <3>1, BreakersListed
  <2>2. N = n
    BY <1>1
  <2> HIDE DEF t, N
  <2>3. QED
    BY <2>1, <2>2 DEF t
<1>4. PICK u \in {648, 720, 960} : Pitch(n, u)
  BY <1>1, RingPitch
<1>5. drawn = UNION {RingSegment(tps, bs, i, u) : i \in 1 .. n}
  <2> DEFINE Turn(t) == (6 * RingRadius(Len(lv.taps)) * t) \div (10 * Len(lv.taps))
             Part(i) == {BreakerSymbol(Breakers(lv)[i], Turn(10 * i), 0),
                         DisconnectSymbol(Suffixed(Breakers(lv)[i].name, "DA"), Turn(10 * i - 3), 0),
                         DisconnectSymbol(Suffixed(Breakers(lv)[i].name, "DB"), Turn(10 * i + 3), 0)}
                        \cup (IF lv.taps[i].kind = "transformer" THEN {}
                              ELSE {DisconnectSymbol(Suffixed(lv.taps[i].name, "D"), Turn(10 * i - 5),
                                                     (StubLength * 35) \div 100)})
                        \cup {TapSymbol(lv.taps[i], Turn(10 * i - 5), StubLength)}
  <2>0. drawn = DrawRingBus(lv, top)
    <3> HIDE DEF lv
    <3>1. QED
      BY <1>2 DEF Draw
  <2>1. drawn = UNION {Part(i) : i \in 1 .. Len(lv.taps)}
    <3> HIDE DEF lv, drawn
    <3>1. QED
      BY <2>0 DEF DrawRingBus
  <2> HIDE DEF lv
  <2>2. ASSUME NEW i \in 1 .. n PROVE Part(i) = RingSegment(tps, bs, i, u)
    <3>1. 10 * i \in Nat /\ 10 * i - 3 \in Nat /\ 10 * i + 3 \in Nat /\ 10 * i - 5 \in Nat
      BY <1>1
    <3>2. /\ Turn(10 * i) = u * (10 * i) /\ Turn(10 * i - 3) = u * (10 * i - 3)
          /\ Turn(10 * i + 3) = u * (10 * i + 3) /\ Turn(10 * i - 5) = u * (10 * i - 5)
      <4> DEFINE a == 10 * i
                 b == 10 * i - 3
                 c == 10 * i + 3
                 d == 10 * i - 5
      <4>1. a \in Nat /\ b \in Nat /\ c \in Nat /\ d \in Nat
        BY <3>1
      <4> HIDE DEF a, b, c, d, n
      <4>2. Turn(a) = u * a /\ Turn(b) = u * b /\ Turn(c) = u * c /\ Turn(d) = u * d
        BY <1>2, <1>4, <4>1, ZenonT(60) DEF Pitch, n
      <4>3. QED
        BY <4>2 DEF a, b, c, d
    <3> HIDE DEF Turn
    <3>3. QED
      BY <1>2, <3>2 DEF RingSegment, bs
  <2>3. drawn = UNION {Part(i) : i \in 1 .. n}
    <3> HIDE DEF Part, drawn
    <3>1. QED
      BY <1>2, <2>1
  <2> HIDE DEF Part, drawn, n
  <2>4. QED
    BY <2>2, <2>3
<1> HIDE DEF drawn, bs, lv
<1>6. \A i \in 1 .. n : SegmentAt(tps, start, u, i, RingSegment(tps, bs, i, u))
  <2> SUFFICES ASSUME NEW i \in 1 .. n PROVE SegmentAt(tps, start, u, i, RingSegment(tps, bs, i, u))
    OBVIOUS
  <2>1. i \in DOMAIN tps /\ RingNames(bs, start, i)
    BY <1>1, <1>3 DEF RingNames
  <2>2. QED
    BY <2>1, SegmentMarks
<1> DEFINE SS == [i \in 1 .. n |-> RingSegment(tps, bs, i, u)]
<1>7. \A i \in 1 .. n : SegmentAt(tps, start, u, i, SS[i])
  BY <1>6
<1>8. \A p : p \in drawn <=> \E i \in 1 .. n : p \in SS[i]
  BY <1>5
<1> HIDE DEF SS, n
<1>9. RingAt(tps, start, u, drawn)
  <2>1. Segments(tps, start, u, n, SS, drawn)
    BY <1>1, <1>7, <1>8 DEF Segments
  <2>2. QED
    BY <2>1, SegmentsJoined
<1>10. QED
  BY <1>9, RingPlaced DEF drawn, lv, layout

\* Any level is drawn as DiagramFits wants it, but for a ring of more than seven taps.
LEMMA LevelDrawn ==
    ASSUME NEW name \in NameSet, NEW kv \in Voltages \cup OddVoltages, NEW layout \in Layouts,
           NEW tps \in Seq(TapSet), NEW start \in Nat, ~Refuses(layout, tps),
           layout = "ring_bus" => Len(tps) <= 7, NEW top \in Nat, NEW width \in Nat,
           StripWidth(Build(name, kv, layout, tps, start)) <= width
    PROVE  LevelFits(Build(name, kv, layout, tps, start), top, width)
<1> DEFINE lv == Build(name, kv, layout, tps, start)
           drawn == Draw(lv, top)
           s == lv.breakers
           K == LevelKeys(layout, tps)
           Fits == ShowsDevices(drawn, s) /\ NoneOverlap(Switches(drawn))
<1>1. lv.taps = tps /\ lv.layout = layout
  BY TapsOfBuild
<1>2. s \in Seq(Devices) /\ Keyed(tps, start, s, K)
  BY BuiltDevices, KeyedLevel
<1>3. ASSUME NEW X, NEW Y, Placed(tps, start, K, X, Y, drawn) PROVE Fits
  <2> HIDE DEF drawn, s, K, lv
  <2>1. QED
    BY <1>2, <1>3, ShownWhenPlaced
<1>4. CASE layout = "ring_bus"
  <2>1. \E X, Y : Placed(tps, start, K, X, Y, drawn)
    BY <1>4, RingDrawn
  <2>2. Fits
    <3> HIDE DEF drawn, K, Fits
    <3>1. QED
      BY <1>3, <2>1
  <2>3. 2 * (RingRadius(Len(tps)) + StubLength) <= StripHeight
    <3>1. Len(tps) \in Nat /\ Len(tps) >= 3 /\ Len(tps) <= 7
      BY <1>4 DEF Refuses
    <3>2. QED
      BY <3>1, RingPitch
  <2> HIDE DEF lv
  <2>4. QED
    BY <1>1, <1>4, <2>2, <2>3 DEF LevelFits, lv
<1>5. CASE layout # "ring_bus"
  <2>1. DrawnWell(layout, tps, start, width, top, drawn)
    BY <1>5, SingleBusDrawn, MainAndTransferDrawn, BreakerAndHalfDrawn DEF Layouts
  <2>2. (\E X, Y : Placed(tps, start, K, X, Y, drawn)) /\ \A p \in drawn : Clear(p, width, top)
    <3> HIDE DEF drawn
    <3>1. QED
      BY <2>1 DEF DrawnWell
  <2>3. Fits
    <3> HIDE DEF drawn, K, Fits
    <3>1. QED
      BY <1>3, <2>2
  <2>4. \A p \in drawn : Inside(p, width, top, StripHeight)
    <3> HIDE DEF drawn
    <3>1. QED
      BY <2>2, ClearInside
  <2> HIDE DEF lv
  <2>5. QED
    BY <1>1, <1>5, <2>3, <2>4 DEF LevelFits, lv
<1>6. QED
  BY <1>4, <1>5

-----------------------------------------------------------------------------
(* The ranks of the levels. *)

\* The levels that come before another.
Above(lvs, k) == {j \in DOMAIN lvs : lvs[j].kv > lvs[k].kv \/ (lvs[j].kv = lvs[k].kv /\ j < k)}

\* A level that comes before another has fewer before it.
LEMMA FewerAbove ==
    ASSUME NEW lvs, NEW n \in Nat, DOMAIN lvs = 1 .. n, \A k \in DOMAIN lvs : lvs[k].kv \in Int
    PROVE  /\ \A k \in 1 .. n : Cardinality(Above(lvs, k)) \in 0 .. n - 1
           /\ \A j, k \in 1 .. n : j \in Above(lvs, k) => Cardinality(Above(lvs, j)) < Cardinality(Above(lvs, k))
           /\ \A j, k \in 1 .. n : j # k => j \in Above(lvs, k) \/ k \in Above(lvs, j)
<1>1. \A j, k \in 1 .. n : j \in Above(lvs, k) <=> lvs[j].kv > lvs[k].kv \/ (lvs[j].kv = lvs[k].kv /\ j < k)
  BY DEF Above
<1>2. \A k \in 1 .. n : Above(lvs, k) \subseteq 1 .. n /\ k \notin Above(lvs, k)
  BY DEF Above
<1>3. IsFiniteSet(1 .. n) /\ Cardinality(1 .. n) = n
  BY FS_Interval
<1>4. \A k \in 1 .. n : lvs[k].kv \in Int
  OBVIOUS
<1>5. ASSUME NEW A, NEW B, IsFiniteSet(B), A \subseteq B, A # B
      PROVE  IsFiniteSet(A) /\ Cardinality(A) \in Nat /\ Cardinality(A) < Cardinality(B)
  <2>1. IsFiniteSet(A) /\ Cardinality(A) <= Cardinality(B) /\ (Cardinality(A) = Cardinality(B) => A = B)
    BY <1>5, FS_Subset
  <2>2. Cardinality(A) \in Nat /\ Cardinality(B) \in Nat
    BY <1>5, <2>1, FS_CardinalityType
  <2>3. QED
    BY <1>5, <2>1, <2>2
<1>6. ASSUME NEW k \in 1 .. n
      PROVE  IsFiniteSet(Above(lvs, k)) /\ Cardinality(Above(lvs, k)) \in 0 .. n - 1
  <2>1. Above(lvs, k) \subseteq 1 .. n /\ Above(lvs, k) # 1 .. n
    BY <1>2
  <2>2. IsFiniteSet(Above(lvs, k)) /\ Cardinality(Above(lvs, k)) \in Nat /\ Cardinality(Above(lvs, k)) < n
    BY <1>3, <1>5, <2>1
  <2>3. QED
    BY <2>2
<1>7. ASSUME NEW j \in 1 .. n, NEW k \in 1 .. n, j \in Above(lvs, k)
      PROVE  Cardinality(Above(lvs, j)) < Cardinality(Above(lvs, k))
  <2>1. ASSUME NEW i \in Above(lvs, j) PROVE i \in Above(lvs, k)
    <3>1. i \in 1 .. n
      BY <1>2
    <3> DEFINE a == lvs[i].kv
               b == lvs[j].kv
               c == lvs[k].kv
    <3>2. a \in Int /\ b \in Int /\ c \in Int
      BY <1>4, <3>1
    <3>3. (a > b \/ (a = b /\ i < j)) /\ (b > c \/ (b = c /\ j < k))
      BY <1>1, <1>7, <2>1, <3>1
    <3> HIDE DEF a, b, c
    <3>4. a > c \/ (a = c /\ i < k)
      BY <3>1, <3>2, <3>3
    <3>5. QED
      BY <1>1, <3>1, <3>4 DEF a, c
  <2>2. j \notin Above(lvs, j)
    BY <1>2
  <2>3. Above(lvs, j) \subseteq Above(lvs, k) /\ Above(lvs, j) # Above(lvs, k)
    BY <1>7, <2>1, <2>2
  <2>4. IsFiniteSet(Above(lvs, k))
    BY <1>6
  <2>5. QED
    BY <1>5, <2>3, <2>4
<1>8. ASSUME NEW j \in 1 .. n, NEW k \in 1 .. n, j # k PROVE j \in Above(lvs, k) \/ k \in Above(lvs, j)
  <2> DEFINE b == lvs[j].kv
             c == lvs[k].kv
  <2>1. b \in Int /\ c \in Int
    BY <1>4
  <2>2. /\ j \in Above(lvs, k) <=> b > c \/ (b = c /\ j < k)
        /\ k \in Above(lvs, j) <=> c > b \/ (c = b /\ k < j)
    BY <1>1
  <2> HIDE DEF b, c
  <2>3. QED
    BY <1>8, <2>1, <2>2
<1>9. QED
  BY <1>6, <1>7, <1>8

\* The strips of the levels: where they begin, how many there are, and that they are different ones.
StripsOf(lvs, n) ==
    /\ \A k \in 1 .. n : Rank(lvs, k) \in 1 .. n
    /\ \A j, k \in 1 .. n : j # k => Rank(lvs, j) # Rank(lvs, k)

\* Every level has a rank of its own.
LEMMA RanksDiffer ==
    ASSUME NEW lvs, NEW n \in Nat, DOMAIN lvs = 1 .. n, \A k \in DOMAIN lvs : lvs[k].kv \in Int
    PROVE  StripsOf(lvs, n)
<1> DEFINE c(k) == Cardinality(Above(lvs, k))
<1>1. \A k : Rank(lvs, k) = 1 + c(k)
  BY DEF Rank, Above
<1>2. /\ \A k \in 1 .. n : c(k) \in 0 .. n - 1
      /\ \A j, k \in 1 .. n : j \in Above(lvs, k) => c(j) < c(k)
      /\ \A j, k \in 1 .. n : j # k => j \in Above(lvs, k) \/ k \in Above(lvs, j)
  BY FewerAbove
<1> HIDE DEF c
<1>3. \A k \in 1 .. n : Rank(lvs, k) \in 1 .. n
  BY <1>1, <1>2, SMTT(60)
<1>4. ASSUME NEW j \in 1 .. n, NEW k \in 1 .. n, j # k PROVE Rank(lvs, j) # Rank(lvs, k)
  <2>1. c(j) < c(k) \/ c(k) < c(j)
    BY <1>2, <1>4
  <2>2. c(j) \in Nat /\ c(k) \in Nat
    BY <1>2
  <2>3. QED
    BY <1>1, <2>1, <2>2
<1>5. QED
  BY <1>3, <1>4 DEF StripsOf

\* So the strips lie one below the other, and above the transformers.
LEMMA StripsDrawn ==
    ASSUME NEW lvs, NEW n \in Nat, Len(lvs) = n, DOMAIN lvs = 1 .. n, \A k \in DOMAIN lvs : lvs[k].kv \in Int
    PROVE  /\ StripsApart(lvs)
           /\ \A k \in DOMAIN lvs : StripY0(Rank(lvs, k)) \in Nat
           /\ BandTop(lvs) = 3600 + (n - 1) * 23400 + 20400
<1>1. \A r : StripY0(r) = 3600 + (r - 1) * 23400
  <2>1. StripGap = 3000 /\ TitleHeight = 3600 /\ StripHeight = 20400
    BY Lengths DEF StripGap, TitleHeight
  <2>2. 20400 + 3000 = 23400
    OBVIOUS
  <2>3. QED
    BY <2>1, <2>2 DEF StripY0
<1>2. BandTop(lvs) = 3600 + (n - 1) * 23400 + 20400
  <2> DEFINE a == StripY0(n)
  <2>1. BandTop(lvs) = (a + 20400 + 1200) - 1200
    BY Lengths DEF BandTop, TotalHeight
  <2>2. a = 3600 + (n - 1) * 23400
    BY <1>1
  <2> HIDE DEF a
  <2>3. QED
    BY <2>1, <2>2
<1>3. StripsOf(lvs, n)
  BY RanksDiffer
<1>4. /\ \A k \in 1 .. n : Rank(lvs, k) \in 1 .. n
      /\ \A j, k \in 1 .. n : j # k => Rank(lvs, j) # Rank(lvs, k)
  BY <1>3 DEF StripsOf
<1>5. ASSUME NEW k \in 1 .. n
      PROVE  StripY0(Rank(lvs, k)) \in Nat /\ StripY0(Rank(lvs, k)) + StripHeight <= BandTop(lvs)
  <2> DEFINE r == Rank(lvs, k)
             y == StripY0(r)
  <2>1. r \in 1 .. n
    BY <1>4
  <2>2. y = 3600 + (r - 1) * 23400
    BY <1>1
  <2>3. StripHeight = 20400
    BY Lengths
  <2> HIDE DEF r, y
  <2>4. y \in Nat /\ y + StripHeight <= BandTop(lvs)
    BY <1>2, <2>1, <2>2, <2>3
  <2>5. QED
    BY <2>4 DEF r, y
<1>6. StripsApart(lvs)
  BY <1>4, <1>5 DEF StripsApart
<1>7. QED
  BY <1>2, <1>5, <1>6

-----------------------------------------------------------------------------
(* Transformers. *)

Output(name, i) == Dis(Tallied(Suffixed(name, "DIS"), i), Bus(1), TapNode(i))

Outputs(name, outputs) == [i \in DOMAIN outputs |-> Output(name, i)]
OutputSet(name, outputs) == {Output(name, i) : i \in DOMAIN outputs}

\* The first m of some values, listed.
FirstOf(t, d, S, m) == t \in Seq(S) /\ Len(t) = m /\ \A i \in 1 .. m : t[i] = d[i]

\* FlattenSeq of an empty list and lists of one element each.
LEMMA FlattenSingles ==
    ASSUME NEW S, NEW n \in Nat, NEW d, \A i \in 1 .. n : d[i] \in S,
           NEW ss, Len(ss) = n + 1, ss[1] = <<>>, \A i \in 1 .. n : ss[i + 1] = <<d[i]>>
    PROVE  FirstOf(FlattenSeq(ss), d, S, n)
<1> DEFINE N == n + 1
<1>1. N \in Nat /\ N > 0 /\ Len(ss) = N
  OBVIOUS
<1>2. PICK f : /\ f = [i \in 1 .. N |-> IF i = 1 THEN ss[i] ELSE f[i - 1] \o ss[i]]
               /\ FlattenSeq(ss) = f[N]
  <2> HIDE DEF N
  <2>1. QED
    BY <1>1, FlattenDef
<1>3. \A i \in 1 .. N : f[i] = IF i = 1 THEN ss[i] ELSE f[i - 1] \o ss[i]
  BY <1>2
<1> DEFINE T == {m \in Nat : m <= n => FirstOf(f[m + 1], d, S, m)}
<1>4. 0 \in T
  <2>1. f[1] = <<>>
    BY <1>3
  <2>2. FirstOf(<<>>, d, S, 0)
    BY DEF FirstOf
  <2>3. QED
    BY <2>1, <2>2
<1>5. ASSUME NEW m \in Nat, m \in T PROVE m + 1 \in T
  <2> SUFFICES ASSUME m + 1 <= n PROVE FirstOf(f[(m + 1) + 1], d, S, m + 1)
    OBVIOUS
  <2> DEFINE j == m + 1
             t == f[j]
  <2>1. FirstOf(t, d, S, m)
    BY <1>5
  <2>2. j \in 1 .. n /\ j + 1 \in 1 .. N /\ j + 1 # 1 /\ (j + 1) - 1 = j
    OBVIOUS
  <2> HIDE DEF j
  <2>3. f[j + 1] = t \o <<d[j]>>
    BY <1>3, <2>2
  <2>4. d[j] \in S
    BY <2>2
  <2> HIDE DEF t
  <2>5. t \in Seq(S) /\ Len(t) = m /\ \A i \in 1 .. m : t[i] = d[i]
    BY <2>1 DEF FirstOf
  <2> DEFINE u == t \o <<d[j]>>
  <2>6. u \in Seq(S) /\ Len(u) = m + 1 /\ (\A i \in 1 .. m : u[i] = t[i]) /\ u[m + 1] = d[j]
    BY <2>4, <2>5
  <2> HIDE DEF u
  <2>7. \A i \in 1 .. m + 1 : u[i] = d[i]
    <3>1. \A i \in 1 .. m + 1 : i \in 1 .. m \/ i = m + 1
      OBVIOUS
    <3>2. QED
      BY <2>5, <2>6, <3>1 DEF j
  <2>8. FirstOf(u, d, S, m + 1)
    BY <2>6, <2>7 DEF FirstOf
  <2>9. QED
    BY <2>3, <2>8 DEF j, u
<1>6. n \in T
  <2> HIDE DEF T
  <2> QED
    BY <1>4, <1>5, Induction
<1>7. QED
  BY <1>2, <1>6

\* The low side of a transformer has a disconnect for each of its outputs.
LEMMA LvDevices ==
    ASSUME NEW name, NEW kv, NEW outputs \in Seq(TapSet)
    PROVE  /\ LvLevel(name, kv, outputs).taps = outputs
           /\ LvLevel(name, kv, outputs).name = Suffixed(name, "LV")
           /\ FirstOf(LvLevel(name, kv, outputs).breakers, Outputs(name, outputs), OutputSet(name, outputs),
                      Len(outputs))
<1> DEFINE lv == LvLevel(name, kv, outputs)
           n == Len(outputs)
           d == [i \in DOMAIN outputs |-> Output(name, i)]
           S == {Output(name, i) : i \in DOMAIN outputs}
           bare == <<BusBay("LVBus", 1)>>
           full == [i \in DOMAIN outputs |->
                       [name |-> <<"Output", i, <<>>>>, breakers |-> <<Output(name, i)>>,
                        nodes |-> <<TapNode(i)>>]]
           bays == bare \o full
           ss == [k \in DOMAIN bays |-> bays[k].breakers]
<1>1. n \in Nat /\ DOMAIN outputs = 1 .. n
  OBVIOUS
<1>2. lv.taps = outputs /\ lv.name = Suffixed(name, "LV") /\ lv.breakers = FlattenSeq(ss)
  BY DEF LvLevel, Level, Output
<1>3. /\ Counted(bare, 1) /\ bare[1].breakers = <<>>
  BY DEF Counted, BusBay
<1>4. Counted(full, n) /\ \A i \in 1 .. n : full[i].breakers = <<d[i]>>
  BY <1>1 DEF Counted
<1>5. \A i \in 1 .. n : d[i] \in S
  BY <1>1
<1> HIDE DEF lv, n, bare, full, d, S
<1>6. DOMAIN bays = 1 .. 1 + n /\ bays[1] = bare[1] /\ \A i \in 1 .. n : bays[1 + i] = full[i]
  <2>1. Parted(bare, full, 1, n)
    BY <1>1, <1>3, <1>4, TwoParts
  <2>2. 1 \in 1 .. 1
    OBVIOUS
  <2>3. QED
    BY <2>1, <2>2 DEF Parted
<1>7. Len(ss) = n + 1 /\ ss[1] = <<>> /\ \A i \in 1 .. n : ss[i + 1] = <<d[i]>>
  <2>1. DOMAIN ss = 1 .. n + 1 /\ \A k \in 1 .. n + 1 : ss[k] = bays[k].breakers
    BY <1>1, <1>6
  <2>2. 1 \in 1 .. n + 1 /\ \A i \in 1 .. n : i + 1 \in 1 .. n + 1 /\ i + 1 = 1 + i
    BY <1>1
  <2>3. Len(ss) = n + 1
    <3>1. ss = [k \in 1 .. n + 1 |-> ss[k]]
      BY <2>1
    <3>2. n + 1 \in Nat
      BY <1>1
    <3> HIDE DEF ss
    <3>3. QED
      BY <3>1, <3>2
  <2> HIDE DEF ss, bays
  <2>4. QED
    BY <1>3, <1>4, <1>6, <2>1, <2>2, <2>3
<1> HIDE DEF ss
<1>8. FirstOf(FlattenSeq(ss), d, S, n)
  BY <1>1, <1>5, <1>7, FlattenSingles
<1>9. QED
  BY <1>2, <1>8 DEF lv, d, S, n, Outputs, OutputSet

\* Names for the outputs, told apart from each other and from that of the switch on the high side.
NamesApart(name, nm, n) ==
    /\ \A i \in 1 .. n : nm[i] # Suffixed(name, "HV")
    /\ \A i, j \in 1 .. n : nm[i] = nm[j] => i = j

\* Names with tallies are as long as these say.
LEMMA TallyLength ==
    ASSUME NEW name \in NameSet, NEW n \in Nat
    PROVE  /\ Len(name[3]) \in Nat
           /\ Len(Suffixed(name, "HV")[3]) = Len(name[3]) + 1
           /\ Len(Tallied(Suffixed(name, "DIS"), n)[3]) = (Len(name[3]) + 1) + n
<1> DEFINE s == name[3]
           t == Append(s, "DIS")
           u == [k \in 1 .. n |-> "1"]
<1>1. s \in Seq(STRING)
  BY DEF NameSet
<1>2. Suffixed(name, "HV")[3] = Append(s, "HV") /\ Tallied(Suffixed(name, "DIS"), n)[3] = t \o u
  BY DEF Suffixed, Tallied
<1> HIDE DEF s
<1> DEFINE S == STRING \cup {"DIS", "1"}
<1>3. s \in Seq(S)
  BY <1>1
<1>4. t \in Seq(S) /\ Len(t) = Len(s) + 1
  BY <1>3
<1>5. u \in Seq(S) /\ Len(u) = n
  OBVIOUS
<1> HIDE DEF t, u, S
<1>6. Len(t \o u) = Len(t) + Len(u)
  BY <1>4, <1>5
<1>7. Len(s) \in Nat /\ Len(Append(s, "HV")) = Len(s) + 1
  BY <1>1
<1>8. QED
  BY <1>2, <1>4, <1>5, <1>6, <1>7 DEF s

\* The outputs of a transformer have such names.
LEMMA OutputsApart ==
    ASSUME NEW name \in NameSet, NEW n \in Nat
    PROVE  NamesApart(name, [i \in 1 .. n |-> Output(name, i).name], n)
<1> DEFINE nm == [i \in 1 .. n |-> Output(name, i).name]
           m == Len(name[3])
           L(i) == Len(nm[i][3])
<1>1. \A i \in 1 .. n : nm[i] = Tallied(Suffixed(name, "DIS"), i)
  BY DEF Output, Dis
<1> HIDE DEF nm
<1>2. m \in Nat /\ Len(Suffixed(name, "HV")[3]) = m + 1
  <2>1. 0 \in Nat
    OBVIOUS
  <2>2. QED
    BY <2>1, TallyLength
<1> HIDE DEF m
<1>3. ASSUME NEW i \in 1 .. n PROVE L(i) = (m + 1) + i /\ i \in Nat /\ i > 0
  <2>1. i \in Nat /\ i > 0
    OBVIOUS
  <2>2. Len(Tallied(Suffixed(name, "DIS"), i)[3]) = (m + 1) + i
    BY <2>1, TallyLength DEF m
  <2>3. QED
    BY <1>1, <2>1, <2>2
<1>4. ASSUME NEW i \in 1 .. n, nm[i] = Suffixed(name, "HV") PROVE FALSE
  <2>1. L(i) = m + 1
    BY <1>2, <1>4
  <2> HIDE DEF L
  <2>2. QED
    BY <1>2, <1>3, <2>1
<1>5. ASSUME NEW i \in 1 .. n, NEW j \in 1 .. n, nm[i] = nm[j] PROVE i = j
  <2>1. L(i) = L(j)
    BY <1>5
  <2> HIDE DEF L
  <2>2. QED
    BY <1>2, <1>3, <2>1
<1>6. QED
  BY <1>4, <1>5 DEF NamesApart, nm

\* A fan is as wide as its pitches.
LEMMA FanWidth == ASSUME NEW n \in Nat PROVE HalfFan(n) = 1800 * (n - 1)
<1>1. OutputPitch = 3600
  BY DEF OutputPitch, Px
<1>2. (3600 * (n - 1)) \div 2 = 1800 * (n - 1)
  OBVIOUS
<1>3. QED
  BY <1>1, <1>2 DEF HalfFan

\* Where the output with a number is.
OutputX(bx, n, i) == bx - 1800 * (n - 1) + 3600 * (i - 1)
IsOutputTap(p, bx, n, i, top) == p.what = "tap" /\ p.half = 180 /\ p.x = OutputX(bx, n, i) /\ p.y = top + 8520
IsTransformer(p, bx, top) == p.what = "PTR" /\ p.half = 1440 /\ p.x = bx /\ p.y = top + 3600
OutputMark(nm, bx, n, i, top) == Symbol("DIS", nm[i], OutputX(bx, n, i), top + 7440, 420)
HighMark(name, bx, top) == Symbol("DIS", Suffixed(name, "HV"), bx, top + 1500, 420)

\* The symbols of a transformer.
TransformerAt(name, nm, n, bx, top, drawn) ==
    /\ \A p \in drawn : \/ p = HighMark(name, bx, top)
                        \/ IsTransformer(p, bx, top)
                        \/ \E i \in 1 .. n : p = OutputMark(nm, bx, n, i, top)
                        \/ \E i \in 1 .. n : IsOutputTap(p, bx, n, i, top)
    /\ HighMark(name, bx, top) \in drawn
    /\ \A i \in 1 .. n : OutputMark(nm, bx, n, i, top) \in drawn

\* Every output has one switch of its name, and no switch lies on another.
LEMMA OutputsShown ==
    ASSUME NEW name, NEW nm, NEW n \in Nat, NamesApart(name, nm, n), NEW bx \in Int, NEW top \in Int,
           NEW drawn, TransformerAt(name, nm, n, bx, top, drawn)
    PROVE  /\ \A i \in 1 .. n : Count(drawn, "DIS", nm[i]) = 1
           /\ NoneOverlap(Switches(drawn))
<1> DEFINE high == HighMark(name, bx, top)
           M(i) == OutputMark(nm, bx, n, i, top)
           X(i) == OutputX(bx, n, i)
<1>1. /\ high.what = "DIS" /\ high.name = Suffixed(name, "HV") /\ high.x = bx /\ high.y = top + 1500 /\ high.half = 420
  BY DEF HighMark, Symbol
<1>2. \A i : M(i).what = "DIS" /\ M(i).name = nm[i] /\ M(i).x = X(i) /\ M(i).y = top + 7440 /\ M(i).half = 420
  BY DEF OutputMark, Symbol
<1>3. /\ \A p \in drawn : p.what \in {"CBR", "DIS"} => p = high \/ \E i \in 1 .. n : p = M(i)
      /\ \A i \in 1 .. n : M(i) \in drawn
  BY DEF TransformerAt, IsTransformer, IsOutputTap
<1>4. \A i, j \in 1 .. n : i # j => X(i) \in Int /\ X(j) \in Int /\ (X(i) >= X(j) + 840 \/ X(j) >= X(i) + 840)
  BY DEF OutputX
<1>5. /\ \A i \in 1 .. n : nm[i] # Suffixed(name, "HV")
      /\ \A i, j \in 1 .. n : nm[i] = nm[j] => i = j
  BY DEF NamesApart
<1> HIDE DEF high, M, X
<1>6. ASSUME NEW i \in 1 .. n PROVE Count(drawn, "DIS", nm[i]) = 1
  <2> DEFINE C == {s \in drawn : s.what = "DIS" /\ s.name = nm[i]}
  <2>1. C = {M(i)}
    <3>1. M(i) \in C
      BY <1>2, <1>3
    <3>2. ASSUME NEW s \in C PROVE s = M(i)
      <4>1. s # high
        BY <1>1, <1>5
      <4>2. PICK j \in 1 .. n : s = M(j)
        BY <1>3, <4>1
      <4>3. nm[j] = nm[i]
        BY <1>2, <4>2
      <4>4. QED
        BY <1>5, <4>2, <4>3
    <3>3. QED
      BY <3>1, <3>2
  <2>2. Cardinality(C) = 1
    <3> HIDE DEF C
    <3>1. QED
      BY <2>1, FS_Singleton
  <2>3. QED
    BY <2>2 DEF Count
<1>7. ASSUME NEW p \in Switches(drawn), NEW q \in Switches(drawn), p # q PROVE ~Overlap(p, q)
  <2>1. /\ p = high \/ \E i \in 1 .. n : p = M(i)
        /\ q = high \/ \E i \in 1 .. n : q = M(i)
    BY <1>3 DEF Switches
  <2>2. ASSUME NEW i \in 1 .. n PROVE ~Overlap(high, M(i)) /\ ~Overlap(M(i), high)
    BY <1>1, <1>2 DEF Overlap
  <2>3. ASSUME NEW i \in 1 .. n, NEW j \in 1 .. n, i # j PROVE ~Overlap(M(i), M(j))
    <3> DEFINE a == X(i)
               b == X(j)
    <3>1. a \in Int /\ b \in Int /\ (a >= b + 840 \/ b >= a + 840)
      BY <1>4, <2>3
    <3>2. M(i).x = a /\ M(i).half = 420 /\ M(j).x = b /\ M(j).half = 420
      BY <1>2
    <3> HIDE DEF a, b
    <3>3. QED
      BY <3>1, <3>2 DEF Overlap
  <2>4. QED
    BY <1>7, <2>1, <2>2, <2>3
<1>8. QED
  BY <1>6, <1>7 DEF NoneOverlap

\* What DrawTransformer draws where.
LEMMA TransformerMarks ==
    ASSUME NEW name, NEW kv, NEW outputs \in Seq(TapSet), NEW x, x.name = name, x.lv = LvLevel(name, kv, outputs),
           NEW hvX \in Int, NEW top \in Int
    PROVE  TransformerAt(name, [i \in 1 .. Len(outputs) |-> Output(name, i).name], Len(outputs),
                         hvX + 3600, top, DrawTransformer(x, hvX, top))
<1> DEFINE n == Len(outputs)
           nm == [i \in 1 .. n |-> Output(name, i).name]
           bx == hvX + 3600
           symbolY == top + Px(60)
           busY == symbolY + Px(46)
           outputY == busY + Px(36)
           startX == BodyX(hvX) - HalfFan(n)
           Part(i) == {DisconnectSymbol(x.lv.breakers[i].name, startX + (i - 1) * OutputPitch, (busY + outputY) \div 2),
                       TapSymbol(x.lv.taps[i], startX + (i - 1) * OutputPitch, outputY)}
           high == DisconnectSymbol(Suffixed(x.name, "HV"), BodyX(hvX), symbolY - Px(35))
           body == Symbol("PTR", x.name, BodyX(hvX), symbolY, Px(24))
           drawn == DrawTransformer(x, hvX, top)
<1>1. n \in Nat /\ DOMAIN outputs = 1 .. n /\ bx \in Int
  OBVIOUS
<1>2. x.lv.taps = outputs /\ \A i \in 1 .. n : x.lv.breakers[i].name = nm[i]
  <2> DEFINE d == Outputs(name, outputs)
             t == LvLevel(name, kv, outputs).breakers
             S == OutputSet(name, outputs)
  <2>1. LvLevel(name, kv, outputs).taps = outputs /\ FirstOf(t, d, S, n)
    <3> HIDE DEF nm
    <3>1. LvLevel(name, kv, outputs).taps = outputs
      BY LvDevices
    <3>2. FirstOf(t, d, S, n)
      BY LvDevices
    <3>3. QED
      BY <3>1, <3>2
  <2>2. \A i \in 1 .. n : d[i].name = nm[i]
    BY <1>1 DEF Outputs
  <2> HIDE DEF d, n, S, nm
  <2>3. QED
    BY <2>1, <2>2 DEF FirstOf
<1>3. /\ Px(60) = 3600 /\ Px(46) = 2760 /\ Px(36) = 2160 /\ Px(35) = 2100 /\ Px(24) = 1440 /\ OutputPitch = 3600
      /\ BodyX(hvX) = bx
  BY DEF Px, OutputPitch, BodyX
<1>4. /\ symbolY = top + 3600 /\ busY = top + 6360 /\ outputY = top + 8520 /\ (busY + outputY) \div 2 = top + 7440
      /\ symbolY - Px(35) = top + 1500
  <2> DEFINE y == symbolY
  <2>1. y = top + 3600 /\ y \in Int
    BY <1>3
  <2> HIDE DEF symbolY, busY, outputY, y
  <2>2. busY = top + 6360 /\ symbolY - Px(35) = top + 1500
    BY <1>3, <2>1 DEF y, busY
  <2>3. outputY = top + 8520
    BY <1>3, <2>2 DEF outputY
  <2>4. (busY + outputY) \div 2 = top + 7440
    BY <2>2, <2>3
  <2>5. QED
    BY <2>1, <2>2, <2>3, <2>4 DEF y
<1>5. \A i \in 1 .. n : startX + (i - 1) * OutputPitch = OutputX(bx, n, i)
  <2>1. HalfFan(n) = 1800 * (n - 1)
    BY <1>1, FanWidth
  <2>2. startX = bx - 1800 * (n - 1)
    BY <1>3, <2>1
  <2> HIDE DEF startX, bx, n
  <2>3. \A i \in 1 .. n : (i - 1) * OutputPitch = 3600 * (i - 1)
    BY <1>1, <1>3
  <2>4. QED
    BY <2>2, <2>3 DEF OutputX
<1>6. drawn = {high, body} \cup UNION {Part(i) : i \in 1 .. n}
  <2>1. drawn = {high, body} \cup UNION {Part(i) : i \in DOMAIN x.lv.taps}
    <3>1. Len(x.lv.taps) = n
      BY <1>2
    <3>2. QED
      BY <3>1 DEF DrawTransformer
  <2> HIDE DEF drawn, high, body, Part
  <2>2. QED
    BY <1>1, <1>2, <2>1
<1>7. high = HighMark(name, bx, top)
  BY <1>3, <1>4, Lengths DEF HighMark, DisconnectSymbol
<1>8. IsTransformer(body, bx, top)
  BY <1>3, <1>4 DEF IsTransformer, Symbol
<1>9. ASSUME NEW i \in 1 .. n, NEW p
      PROVE  /\ p \in Part(i) => p = OutputMark(nm, bx, n, i, top) \/ IsOutputTap(p, bx, n, i, top)
             /\ OutputMark(nm, bx, n, i, top) \in Part(i)
  <2> DEFINE ox == OutputX(bx, n, i)
  <2>1. Part(i) = {DisconnectSymbol(nm[i], ox, top + 7440), TapSymbol(outputs[i], ox, top + 8520)}
    <3> HIDE DEF startX, busY, outputY, bx, nm
    <3>1. QED
      BY <1>2, <1>4, <1>5
  <2> HIDE DEF ox, Part, nm, bx, n
  <2>2. DisconnectSymbol(nm[i], ox, top + 7440) = OutputMark(nm, bx, n, i, top)
    BY Lengths DEF DisconnectSymbol, OutputMark, ox
  <2>3. IsOutputTap(TapSymbol(outputs[i], ox, top + 8520), bx, n, i, top)
    BY Lengths DEF TapSymbol, Symbol, IsOutputTap, ox
  <2>4. QED
    BY <2>1, <2>2, <2>3
<1> HIDE DEF Part, high, body, drawn, nm, bx, n
<1>10. \A p : p \in drawn <=> p = high \/ p = body \/ \E i \in 1 .. n : p \in Part(i)
  BY <1>6
<1>11. TransformerAt(name, nm, n, bx, top, drawn)
  <2>1. \A p \in drawn : \/ p = HighMark(name, bx, top)
                         \/ IsTransformer(p, bx, top)
                         \/ \E i \in 1 .. n : p = OutputMark(nm, bx, n, i, top)
                         \/ \E i \in 1 .. n : IsOutputTap(p, bx, n, i, top)
    BY <1>7, <1>8, <1>9, <1>10
  <2>2. HighMark(name, bx, top) \in drawn
    BY <1>7, <1>10
  <2>3. \A i \in 1 .. n : OutputMark(nm, bx, n, i, top) \in drawn
    BY <1>9, <1>10
  <2>4. QED
    BY <2>1, <2>2, <2>3 DEF TransformerAt
<1>12. QED
  BY <1>11 DEF drawn, bx, nm, n

\* No switch of a transformer lies on one of another whose fan is apart.
LEMMA FansClear ==
    ASSUME NEW name1, NEW nm1, NEW n1 \in Nat, NEW bx1 \in Int, NEW drawn1,
           NEW name2, NEW nm2, NEW n2 \in Nat, NEW bx2 \in Int, NEW drawn2, NEW top \in Int,
           TransformerAt(name1, nm1, n1, bx1, top, drawn1), TransformerAt(name2, nm2, n2, bx2, top, drawn2),
           n1 > 0, n2 > 0,
           LET room == 1800 * (n1 - 1) + 1800 * (n2 - 1) + 840
           IN  bx1 + room <= bx2 \/ bx2 + room <= bx1,
           NEW p \in Switches(drawn1), NEW q \in Switches(drawn2)
    PROVE  ~Overlap(p, q)
<1> DEFINE h1 == 1800 * (n1 - 1)
           h2 == 1800 * (n2 - 1)
<1>1. h1 \in Nat /\ h2 \in Nat
  OBVIOUS
<1>2. ASSUME NEW name, NEW nm, NEW n \in Nat, n > 0, NEW bx \in Int, NEW drawn,
             TransformerAt(name, nm, n, bx, top, drawn), NEW s \in Switches(drawn)
      PROVE  s.half = 420 /\ s.x \in Int /\ bx - 1800 * (n - 1) <= s.x /\ s.x <= bx + 1800 * (n - 1)
  <2>1. s = HighMark(name, bx, top) \/ \E i \in 1 .. n : s = OutputMark(nm, bx, n, i, top)
    BY <1>2 DEF TransformerAt, Switches, IsTransformer, IsOutputTap
  <2>2. CASE s = HighMark(name, bx, top)
    <3>1. s.x = bx /\ s.half = 420
      BY <2>2 DEF HighMark, Symbol
    <3>2. QED
      BY <1>2, <3>1
  <2>3. ASSUME NEW i \in 1 .. n, s = OutputMark(nm, bx, n, i, top)
        PROVE  s.half = 420 /\ s.x \in Int /\ bx - 1800 * (n - 1) <= s.x /\ s.x <= bx + 1800 * (n - 1)
    <3>1. s.x = OutputX(bx, n, i) /\ s.half = 420
      BY <2>3 DEF OutputMark, Symbol
    <3>2. /\ OutputX(bx, n, i) \in Int /\ bx - 1800 * (n - 1) <= OutputX(bx, n, i)
          /\ OutputX(bx, n, i) <= bx + 1800 * (n - 1)
      BY DEF OutputX
    <3>3. QED
      BY <3>1, <3>2
  <2>4. QED
    BY <2>1, <2>2, <2>3
<1>3. p.half = 420 /\ p.x \in Int /\ bx1 - h1 <= p.x /\ p.x <= bx1 + h1
  BY <1>2
<1>4. q.half = 420 /\ q.x \in Int /\ bx2 - h2 <= q.x /\ q.x <= bx2 + h2
  BY <1>2
<1>5. bx1 + (h1 + h2 + 840) <= bx2 \/ bx2 + (h1 + h2 + 840) <= bx1
  OBVIOUS
<1> HIDE DEF h1, h2
<1>6. p.x + 840 <= q.x \/ q.x + 840 <= p.x
  BY <1>1, <1>3, <1>4, <1>5
<1>7. QED
  BY <1>3, <1>4, <1>6 DEF Overlap

\* Up to eight outputs are on the canvas, if it is as wide as MaxX wants it.
LEMMA OutputsInside ==
    ASSUME NEW name, NEW nm, NEW n \in Nat, n <= 8, NEW hvX \in Nat, hvX >= 9600, NEW top \in Nat,
           NEW width \in Nat, MaxX(hvX, n) <= width,
           NEW drawn, TransformerAt(name, nm, n, hvX + 3600, top, drawn), NEW p \in drawn
    PROVE  Inside(p, width, top, 12120)
<1> DEFINE bx == hvX + 3600
           h == 1800 * (n - 1)
           right == bx + (IF h > 1200 THEN h ELSE 1200) + 3600
<1>1. right <= width
  <2>1. Px(60) = 3600 /\ Px(20) = 1200 /\ OutputPitch = 3600 /\ BodyX(hvX) = bx
    BY DEF Px, OutputPitch, BodyX
  <2>2. HalfFan(n) = h
    BY FanWidth
  <2>3. MaxX(hvX, n) = right
    BY <2>1, <2>2 DEF MaxX
  <2>4. QED
    BY <2>3
<1>2. bx \in Nat /\ bx >= 13200 /\ bx + 4800 <= width /\ bx + h + 3600 <= width /\ h <= 12600 /\ h \in Int
  <2>1. bx \in Nat /\ bx >= 13200 /\ h <= 12600 /\ h \in Int
    OBVIOUS
  <2> HIDE DEF bx, h
  <2>2. QED
    BY <1>1, <2>1
<1>3. /\ \/ p = HighMark(name, bx, top)
         \/ IsTransformer(p, bx, top)
         \/ \E i \in 1 .. n : p = OutputMark(nm, bx, n, i, top)
         \/ \E i \in 1 .. n : IsOutputTap(p, bx, n, i, top)
  BY DEF TransformerAt
<1>4. ASSUME NEW i \in 1 .. n
      PROVE  OutputX(bx, n, i) \in Nat /\ 600 <= OutputX(bx, n, i) /\ OutputX(bx, n, i) <= bx + h
  <2>1. 0 <= 3600 * (i - 1) /\ 3600 * (i - 1) <= 2 * h /\ 3600 * (i - 1) \in Int
    OBVIOUS
  <2> DEFINE k == 3600 * (i - 1)
  <2>2. OutputX(bx, n, i) = bx - h + k
    BY DEF OutputX
  <2> HIDE DEF bx, h, k
  <2>3. QED
    BY <1>2, <2>1, <2>2 DEF k
<1> HIDE DEF bx, h, right
<1>5. CASE p = HighMark(name, bx, top)
  <2>1. p.half = 420 /\ p.x = bx /\ p.y = top + 1500
    BY <1>5 DEF HighMark, Symbol
  <2>2. QED
    BY <1>2, <2>1 DEF Inside
<1>6. CASE IsTransformer(p, bx, top)
  BY <1>2, <1>6 DEF IsTransformer, Inside
<1>7. ASSUME NEW i \in 1 .. n, p = OutputMark(nm, bx, n, i, top) PROVE Inside(p, width, top, 12120)
  <2> DEFINE ox == OutputX(bx, n, i)
  <2>1. ox \in Nat /\ 600 <= ox /\ ox + 3600 <= width
    BY <1>2, <1>4
  <2>2. p.half = 420 /\ p.x = ox /\ p.y = top + 7440
    BY <1>7 DEF OutputMark, Symbol
  <2> HIDE DEF ox
  <2>3. QED
    BY <2>1, <2>2 DEF Inside
<1>8. ASSUME NEW i \in 1 .. n, IsOutputTap(p, bx, n, i, top) PROVE Inside(p, width, top, 12120)
  <2> DEFINE ox == OutputX(bx, n, i)
  <2>1. ox \in Nat /\ 600 <= ox /\ ox + 3600 <= width
    BY <1>2, <1>4
  <2>2. p.half = 180 /\ p.x = ox /\ p.y = top + 8520
    BY <1>8 DEF IsOutputTap
  <2> HIDE DEF ox
  <2>3. QED
    BY <2>1, <2>2 DEF Inside
<1>9. QED
  BY <1>3, <1>5, <1>6, <1>7, <1>8

-----------------------------------------------------------------------------
(* The canvas. *)

\* Some numbers of a list have a bound.
LEMMA Bounded ==
    ASSUME NEW n \in Nat, NEW f, \A i \in 1 .. n : f[i] \in Nat
    PROVE  \E b \in Nat : \A i \in 1 .. n : f[i] <= b
<1> DEFINE T == {m \in Nat : m <= n => \E b \in Nat : \A i \in 1 .. m : f[i] <= b}
<1>1. 0 \in T
  OBVIOUS
<1>2. ASSUME NEW m \in Nat, m \in T PROVE m + 1 \in T
  <2> SUFFICES ASSUME m + 1 <= n PROVE \E b \in Nat : \A i \in 1 .. m + 1 : f[i] <= b
    OBVIOUS
  <2>1. PICK b \in Nat : \A i \in 1 .. m : f[i] <= b
    BY <1>2
  <2> DEFINE x == f[m + 1]
             c == IF x <= b THEN b ELSE x
  <2>2. x \in Nat
    <3>1. m + 1 \in 1 .. n
      OBVIOUS
    <3>2. QED
      BY <3>1
  <2>3. c \in Nat /\ b <= c /\ x <= c
    BY <2>2
  <2> HIDE DEF c
  <2>4. ASSUME NEW i \in 1 .. m + 1 PROVE f[i] <= c
    <3>1. CASE i = m + 1
      BY <2>3, <3>1
    <3>2. CASE i # m + 1
      <4>1. i \in 1 .. m /\ i \in 1 .. n
        BY <3>2
      <4>2. f[i] <= b /\ f[i] \in Nat
        BY <2>1, <4>1
      <4>3. QED
        BY <2>3, <4>2
    <3>3. QED
      BY <3>1, <3>2
  <2>5. QED
    BY <2>3, <2>4
<1>3. n \in T
  <2> HIDE DEF T
  <2> QED
    BY <1>1, <1>2, Induction
<1>4. QED
  BY <1>3

\* Max of a bounded set of numbers is one of them, and no other is greater.
LEMMA MaxOf ==
    ASSUME NEW S \in SUBSET Nat, S # {}, NEW b \in Nat, \A s \in S : s <= b
    PROVE  Max(S) \in S /\ \A s \in S : s <= Max(S)
<1> DEFINE T == {c \in Nat : \A s \in S : s <= c}
<1>1. PICK c \in T : \A d \in T : c <= d
  <2>1. T \in SUBSET Nat /\ b \in T
    OBVIOUS
  <2> HIDE DEF T
  <2>2. QED
    BY <2>1, LeastNat
<1>2. c \in Nat /\ \A s \in S : s <= c
  OBVIOUS
<1>3. c \in S
  <2> SUFFICES ASSUME c \notin S PROVE FALSE
    OBVIOUS
  <2>1. \A s \in S : s \in Nat /\ s < c
    BY <1>2
  <2>2. c - 1 \in Nat /\ \A s \in S : s <= c - 1
    <3> HIDE DEF T
    <3>1. PICK s0 : s0 \in S
      OBVIOUS
    <3>2. s0 \in Nat /\ s0 < c /\ c \in Nat
      BY <1>2, <2>1, <3>1
    <3>3. c - 1 \in Nat
      BY <3>2
    <3>4. ASSUME NEW s \in S PROVE s <= c - 1
      <4>1. s \in Nat /\ s < c /\ c \in Nat
        BY <1>2, <2>1
      <4>2. QED
        BY <4>1
    <3>5. QED
      BY <3>3, <3>4
  <2>3. c - 1 \in T
    BY <2>2
  <2>4. c <= c - 1
    BY <1>1, <2>3
  <2>5. QED
    BY <1>2, <2>4
<1>4. \E x \in S : \A y \in S : x >= y
  BY <1>2, <1>3
<1>5. Max(S) \in S /\ \A y \in S : Max(S) >= y
  BY <1>4 DEF Max
<1>6. QED
  BY <1>5

\* A built level is as wide as a number says, and so far from the left edge its transformers stand.
LEMMA LevelWidth ==
    ASSUME NEW lv, NEW tps \in Seq(TapSet), lv.taps = tps, lv.layout \in Layouts, ~Refuses(lv.layout, tps)
    PROVE  /\ StripWidth(lv) \in Nat
           /\ \A i \in DOMAIN tps : HvX(lv, i) \in Nat /\ HvX(lv, i) >= 9600
<1> DEFINE n == Len(tps)
<1>1. n \in Nat /\ n > 0 /\ DOMAIN tps = 1 .. n
  BY DEF Refuses, Layouts
<1>2. Px(70) = 4200 /\ StubLength = 2160 /\ LeftMargin = 9600 /\ TapPitch = 8400 /\ DiameterPitch = 13200
  BY Lengths DEF Px, StubLength
<1>3. RingRadius(n) \in Nat
  BY <1>1 DEF RingRadius, Px
<1>4. ASSUME NEW i \in Nat \ {0}
      PROVE  TapX(i) \in Nat /\ TapX(i) >= 9600 /\ DiameterX(i) \in Nat /\ DiameterX(i) >= 9600
  <2>1. TapX(i) \in Nat /\ TapX(i) >= 9600
    BY TapPlace
  <2>2. DiameterX(i) \in Nat /\ DiameterX(i) >= 9600
    BY DiameterPlace
  <2>3. QED
    BY <2>1, <2>2
<1>5. \A i \in 1 .. n : i \in Nat \ {0} /\ (i + 1) \div 2 \in Nat \ {0}
  BY <1>1
<1>6. n \in Nat \ {0} /\ n + 1 \in Nat \ {0}
  BY <1>1
<1>7. lv.layout = "breaker_and_half" => n \div 2 \in Nat \ {0}
  BY <1>1 DEF Refuses
<1>8. Len(lv.taps) = n
  OBVIOUS
<1> HIDE DEF n
<1>9. StripWidth(lv) \in Nat
  <2>1. CASE lv.layout = "ring_bus"
    <3>1. StripWidth(lv) = 9600 + 2 * (RingRadius(n) + 4200)
      BY <1>2, <1>8, <2>1 DEF StripWidth
    <3>2. QED
      BY <1>3, <3>1
  <2>2. CASE lv.layout = "breaker_and_half"
    <3>1. StripWidth(lv) = 9600 + (DiameterX(n \div 2) + 13200)
      BY <1>2, <1>8, <2>2 DEF StripWidth
    <3> DEFINE k == n \div 2
    <3>2. k \in Nat \ {0} /\ StripWidth(lv) = 9600 + (DiameterX(k) + 13200)
      BY <1>7, <2>2, <3>1
    <3> HIDE DEF k
    <3>3. DiameterX(k) \in Nat
      BY <1>4, <3>2
    <3>4. QED
      BY <3>2, <3>3
  <2>3. CASE lv.layout = "main_and_transfer"
    <3>1. StripWidth(lv) = 9600 + (TapX(n + 1) + 8400)
      BY <1>2, <1>8, <2>3 DEF StripWidth
    <3> DEFINE k == n + 1
    <3>2. k \in Nat \ {0} /\ StripWidth(lv) = 9600 + (TapX(k) + 8400)
      BY <1>6, <3>1
    <3> HIDE DEF k
    <3>3. TapX(k) \in Nat
      BY <1>4, <3>2
    <3>4. QED
      BY <3>2, <3>3
  <2>4. CASE lv.layout = "single_bus"
    <3>1. StripWidth(lv) = 9600 + (TapX(n) + 8400)
      BY <1>2, <1>8, <2>4 DEF StripWidth
    <3>2. TapX(n) \in Nat
      <4>1. n \in Nat \ {0}
        BY <1>6
      <4>2. QED
        BY <4>1, TapPlace
    <3>3. QED
      BY <3>1, <3>2
  <2>5. QED
    BY <2>1, <2>2, <2>3, <2>4 DEF Layouts
<1>10. ASSUME NEW i \in 1 .. n PROVE HvX(lv, i) \in Nat /\ HvX(lv, i) >= 9600
  <2>1. CASE lv.layout = "ring_bus"
    <3>1. HvX(lv, i) = 9600 + 2 * RingRadius(n) + 2160
      BY <1>2, <1>8, <2>1 DEF HvX
    <3>2. QED
      BY <1>3, <3>1
  <2>2. CASE lv.layout = "breaker_and_half"
    <3>1. HvX(lv, i) = DiameterX((i + 1) \div 2)
      BY <2>2 DEF HvX
    <3>2. QED
      BY <1>4, <1>5, <3>1
  <2>3. CASE lv.layout \notin {"ring_bus", "breaker_and_half"}
    <3>1. HvX(lv, i) = TapX(i)
      BY <2>3 DEF HvX
    <3>2. QED
      BY <1>4, <1>5, <3>1
  <2>4. QED
    BY <2>1, <2>2, <2>3
<1>11. QED
  BY <1>1, <1>9, <1>10

\* The same of a level of a station.
LEMMA BuiltWidth ==
    ASSUME NEW lv \in BuiltLevels
    PROVE  /\ StripWidth(lv) \in Nat
           /\ \A i \in DOMAIN lv.taps : HvX(lv, i) \in Nat /\ HvX(lv, i) >= 9600
<1>1. PICK name \in NameSet, kv \in Voltages \cup OddVoltages, layout \in Layouts, tps \in Seq(TapSet), start \in Nat :
         lv = Build(name, kv, layout, tps, start)
  BY DEF BuiltLevels
<1>2. ~Refuses(lv.layout, lv.taps)
  BY DEF BuiltLevels
<1>3. lv.layout = layout /\ lv.taps = tps
  BY <1>1, TapsOfBuild
<1>4. lv.layout \in Layouts /\ ~Refuses(lv.layout, tps)
  BY <1>2, <1>3
<1>5. /\ StripWidth(lv) \in Nat
      /\ \A i \in DOMAIN tps : HvX(lv, i) \in Nat /\ HvX(lv, i) >= 9600
  BY <1>3, <1>4, LevelWidth
<1>6. QED
  BY <1>3, <1>5

\* A transformer reaches some number of units to the right.
LEMMA MaxXNat ==
    ASSUME NEW hvX \in Nat, NEW n \in Nat
    PROVE  MaxX(hvX, n) \in Nat
<1> DEFINE half == HalfFan(n)
<1>1. OutputPitch = 3600 /\ Px(20) = 1200 /\ Px(60) = 3600 /\ BodyX(hvX) = hvX + 3600
  BY DEF OutputPitch, Px, BodyX
<1>2. MaxX(hvX, n) = (hvX + 3600) + (IF half > 1200 THEN half ELSE 1200) + 3600
  BY <1>1 DEF MaxX
<1>3. half \in Int
  BY FanWidth
<1> HIDE DEF half
<1>4. QED
  BY <1>2, <1>3

\* The outputs of a transformer are some taps.
LEMMA OutputsOf ==
    ASSUME NEW x \in TransformerSet
    PROVE  /\ x.name \in NameSet
           /\ \E kv, outputs : /\ outputs \in Seq(TapSet) /\ Len(outputs) > 0
                              /\ x.lv = LvLevel(x.name, kv, outputs) /\ x.lv.taps = outputs
<1>1. x.name \in NameSet /\ x.lv \in LvLevels /\ x.lv.name = Suffixed(x.name, "LV")
  BY DEF TransformerSet
<1>2. PICK name \in NameSet, kv \in LvVoltages, outputs \in OutputSeqs : x.lv = LvLevel(name, kv, outputs)
  BY <1>1 DEF LvLevels
<1>2a. outputs \in Seq(TapSet) /\ Len(outputs) > 0
  BY DEF OutputSeqs
<1>3. x.lv.taps = outputs /\ x.lv.name = Suffixed(name, "LV")
  BY <1>2, <1>2a, LvDevices
<1>4. Suffixed(name, "LV") = Suffixed(x.name, "LV")
  BY <1>1, <1>3
<1>5. name \in Stems \X Nat \X Seq(STRING) /\ x.name \in Stems \X Nat \X Seq(STRING)
  BY <1>1 DEF NameSet
<1>6. name = x.name
  BY <1>4, <1>5, SuffixedInjective
<1>7. QED
  BY <1>1, <1>2, <1>2a, <1>3, <1>6

\* The members of a list have numbers, and these are a set.
Valued(s, n, g) == n \in Nat /\ DOMAIN s = 1 .. n /\ \A e \in Range(s) : g[e] \in Nat
ValuesOf(S, s, g, t, h) == S = {g[e] : e \in Range(s)} \cup {h[e] : e \in Range(t)}
UpTo(b, s, g) == b \in Nat /\ \A e \in Range(s) : g[e] <= b

\* The numbers of a list's members have a bound.
LEMMA BoundedValues ==
    ASSUME NEW s, NEW n, NEW g, Valued(s, n, g)
    PROVE  \E b : UpTo(b, s, g)
<1> DEFINE f == [i \in 1 .. n |-> g[s[i]]]
<1>0. n \in Nat /\ DOMAIN s = 1 .. n /\ \A e \in Range(s) : g[e] \in Nat
  BY DEF Valued
<1>1. Range(s) = {s[i] : i \in 1 .. n}
  BY <1>0 DEF Range
<1>2. \A i \in 1 .. n : f[i] \in Nat
  BY <1>0, <1>1
<1>3. PICK b \in Nat : \A i \in 1 .. n : f[i] <= b
  <2> HIDE DEF f
  <2>1. QED
    BY <1>0, <1>2, Bounded
<1>4. ASSUME NEW e \in Range(s) PROVE g[e] <= b
  <2>1. PICK i \in 1 .. n : e = s[i]
    BY <1>1
  <2>2. g[e] = f[i]
    BY <2>1
  <2> HIDE DEF f
  <2>3. QED
    BY <1>3, <2>2
<1>5. QED
  BY <1>3, <1>4 DEF UpTo

\* The greatest of the values of two lists.
LEMMA MaxOfTwo ==
    ASSUME NEW s, NEW n, NEW g, Valued(s, n, g), n > 0,
           NEW t, NEW m, NEW h, Valued(t, m, h), NEW S, ValuesOf(S, s, g, t, h)
    PROVE  UpTo(Max(S), s, g) /\ UpTo(Max(S), t, h)
<1>0. /\ n \in Nat /\ DOMAIN s = 1 .. n /\ \A e \in Range(s) : g[e] \in Nat
      /\ \A e \in Range(t) : h[e] \in Nat
      /\ S = {g[e] : e \in Range(s)} \cup {h[e] : e \in Range(t)}
  BY DEF Valued, ValuesOf
<1>1. PICK b : b \in Nat /\ \A e \in Range(s) : g[e] <= b
  BY BoundedValues DEF UpTo
<1>2. PICK c : c \in Nat /\ \A e \in Range(t) : h[e] <= c
  BY BoundedValues DEF UpTo
<1> DEFINE d == IF b <= c THEN c ELSE b
<1>3. d \in Nat /\ b <= d /\ c <= d
  BY <1>1, <1>2
<1> HIDE DEF d
<1>4. S \in SUBSET Nat
  BY <1>0
<1>5. S # {}
  <2>1. 1 \in DOMAIN s
    BY <1>0
  <2>2. s[1] \in Range(s)
    BY <2>1 DEF Range
  <2>3. g[s[1]] \in S
    BY <1>0, <2>2
  <2>4. QED
    BY <2>3
<1>6. ASSUME NEW v \in S PROVE v <= d
  <2>1. CASE \E e \in Range(s) : v = g[e]
    <3>1. v <= b /\ v \in Nat
      BY <1>0, <1>1, <2>1
    <3>2. QED
      BY <1>1, <1>3, <3>1
  <2>2. CASE \E e \in Range(t) : v = h[e]
    <3>1. v <= c /\ v \in Nat
      BY <1>0, <1>2, <2>2
    <3>2. QED
      BY <1>2, <1>3, <3>1
  <2>3. QED
    BY <1>0, <2>1, <2>2
<1>7. Max(S) \in S /\ \A v \in S : v <= Max(S)
  BY <1>3, <1>4, <1>5, <1>6, MaxOf
<1>8. (\A e \in Range(s) : g[e] \in S) /\ \A e \in Range(t) : h[e] \in S
  BY <1>0
<1>9. QED
  BY <1>4, <1>7, <1>8 DEF UpTo

\* The transformers of a station have their taps.
Seated(lvs, xs) == \A x \in Range(xs) : x.level \in DOMAIN lvs /\ x.tap \in DOMAIN lvs[x.level].taps

\* The canvas is as wide as what stands on it.
LEMMA CanvasWide ==
    ASSUME NEW lvs \in Seq(BuiltLevels), lvs # <<>>, NEW xs \in Seq(TransformerSet),
           Seated(lvs, xs), NEW st, st.levels = lvs, st.transformers = xs
    PROVE  /\ CanvasWidth(st) \in Nat
           /\ \A lv \in Range(lvs) : StripWidth(lv) <= CanvasWidth(st)
           /\ \A x \in Range(xs) : /\ HvX(lvs[x.level], x.tap) \in Nat /\ HvX(lvs[x.level], x.tap) >= 9600
                                    /\ MaxX(HvX(lvs[x.level], x.tap), Len(x.lv.taps)) <= CanvasWidth(st)
<1> DEFINE n == Len(lvs)
           m == Len(xs)
           g == [lv \in Range(lvs) |-> StripWidth(lv)]
           h == [x \in Range(xs) |-> MaxX(HvX(lvs[x.level], x.tap), Len(x.lv.taps))]
           S == {StripWidth(lv) : lv \in Range(lvs)}
                \cup {MaxX(HvX(lvs[x.level], x.tap), Len(x.lv.taps)) : x \in Range(xs)}
<1>1. n \in Nat /\ n > 0 /\ DOMAIN lvs = 1 .. n /\ m \in Nat /\ DOMAIN xs = 1 .. m
  OBVIOUS
<1>2. \A lv \in Range(lvs) : g[lv] = StripWidth(lv) /\ g[lv] \in Nat
  <2>1. \A lv \in Range(lvs) : lv \in BuiltLevels
    BY DEF Range
  <2>2. QED
    BY <2>1, BuiltWidth
<1>3. ASSUME NEW x \in Range(xs)
      PROVE  /\ HvX(lvs[x.level], x.tap) \in Nat /\ HvX(lvs[x.level], x.tap) >= 9600
             /\ h[x] = MaxX(HvX(lvs[x.level], x.tap), Len(x.lv.taps)) /\ h[x] \in Nat
  <2> DEFINE lv == lvs[x.level]
             hvX == HvX(lv, x.tap)
             o == Len(x.lv.taps)
  <2>1. x \in TransformerSet
    BY DEF Range
  <2>2. lv \in BuiltLevels /\ x.tap \in DOMAIN lv.taps
    BY DEF Seated
  <2>3. o \in Nat
    BY <2>1, OutputsOf
  <2>4. h[x] = MaxX(hvX, o)
    OBVIOUS
  <2> HIDE DEF lv, o, h
  <2>5. hvX \in Nat /\ hvX >= 9600
    BY <2>2, BuiltWidth
  <2> HIDE DEF hvX
  <2>6. MaxX(hvX, o) \in Nat
    <3>1. hvX \in Nat /\ o \in Nat
      BY <2>3, <2>5
    <3>2. QED
      BY <3>1, MaxXNat
  <2>7. QED
    BY <2>4, <2>5, <2>6 DEF lv, hvX, o
<1>4. CanvasWidth(st) = Max(S)
  BY DEF CanvasWidth
<1>5. S = {g[e] : e \in Range(lvs)} \cup {h[e] : e \in Range(xs)}
  BY <1>2, <1>3
<1> HIDE DEF S, g, h, n, m
<1>6. Valued(lvs, n, g) /\ Valued(xs, m, h) /\ ValuesOf(S, lvs, g, xs, h)
  BY <1>1, <1>2, <1>3, <1>5 DEF Valued, ValuesOf
<1>6a. UpTo(Max(S), lvs, g) /\ UpTo(Max(S), xs, h)
  BY <1>1, <1>6, MaxOfTwo
<1>7. /\ Max(S) \in Nat
      /\ \A e \in Range(lvs) : g[e] <= Max(S)
      /\ \A e \in Range(xs) : h[e] <= Max(S)
  BY <1>6a DEF UpTo
<1>8. QED
  BY <1>2, <1>3, <1>4, <1>7

\* A transformer with few outputs fits into its band.
LEMMA TransformerDrawn ==
    ASSUME NEW x \in TransformerSet, NEW n, n = Len(x.lv.taps), n <= 8, NEW hvX \in Nat, hvX >= 9600,
           NEW top \in Nat, NEW width \in Nat, MaxX(hvX, n) <= width
    PROVE  TransformerFits(x, hvX, top, width, 12120)
<1> DEFINE drawn == DrawTransformer(x, hvX, top)
           name == x.name
           nm == [i \in 1 .. n |-> Output(name, i).name]
           bx == hvX + 3600
<1>1. PICK kv, outputs : outputs \in Seq(TapSet) /\ x.lv = LvLevel(name, kv, outputs) /\ x.lv.taps = outputs
  BY OutputsOf
<1>2. name \in NameSet
  BY OutputsOf
<1>3. n \in Nat /\ n = Len(outputs) /\ DOMAIN outputs = 1 .. n
  BY <1>1
<1>4. TransformerAt(name, nm, n, bx, top, drawn)
  <2>1. hvX \in Int /\ top \in Int
    OBVIOUS
  <2> HIDE DEF drawn
  <2>2. TransformerAt(name, [i \in 1 .. Len(outputs) |-> Output(name, i).name], Len(outputs), bx, top, drawn)
    BY <1>1, <2>1, TransformerMarks DEF drawn
  <2>3. QED
    BY <1>3, <2>2
<1>5. NamesApart(name, nm, n)
  BY <1>2, <1>3, OutputsApart
<1>6. FirstOf(x.lv.breakers, Outputs(name, outputs), OutputSet(name, outputs), n)
  BY <1>1, <1>3, LvDevices
<1>7. \A b \in Range(x.lv.breakers) : \E i \in 1 .. n : b.name = nm[i]
  <2> DEFINE t == x.lv.breakers
             d == Outputs(name, outputs)
  <2>1. t \in Seq(OutputSet(name, outputs)) /\ Len(t) = n /\ \A i \in 1 .. n : t[i] = d[i]
    BY <1>6 DEF FirstOf
  <2> HIDE DEF t, d
  <2>2. DOMAIN t = 1 .. n
    BY <1>3, <2>1
  <2>3. \A i \in 1 .. n : d[i].name = nm[i]
    BY <1>3 DEF d, Outputs
  <2> HIDE DEF nm
  <2>4. \A b \in Range(t) : \E i \in 1 .. n : b = t[i]
    BY <2>2 DEF Range
  <2>5. QED
    BY <2>1, <2>3, <2>4 DEF t
<1>8. bx \in Int /\ top \in Int
  OBVIOUS
<1> HIDE DEF drawn, nm, bx, name
<1>9. /\ \A i \in 1 .. n : Count(drawn, "DIS", nm[i]) = 1
      /\ NoneOverlap(Switches(drawn))
  BY <1>3, <1>4, <1>5, <1>8, OutputsShown
<1>10. \A b \in Range(x.lv.breakers) : Count(drawn, "DIS", b.name) = 1
  BY <1>7, <1>9
<1>11. ASSUME NEW p \in drawn PROVE Inside(p, width, top, 12120)
  BY <1>3, <1>4, <1>11, OutputsInside DEF bx
<1>12. QED
  BY <1>9, <1>10, <1>11 DEF TransformerFits, drawn

\* The diagrams the drawers have room for: 7 breakers fit into the circle of a
\* ring, 8 outputs below a transformer.
SmallDrawing ==
    /\ \A lv \in Range(levels) : lv.layout = "ring_bus" => Len(lv.taps) <= 7
    /\ \A x \in Range(transformers) : Len(x.lv.taps) <= 8

\* A level of a station fits into its strip.
LEMMA BuiltDrawn ==
    ASSUME NEW lv \in BuiltLevels, lv.layout = "ring_bus" => Len(lv.taps) <= 7, NEW top \in Nat,
           NEW width \in Nat, StripWidth(lv) <= width
    PROVE  LevelFits(lv, top, width)
<1>1. PICK name \in NameSet, kv \in Voltages \cup OddVoltages, layout \in Layouts, tps \in Seq(TapSet), start \in Nat :
         lv = Build(name, kv, layout, tps, start)
  BY DEF BuiltLevels
<1>2. ~Refuses(lv.layout, lv.taps)
  BY DEF BuiltLevels
<1>3. lv.layout = layout /\ lv.taps = tps
  BY <1>1, TapsOfBuild
<1>4. ~Refuses(layout, tps) /\ (layout = "ring_bus" => Len(tps) <= 7)
  BY <1>2, <1>3
<1>5. StripWidth(Build(name, kv, layout, tps, start)) <= width
  BY <1>1
<1>6. LevelFits(Build(name, kv, layout, tps, start), top, width)
  BY <1>4, <1>5, LevelDrawn
<1>7. QED
  BY <1>1, <1>6

\* A voltage that is a number is comparable.
LEMMA VoltageNumber ==
    ASSUME NEW lv \in BuiltLevels, lv.kv # NaN
    PROVE  lv.kv \in Int
<1>1. PICK name \in NameSet, kv \in Voltages \cup OddVoltages, layout \in Layouts, tps \in Seq(TapSet), start \in Nat :
         lv = Build(name, kv, layout, tps, start)
  BY DEF BuiltLevels
<1>2. lv.kv = kv
  BY <1>1, TapsOfBuild
<1>3. QED
  BY <1>2, VoltageAssumption

\* Where a transformer draws its symbols.
LEMMA TransformerDrawnAt ==
    ASSUME NEW x \in TransformerSet, NEW hvX \in Int, NEW top \in Int
    PROVE  /\ Len(x.lv.taps) \in Nat /\ Len(x.lv.taps) > 0
           /\ \E nm : TransformerAt(x.name, nm, Len(x.lv.taps), hvX + 3600, top, DrawTransformer(x, hvX, top))
<1>1. PICK kv, outputs : /\ outputs \in Seq(TapSet) /\ Len(outputs) > 0
                         /\ x.lv = LvLevel(x.name, kv, outputs) /\ x.lv.taps = outputs
  BY OutputsOf
<1> DEFINE name == x.name
           drawn == DrawTransformer(x, hvX, top)
           nm == [i \in 1 .. Len(outputs) |-> Output(name, i).name]
<1>2. TransformerAt(name, nm, Len(outputs), hvX + 3600, top, drawn)
  <2> HIDE DEF drawn
  <2>1. TransformerAt(name, [i \in 1 .. Len(outputs) |-> Output(name, i).name], Len(outputs), hvX + 3600, top, drawn)
    BY <1>1, TransformerMarks DEF drawn
  <2>2. QED
    BY <2>1
<1> HIDE DEF name, drawn, nm
<1>3. TransformerAt(name, nm, Len(x.lv.taps), hvX + 3600, top, drawn)
  BY <1>1, <1>2
<1>4. Len(x.lv.taps) \in Nat /\ Len(x.lv.taps) > 0
  BY <1>1
<1>5. QED
  BY <1>3, <1>4 DEF name, drawn

\* Transformers whose fans are apart are drawn apart.
LEMMA BandClear ==
    ASSUME NEW x \in TransformerSet, NEW y \in TransformerSet, NEW top \in Int,
           HvX(levels[x.level], x.tap) \in Nat, HvX(levels[y.level], y.tap) \in Nat, FansApart(x, y)
    PROVE  DrawnApart(x, y, top)
<1> DEFINE hx == HvX(levels[x.level], x.tap)
           hy == HvX(levels[y.level], y.tap)
           n == Len(x.lv.taps)
           m == Len(y.lv.taps)
           dx == DrawTransformer(x, hx, top)
           dy == DrawTransformer(y, hy, top)
<1>1. hx \in Nat /\ hy \in Nat
  OBVIOUS
<1>2. 2 * DisconnectSize = 840
  BY DEF DisconnectSize, Px
<1>3. LET room == HalfFan(n) + HalfFan(m) + 840 IN hx + room <= hy \/ hy + room <= hx
  BY <1>2 DEF FansApart
<1> HIDE DEF hx, hy
<1>4. PICK nm1 : TransformerAt(x.name, nm1, n, hx + 3600, top, dx)
  BY <1>1, TransformerDrawnAt
<1>5. PICK nm2 : TransformerAt(y.name, nm2, m, hy + 3600, top, dy)
  BY <1>1, TransformerDrawnAt
<1>6. n \in Nat /\ n > 0 /\ m \in Nat /\ m > 0
  BY <1>1, TransformerDrawnAt
<1> HIDE DEF n, m, dx, dy
<1>7. HalfFan(n) = 1800 * (n - 1) /\ HalfFan(m) = 1800 * (m - 1)
  BY <1>6, FanWidth
<1>8. LET room == 1800 * (n - 1) + 1800 * (m - 1) + 840
      IN  (hx + 3600) + room <= hy + 3600 \/ (hy + 3600) + room <= hx + 3600
  BY <1>1, <1>3, <1>6, <1>7
<1>9. hx + 3600 \in Int /\ hy + 3600 \in Int
  BY <1>1
<1>10. ASSUME NEW p \in Switches(dx), NEW q \in Switches(dy) PROVE ~Overlap(p, q)
  BY <1>4, <1>5, <1>6, <1>8, <1>9, <1>10, FansClear
<1>11. QED
  BY <1>10 DEF DrawnApart, dx, dy, hx, hy

\* The station of a diagram fits on its canvas.
LEMMA StationFits == StationInv /\ SmallDrawing => DiagramFits
<1> SUFFICES ASSUME StationInv, SmallDrawing, phase = "settings", \A lv \in Range(levels) : lv.kv # NaN
             PROVE  LET st == [levels |-> levels, transformers |-> transformers]
                    IN  /\ \A k \in DOMAIN levels :
                             LevelFits(levels[k], StripY0(Rank(levels, k)), CanvasWidth(st))
                        /\ StripsApart(levels)
                        /\ \A x \in Range(transformers) :
                             TransformerFits(x, HvX(levels[x.level], x.tap), BandTop(levels), CanvasWidth(st),
                                             CanvasHeight(st) - BandTop(levels))
                        /\ \A x, y \in Range(transformers) :
                             FansApart(x, y) => DrawnApart(x, y, BandTop(levels))
  BY DEF DiagramFits
<1> DEFINE st == [levels |-> levels, transformers |-> transformers]
           n == Len(levels)
<1>1. /\ levels \in Seq(BuiltLevels) /\ transformers \in Seq(TransformerSet)
      /\ Seated(levels, transformers)
  BY DEF StationInv, LevelsBuilt, TransformersPlaced, Seated
<1>2. n \in Nat /\ DOMAIN levels = 1 .. n
  BY <1>1
<1>3. \A k \in DOMAIN levels : levels[k] \in BuiltLevels /\ levels[k] \in Range(levels)
  BY <1>1 DEF Range
<1>4. ASSUME NEW k \in DOMAIN levels PROVE levels[k].kv \in Int
  <2>1. levels[k] \in BuiltLevels /\ levels[k].kv # NaN
    BY <1>3
  <2>2. QED
    BY <2>1, VoltageNumber
<1>5. /\ StripsApart(levels)
      /\ \A k \in DOMAIN levels : StripY0(Rank(levels, k)) \in Nat
      /\ BandTop(levels) = 3600 + (n - 1) * 23400 + 20400
  BY <1>2, <1>4, StripsDrawn
<1>6. st.levels = levels /\ st.transformers = transformers
  OBVIOUS
<1> HIDE DEF st, n
<1>7. CASE levels = <<>>
  <2>1. DOMAIN levels = {}
    BY <1>7
  <2>2. Range(transformers) = {}
    BY <1>1, <2>1 DEF Seated
  <2>3. QED
    BY <1>5, <2>1, <2>2
<1>8. CASE levels # <<>>
  <2>1. /\ CanvasWidth(st) \in Nat
        /\ \A lv \in Range(levels) : StripWidth(lv) <= CanvasWidth(st)
        /\ \A x \in Range(transformers) :
             /\ HvX(levels[x.level], x.tap) \in Nat /\ HvX(levels[x.level], x.tap) >= 9600
             /\ MaxX(HvX(levels[x.level], x.tap), Len(x.lv.taps)) <= CanvasWidth(st)
    BY <1>1, <1>6, <1>8, CanvasWide
  <2>2. n > 0
    BY <1>1, <1>8 DEF n
  <2>3. BandTop(levels) \in Nat
    BY <1>2, <1>5, <2>2
  <2>4. ASSUME NEW k \in DOMAIN levels
        PROVE  LevelFits(levels[k], StripY0(Rank(levels, k)), CanvasWidth(st))
    <3> DEFINE lv == levels[k]
               top == StripY0(Rank(levels, k))
    <3>1. lv \in BuiltLevels /\ (lv.layout = "ring_bus" => Len(lv.taps) <= 7) /\ StripWidth(lv) <= CanvasWidth(st)
      BY <1>3, <2>1 DEF SmallDrawing
    <3>2. top \in Nat
      BY <1>5
    <3> HIDE DEF lv, top
    <3>3. LevelFits(lv, top, CanvasWidth(st))
      BY <2>1, <3>1, <3>2, BuiltDrawn
    <3>4. QED
      BY <3>3 DEF lv, top
  <2>5. ASSUME NEW x \in Range(transformers)
        PROVE  TransformerFits(x, HvX(levels[x.level], x.tap), BandTop(levels), CanvasWidth(st),
                               CanvasHeight(st) - BandTop(levels))
    <3> DEFINE hvX == HvX(levels[x.level], x.tap)
               o == Len(x.lv.taps)
               top == BandTop(levels)
               width == CanvasWidth(st)
    <3>1. x \in TransformerSet /\ transformers # <<>>
      BY <1>1 DEF Range
    <3>2. o <= 8 /\ hvX \in Nat /\ hvX >= 9600 /\ MaxX(hvX, o) <= width /\ width \in Nat /\ top \in Nat
      BY <2>1, <2>3 DEF SmallDrawing
    <3>3. CanvasHeight(st) = top + 10920 + 1200
      BY <1>6, <3>1 DEF CanvasHeight, BandHeight, Px
    <3> HIDE DEF hvX, top, width
    <3>4. CanvasHeight(st) - top = 12120
      BY <3>2, <3>3
    <3>5. TransformerFits(x, hvX, top, width, 12120)
      BY <3>1, <3>2, TransformerDrawn
    <3>6. TransformerFits(x, hvX, top, width, CanvasHeight(st) - top)
      BY <3>4, <3>5
    <3>7. QED
      BY <3>6 DEF hvX, top, width
  <2>6. ASSUME NEW x \in Range(transformers), NEW y \in Range(transformers), FansApart(x, y)
        PROVE  DrawnApart(x, y, BandTop(levels))
    <3>1. x \in TransformerSet /\ y \in TransformerSet
      BY <1>1 DEF Range
    <3>2. HvX(levels[x.level], x.tap) \in Nat /\ HvX(levels[y.level], y.tap) \in Nat
      BY <2>1
    <3>3. BandTop(levels) \in Int
      BY <2>3
    <3>4. QED
      BY <2>6, <3>1, <3>2, <3>3, BandClear
  <2>7. QED
    BY <1>5, <2>4, <2>5, <2>6 DEF st
<1>9. QED
  BY <1>7, <1>8

\* The diagram of a station that the drawers have room for shows every breaker
\* and every disconnect of the document once and on the canvas, and each strip
\* keeps to itself.  No two symbols of one level, or below one transformer, are
\* on top of each other; nor are those of two transformers whose taps are as far
\* apart as their outputs stand out.  Nothing is said of transformers that are
\* closer: they share one band, and the drawer does not keep them apart.
THEOREM DiagramDrawn == ToolSpec => [](SmallDrawing => DiagramFits)
<1>1. ToolInv => (SmallDrawing => DiagramFits)
  BY StationFits DEF ToolInv
<1>2. ToolSpec => []ToolInv
  BY ToolInvariant
<1>3. QED
  BY <1>1, <1>2, PTL
=============================================================================
