-------------------------- MODULE Toolchain_proof --------------------------
(***************************************************************************)
(* Proofs about Toolchain for all answers: every name, voltage, layout and *)
(* number of levels, taps and transformers that the dialogue accepts.  The *)
(* invariant says what the dialogue builds and that the document and the   *)
(* configurations are those of the station; the theorems then follow from  *)
(* lemmas about the operators, which say part by part what a document and  *)
(* a configuration hold.                                                   *)
(***************************************************************************)
EXTENDS Toolchain, FiniteSetTheorems, WellFoundedInduction, TLAPS

(* Induction. *)

\* A set of naturals that is not empty has a least element.
LEMMA LeastNat ==
    ASSUME NEW T \in SUBSET Nat, T # {}
    PROVE  \E x \in T : \A y \in T : x <= y
<1> DEFINE Less == {ss \in Nat \X Nat : ss[1] < ss[2]}
<1>1. IsWellFoundedOn(Less, Nat)
  BY NatLessThanWellFounded DEF OpToRel
<1> HIDE DEF Less
<1>2. PICK x \in T : \A y \in T : ~ (<<y, x>> \in Less)
  BY <1>1, WFMin
<1>3. ASSUME NEW y \in T PROVE x <= y
  <2>1. ~ (<<y, x>> \in Less) /\ x \in Nat /\ y \in Nat
    BY <1>2
  <2>2. QED
    BY <2>1, SMT DEF Less
<1>4. QED
  BY <1>3

\* Induction on the naturals, for a set instead of a predicate.
LEMMA Induction ==
    ASSUME NEW S, 0 \in S, \A n \in Nat : n \in S => n + 1 \in S
    PROVE  Nat \subseteq S
<1> SUFFICES ASSUME ~ (Nat \subseteq S) PROVE FALSE
  OBVIOUS
<1> DEFINE T == {n \in Nat : n \notin S}
<1>1. PICK x \in T : \A y \in T : x <= y
  BY LeastNat
<1>2. x # 0 /\ x - 1 \in Nat /\ x - 1 \notin T
  BY <1>1
<1>3. QED
  BY <1>1, <1>2

(* Sequences. *)

\* A function with a domain like that of a sequence is one.
LEMMA FunctionAsSequence ==
    ASSUME NEW S, NEW n \in Nat, NEW f \in [1 .. n -> S]
    PROVE  f \in Seq(S) /\ Len(f) = n
OBVIOUS

\* FlattenSeq joins the elements one after the other.
LEMMA FlattenDef ==
  ASSUME NEW ss, NEW n \in Nat, Len(ss) = n, n > 0
  PROVE  \E f : /\ f = [i \in 1 .. n |-> IF i = 1 THEN ss[i] ELSE f[i - 1] \o ss[i]]
                /\ FlattenSeq(ss) = f[n]
<1> DEFINE Body(f, i) == IF i = 1 THEN ss[i] ELSE f[i - 1] \o ss[i]
           Is(f, m) == f = [i \in 1 .. m |-> Body(f, i)]
           S == {m \in Nat : m > 0 => \E f : Is(f, m)}
<1>1. 0 \in S
  OBVIOUS
<1>2. ASSUME NEW m \in Nat, m \in S PROVE m + 1 \in S
  <2>1. CASE m = 0
    <3> DEFINE g == [i \in 1 .. 1 |-> ss[i]]
    <3>1. \A i \in 1 .. 1 : ss[i] = Body(g, i)
      OBVIOUS
    <3> HIDE DEF Body
    <3>2. Is(g, 1)
      BY <3>1
    <3>3. QED
      BY <3>2, <2>1
  <2>2. CASE m > 0
    <3>1. PICK f : Is(f, m)
      BY <1>2, <2>2
    <3> DEFINE g == [i \in 1 .. m + 1 |-> IF i = m + 1 THEN f[m] \o ss[m + 1] ELSE f[i]]
    <3>2. ASSUME NEW i \in 1 .. m + 1 PROVE g[i] = Body(g, i)
      <4>1. CASE i = m + 1
        <5>1. i # 1 /\ i - 1 = m /\ m \in 1 .. m + 1 /\ m # m + 1
          BY <2>2, <4>1
        <5>2. g[m] = f[m]
          BY <5>1
        <5>3. g[i] = f[m] \o ss[i]
          BY <4>1
        <5> HIDE DEF g
        <5>4. QED
          BY <5>1, <5>2, <5>3
      <4>2. CASE i \in 1 .. m
        <5>1. f[i] = Body(f, i)
          BY <3>1, <4>2
        <5>2. i # 1 => f[i - 1] = g[i - 1]
          BY <4>2
        <5>3. g[i] = f[i]
          BY <4>2
        <5> HIDE DEF g
        <5>4. QED
          BY <5>1, <5>2, <5>3
      <4>3. QED
        BY <4>1, <4>2
    <3>3. g = [i \in 1 .. m + 1 |-> g[i]]
      OBVIOUS
    <3> HIDE DEF g, Body
    <3>4. Is(g, m + 1)
      BY <3>2, <3>3
    <3> HIDE DEF Is
    <3>5. QED
      BY <3>4
  <2>3. m = 0 \/ m > 0
    OBVIOUS
  <2> HIDE DEF S
  <2>4. QED
    BY <2>1, <2>2, <2>3
<1> HIDE DEF Body
<1>3. n \in S
  <2> HIDE DEF S
  <2> QED
    BY <1>1, <1>2, Induction
<1>4. \E f : Is(f, n)
  BY <1>3
<1>5. FlattenSeq(ss) = (CHOOSE f : Is(f, n))[n]
  BY DEF FlattenSeq, Body
<1> HIDE DEF Is
<1>6. Is(CHOOSE f : Is(f, n), n)
  BY <1>4
<1>7. PICK f : Is(f, n) /\ FlattenSeq(ss) = f[n]
  BY <1>5, <1>6
<1>8. QED
  BY <1>7 DEF Is, Body

\* FlattenSeq lists the elements of its sequences in order, each once: at each
\* of its places is an element of one of them, and at each of theirs.
Places(ss) == {pl \in Nat \X Nat : pl[1] \in DOMAIN ss /\ pl[2] \in DOMAIN ss[pl[1]]}

Lists(t, ss, at) ==
    /\ at \in [DOMAIN t -> Nat \X Nat]
    /\ \A p \in DOMAIN t :
         /\ at[p] \in Places(ss)
         /\ t[p] = ss[at[p][1]][at[p][2]]
    /\ \A p, q \in DOMAIN t : p < q => \/ at[p][1] < at[q][1]
                                       \/ at[p][1] = at[q][1] /\ at[p][2] < at[q][2]
    /\ \A place \in Places(ss) : \E p \in DOMAIN t : at[p] = place

\* The first list, place by place, ...
LEMMA ListsOne ==
    ASSUME NEW S, NEW ss, DOMAIN ss = {1}, ss[1] \in Seq(S)
    PROVE  \E at : Lists(ss[1], ss, at)
<1> DEFINE at == [p \in DOMAIN ss[1] |-> <<1, p>>]
<1>1. DOMAIN ss[1] \subseteq Nat
  OBVIOUS
<1>2. Lists(ss[1], ss, at)
  BY <1>1 DEF Lists, Places
<1>3. QED
  BY <1>2

\* ... and one list more.
LEMMA ListsMore ==
    ASSUME NEW S, NEW n \in Nat, NEW ss, DOMAIN ss = 1 .. n + 1,
           NEW t \in Seq(S), NEW at, Lists(t, [k \in 1 .. n |-> ss[k]], at), ss[n + 1] \in Seq(S)
    PROVE  \E new : Lists(t \o ss[n + 1], ss, new)
<1> DEFINE more == ss[n + 1]
           all == t \o more
           L == Len(t)
           front == [k \in 1 .. n |-> ss[k]]
           new == [p \in DOMAIN all |-> IF p <= L THEN at[p] ELSE <<n + 1, p - L>>]
<1>1. /\ L \in Nat /\ Len(more) \in Nat
      /\ DOMAIN t = 1 .. L /\ DOMAIN more = 1 .. Len(more)
      /\ DOMAIN all = 1 .. L + Len(more)
      /\ \A p \in 1 .. L : all[p] = t[p]
      /\ \A p \in 1 .. Len(more) : all[L + p] = more[p]
  OBVIOUS
<1> HIDE DEF more, all, L
<1>2. /\ \A p \in 1 .. L : p \in DOMAIN all /\ new[p] = at[p]
      /\ \A p \in 1 .. Len(more) : L + p \in DOMAIN all /\ new[L + p] = <<n + 1, p>>
  <2>1. ASSUME NEW p \in 1 .. Len(more) PROVE L + p \in DOMAIN all /\ new[L + p] = <<n + 1, p>>
    <3>1. ~ (L + p <= L) /\ (L + p) - L = p /\ L + p \in DOMAIN all
      BY <1>1
    <3>2. QED
      BY <3>1
  <2>2. QED
    BY <1>1, <2>1
<1>3. \A p \in DOMAIN all : p \in 1 .. L \/ \E q \in 1 .. Len(more) : p = L + q
  <2>1. ASSUME NEW p \in DOMAIN all, p \notin 1 .. L PROVE p - L \in 1 .. Len(more) /\ p = L + (p - L)
    BY <1>1, <2>1
  <2>2. QED
    BY <2>1
<1>4. \A p \in 1 .. L : at[p] \in Nat \X Nat /\ at[p][1] \in 1 .. n /\ at[p] \in Places(ss)
                       /\ at[p][2] \in Nat /\ t[p] = ss[at[p][1]][at[p][2]]
  <2>1. ASSUME NEW p \in 1 .. L PROVE at[p] \in Places(front) /\ t[p] = front[at[p][1]][at[p][2]]
    BY <1>1 DEF Lists
  <2>2. ASSUME NEW pl \in Places(front)
        PROVE  /\ pl \in Nat \X Nat /\ pl[1] \in 1 .. n /\ pl[2] \in Nat
               /\ front[pl[1]] = ss[pl[1]] /\ pl[1] \in DOMAIN ss /\ pl[2] \in DOMAIN ss[pl[1]]
    BY DEF Places
  <2> HIDE DEF front
  <2>3. QED
    BY <2>1, <2>2 DEF Places
<1> HIDE DEF new
<1>5. \A p \in DOMAIN all : new[p] \in Places(ss) /\ all[p] = ss[new[p][1]][new[p][2]]
  <2>1. ASSUME NEW p \in 1 .. L PROVE new[p] \in Places(ss) /\ all[p] = ss[new[p][1]][new[p][2]]
    BY <1>1, <1>2, <1>4
  <2>2. ASSUME NEW q \in 1 .. Len(more)
        PROVE  new[L + q] \in Places(ss) /\ all[L + q] = ss[new[L + q][1]][new[L + q][2]]
    <3>1. q \in Nat /\ n + 1 \in DOMAIN ss /\ q \in DOMAIN ss[n + 1]
      BY <1>1 DEF more
    <3>2. <<n + 1, q>> \in Places(ss) /\ more[q] = ss[n + 1][q]
      BY <3>1 DEF Places, more
    <3>3. new[L + q] = <<n + 1, q>> /\ all[L + q] = more[q]
      BY <1>1, <1>2
    <3>4. new[L + q][1] = n + 1 /\ new[L + q][2] = q
      BY <3>3
    <3>5. QED
      BY <3>2, <3>3, <3>4
  <2>3. QED
    BY <1>3, <2>1, <2>2
<1>6. new \in [DOMAIN all -> Nat \X Nat]
  <2>1. \A p \in DOMAIN all : new[p] \in Nat \X Nat
    BY <1>5 DEF Places
  <2>2. QED
    BY <2>1 DEF new
<1>7. ASSUME NEW p \in DOMAIN all, NEW q \in DOMAIN all, p < q
      PROVE  new[p][1] < new[q][1] \/ (new[p][1] = new[q][1] /\ new[p][2] < new[q][2])
  <2>1. CASE q \in 1 .. L
    <3>1. p \in 1 .. L
      BY <1>1, <1>7, <2>1
    <3>2. at[p][1] < at[q][1] \/ (at[p][1] = at[q][1] /\ at[p][2] < at[q][2])
      <4>1. p \in DOMAIN t /\ q \in DOMAIN t
        BY <1>1, <2>1, <3>1
      <4> HIDE DEF front
      <4>2. QED
        BY <4>1, <1>7 DEF Lists
    <3>3. QED
      BY <1>2, <2>1, <3>1, <3>2
  <2>2. CASE p \in 1 .. L /\ q \notin 1 .. L
    <3>1. PICK r \in 1 .. Len(more) : q = L + r
      BY <1>3, <2>2
    <3>2. new[q][1] = n + 1 /\ new[p][1] \in 1 .. n
      BY <1>2, <1>4, <2>2, <3>1
    <3>3. QED
      BY <3>2
  <2>3. CASE p \notin 1 .. L /\ q \notin 1 .. L
    <3>1. PICK r \in 1 .. Len(more) : q = L + r
      BY <1>3, <2>3
    <3>2. PICK o \in 1 .. Len(more) : p = L + o
      BY <1>3, <2>3
    <3>3. o < r
      BY <1>1, <1>7, <3>1, <3>2
    <3>4. new[p] = <<n + 1, o>> /\ new[q] = <<n + 1, r>>
      BY <1>2, <3>1, <3>2
    <3>5. QED
      BY <3>3, <3>4
  <2>4. QED
    BY <2>1, <2>2, <2>3
<1>8. ASSUME NEW place \in Places(ss) PROVE \E p \in DOMAIN all : new[p] = place
  <2>1. PICK k \in Nat, j \in Nat : place = <<k, j>> /\ k \in DOMAIN ss /\ j \in DOMAIN ss[k]
    BY <1>8 DEF Places
  <2>2. CASE k = n + 1
    <3>1. j \in 1 .. Len(more)
      BY <1>1, <2>1, <2>2 DEF more
    <3>2. QED
      BY <1>2, <2>1, <2>2, <3>1
  <2>3. CASE k \in 1 .. n
    <3>1. place \in Places(front)
      BY <2>1, <2>3 DEF Places
    <3>2. PICK p \in DOMAIN t : at[p] = place
      BY <3>1 DEF Lists
    <3>3. QED
      BY <1>1, <1>2, <3>2
  <2>4. QED
    BY <2>1, <2>2, <2>3
<1>9. Lists(all, ss, new)
  BY <1>5, <1>6, <1>7, <1>8 DEF Lists
<1>10. QED
  BY <1>9 DEF all, more

\* FlattenSeq lists every place of every element once, in order.
LEMMA FlattenLists ==
    ASSUME NEW S, NEW ss \in Seq(Seq(S))
    PROVE  /\ FlattenSeq(ss) \in Seq(S)
           /\ \E at : Lists(FlattenSeq(ss), ss, at)
<1> DEFINE n == Len(ss)
<1>1. n \in Nat /\ DOMAIN ss = 1 .. n /\ \A k \in 1 .. n : ss[k] \in Seq(S)
  OBVIOUS
<1>2. CASE n = 0
  <2>1. FlattenSeq(ss) = <<>> /\ ss = <<>>
    BY <1>2 DEF FlattenSeq
  <2>2. Lists(<<>>, <<>>, <<>>)
    BY DEF Lists, Places
  <2>3. QED
    BY <2>1, <2>2
<1>3. CASE n > 0
  <2>1. PICK f : /\ f = [i \in 1 .. n |-> IF i = 1 THEN ss[i] ELSE f[i - 1] \o ss[i]]
                 /\ FlattenSeq(ss) = f[n]
    BY <1>1, <1>3, FlattenDef
  <2> DEFINE Upto(m) == [k \in 1 .. m |-> ss[k]]
             P(m) == f[m] \in Seq(S) /\ \E at : Lists(f[m], Upto(m), at)
             Good == {m \in Nat : m \in 1 .. n => P(m)}
  <2>2. \A i \in 1 .. n : f[i] = IF i = 1 THEN ss[i] ELSE f[i - 1] \o ss[i]
    BY <2>1, Zenon
  <2> HIDE DEF P, n
  <2>3. ASSUME NEW m \in Nat, m \in Good, m + 1 \in 1 .. n PROVE P(m + 1)
    <3>1. CASE m = 0
      <4>1. f[1] = ss[1] /\ ss[1] \in Seq(S)
        BY <1>1, <2>2, <2>3, <3>1
      <4>2. DOMAIN Upto(1) = {1} /\ Upto(1)[1] = ss[1]
        OBVIOUS
      <4>3. \E at : Lists(f[1], Upto(1), at)
        BY <4>1, <4>2, ListsOne
      <4> HIDE DEF Upto
      <4>4. P(1) /\ m + 1 = 1
        <5>1. f[1] \in Seq(S)
          BY <4>1
        <5>2. m + 1 = 1
          BY <3>1
        <5>3. QED
          BY <4>3, <5>1, <5>2, Zenon DEF P
      <4>5. QED
        BY <4>4
    <3>2. CASE m > 0
      <4>1. P(m) /\ m \in 1 .. n
        BY <1>1, <2>3, <3>2
      <4>2. f[m + 1] = f[m] \o ss[m + 1] /\ ss[m + 1] \in Seq(S)
        <5>1. m + 1 # 1 /\ (m + 1) - 1 = m
          BY <3>2
        <5>2. QED
          BY <1>1, <2>2, <2>3, <5>1
      <4>3. PICK at : Lists(f[m], Upto(m), at)
        BY <4>1 DEF P
      <4>4. /\ DOMAIN Upto(m + 1) = 1 .. m + 1
            /\ Upto(m + 1)[m + 1] = ss[m + 1]
            /\ Upto(m) = [k \in 1 .. m |-> Upto(m + 1)[k]]
        OBVIOUS
      <4>5. f[m] \in Seq(S)
        BY <4>1 DEF P
      <4> HIDE DEF Upto
      <4>6. \E new : Lists(f[m] \o ss[m + 1], Upto(m + 1), new)
        <5> DEFINE up == Upto(m + 1)
                   t == f[m]
        <5>1. DOMAIN up = 1 .. m + 1 /\ t \in Seq(S) /\ up[m + 1] \in Seq(S)
          BY <4>2, <4>4, <4>5
        <5>2. Lists(t, [k \in 1 .. m |-> up[k]], at)
          BY <4>3, <4>4
        <5> HIDE DEF up, t
        <5>3. \E new : Lists(t \o up[m + 1], up, new)
          BY <5>1, <5>2, ListsMore
        <5>4. QED
          BY <4>4, <5>3 DEF up, t
      <4>7. f[m + 1] \in Seq(S)
        BY <4>2, <4>5
      <4>8. QED
        BY <4>2, <4>6, <4>7 DEF P, Upto
    <3>3. QED
      BY <3>1, <3>2
  <2>4. Nat \subseteq Good
    <3>1. 0 \in Good /\ \A m \in Nat : m \in Good => m + 1 \in Good
      BY <2>3
    <3> HIDE DEF Good
    <3>2. QED
      BY <3>1, Induction
  <2>5. P(n)
    BY <1>1, <1>3, <2>4
  <2>6. Upto(n) = ss
    BY <1>1
  <2>7. QED
    BY <2>1, <2>5, <2>6 DEF P
<1>4. QED
  BY <1>1, <1>2, <1>3

\* What a concatenation and a FlattenSeq hold.
LEMMA RangeConcat ==
    ASSUME NEW S, NEW s \in Seq(S), NEW t \in Seq(S)
    PROVE  s \o t \in Seq(S) /\ Range(s \o t) = Range(s) \cup Range(t)
<1>1. /\ s \o t \in Seq(S) /\ DOMAIN s = 1 .. Len(s) /\ DOMAIN t = 1 .. Len(t)
      /\ Len(s) \in Nat /\ Len(t) \in Nat /\ DOMAIN (s \o t) = 1 .. Len(s) + Len(t)
      /\ \A p \in DOMAIN s : p \in DOMAIN (s \o t) /\ (s \o t)[p] = s[p]
      /\ \A p \in DOMAIN t : Len(s) + p \in DOMAIN (s \o t) /\ (s \o t)[Len(s) + p] = t[p]
  OBVIOUS
<1>2. \A p \in 1 .. Len(s) + Len(t) : p \in 1 .. Len(s) \/ \E q \in 1 .. Len(t) : p = Len(s) + q
  <2>1. ASSUME NEW p \in 1 .. Len(s) + Len(t), p \notin 1 .. Len(s)
        PROVE  p - Len(s) \in 1 .. Len(t) /\ p = Len(s) + (p - Len(s))
    BY <1>1, <2>1
  <2>2. QED
    BY <2>1
<1> DEFINE u == s \o t
<1>3. ASSUME NEW p \in DOMAIN u PROVE u[p] \in Range(s) \cup Range(t)
  <2>1. CASE p \in DOMAIN s
    BY <1>1, <2>1 DEF Range
  <2>2. CASE \E q \in DOMAIN t : p = Len(s) + q
    BY <1>1, <2>2 DEF Range
  <2>3. QED
    BY <1>1, <1>2, <2>1, <2>2
<1>4. Range(s) \subseteq Range(u) /\ Range(t) \subseteq Range(u)
  BY <1>1 DEF Range
<1> HIDE DEF u
<1>5. Range(u) = Range(s) \cup Range(t)
  BY <1>3, <1>4 DEF Range
<1>6. QED
  BY <1>1, <1>5 DEF u

\* A FlattenSeq holds what its elements hold.
LEMMA RangeFlatten ==
    ASSUME NEW S, NEW ss \in Seq(Seq(S))
    PROVE  Range(FlattenSeq(ss)) = UNION {Range(ss[k]) : k \in DOMAIN ss}
<1> DEFINE t == FlattenSeq(ss)
<1>1. t \in Seq(S)
  BY FlattenLists
<1>2. PICK at : Lists(t, ss, at)
  BY FlattenLists
<1> HIDE DEF t
<1>3. ASSUME NEW p \in DOMAIN t PROVE \E k \in DOMAIN ss : t[p] \in Range(ss[k])
  <2>1. at[p] \in Places(ss) /\ t[p] = ss[at[p][1]][at[p][2]]
    BY <1>2 DEF Lists
  <2>2. at[p][1] \in DOMAIN ss /\ at[p][2] \in DOMAIN ss[at[p][1]]
    BY <2>1 DEF Places
  <2>3. QED
    BY <2>1, <2>2 DEF Range
<1>4. ASSUME NEW k \in DOMAIN ss, NEW j \in DOMAIN ss[k] PROVE \E p \in DOMAIN t : t[p] = ss[k][j]
  <2>1. k \in Nat /\ j \in Nat
    OBVIOUS
  <2>2. <<k, j>> \in Places(ss)
    BY <2>1 DEF Places
  <2>3. PICK p \in DOMAIN t : at[p] = <<k, j>>
    BY <1>2, <2>2 DEF Lists
  <2>4. t[p] = ss[at[p][1]][at[p][2]]
    BY <1>2 DEF Lists
  <2>5. QED
    BY <2>3, <2>4
<1>5. Range(t) = UNION {Range(ss[k]) : k \in DOMAIN ss}
  BY <1>3, <1>4 DEF Range
<1>6. QED
  BY <1>5 DEF t

\* At lists the elements at the places in their order, each once.
Picks(t, s, P) ==
    \E f \in [DOMAIN t -> P] :
       /\ \A p \in DOMAIN t : t[p] = s[f[p]]
       /\ \A p, q \in DOMAIN t : p < q => f[p] < f[q]
       /\ \A k \in P : \E p \in DOMAIN t : f[p] = k

LEMMA AtPicks ==
    ASSUME NEW S, NEW s \in Seq(S), NEW P \in SUBSET DOMAIN s
    PROVE  At(s, P) \in Seq(S) /\ Picks(At(s, P), s, P)
<1> DEFINE ss == [k \in DOMAIN s |-> IF k \in P THEN <<s[k]>> ELSE <<>>]
           t == FlattenSeq(ss)
<1>1. ss \in Seq(Seq(S)) /\ DOMAIN ss = DOMAIN s /\ DOMAIN s \subseteq Nat
  <2>1. Len(s) \in Nat /\ DOMAIN s = 1 .. Len(s)
    OBVIOUS
  <2>2. \A k \in DOMAIN s : (IF k \in P THEN <<s[k]>> ELSE <<>>) \in Seq(S)
    OBVIOUS
  <2>3. ss \in [1 .. Len(s) -> Seq(S)]
    BY <2>1, <2>2
  <2> HIDE DEF ss
  <2>4. ss \in Seq(Seq(S))
    BY <2>1, <2>3, FunctionAsSequence
  <2>5. QED
    BY <2>1, <2>3, <2>4
<1>2. \A k \in DOMAIN s : /\ k \in P => DOMAIN ss[k] = {1} /\ ss[k][1] = s[k]
                          /\ k \notin P => DOMAIN ss[k] = {}
  OBVIOUS
<1> HIDE DEF ss
<1>3. t \in Seq(S) /\ \E at : Lists(t, ss, at)
  BY <1>1, FlattenLists
<1>4. PICK at : Lists(t, ss, at)
  BY <1>3
<1> DEFINE f == [p \in DOMAIN t |-> at[p][1]]
<1> HIDE DEF t
<1>5. ASSUME NEW p \in DOMAIN t
      PROVE  /\ at[p][1] \in P /\ at[p][2] = 1
             /\ t[p] = s[at[p][1]]
  <2>1. at[p] \in Places(ss) /\ t[p] = ss[at[p][1]][at[p][2]]
    BY <1>4 DEF Lists
  <2>2. at[p][1] \in DOMAIN s /\ at[p][2] \in DOMAIN ss[at[p][1]]
    BY <1>1, <2>1 DEF Places
  <2>3. QED
    BY <1>2, <2>1, <2>2
<1>6. ASSUME NEW p \in DOMAIN t, NEW q \in DOMAIN t, p < q PROVE at[p][1] < at[q][1]
  <2>1. at[p][1] < at[q][1] \/ (at[p][1] = at[q][1] /\ at[p][2] < at[q][2])
    BY <1>4, <1>6 DEF Lists
  <2>2. QED
    BY <1>5, <2>1
<1>7. ASSUME NEW k \in P PROVE \E p \in DOMAIN t : at[p][1] = k
  <2>1. <<k, 1>> \in Places(ss)
    BY <1>1, <1>2 DEF Places
  <2>2. \E p \in DOMAIN t : at[p] = <<k, 1>>
    BY <1>4, <2>1 DEF Lists
  <2>3. QED
    BY <2>2
<1>8. /\ f \in [DOMAIN t -> P]
      /\ \A p \in DOMAIN t : t[p] = s[f[p]]
      /\ \A p, q \in DOMAIN t : p < q => f[p] < f[q]
      /\ \A k \in P : \E p \in DOMAIN t : f[p] = k
  BY <1>5, <1>6, <1>7
<1> HIDE DEF f
<1>9. Picks(t, s, P)
  BY <1>8 DEF Picks
<1>10. At(s, P) = t
  BY DEF At, t, ss
<1>11. QED
  BY <1>3, <1>9, <1>10

\* Which places a selection picks.
LEMMA AtPlaces ==
    ASSUME NEW S, NEW s \in Seq(S), NEW P \in SUBSET DOMAIN s
    PROVE  \E f \in [DOMAIN At(s, P) -> P] :
             /\ \A p \in DOMAIN At(s, P) : At(s, P)[p] = s[f[p]]
             /\ \A p, q \in DOMAIN At(s, P) : p < q => f[p] < f[q]
             /\ \A k \in P : \E p \in DOMAIN At(s, P) : f[p] = k
<1>1. Picks(At(s, P), s, P)
  BY AtPicks
<1>2. QED
  BY <1>1 DEF Picks

\* At holds what the sequence holds at those places.
LEMMA RangeAt ==
    ASSUME NEW S, NEW s \in Seq(S), NEW P \in SUBSET DOMAIN s
    PROVE  At(s, P) \in Seq(S) /\ Range(At(s, P)) = {s[k] : k \in P}
<1> DEFINE t == At(s, P)
<1>0. t \in Seq(S) /\ Picks(t, s, P)
  BY AtPicks
<1>1. PICK f \in [DOMAIN t -> P] : /\ \A p \in DOMAIN t : t[p] = s[f[p]]
                                   /\ \A k \in P : \E p \in DOMAIN t : f[p] = k
  BY <1>0 DEF Picks
<1>2. t \in Seq(S)
  BY <1>0
<1> HIDE DEF t
<1>3. Range(t) = {s[k] : k \in P}
  BY <1>1 DEF Range
<1>4. QED
  BY <1>2, <1>3 DEF t

\* The places of a sequence without repetition differ in what they hold.
LEMMA DistinctAt ==
    ASSUME NEW S, NEW s \in Seq(S), NEW P \in SUBSET DOMAIN s,
           \A i, j \in P : s[i] = s[j] => i = j
    PROVE  Distinct(At(s, P))
<1> DEFINE t == At(s, P)
<1>0. t \in Seq(S) /\ Picks(t, s, P)
  BY AtPicks
<1>1. PICK f \in [DOMAIN t -> P] : /\ \A p \in DOMAIN t : t[p] = s[f[p]]
                                   /\ \A p, q \in DOMAIN t : p < q => f[p] < f[q]
  BY <1>0 DEF Picks
<1>2. t \in Seq(S) /\ DOMAIN s \subseteq Nat
  BY <1>0
<1>3. DOMAIN t \subseteq Nat
  <2> HIDE DEF t
  <2> QED
    BY <1>2
<1> HIDE DEF t
<1>4. ASSUME NEW p \in DOMAIN t, NEW q \in DOMAIN t, t[p] = t[q] PROVE p = q
  <2>1. f[p] = f[q] /\ f[p] \in Nat /\ f[q] \in Nat
    BY <1>1, <1>2, <1>4
  <2>2. ~ (p < q) /\ ~ (q < p)
    BY <1>1, <2>1
  <2>3. QED
    BY <1>3, <2>2
<1>5. QED
  BY <1>4 DEF Distinct, t

-----------------------------------------------------------------------------
(* What the dialogue builds. *)

Stems == STRING \cup {"V", "Tap", "XFMR", "Feed", "SCADA"}
NameSet == Stems \X Nat \X Seq(STRING)
TapSet == [name : NameSet, kind : TapKinds]

\* The levels the builders of the layouts make of taps they do not refuse.
BuiltLevels ==
    {lv \in {Build(name, kv, layout, tps, start) :
                 name \in NameSet, kv \in Voltages \cup OddVoltages, layout \in Layouts,
                 tps \in Seq(TapSet), start \in Nat} :
        ~Refuses(lv.layout, lv.taps)}

\* A transformer has at least one output.
OutputSeqs == Seq(TapSet) \ {<<>>}
LvLevels == {LvLevel(name, kv, outputs) :
                 name \in NameSet, kv \in LvVoltages, outputs \in OutputSeqs}

TransformerSet == {x \in [name : NameSet, level : Nat, tap : Nat, lv : LvLevels] : x.lv.name = Suffixed(x.name, "LV")}
SpecSet == [name : NameSet, kv : LvVoltages, outputs : OutputSeqs] \cup {NoSpec}

NetworkSet == [hostBreakers : Nat, hostTransformers : Nat, scadaHost : Int, macPrefix : STRING \cup {GooseMacPrefix},
               appidBase : Nat, minTime : Nat \ {0}, maxTime : Nat \ {0}]
ScadaSet == [iedName : NameSet, undervoltage : BOOLEAN, trip : BOOLEAN]

LevelsBuilt == levels \in Seq(BuiltLevels) /\ breakerIndex \in Nat

TransformersPlaced ==
    /\ transformers \in Seq(TransformerSet) /\ xfmrIndex \in Nat
    /\ \A x \in Range(transformers) : /\ x.level \in DOMAIN levels
                                      /\ x.tap \in DOMAIN levels[x.level].taps

DraftTyped ==
    /\ taps \in Seq(TapSet) /\ specs \in Seq(SpecSet) /\ Len(specs) = Len(taps)
    /\ phase = "taps" => /\ draft.name \in NameSet /\ draft.layout \in Layouts
                         /\ draft.kv \in Voltages \cup OddVoltages

SettingsTyped ==
    phase \in {"confirm", "accepted"} =>
        settings.network \in NetworkSet /\ settings.scada \in ScadaSet

StationInv == LevelsBuilt /\ TransformersPlaced /\ DraftTyped /\ SettingsTyped

\* A name without suffixes.
LEMMA PlainName ==
    ASSUME NEW stem \in {"V", "Tap", "XFMR", "Feed", "SCADA"}, NEW n \in Nat
    PROVE  <<stem, n, <<>>>> \in NameSet
<1>1. <<>> \in Seq(STRING)
  OBVIOUS
<1>2. QED
  BY <1>1 DEF NameSet, Stems

\* Build keeps the taps and the layout it is given.
LEMMA TapsOfBuild ==
    ASSUME NEW name, NEW kv, NEW layout, NEW tps, NEW start
    PROVE  /\ Build(name, kv, layout, tps, start).name = name
           /\ Build(name, kv, layout, tps, start).layout = layout
           /\ Build(name, kv, layout, tps, start).taps = tps
           /\ Build(name, kv, layout, tps, start).kv = kv
BY DEF Build, Level

\* The dialogue begins with nothing built, ...
LEMMA InitStation == Init => StationInv
<1> SUFFICES ASSUME Init PROVE StationInv
  OBVIOUS
<1>1. LevelsBuilt /\ DraftTyped /\ SettingsTyped
  BY DEF Init, LevelsBuilt, DraftTyped, SettingsTyped
<1>2. Range(transformers) = {}
  BY DEF Init, Range
<1>3. TransformersPlaced
  BY <1>2 DEF Init, TransformersPlaced
<1>4. QED
  BY <1>1, <1>3 DEF StationInv

\* ... and each of its turns keeps what is built well formed: a level is named, ...
LEMMA NameLevelStation == StationInv /\ NameLevel => StationInv'
<1> SUFFICES ASSUME StationInv, NameLevel PROVE StationInv'
  OBVIOUS
<1>1. LevelsBuilt' /\ TransformersPlaced' /\ SettingsTyped'
  BY DEF StationInv, LevelsBuilt, TransformersPlaced, SettingsTyped, NameLevel, built
<1>2. PICK name \in AskStr({<<"V", Len(levels) + 1, <<>>>>}, Identifiers),
           kv \in Answers(AskFloat(Voltages, 0), AskFloat(OddVoltages, 0)), layout \in Layouts :
         draft' = [name |-> name[1], kv |-> kv[1], layout |-> layout]
  BY DEF NameLevel
<1>3. name[1] \in NameSet
  <2>1. <<"V", Len(levels) + 1, <<>>>> \in NameSet
    <3>1. Len(levels) + 1 \in Nat
      BY DEF StationInv, LevelsBuilt
    <3>2. QED
      BY <3>1, PlainName
  <2>2. Identifiers \subseteq NameSet
    BY WizardAssumption DEF Identifiers, NameSet, Stems
  <2>3. QED
    BY <1>2, <2>1, <2>2 DEF AskStr, Answers
<1>4. kv[1] \in Voltages \cup OddVoltages
  BY <1>2 DEF Answers, AskFloat
<1>5. DraftTyped'
  BY <1>2, <1>3, <1>4 DEF DraftTyped, NameLevel
<1>6. QED
  BY <1>1, <1>5 DEF StationInv

\* The number of a transformer is a natural number.
LEMMA XfmrNumNat ==
    ASSUME StationInv
    PROVE  XfmrNum \in Nat
<1>1. TransformerTaps \subseteq 1 .. Len(taps) /\ Len(taps) \in Nat
  BY DEF StationInv, DraftTyped, TransformerTaps
<1>2. IsFiniteSet(1 .. Len(taps))
  BY <1>1, FS_Interval
<1>3. Cardinality(TransformerTaps) \in Nat
  BY <1>1, <1>2, FS_Subset, FS_CardinalityType
<1>4. QED
  BY <1>3 DEF XfmrNum, StationInv, TransformersPlaced

\* The answers about the LV side are typed.
LEMMA TransformerSpecsTyped ==
    ASSUME StationInv, NEW s \in TransformerSpecs
    PROVE  s.spec \in SpecSet
<1>1. PICK name \in AskStr({Xfmr(XfmrNum)}, IedNames),
           kv \in {v \in AskFloat(LvVoltages, 0) : ~AtMost(draft.kv, v)},
           outputs \in Answers({<<Feed(1)>>}, {<<Feed(1), Feed(2)>>}) :
         s = SpecAnswer(name, kv, outputs)
  BY DEF TransformerSpecs
<1>2. name[1] \in NameSet
  <2>1. Xfmr(XfmrNum) \in NameSet
    BY XfmrNumNat, PlainName DEF Xfmr
  <2>2. IedNames \subseteq NameSet
    BY WizardAssumption DEF IedNames, NameSet, Stems
  <2>3. QED
    BY <1>1, <2>1, <2>2 DEF AskStr, Answers
<1>3. kv \in LvVoltages
  BY <1>1 DEF AskFloat
<1>4. outputs[1] \in OutputSeqs
  <2>1. Feed(1) \in TapSet /\ Feed(2) \in TapSet
    <3>1. <<"Feed", 1, <<>>>> \in NameSet /\ <<"Feed", 2, <<>>>> \in NameSet
      BY PlainName
    <3>2. QED
      BY <3>1 DEF Feed, TapSet, TapKinds
  <2>2. <<Feed(1)>> \in OutputSeqs /\ <<Feed(1), Feed(2)>> \in OutputSeqs
    BY <2>1 DEF OutputSeqs
  <2>3. QED
    BY <1>1, <2>2 DEF Answers
<1>5. QED
  BY <1>1, <1>2, <1>3, <1>4 DEF SpecSet, SpecAnswer

\* ... a tap is added, ...
LEMMA AddTapStation == StationInv /\ AddTap => StationInv'
<1> SUFFICES ASSUME StationInv, AddTap PROVE StationInv'
  OBVIOUS
<1>1. LevelsBuilt' /\ TransformersPlaced' /\ SettingsTyped'
  BY DEF StationInv, LevelsBuilt, TransformersPlaced, SettingsTyped, AddTap, built
<1>2. PICK name \in AskStr({<<"Tap", Len(taps) + 1, <<>>>>}, Identifiers), kind \in Kinds :
         \E s \in IF kind = "transformer" THEN TransformerSpecs
                  ELSE {[spec |-> NoSpec, count |-> 0]} :
            /\ taps' = Append(taps, [name |-> name[1], kind |-> kind])
            /\ specs' = Append(specs, s.spec)
  BY DEF AddTap
<1>3. PICK s \in IF kind = "transformer" THEN TransformerSpecs
                 ELSE {[spec |-> NoSpec, count |-> 0]} :
         /\ taps' = Append(taps, [name |-> name[1], kind |-> kind])
         /\ specs' = Append(specs, s.spec)
  BY <1>2
<1>4. s.spec \in SpecSet
  BY <1>3, TransformerSpecsTyped DEF SpecSet
<1>5. name[1] \in NameSet
  <2>1. <<"Tap", Len(taps) + 1, <<>>>> \in NameSet
    <3>1. Len(taps) + 1 \in Nat
      BY DEF StationInv, DraftTyped
    <3>2. QED
      BY <3>1, PlainName
  <2>2. Identifiers \subseteq NameSet
    BY WizardAssumption DEF Identifiers, NameSet, Stems
  <2>3. QED
    BY <1>2, <2>1, <2>2 DEF AskStr, Answers
<1>6. [name |-> name[1], kind |-> kind] \in TapSet
  BY <1>5, WizardAssumption DEF TapSet
<1>7. taps \in Seq(TapSet) /\ specs \in Seq(SpecSet) /\ Len(specs) = Len(taps)
  BY DEF StationInv, DraftTyped
<1>8. taps' \in Seq(TapSet) /\ specs' \in Seq(SpecSet) /\ Len(specs') = Len(taps')
  BY <1>3, <1>4, <1>6, <1>7
<1>9. DraftTyped'
  BY <1>8 DEF StationInv, DraftTyped, AddTap
<1>10. QED
  BY <1>1, <1>9 DEF StationInv

\* ... the taps are asked for again, ...
LEMMA RedoTapsStation == StationInv /\ RedoTaps => StationInv'
BY DEF StationInv, LevelsBuilt, TransformersPlaced, SettingsTyped, DraftTyped, RedoTaps, built

\* ... the program dies, ...
LEMMA CrashStation == StationInv /\ Crash => StationInv'
BY DEF StationInv, LevelsBuilt, TransformersPlaced, SettingsTyped, DraftTyped, Crash, built, level

\* ... another level is asked for, ...
LEMMA AddAnotherStation == StationInv /\ AddAnother => StationInv'
BY DEF StationInv, LevelsBuilt, TransformersPlaced, SettingsTyped, DraftTyped, AddAnother, built, level

\* ... and the engineer confirms.
LEMMA ConfirmStation == StationInv /\ Confirm => StationInv'
BY DEF StationInv, LevelsBuilt, TransformersPlaced, SettingsTyped, DraftTyped, Confirm, built, level

-----------------------------------------------------------------------------
(* The devices of a built level. *)

CbrName(n) == <<"CB", n, <<>>>>
Nodes == {"bus", "tap", "exit", "A", "B"} \X Nat
BreakerOf(n) == [name |-> CbrName(n), type |-> "CBR", a |-> SideA(n), b |-> SideB(n)]

Cbrs == {Cbr(n, a, b) : n \in Nat, a \in Nodes, b \in Nodes}
DisNames == (Stems \cup {"CB"}) \X Nat \X (Seq(STRING \cup {"D", "DA", "DB"}) \ {<<>>})
Disconnects == {Dis(name, a, b) : name \in DisNames, a \in Nodes, b \in Nodes}
Devices == {BreakerOf(n) : n \in Nat} \cup Disconnects

BayNames == {"Diameter", "Bay", "Tie"} \X Nat \X {<<>>}
CellsOf(tps) == [bay : BayNames, cbs : Seq(Cbrs) \ {<<>>}, taps : Seq(DOMAIN tps)]

\* The devices of a cell: its breakers, their isolating pairs, and the exits.
PairOf(cb) == {Dis(Suffixed(cb.name, "DA"), cb.a, SideA(cb.name[2])),
               Dis(Suffixed(cb.name, "DB"), SideB(cb.name[2]), cb.b)}
DevicesOf(tps, cbs, numbers) ==
    {Isolated(cb) : cb \in cbs} \cup (UNION {PairOf(cb) : cb \in cbs})
    \cup {ExitDisconnect(tps, i) : i \in {j \in numbers : HasExit(tps[j])}}
CellDevices(tps, cell) == DevicesOf(tps, Range(cell.cbs), Range(cell.taps))
LevelDevices(layout, tps, start) ==
    UNION {CellDevices(tps, c) : c \in Range(Cells(layout, tps, start))}

\* A breaker before and after its disconnects are added.
LEMMA CbrShape ==
    ASSUME NEW n \in Nat, NEW a \in Nodes, NEW b \in Nodes
    PROVE  /\ Cbr(n, a, b).name = CbrName(n) /\ Cbr(n, a, b).name[2] = n
           /\ Cbr(n, a, b).type = "CBR" /\ Cbr(n, a, b).a = a /\ Cbr(n, a, b).b = b
           /\ Isolated(Cbr(n, a, b)) = BreakerOf(n)
<1>1. /\ Cbr(n, a, b).name = CbrName(n) /\ Cbr(n, a, b).name[2] = n
      /\ Cbr(n, a, b).type = "CBR" /\ Cbr(n, a, b).a = a /\ Cbr(n, a, b).b = b
  BY DEF Cbr, CbrName
<1>2. Isolated(Cbr(n, a, b)) = BreakerOf(n)
  BY <1>1 DEF Isolated, BreakerOf
<1>3. QED
  BY <1>1, <1>2

\* Suffixed adds one more suffix, and tells its argument.
LEMMA SuffixedName ==
    ASSUME NEW T, NEW S, NEW name \in T \X Nat \X Seq(S), NEW w
    PROVE  /\ Suffixed(name, w) \in T \X Nat \X (Seq(S \cup {w}) \ {<<>>})
           /\ Suffixed(name, w)[3] # <<>>
<1>1. name[1] \in T /\ name[2] \in Nat /\ name[3] \in Seq(S)
  OBVIOUS
<1>2. name[3] \in Seq(S \cup {w})
  BY <1>1
<1>3. Append(name[3], w) \in Seq(S \cup {w}) /\ Len(Append(name[3], w)) = Len(name[3]) + 1
  BY <1>2
<1>4. Len(name[3]) \in Nat
  BY <1>1
<1> DEFINE z == Append(name[3], w)
<1>5. z \in Seq(S \cup {w}) /\ Len(z) # 0
  BY <1>3, <1>4
<1> HIDE DEF z
<1>6. z \in Seq(S \cup {w}) \ {<<>>}
  BY <1>5
<1>7. Suffixed(name, w) = <<name[1], name[2], z>>
  BY DEF Suffixed, z
<1>8. QED
  BY <1>1, <1>6, <1>7

\* Different names stay different, and different suffixes make different names.
LEMMA SuffixedInjective ==
    ASSUME NEW T, NEW S, NEW name \in T \X Nat \X Seq(S), NEW other \in T \X Nat \X Seq(S),
           NEW w, NEW u, Suffixed(name, w) = Suffixed(other, u)
    PROVE  name = other /\ w = u
<1>1. /\ name[1] = other[1] /\ name[2] = other[2] /\ Append(name[3], w) = Append(other[3], u)
  BY DEF Suffixed
<1> DEFINE s == name[3]
           t == other[3]
<1>2. s \in Seq(S) /\ t \in Seq(S)
  OBVIOUS
<1>3. Append(s, w) = Append(t, u)
  BY <1>1
<1>4. name = <<name[1], name[2], s>> /\ other = <<other[1], other[2], t>>
  OBVIOUS
<1> HIDE DEF s, t
<1>5. s = t /\ w = u
  <2>1. Len(Append(s, w)) = Len(s) + 1 /\ Len(Append(t, u)) = Len(t) + 1
    BY <1>2
  <2>2. Len(s) = Len(t) /\ Len(s) \in Nat
    BY <1>2, <1>3, <2>1
  <2>3. Append(s, w)[Len(s) + 1] = w /\ Append(t, u)[Len(t) + 1] = u
    BY <1>2
  <2>4. \A i \in 1 .. Len(s) : Append(s, w)[i] = s[i] /\ Append(t, u)[i] = t[i]
    BY <1>2, <2>2
  <2>5. \A i \in 1 .. Len(s) : s[i] = t[i]
    BY <1>3, <2>4
  <2>6. s = [i \in 1 .. Len(s) |-> s[i]] /\ t = [i \in 1 .. Len(t) |-> t[i]]
    BY <1>2
  <2>7. s = t
    BY <2>2, <2>5, <2>6
  <2>8. QED
    BY <1>3, <2>2, <2>3, <2>7
<1>6. QED
  BY <1>1, <1>4, <1>5

\* The isolating pair of a breaker are disconnects.
LEMMA PairOfCbr ==
    ASSUME NEW n \in Nat, NEW a \in Nodes, NEW b \in Nodes
    PROVE  /\ PairOf(Cbr(n, a, b)) = {Dis(Suffixed(CbrName(n), "DA"), a, SideA(n)),
                                     Dis(Suffixed(CbrName(n), "DB"), SideB(n), b)}
           /\ PairOf(Cbr(n, a, b)) \subseteq Disconnects
<1>1. PairOf(Cbr(n, a, b)) = {Dis(Suffixed(CbrName(n), "DA"), a, SideA(n)),
                             Dis(Suffixed(CbrName(n), "DB"), SideB(n), b)}
  BY CbrShape DEF PairOf
<1>2. Suffixed(CbrName(n), "DA") \in DisNames /\ Suffixed(CbrName(n), "DB") \in DisNames
  <2>1. <<"DA">> \in Seq(STRING \cup {"D", "DA", "DB"}) \ {<<>>}
    OBVIOUS
  <2>2. <<"DB">> \in Seq(STRING \cup {"D", "DA", "DB"}) \ {<<>>}
    OBVIOUS
  <2>3. Suffixed(CbrName(n), "DA") = <<"CB", n, <<"DA">>>> /\ Suffixed(CbrName(n), "DB") = <<"CB", n, <<"DB">>>>
    BY DEF Suffixed, CbrName
  <2> DEFINE A == Seq(STRING \cup {"D", "DA", "DB"}) \ {<<>>}
             B == Stems \cup {"CB"}
  <2>4. "CB" \in B /\ DisNames = B \X Nat \X A
    BY DEF DisNames
  <2>5. <<"DA">> \in A /\ <<"DB">> \in A
    BY <2>1, <2>2
  <2> HIDE DEF A, B
  <2>6. QED
    BY <2>3, <2>4, <2>5
<1>3. SideA(n) \in Nodes /\ SideB(n) \in Nodes
  BY DEF SideA, SideB, Nodes
<1>4. QED
  BY <1>1, <1>2, <1>3 DEF Disconnects

\* The exit of a tap is a disconnect.
LEMMA ExitTyped ==
    ASSUME NEW tps \in Seq(TapSet), NEW i \in DOMAIN tps
    PROVE  ExitDisconnect(tps, i) \in Disconnects
<1>1. i \in Nat /\ tps[i].name \in NameSet
  <2>1. i \in Nat /\ tps[i] \in TapSet
    OBVIOUS
  <2>2. QED
    BY <2>1 DEF TapSet
<1>2. Suffixed(tps[i].name, "D") \in DisNames
  <2>1. Suffixed(tps[i].name, "D") \in Stems \X Nat \X (Seq(STRING \cup {"D"}) \ {<<>>})
    BY <1>1, SuffixedName DEF NameSet
  <2>2. Seq(STRING \cup {"D"}) \subseteq Seq(STRING \cup {"D", "DA", "DB"})
    OBVIOUS
  <2>3. QED
    BY <2>1, <2>2 DEF DisNames
<1>3. TapNode(i) \in Nodes /\ ExitNode(i) \in Nodes
  BY <1>1 DEF TapNode, ExitNode, Nodes
<1>4. QED
  BY <1>2, <1>3 DEF ExitDisconnect, Disconnects

\* Images of sequences.
LEMMA ImageSeq ==
    ASSUME NEW S, NEW T, NEW s \in Seq(S), NEW t, DOMAIN t = DOMAIN s, t = [k \in DOMAIN s |-> t[k]],
           \A k \in DOMAIN s : t[k] \in T
    PROVE  t \in Seq(T) /\ Len(t) = Len(s)
<1>1. Len(s) \in Nat /\ DOMAIN s = 1 .. Len(s)
  OBVIOUS
<1>2. t \in [1 .. Len(s) -> T]
  BY <1>1
<1>3. QED
  BY <1>1, <1>2, FunctionAsSequence

\* A bay lists the breakers of its cell, their isolating pairs, and the exits.
BayParts(tps, cell, one, two, three) ==
    /\ one \in Seq(Devices) /\ Range(one) = {Isolated(cb) : cb \in Range(cell.cbs)}
    /\ DOMAIN one = DOMAIN cell.cbs /\ \A k \in DOMAIN cell.cbs : one[k] = Isolated(cell.cbs[k])
    /\ two \in Seq(Devices) /\ Range(two) = UNION {PairOf(cb) : cb \in Range(cell.cbs)}
    /\ three \in Seq(Devices)
    /\ Range(three) = {ExitDisconnect(tps, i) : i \in {j \in Range(cell.taps) : HasExit(tps[j])}}
    /\ Equipped(tps, cell).breakers = (one \o two) \o three

LEMMA EquippedParts ==
    ASSUME NEW tps \in Seq(TapSet), NEW cell \in CellsOf(tps)
    PROVE  \E one, two, three : BayParts(tps, cell, one, two, three)
<1>1. /\ cell.cbs \in Seq(Cbrs) /\ cell.taps \in Seq(DOMAIN tps)
      /\ DOMAIN cell.cbs \subseteq Nat /\ DOMAIN cell.taps \subseteq Nat
  BY DEF CellsOf
<1> DEFINE one == Each(Isolated, cell.cbs)
           pairs == Each(IsolatingPair, cell.cbs)
           two == FlattenSeq(pairs)
           has == {k \in DOMAIN cell.taps : HasExit(tps[cell.taps[k]])}
           exits == At(cell.taps, has)
           three == Each(LAMBDA i : ExitDisconnect(tps, i), exits)
<1>2. \A k \in DOMAIN cell.cbs : \E n \in Nat, a \in Nodes, b \in Nodes : cell.cbs[k] = Cbr(n, a, b)
  <2>1. \A k \in DOMAIN cell.cbs : cell.cbs[k] \in Cbrs
    BY <1>1
  <2>2. QED
    BY <2>1 DEF Cbrs
<1>3. one \in Seq(Devices) /\ Range(one) = {Isolated(cb) : cb \in Range(cell.cbs)}
  <2>1. DOMAIN one = DOMAIN cell.cbs /\ \A k \in DOMAIN cell.cbs : one[k] = Isolated(cell.cbs[k])
    BY DEF Each
  <2>2. \A k \in DOMAIN cell.cbs : one[k] \in Devices
    <3> SUFFICES ASSUME NEW k \in DOMAIN cell.cbs PROVE one[k] \in Devices
      OBVIOUS
    <3>1. PICK n \in Nat, a \in Nodes, b \in Nodes : cell.cbs[k] = Cbr(n, a, b)
      BY <1>2
    <3> HIDE DEF one
    <3>2. one[k] = BreakerOf(n)
      <4>1. Isolated(Cbr(n, a, b)) = BreakerOf(n)
        BY CbrShape
      <4>2. QED
        BY <2>1, <3>1, <4>1
    <3>3. QED
      BY <3>2 DEF Devices
  <2>3. one = [k \in DOMAIN cell.cbs |-> one[k]]
    BY DEF Each
  <2> HIDE DEF one
  <2>4. one \in Seq(Devices)
    <3> DEFINE n == Len(cell.cbs)
    <3>1. n \in Nat /\ DOMAIN cell.cbs = 1 .. n
      BY <1>1
    <3> HIDE DEF n
    <3>2. one \in [1 .. n -> Devices]
      BY <2>1, <2>2, <2>3, <3>1
    <3>3. QED
      BY <3>1, <3>2, FunctionAsSequence
  <2>5. QED
    BY <2>1, <2>4 DEF Range
<1>4. two \in Seq(Devices) /\ Range(two) = UNION {PairOf(cb) : cb \in Range(cell.cbs)}
  <2>1. DOMAIN pairs = DOMAIN cell.cbs /\ \A k \in DOMAIN cell.cbs : pairs[k] = IsolatingPair(cell.cbs[k])
    BY DEF Each
  <2>2. ASSUME NEW k \in DOMAIN cell.cbs
        PROVE  pairs[k] \in Seq(Devices) /\ Range(pairs[k]) = PairOf(cell.cbs[k])
    <3>1. PICK n \in Nat, a \in Nodes, b \in Nodes : cell.cbs[k] = Cbr(n, a, b)
      BY <1>2
    <3> DEFINE cb == cell.cbs[k]
               d == Dis(Suffixed(cb.name, "DA"), cb.a, SideA(cb.name[2]))
               e == Dis(Suffixed(cb.name, "DB"), SideB(cb.name[2]), cb.b)
    <3>2. PairOf(cb) = {d, e} /\ pairs[k] = <<d, e>>
      BY <2>1 DEF PairOf, IsolatingPair
    <3>3. PairOf(cb) \subseteq Devices
      BY <3>1, PairOfCbr DEF Devices
    <3> HIDE DEF d, e, cb
    <3>4. <<d, e>> \in Seq(Devices) /\ Range(<<d, e>>) = {d, e}
      <4>1. d \in Devices /\ e \in Devices
        BY <3>2, <3>3
      <4>2. DOMAIN <<d, e>> = {1, 2} /\ <<d, e>>[1] = d /\ <<d, e>>[2] = e
        OBVIOUS
      <4>3. QED
        BY <4>1, <4>2 DEF Range
    <3> HIDE DEF pairs
    <3>5. QED
      BY <3>2, <3>4 DEF cb
  <2>3. pairs = [k \in DOMAIN cell.cbs |-> pairs[k]]
    BY DEF Each
  <2> HIDE DEF pairs
  <2>4. pairs \in Seq(Seq(Devices))
    BY <1>1, <2>1, <2>2, <2>3, ImageSeq
  <2>5. two \in Seq(Devices) /\ Range(two) = UNION {Range(pairs[k]) : k \in DOMAIN pairs}
    BY <2>4, FlattenLists, RangeFlatten
  <2> HIDE DEF two
  <2>6. UNION {Range(pairs[k]) : k \in DOMAIN pairs} = UNION {PairOf(cell.cbs[k]) : k \in DOMAIN cell.cbs}
    BY <2>1, <2>2
  <2>7. UNION {PairOf(cell.cbs[k]) : k \in DOMAIN cell.cbs} = UNION {PairOf(cb) : cb \in Range(cell.cbs)}
    BY DEF Range
  <2>8. QED
    BY <2>5, <2>6, <2>7
<1>5. three \in Seq(Devices) /\ Range(three) = {ExitDisconnect(tps, i) : i \in {j \in Range(cell.taps) : HasExit(tps[j])}}
  <2>1. exits \in Seq(DOMAIN tps) /\ Range(exits) = {cell.taps[k] : k \in has}
    BY <1>1, RangeAt
  <2> HIDE DEF exits
  <2>2. DOMAIN three = DOMAIN exits /\ \A k \in DOMAIN exits : three[k] = ExitDisconnect(tps, exits[k])
    BY DEF Each
  <2>3. \A k \in DOMAIN exits : exits[k] \in DOMAIN tps
    BY <2>1
  <2>4. \A k \in DOMAIN exits : three[k] \in Devices
    BY <2>2, <2>3, ExitTyped DEF Devices
  <2>5. three = [k \in DOMAIN exits |-> three[k]]
    BY DEF Each
  <2> HIDE DEF three
  <2>6. three \in Seq(Devices)
    BY <2>1, <2>2, <2>4, <2>5, ImageSeq
  <2>7. Range(three) = {ExitDisconnect(tps, i) : i \in Range(exits)}
    BY <2>2 DEF Range
  <2>8. Range(exits) = {j \in Range(cell.taps) : HasExit(tps[j])}
    BY <2>1 DEF Range
  <2>9. QED
    BY <2>6, <2>7, <2>8
<1>6. Equipped(tps, cell).breakers = (one \o two) \o three
  BY DEF Equipped, Chosen
<1>7. DOMAIN one = DOMAIN cell.cbs /\ \A k \in DOMAIN cell.cbs : one[k] = Isolated(cell.cbs[k])
  BY DEF Each
<1> HIDE DEF one, two, three
<1>8. BayParts(tps, cell, one, two, three)
  BY <1>3, <1>4, <1>5, <1>6, <1>7 DEF BayParts
<1>9. QED
  BY <1>8

LEMMA EquippedDevices ==
    ASSUME NEW tps \in Seq(TapSet), NEW cell \in CellsOf(tps)
    PROVE  /\ Equipped(tps, cell).breakers \in Seq(Devices)
           /\ Range(Equipped(tps, cell).breakers) = CellDevices(tps, cell)
<1>0. PICK one, two, three : BayParts(tps, cell, one, two, three)
  BY EquippedParts
<1>3. one \in Seq(Devices) /\ Range(one) = {Isolated(cb) : cb \in Range(cell.cbs)}
  BY <1>0 DEF BayParts
<1>4. two \in Seq(Devices) /\ Range(two) = UNION {PairOf(cb) : cb \in Range(cell.cbs)}
  BY <1>0 DEF BayParts
<1>5. three \in Seq(Devices) /\ Range(three) = {ExitDisconnect(tps, i) : i \in {j \in Range(cell.taps) : HasExit(tps[j])}}
  BY <1>0 DEF BayParts
<1>6. Equipped(tps, cell).breakers = (one \o two) \o three
  BY <1>0 DEF BayParts
<1>7. one \o two \in Seq(Devices) /\ Range(one \o two) = Range(one) \cup Range(two)
  BY <1>3, <1>4, RangeConcat
<1> DEFINE both == one \o two
<1>8. both \in Seq(Devices) /\ Range(both) = Range(one) \cup Range(two)
  BY <1>7
<1>9. Equipped(tps, cell).breakers = both \o three
  BY <1>6
<1> HIDE DEF both
<1>10. both \o three \in Seq(Devices) /\ Range(both \o three) = Range(both) \cup Range(three)
  BY <1>5, <1>8, RangeConcat
<1>11. CellDevices(tps, cell) = (Range(one) \cup Range(two)) \cup Range(three)
  <2> DEFINE cbs == Range(cell.cbs)
             numbers == Range(cell.taps)
  <2>1. /\ Range(one) = {Isolated(cb) : cb \in cbs} /\ Range(two) = UNION {PairOf(cb) : cb \in cbs}
        /\ Range(three) = {ExitDisconnect(tps, i) : i \in {j \in numbers : HasExit(tps[j])}}
    BY <1>3, <1>4, <1>5
  <2>2. CellDevices(tps, cell) = DevicesOf(tps, cbs, numbers)
    BY DEF CellDevices
  <2> HIDE DEF cbs, numbers
  <2>3. QED
    BY <2>1, <2>2 DEF DevicesOf
<1>12. QED
  BY <1>8, <1>9, <1>10, <1>11

\* The cells of every layout, for taps it does not refuse.
LEMMA CellsTyped ==
    ASSUME NEW layout \in Layouts, NEW tps \in Seq(TapSet), NEW start \in Nat, ~Refuses(layout, tps)
    PROVE  Cells(layout, tps, start) \in Seq(CellsOf(tps)) \ {<<>>}
<1> DEFINE n == Len(tps)
<1>1. n \in Nat /\ DOMAIN tps = 1 .. n
  OBVIOUS
<1>2. \A i \in 1 .. n : TapNode(i) \in Nodes
  BY <1>1 DEF TapNode, Nodes
<1>3. Bus(1) \in Nodes /\ Bus(2) \in Nodes
  BY DEF Bus, Nodes
<1>4. \A k, i \in Nat : /\ <<"Diameter", k, <<>>>> \in BayNames
                        /\ <<"Bay", k, <<>>>> \in BayNames
                        /\ <<"Tie", k, <<>>>> \in BayNames
  BY DEF BayNames
<1> HIDE DEF n
<1>5. ASSUME NEW bay \in BayNames, NEW cbs \in Seq(Cbrs), cbs # <<>>, NEW ts \in Seq(DOMAIN tps)
      PROVE  Cell(bay, cbs, ts) \in CellsOf(tps)
  BY <1>5 DEF Cell, CellsOf
<1>6. ASSUME NEW i \in 1 .. n, NEW m \in Nat, NEW a \in Nodes, NEW b \in Nodes, NEW bay \in BayNames
      PROVE  Cell(bay, <<Cbr(m, a, b)>>, <<i>>) \in CellsOf(tps)
  <2>1. Cbr(m, a, b) \in Cbrs
    BY DEF Cbrs
  <2>2. <<Cbr(m, a, b)>> \in Seq(Cbrs) /\ <<Cbr(m, a, b)>> # <<>>
    BY <2>1
  <2>3. <<i>> \in Seq(DOMAIN tps)
    BY <1>1
  <2>4. QED
    BY <1>5, <2>2, <2>3
<1>7. CASE layout = "breaker_and_half"
  <2> DEFINE c == BreakerAndHalf(tps, start)
             h == n \div 2
  <2>1. h \in Nat /\ h >= 1 /\ n = 2 * h
    <3>1. n # 0 /\ n % 2 = 0
      BY <1>1, <1>7 DEF Refuses, n
    <3>2. QED
      BY <1>1, <3>1
  <2> HIDE DEF h
  <2>2. c = [d \in 1 .. h |-> c[d]]
    BY DEF BreakerAndHalf, n, h
  <2>3. ASSUME NEW d \in 1 .. h PROVE c[d] \in CellsOf(tps)
    <3> DEFINE i == 2 * d - 1
               m == start + 3 * (d - 1)
    <3>1. i \in 1 .. n /\ i + 1 \in 1 .. n /\ m \in Nat /\ m + 1 \in Nat /\ m + 2 \in Nat /\ d \in Nat
      BY <2>1
    <3>2. c[d] = Cell(<<"Diameter", d, <<>>>>,
                      <<Cbr(m, Bus(1), TapNode(i)), Cbr(m + 1, TapNode(i), TapNode(i + 1)),
                        Cbr(m + 2, TapNode(i + 1), Bus(2))>>, <<i, i + 1>>)
      BY DEF BreakerAndHalf, n, h
    <3> DEFINE cbs == <<Cbr(m, Bus(1), TapNode(i)), Cbr(m + 1, TapNode(i), TapNode(i + 1)),
                        Cbr(m + 2, TapNode(i + 1), Bus(2))>>
    <3> HIDE DEF i, m, c
    <3>3. /\ Cbr(m, Bus(1), TapNode(i)) \in Cbrs /\ Cbr(m + 1, TapNode(i), TapNode(i + 1)) \in Cbrs
          /\ Cbr(m + 2, TapNode(i + 1), Bus(2)) \in Cbrs
      BY <1>2, <1>3, <3>1 DEF Cbrs
    <3>4. cbs \in Seq(Cbrs) /\ cbs # <<>>
      BY <3>3
    <3>5. <<i, i + 1>> \in Seq(DOMAIN tps)
      BY <1>1, <3>1
    <3>6. c[d] = Cell(<<"Diameter", d, <<>>>>, cbs, <<i, i + 1>>)
      BY <3>2
    <3> HIDE DEF cbs
    <3>7. QED
      BY <1>4, <1>5, <3>1, <3>4, <3>5, <3>6
  <2> HIDE DEF c
  <2>4. c \in [1 .. h -> CellsOf(tps)]
    BY <2>2, <2>3
  <2>5. c \in Seq(CellsOf(tps)) /\ Len(c) = h
    BY <2>1, <2>4, FunctionAsSequence
  <2>6. c # <<>>
    BY <2>1, <2>5
  <2>7. Cells(layout, tps, start) = c
    BY <1>7 DEF Cells, c
  <2>8. QED
    BY <2>5, <2>6, <2>7
<1>8. ASSUME layout # "breaker_and_half"
      PROVE  n >= 1 /\ (layout = "ring_bus" => n >= 3)
  BY <1>1, <1>8 DEF Refuses, n, Layouts
<1>9. SingleBus(tps, start) \in Seq(CellsOf(tps)) /\ Len(SingleBus(tps, start)) = n
  <2> DEFINE c == SingleBus(tps, start)
  <2>1. c = [i \in 1 .. n |-> c[i]]
    BY <1>1 DEF SingleBus
  <2>2. ASSUME NEW i \in 1 .. n PROVE c[i] \in CellsOf(tps)
    <3>1. c[i] = Cell(<<"Bay", i, <<>>>>, <<Cbr(start + i - 1, Bus(1), TapNode(i))>>, <<i>>)
      BY <1>1 DEF SingleBus
    <3>2. start + i - 1 \in Nat /\ i \in Nat
      BY <1>1
    <3> HIDE DEF c
    <3>3. QED
      BY <1>2, <1>3, <1>4, <1>6, <3>1, <3>2
  <2> HIDE DEF c
  <2>3. c \in [1 .. n -> CellsOf(tps)]
    BY <2>1, <2>2
  <2>4. QED
    BY <1>1, <2>3, FunctionAsSequence DEF c
<1>10. CASE layout = "single_bus"
  <2>1. Cells(layout, tps, start) = SingleBus(tps, start)
    BY <1>10 DEF Cells
  <2>2. QED
    BY <1>8, <1>9, <1>10, <2>1
<1>11. CASE layout = "main_and_transfer"
  <2> DEFINE tie == Cell(<<"Tie", 0, <<>>>>, <<Cbr(start + n, Bus(1), Bus(2))>>, <<>>)
  <2>1. Cells(layout, tps, start) = Append(SingleBus(tps, start), tie)
    BY <1>11 DEF Cells, MainAndTransfer, n
  <2>2. tie \in CellsOf(tps)
    <3>0. start + n \in Nat
      BY <1>1
    <3>1. Cbr(start + n, Bus(1), Bus(2)) \in Cbrs
      BY <1>3, <3>0 DEF Cbrs
    <3>2. <<Cbr(start + n, Bus(1), Bus(2))>> \in Seq(Cbrs) /\ <<Cbr(start + n, Bus(1), Bus(2))>> # <<>>
      BY <3>1
    <3>3. <<>> \in Seq(DOMAIN tps)
      OBVIOUS
    <3>4. QED
      BY <1>4, <1>5, <3>2, <3>3
  <2> HIDE DEF tie
  <2> DEFINE c == SingleBus(tps, start)
             S == CellsOf(tps)
  <2>3. c \in Seq(S) /\ tie \in S
    BY <1>9, <2>2
  <2> HIDE DEF c, S
  <2>5. Append(c, tie) \in Seq(S) /\ Append(c, tie) # <<>>
    <3>1. Append(c, tie) \in Seq(S) /\ Len(Append(c, tie)) = Len(c) + 1 /\ Len(c) \in Nat
      BY <2>3
    <3> DEFINE z == Append(c, tie)
    <3> HIDE DEF z
    <3>2. Len(z) # 0 => z # <<>>
      OBVIOUS
    <3>3. QED
      BY <3>1, <3>2 DEF z
  <2>6. QED
    BY <2>1, <2>5 DEF c, S
<1>12. CASE layout = "ring_bus"
  <2> DEFINE c == RingBus(tps, start)
  <2>1. c = [i \in 1 .. n |-> c[i]]
    BY <1>1 DEF RingBus
  <2>2. ASSUME NEW i \in 1 .. n PROVE c[i] \in CellsOf(tps)
    <3>1. c[i] = Cell(<<"Bay", i, <<>>>>,
                      <<Cbr(start + i - 1, TapNode(i), TapNode((i % n) + 1))>>, <<i>>)
      BY <1>1 DEF RingBus, n
    <3>2. start + i - 1 \in Nat /\ i \in Nat /\ (i % n) + 1 \in 1 .. n
      BY <1>1
    <3> HIDE DEF c
    <3>3. QED
      BY <1>2, <1>4, <1>6, <3>1, <3>2
  <2> HIDE DEF c
  <2>3. c \in [1 .. n -> CellsOf(tps)]
    BY <2>1, <2>2
  <2>4. c \in Seq(CellsOf(tps)) /\ Len(c) = n
    BY <1>1, <2>3, FunctionAsSequence
  <2>5. Cells(layout, tps, start) = c
    BY <1>12 DEF Cells, c
  <2>6. QED
    BY <1>8, <1>12, <2>4, <2>5
<1>13. QED
  BY <1>7, <1>10, <1>11, <1>12 DEF Layouts

\* A function with the domain of a sequence is a sequence of its values.
LEMMA SeqOfValues ==
    ASSUME NEW n \in Nat, NEW s, s = [k \in 1 .. n |-> s[k]], NEW R, \A k \in 1 .. n : s[k] \in R
    PROVE  s \in Seq(R) /\ Len(s) = n
<1>1. s \in [1 .. n -> R]
  OBVIOUS
<1>2. QED
  BY <1>1, FunctionAsSequence

\* A built level holds the devices of its cells.
LEMMA BuiltDevices ==
    ASSUME NEW name, NEW kv, NEW layout \in Layouts, NEW tps \in Seq(TapSet), NEW start \in Nat,
           ~Refuses(layout, tps)
    PROVE  /\ Build(name, kv, layout, tps, start).breakers \in Seq(Devices)
           /\ Range(Build(name, kv, layout, tps, start).breakers) = LevelDevices(layout, tps, start)
<1> DEFINE buses == BusBays(layout)
           cells == Cells(layout, tps, start)
           bare == [i \in DOMAIN buses |-> BusBay(buses[i], i)]
           full == [k \in DOMAIN cells |-> Equipped(tps, cells[k])]
           bays == bare \o full
           lists == [k \in DOMAIN bays |-> bays[k].breakers]
<1>1. PICK n \in Nat : DOMAIN buses = 1 .. n
  <2>1. \/ buses = <<"BusA", "BusB">> \/ buses = <<"Bus">>
        \/ buses = <<"MainBus", "TransferBus">> \/ buses = <<>>
    BY DEF BusBays, Layouts
  <2> HIDE DEF buses
  <2>2. DOMAIN buses = 1 .. 2 \/ DOMAIN buses = 1 .. 1 \/ DOMAIN buses = 1 .. 0
    BY <2>1
  <2>3. QED
    BY <2>2
<1>2. cells \in Seq(CellsOf(tps))
  BY CellsTyped
<1>3. PICK m \in Nat : DOMAIN cells = 1 .. m
  BY <1>2
<1>4. bare = [k \in 1 .. n |-> bare[k]] /\ full = [k \in 1 .. m |-> full[k]]
  BY <1>1, <1>3
<1>5. /\ \A k \in DOMAIN bare : bare[k].breakers = <<>>
      /\ \A k \in DOMAIN cells : full[k].breakers = Equipped(tps, cells[k]).breakers
  BY DEF BusBay
<1>6. \A c \in Range(cells) : /\ Equipped(tps, c).breakers \in Seq(Devices)
                              /\ Range(Equipped(tps, c).breakers) = CellDevices(tps, c)
  <2>1. Range(cells) \subseteq CellsOf(tps)
    BY <1>2 DEF Range
  <2>2. QED
    BY <2>1, EquippedDevices
<1>7. /\ DOMAIN full = DOMAIN cells
      /\ \A k \in DOMAIN cells : full[k].breakers \in Seq(Devices)
                              /\ Range(full[k].breakers) = CellDevices(tps, cells[k])
  BY <1>5, <1>6 DEF Range
<1> HIDE DEF buses, cells, bare, full
<1>8. /\ bays \in Seq(Range(bare) \cup Range(full))
      /\ Range(bays) = Range(bare) \cup Range(full)
  <2> DEFINE S == Range(bare) \cup Range(full)
  <2>1. /\ \A k \in 1 .. n : bare[k] \in S
        /\ \A k \in 1 .. m : full[k] \in S
    <3>1. DOMAIN bare = 1 .. n /\ DOMAIN full = 1 .. m
      BY <1>4
    <3>2. QED
      BY <3>1 DEF Range
  <2>2. bare \in Seq(S) /\ full \in Seq(S)
    <3> HIDE DEF S
    <3>1. bare \in Seq(S)
      BY <1>4, <2>1, SeqOfValues
    <3>2. full \in Seq(S)
      BY <1>4, <2>1, SeqOfValues
    <3>3. QED
      BY <3>1, <3>2
  <2> HIDE DEF S
  <2>3. bays \in Seq(S) /\ Range(bays) = Range(bare) \cup Range(full)
    BY <2>2, RangeConcat
  <2>4. QED
    BY <2>3 DEF S
<1> HIDE DEF bays
<1>9. \A b \in Range(bays) : b.breakers \in Seq(Devices)
  <2>1. \A b \in Range(bare) : b.breakers \in Seq(Devices)
    <3>1. <<>> \in Seq(Devices)
      OBVIOUS
    <3>2. \A b \in Range(bare) : b.breakers = <<>>
      BY <1>5 DEF Range
    <3>3. QED
      BY <3>1, <3>2
  <2>2. \A b \in Range(full) : b.breakers \in Seq(Devices)
    BY <1>7 DEF Range
  <2>3. QED
    BY <1>8, <2>1, <2>2
<1>10. \A k \in DOMAIN bays : lists[k] = bays[k].breakers /\ bays[k] \in Range(bays)
  BY DEF Range
<1>11. DOMAIN lists = DOMAIN bays /\ lists = [k \in DOMAIN bays |-> lists[k]]
  OBVIOUS
<1> HIDE DEF lists
<1>12. lists \in Seq(Seq(Devices))
  BY <1>8, <1>9, <1>10, <1>11, ImageSeq
<1>13. Build(name, kv, layout, tps, start).breakers = FlattenSeq(lists)
  BY DEF Build, Level, lists, bays, bare, full, buses, cells
<1>14. /\ FlattenSeq(lists) \in Seq(Devices)
       /\ Range(FlattenSeq(lists)) = UNION {Range(lists[k]) : k \in DOMAIN lists}
  BY <1>12, FlattenLists, RangeFlatten
<1>15. UNION {Range(lists[k]) : k \in DOMAIN lists} = UNION {CellDevices(tps, c) : c \in Range(cells)}
  <2>1. ASSUME NEW k \in DOMAIN lists, NEW d \in Range(lists[k])
        PROVE  \E c \in Range(cells) : d \in CellDevices(tps, c)
    <3>1. lists[k] = bays[k].breakers /\ bays[k] \in Range(bare) \cup Range(full)
      BY <1>8, <1>10, <1>11
    <3>2. bays[k] \notin Range(bare)
      <4>1. ASSUME bays[k] \in Range(bare) PROVE FALSE
        <5>1. lists[k] = <<>>
          BY <1>5, <3>1, <4>1 DEF Range
        <5>2. Range(lists[k]) = {}
          BY <5>1 DEF Range
        <5>3. QED
          BY <5>2
      <4>2. QED
        BY <4>1
    <3>3. PICK j \in DOMAIN full : bays[k] = full[j]
      BY <3>1, <3>2 DEF Range
    <3>4. d \in CellDevices(tps, cells[j]) /\ cells[j] \in Range(cells)
      BY <1>7, <3>1, <3>3 DEF Range
    <3>5. QED
      BY <3>4
  <2>2. ASSUME NEW c \in Range(cells), NEW d \in CellDevices(tps, c)
        PROVE  \E k \in DOMAIN lists : d \in Range(lists[k])
    <3>1. PICK j \in DOMAIN cells : c = cells[j]
      BY DEF Range
    <3>2. full[j] \in Range(bays) /\ d \in Range(full[j].breakers)
      BY <1>7, <1>8, <3>1 DEF Range
    <3>3. PICK k \in DOMAIN bays : bays[k] = full[j]
      BY <3>2 DEF Range
    <3>4. QED
      BY <1>10, <1>11, <3>2, <3>3
  <2>3. QED
    BY <2>1, <2>2
<1>16. QED
  BY <1>13, <1>14, <1>15 DEF cells, LevelDevices

\* The transformers of a level stand at its taps.
LEMMA NewTransformersTyped ==
    ASSUME StationInv
    PROVE  /\ NewTransformers \in Seq(TransformerSet)
           /\ \A x \in Range(NewTransformers) : x.level = Len(levels) + 1 /\ x.tap \in DOMAIN taps
<1> DEFINE numbers == [i \in DOMAIN taps |-> i]
           marked == {i \in DOMAIN taps : specs[i] # NoSpec}
           on == At(numbers, marked)
           t == NewTransformers
<1>1. /\ taps \in Seq(TapSet) /\ specs \in Seq(SpecSet) /\ DOMAIN specs = DOMAIN taps
      /\ Len(levels) \in Nat /\ DOMAIN taps \subseteq Nat
  BY DEF StationInv, DraftTyped, LevelsBuilt
<1>2. numbers \in Seq(DOMAIN taps) /\ DOMAIN numbers = DOMAIN taps /\ \A i \in DOMAIN taps : numbers[i] = i
  <2>1. numbers = [k \in 1 .. Len(taps) |-> numbers[k]] /\ Len(taps) \in Nat /\ DOMAIN taps = 1 .. Len(taps)
    BY <1>1
  <2>2. numbers \in Seq(DOMAIN taps)
    BY <2>1, SeqOfValues
  <2>3. QED
    BY <2>2
<1> HIDE DEF numbers, marked
<1>3. on \in Seq(DOMAIN taps) /\ Range(on) = {numbers[k] : k \in marked}
  <2>1. marked \in SUBSET DOMAIN numbers
    BY <1>2 DEF marked
  <2>2. QED
    BY <1>2, <2>1, RangeAt
<1>4. \A k \in DOMAIN on : /\ on[k] \in DOMAIN taps /\ on[k] \in Nat
                           /\ specs[on[k]] \in SpecSet /\ specs[on[k]] # NoSpec
  <2>1. \A k \in DOMAIN on : on[k] \in marked
    <3>1. \A k \in DOMAIN on : on[k] \in Range(on)
      BY DEF Range
    <3>2. marked \subseteq DOMAIN taps
      BY DEF marked
    <3>3. QED
      BY <1>2, <1>3, <3>1, <3>2
  <2>2. QED
    BY <1>1, <2>1 DEF marked
<1>5. t = [k \in DOMAIN on |->
             [name |-> specs[on[k]].name, level |-> Len(levels) + 1, tap |-> on[k],
              lv |-> LvLevel(specs[on[k]].name, specs[on[k]].kv, specs[on[k]].outputs)]]
  BY DEF NewTransformers, on, numbers, marked
<1> HIDE DEF on, t
<1>6. DOMAIN t = DOMAIN on /\ t = [k \in DOMAIN on |-> t[k]]
  BY <1>5
<1>7. ASSUME NEW k \in DOMAIN on
      PROVE  t[k] \in TransformerSet /\ t[k].level = Len(levels) + 1 /\ t[k].tap \in DOMAIN taps
  <2> DEFINE spec == specs[on[k]]
  <2>1. t[k] = [name |-> spec.name, level |-> Len(levels) + 1, tap |-> on[k],
                lv |-> LvLevel(spec.name, spec.kv, spec.outputs)]
    BY <1>5
  <2>2. spec \in [name : NameSet, kv : LvVoltages, outputs : OutputSeqs]
    BY <1>4 DEF SpecSet
  <2> HIDE DEF spec
  <2>3. LvLevel(spec.name, spec.kv, spec.outputs) \in LvLevels
    <3>1. spec.name \in NameSet /\ spec.kv \in LvVoltages /\ spec.outputs \in OutputSeqs
      BY <2>2
    <3>2. QED
      BY <3>1 DEF LvLevels
  <2>4. LvLevel(spec.name, spec.kv, spec.outputs).name = Suffixed(spec.name, "LV")
    BY DEF LvLevel, Level
  <2> DEFINE side == LvLevel(spec.name, spec.kv, spec.outputs)
             x == [name |-> spec.name, level |-> Len(levels) + 1, tap |-> on[k], lv |-> side]
  <2>5. side \in LvLevels /\ side.name = Suffixed(spec.name, "LV") /\ t[k] = x
    BY <2>1, <2>3, <2>4
  <2>6. x.lv = side /\ x.name = spec.name /\ x.level = Len(levels) + 1 /\ x.tap = on[k]
    OBVIOUS
  <2> HIDE DEF side
  <2>7. x \in [name : NameSet, level : Nat, tap : Nat, lv : LvLevels]
    BY <1>1, <1>4, <2>2, <2>5
  <2> HIDE DEF x
  <2>8. x \in TransformerSet
    BY <2>5, <2>6, <2>7 DEF TransformerSet
  <2>9. QED
    BY <1>4, <2>5, <2>6, <2>8
<1>8. t \in Seq(TransformerSet)
  BY <1>3, <1>6, <1>7, ImageSeq
<1>9. \A x \in Range(t) : x.level = Len(levels) + 1 /\ x.tap \in DOMAIN taps
  BY <1>6, <1>7 DEF Range
<1>10. QED
  BY <1>8, <1>9 DEF t

\* Completing a level keeps what is built well formed.
LEMMA CompleteLevelStation == StationInv /\ CompleteLevel => StationInv'
<1> SUFFICES ASSUME StationInv, CompleteLevel PROVE StationInv'
  OBVIOUS
<1> DEFINE lv == Build(draft.name, draft.kv, draft.layout, taps, breakerIndex)
<1>1. /\ taps \in Seq(TapSet) /\ draft.name \in NameSet /\ draft.layout \in Layouts
      /\ draft.kv \in Voltages \cup OddVoltages /\ breakerIndex \in Nat
      /\ ~Refuses(draft.layout, taps)
  BY DEF StationInv, DraftTyped, LevelsBuilt, CompleteLevel
<1>2. lv \in BuiltLevels /\ lv.taps = taps
  BY <1>1, TapsOfBuild DEF BuiltLevels
<1>3. Len(lv.breakers) \in Nat
  <2>1. lv.breakers \in Seq(Devices)
    BY <1>1, BuiltDevices
  <2>2. QED
    BY <2>1
<1>4. levels' = Append(levels, lv) /\ breakerIndex' = breakerIndex + Len(lv.breakers)
  BY DEF CompleteLevel, NextBreakerIndex
<1> HIDE DEF lv
<1>5. LevelsBuilt'
  BY <1>1, <1>2, <1>3, <1>4 DEF StationInv, LevelsBuilt
<1>6. NewTransformers \in Seq(TransformerSet) /\ transformers \in Seq(TransformerSet) /\ xfmrIndex \in Nat
  BY NewTransformersTyped DEF StationInv, TransformersPlaced
<1>7. TransformersPlaced'
  <2> DEFINE new == NewTransformers
  <2>1. transformers' = transformers \o new /\ xfmrIndex' = xfmrIndex + Len(new)
    BY DEF CompleteLevel
  <2>2. \A x \in Range(new) : x.level = Len(levels) + 1 /\ x.tap \in DOMAIN taps
    BY NewTransformersTyped
  <2>3. new \in Seq(TransformerSet)
    BY <1>6
  <2> HIDE DEF new
  <2>4. transformers' \in Seq(TransformerSet) /\ Range(transformers') = Range(transformers) \cup Range(new)
    BY <1>6, <2>1, <2>3, RangeConcat
  <2>5. xfmrIndex' \in Nat
    BY <1>6, <2>1, <2>3
  <2>6. /\ levels \in Seq(BuiltLevels) /\ DOMAIN levels = 1 .. Len(levels) /\ Len(levels) \in Nat
        /\ DOMAIN levels' = 1 .. Len(levels) + 1
        /\ \A k \in DOMAIN levels : levels'[k] = levels[k]
        /\ levels'[Len(levels) + 1] = lv
    BY <1>2, <1>4 DEF StationInv, LevelsBuilt
  <2>7. \A x \in Range(transformers) : x.level \in DOMAIN levels' /\ x.tap \in DOMAIN levels'[x.level].taps
    BY <2>6 DEF StationInv, TransformersPlaced
  <2>8. \A x \in Range(new) : x.level \in DOMAIN levels' /\ x.tap \in DOMAIN levels'[x.level].taps
    BY <1>2, <2>2, <2>6
  <2>9. QED
    BY <2>4, <2>5, <2>7, <2>8 DEF TransformersPlaced
<1>8. DraftTyped' /\ SettingsTyped'
  BY DEF CompleteLevel, DraftTyped, SettingsTyped
<1>9. QED
  BY <1>5, <1>7, <1>8 DEF StationInv

\* So does collecting the settings.
LEMMA CollectSettingsStation == StationInv /\ CollectSettings => StationInv'
<1> SUFFICES ASSUME StationInv, CollectSettings PROVE StationInv'
  OBVIOUS
<1>1. LevelsBuilt' /\ TransformersPlaced' /\ DraftTyped'
  BY DEF StationInv, LevelsBuilt, TransformersPlaced, DraftTyped, CollectSettings, built, level
<1>2. PICK p \in ProtectionAnswers, n \in NetworkAnswers, i \in IedSettingsAnswers, s \in ScadaAnswers :
         settings' = [protection |-> p[1], network |-> n[1], ied |-> i[1], scada |-> s[1]]
  BY DEF CollectSettings
<1>3. n[1] \in NetworkSet
  <2> DEFINE usual == [hostBreakers |-> 11, hostTransformers |-> 20, scadaHost |-> NoHost,
                       macPrefix |-> GooseMacPrefix, appidBase |-> 1, minTime |-> 100, maxTime |-> 5000]
             others == [hostBreakers |-> AskInt(0), hostTransformers |-> AskInt(0), scadaHost |-> AskInt(0),
                        macPrefix |-> MacPrefixes, appidBase |-> AskInt(0), minTime |-> AskInt(1), maxTime |-> AskInt(1)]
  <2>1. AskInt(0) \subseteq Nat /\ AskInt(1) \subseteq Nat \ {0}
    <3>1. \A m \in Numbers : m \in Nat
      BY WizardAssumption
    <3>2. \A m \in AskInt(1) : m \in Nat /\ m # 0
      BY <3>1 DEF AskInt
    <3>3. \A m \in AskInt(0) : m \in Nat
      BY <3>1 DEF AskInt
    <3>4. QED
      BY <3>2, <3>3
  <2>2. usual \in NetworkSet
    BY DEF NetworkSet, NoHost
  <2>3. \A f \in DOMAIN others : \A v \in others[f] : [usual EXCEPT ![f] = v] \in NetworkSet
    <3>1. ASSUME NEW v \in MacPrefixes PROVE [usual EXCEPT !["macPrefix"] = v] \in NetworkSet
      <4>1. v \in STRING \cup {GooseMacPrefix}
        BY WizardAssumption
      <4> HIDE DEF usual
      <4>2. QED
        BY <2>2, <4>1 DEF NetworkSet
    <3>2. ASSUME NEW f \in DOMAIN others, f # "macPrefix", NEW v \in others[f]
          PROVE  [usual EXCEPT ![f] = v] \in NetworkSet
      BY <2>1, <2>2, <3>2 DEF NetworkSet
    <3>3. others["macPrefix"] = MacPrefixes
      OBVIOUS
    <3> HIDE DEF usual, others
    <3>4. QED
      BY <3>1, <3>2, <3>3
  <2>4. NetworkAnswers = Section(usual, others)
    BY DEF NetworkAnswers
  <2> HIDE DEF usual, others
  <2>5. n[1] = usual \/ \E f \in DOMAIN others : \E v \in others[f] : n[1] = [usual EXCEPT ![f] = v]
    BY <1>2, <2>4 DEF Section, Answers
  <2>6. QED
    BY <2>2, <2>3, <2>5
<1>4. s[1] \in ScadaSet
  <2> DEFINE usual == [iedName |-> <<"SCADA", 1, <<>>>>, undervoltage |-> TRUE, trip |-> TRUE]
             others == [iedName |-> IedNames, undervoltage |-> {FALSE},
                        trip |-> IF transformers = <<>> THEN {} ELSE {FALSE}]
  <2>1. IedNames \subseteq NameSet
    BY WizardAssumption DEF IedNames, NameSet, Stems
  <2>2. usual \in ScadaSet
    BY PlainName DEF ScadaSet
  <2>3. \A f \in DOMAIN others : \A v \in others[f] : [usual EXCEPT ![f] = v] \in ScadaSet
    <3>1. DOMAIN others = {"iedName", "undervoltage", "trip"}
      OBVIOUS
    <3>2. /\ others["iedName"] = IedNames /\ others["undervoltage"] = {FALSE}
          /\ others["trip"] \subseteq {FALSE}
      OBVIOUS
    <3> HIDE DEF usual, others
    <3>3. ASSUME NEW v \in others["iedName"] PROVE [usual EXCEPT !["iedName"] = v] \in ScadaSet
      BY <2>1, <2>2, <3>2 DEF ScadaSet
    <3>4. [usual EXCEPT !["undervoltage"] = FALSE] \in ScadaSet /\ [usual EXCEPT !["trip"] = FALSE] \in ScadaSet
      BY <2>2 DEF ScadaSet
    <3>5. QED
      BY <3>1, <3>2, <3>3, <3>4
  <2>4. ScadaAnswers = Section(usual, others)
    BY DEF ScadaAnswers
  <2> HIDE DEF usual, others
  <2>5. s[1] = usual \/ \E f \in DOMAIN others : \E v \in others[f] : s[1] = [usual EXCEPT ![f] = v]
    BY <1>2, <2>4 DEF Section, Answers
  <2>6. QED
    BY <2>2, <2>3, <2>5
<1>5. SettingsTyped'
  BY <1>2, <1>3, <1>4 DEF SettingsTyped
<1>6. QED
  BY <1>1, <1>5 DEF StationInv

\* Every turn of the dialogue keeps what is built well formed.
LEMMA DialogueStation == StationInv /\ Next => StationInv'
BY NameLevelStation, AddTapStation, RedoTapsStation, CrashStation, CompleteLevelStation,
   AddAnotherStation, CollectSettingsStation, ConfirmStation DEF Next

-----------------------------------------------------------------------------
(* What became of the station. *)

\* Nothing happens to the tools before the station is accepted, and nothing to
\* the station after that; a document that passed the schema is the one built
\* from the station, and the configurations are those mapped from it.
OutcomeInv ==
    /\ status # "open" => phase = "accepted"
    /\ status \in {"valid", "error", "compiled"} => doc = Document(Station) /\ SchemaValid(doc)
    /\ status = "compiled" => MappingErrors(doc) = {} /\ configs = MapDocument(doc)

ToolInv == StationInv /\ OutcomeInv

\* The tools after the dialogue leave the station alone.
LEMMA StationKept == UNCHANGED vars => Station' = Station
BY DEF vars, Station

\* So they keep it well formed.
LEMMA StationInvKept == StationInv /\ UNCHANGED vars => StationInv'
BY DEF StationInv, LevelsBuilt, TransformersPlaced, DraftTyped, SettingsTyped, vars

\* The invariant holds before the dialogue, ...
LEMMA InitTool == ToolInit => ToolInv
BY InitStation DEF ToolInit, ToolInv, OutcomeInv

\* ... no turn of the dialogue touches what the tools made, ...
LEMMA DialogueOutcome == OutcomeInv /\ Dialogue => OutcomeInv'
<1> SUFFICES ASSUME OutcomeInv, Dialogue PROVE OutcomeInv'
  OBVIOUS
<1>1. phase # "accepted"
  BY DEF Dialogue, Next, NameLevel, AddTap, RedoTaps, Crash, CompleteLevel, AddAnother,
         CollectSettings, Confirm
<1>2. status = "open" /\ status' = "open"
  BY <1>1 DEF OutcomeInv, Dialogue, tools
<1>3. QED
  BY <1>2 DEF OutcomeInv

\* ... the document written is that of the station, ...
LEMMA WriteStationOutcome == OutcomeInv /\ WriteStation => OutcomeInv'
<1> SUFFICES ASSUME OutcomeInv, WriteStation PROVE OutcomeInv'
  OBVIOUS
<1>1. phase' = "accepted" /\ Station' = Station
  BY StationKept DEF WriteStation, vars
<1>2. CASE WriteRaises(Station)
  BY <1>1, <1>2 DEF OutcomeInv, WriteStation
<1>3. CASE ~WriteRaises(Station)
  <2>1. doc' = Document(Station) /\ status' = IF SchemaValid(doc') THEN "valid" ELSE "refused"
    BY <1>3 DEF WriteStation
  <2>2. (status' = "valid" /\ SchemaValid(doc')) \/ status' = "refused"
    BY <2>1
  <2>3. Document(Station)' = Document(Station)
    BY <1>1 DEF WriteStation
  <2>4. QED
    BY <1>1, <2>1, <2>2, <2>3 DEF OutcomeInv
<1>4. QED
  BY <1>2, <1>3

\* ... and the configurations are those of the document.
LEMMA CompileOutcome == OutcomeInv /\ Compile => OutcomeInv'
<1> SUFFICES ASSUME OutcomeInv, Compile PROVE OutcomeInv'
  OBVIOUS
<1>1. phase' = phase /\ doc' = doc /\ Station' = Station
  BY StationKept DEF Compile, vars
<1>2. status = "valid" /\ phase = "accepted" /\ doc = Document(Station) /\ SchemaValid(doc)
  BY DEF OutcomeInv, Compile
<1>3. \/ status' = "error"
      \/ status' = "compiled" /\ MappingErrors(doc) = {} /\ configs' = MapDocument(doc)
  BY DEF Compile
<1>4. doc' = Document(Station)' /\ SchemaValid(doc')
  BY <1>1, <1>2
<1>5. QED
  BY <1>1, <1>2, <1>3, <1>4 DEF OutcomeInv

\* Every step keeps the invariant.
LEMMA ToolStep == ToolInv /\ [ToolNext]_<<vars, tools>> => ToolInv'
<1> SUFFICES ASSUME ToolInv, [ToolNext]_<<vars, tools>> PROVE ToolInv'
  OBVIOUS
<1>1. CASE Dialogue
  BY <1>1, DialogueOutcome, DialogueStation DEF ToolInv, Dialogue
<1>2. CASE WriteStation
  BY <1>2, WriteStationOutcome, StationInvKept DEF ToolInv, WriteStation
<1>3. CASE Compile
  BY <1>3, CompileOutcome, StationInvKept DEF ToolInv, Compile
<1>4. CASE UNCHANGED <<vars, tools>>
  <2>1. UNCHANGED vars /\ status' = status /\ doc' = doc /\ configs' = configs
    BY <1>4 DEF tools
  <2>2. StationInv' /\ Station' = Station /\ phase' = phase
    BY <2>1, StationInvKept, StationKept DEF ToolInv, vars
  <2>3. OutcomeInv'
    BY <2>1, <2>2 DEF ToolInv, OutcomeInv
  <2>4. QED
    BY <2>2, <2>3 DEF ToolInv
<1>5. QED
  BY <1>1, <1>2, <1>3, <1>4 DEF ToolNext

\* The invariant of the tools.
THEOREM ToolInvariant == ToolSpec => []ToolInv
<1>1. ToolInit => ToolInv
  BY InitTool
<1>2. ToolInv /\ [ToolNext]_<<vars, tools>> => ToolInv'
  BY ToolStep
<1>3. QED
  BY <1>1, <1>2, PTL DEF ToolSpec

-----------------------------------------------------------------------------
(* The breakers of a station. *)

BreakerSet == {BreakerOf(n) : n \in Nat}

\* The parts of an isolated breaker.
LEMMA BreakerFields ==
    ASSUME NEW n \in Nat
    PROVE  /\ BreakerOf(n).name = CbrName(n) /\ BreakerOf(n).type = "CBR"
           /\ BreakerOf(n).a = SideA(n) /\ BreakerOf(n).b = SideB(n)
           /\ BreakerOf(n) \in BreakerSet
BY DEF BreakerOf, BreakerSet

\* A device is a breaker or a disconnect, as its type says.
LEMMA DeviceFields ==
    ASSUME NEW d \in Devices
    PROVE  /\ d.type = "CBR" <=> d \in BreakerSet
           /\ d.type = "CBR" \/ d.type = "DIS"
           /\ d.type = "DIS" <=> d \in Disconnects
<1>1. CASE d \in BreakerSet
  <2>1. PICK n \in Nat : d = BreakerOf(n)
    BY <1>1 DEF BreakerSet
  <2>2. d.type = "CBR"
    BY <2>1, BreakerFields
  <2>3. \A e \in Disconnects : e.type = "DIS"
    BY DEF Disconnects, Dis
  <2>4. QED
    BY <1>1, <2>2, <2>3
<1>2. CASE d \in Disconnects
  <2>1. d.type = "DIS"
    BY <1>2 DEF Disconnects, Dis
  <2>2. \A e \in BreakerSet : e.type = "CBR"
    BY BreakerFields DEF BreakerSet
  <2>3. QED
    BY <1>2, <2>1, <2>2
<1>3. QED
  BY <1>1, <1>2 DEF Devices, BreakerSet

\* What is known of a built level.
LEMMA BuiltLevelShape ==
    ASSUME NEW lv \in BuiltLevels
    PROVE  \E start \in Nat :
             /\ lv.layout \in Layouts /\ lv.taps \in Seq(TapSet) /\ ~Refuses(lv.layout, lv.taps)
             /\ lv.name \in NameSet
             /\ lv.breakers \in Seq(Devices)
             /\ Cells(lv.layout, lv.taps, start) \in Seq(CellsOf(lv.taps)) \ {<<>>}
             /\ Range(lv.breakers) = LevelDevices(lv.layout, lv.taps, start)
<1>1. PICK name \in NameSet, kv \in Voltages \cup OddVoltages, layout \in Layouts,
           tps \in Seq(TapSet), start \in Nat : lv = Build(name, kv, layout, tps, start)
  BY DEF BuiltLevels
<1>2. lv.name = name /\ lv.layout = layout /\ lv.taps = tps /\ ~Refuses(layout, tps)
  BY <1>1, TapsOfBuild DEF BuiltLevels
<1>3. lv.breakers \in Seq(Devices) /\ Range(lv.breakers) = LevelDevices(layout, tps, start)
  BY <1>1, <1>2, BuiltDevices
<1>4. Cells(layout, tps, start) \in Seq(CellsOf(tps)) \ {<<>>}
  BY <1>2, CellsTyped
<1>5. QED
  BY <1>2, <1>3, <1>4

\* Every level has a breaker, and Breakers selects them all.
LEMMA LevelBreakers ==
    ASSUME NEW lv \in BuiltLevels
    PROVE  /\ Breakers(lv) \in Seq(BreakerSet) /\ Breakers(lv) # <<>>
           /\ Range(Breakers(lv)) = Range(lv.breakers) \cap BreakerSet
<1>1. PICK start \in Nat :
             /\ lv.layout \in Layouts /\ lv.taps \in Seq(TapSet) /\ ~Refuses(lv.layout, lv.taps)
             /\ lv.name \in NameSet
             /\ lv.breakers \in Seq(Devices)
             /\ Cells(lv.layout, lv.taps, start) \in Seq(CellsOf(lv.taps)) \ {<<>>}
             /\ Range(lv.breakers) = LevelDevices(lv.layout, lv.taps, start)
  BY BuiltLevelShape
<1> DEFINE s == lv.breakers
           places == {k \in DOMAIN s : s[k].type = "CBR"}
           t == Breakers(lv)
<1>2. t = At(s, places)
  BY DEF Breakers, Chosen, IsCbr
<1>3. s \in Seq(Devices)
  BY <1>1
<1> HIDE DEF s, t
<1>4. t \in Seq(Devices) /\ Range(t) = {s[k] : k \in places}
  BY <1>2, <1>3, RangeAt
<1>5. \A k \in DOMAIN s : s[k] \in Devices
  BY <1>3
<1>6. Range(t) = Range(s) \cap BreakerSet
  BY <1>4, <1>5, DeviceFields DEF Range
<1>7. t \in Seq(BreakerSet)
  <2>1. \A k \in DOMAIN t : t[k] \in Range(t)
    BY DEF Range
  <2>2. \A k \in DOMAIN t : t[k] \in BreakerSet
    BY <1>6, <2>1
  <2>3. t = [k \in 1 .. Len(t) |-> t[k]] /\ Len(t) \in Nat /\ DOMAIN t = 1 .. Len(t)
    BY <1>4
  <2>4. QED
    BY <2>2, <2>3, SeqOfValues
<1>8. Range(t) # {}
  <2> DEFINE cells == Cells(lv.layout, lv.taps, start)
  <2>1. cells \in Seq(CellsOf(lv.taps)) /\ cells # <<>>
    BY <1>1
  <2> HIDE DEF cells
  <2>2. 1 \in DOMAIN cells /\ cells[1] \in Range(cells) /\ cells[1] \in CellsOf(lv.taps)
    BY <2>1 DEF Range
  <2> DEFINE cbs == cells[1].cbs
  <2>3. cbs \in Seq(Cbrs) /\ cbs # <<>>
    BY <2>2 DEF CellsOf
  <2> HIDE DEF cbs
  <2>4. cbs[1] \in Cbrs /\ cbs[1] \in Range(cbs)
    BY <2>3 DEF Range
  <2>5. PICK n \in Nat, a \in Nodes, b \in Nodes : cbs[1] = Cbr(n, a, b)
    BY <2>4 DEF Cbrs
  <2>6. Isolated(cbs[1]) = BreakerOf(n)
    BY <2>5, CbrShape
  <2>7. BreakerOf(n) \in CellDevices(lv.taps, cells[1])
    BY <2>4, <2>6 DEF CellDevices, DevicesOf, cbs
  <2>8. BreakerOf(n) \in Range(s)
    BY <1>1, <2>2, <2>7 DEF s, cells, LevelDevices
  <2>9. QED
    BY <1>6, <2>8, BreakerFields
<1>9. t # <<>>
  BY <1>8 DEF Range
<1>10. QED
  BY <1>6, <1>7, <1>9 DEF s, t

\* The breakers of a station are those of its levels.
LEMMA StationBreakers ==
    ASSUME NEW st, st.levels \in Seq(BuiltLevels)
    PROVE  /\ AllBreakers(st) \in Seq(BreakerSet)
           /\ Range(AllBreakers(st)) = UNION {Range(Breakers(lv)) : lv \in Range(st.levels)}
<1> DEFINE s == st.levels
           lists == [k \in DOMAIN s |-> Breakers(s[k])]
<1>1. s \in Seq(BuiltLevels)
  OBVIOUS
<1>2. AllBreakers(st) = FlattenSeq(lists)
  BY DEF AllBreakers, Each
<1> HIDE DEF s
<1>3. \A k \in DOMAIN s : s[k] \in BuiltLevels /\ lists[k] = Breakers(s[k])
  BY <1>1
<1>4. \A k \in DOMAIN s : lists[k] \in Seq(BreakerSet)
  BY <1>3, LevelBreakers
<1>5. DOMAIN lists = DOMAIN s /\ lists = [k \in DOMAIN s |-> lists[k]]
  OBVIOUS
<1> HIDE DEF lists
<1>6. lists \in Seq(Seq(BreakerSet))
  BY <1>1, <1>4, <1>5, ImageSeq
<1>7. /\ FlattenSeq(lists) \in Seq(BreakerSet)
      /\ Range(FlattenSeq(lists)) = UNION {Range(lists[k]) : k \in DOMAIN lists}
  BY <1>6, FlattenLists, RangeFlatten
<1>8. UNION {Range(lists[k]) : k \in DOMAIN lists} = UNION {Range(Breakers(lv)) : lv \in Range(s)}
  BY <1>3, <1>5 DEF Range
<1>9. QED
  BY <1>2, <1>7, <1>8 DEF s

-----------------------------------------------------------------------------
(* The document of a station, part by part. *)

\* Two sequences and one more element, one after the other.
LEMMA Joined ==
    ASSUME NEW n \in Nat, NEW m \in Nat, NEW s, s = [k \in 1 .. n |-> s[k]],
           NEW t, t = [k \in 1 .. m |-> t[k]], NEW x
    PROVE  /\ DOMAIN (s \o t \o <<x>>) = 1 .. n + m + 1
           /\ \A k \in 1 .. n : (s \o t \o <<x>>)[k] = s[k]
           /\ \A k \in 1 .. m : (s \o t \o <<x>>)[n + k] = t[k]
           /\ (s \o t \o <<x>>)[n + m + 1] = x
           /\ \A R : (\A k \in 1 .. n : s[k] \in R) /\ (\A k \in 1 .. m : t[k] \in R) /\ x \in R
                     => s \o t \o <<x>> \in Seq(R)
<1> DEFINE S == {s[k] : k \in 1 .. n} \cup {t[k] : k \in 1 .. m} \cup {x}
<1>1. \A R : (\A k \in 1 .. n : s[k] \in R) /\ (\A k \in 1 .. m : t[k] \in R) /\ x \in R
             => s \in Seq(R) /\ t \in Seq(R) /\ <<x>> \in Seq(R)
  <2> SUFFICES ASSUME NEW R, \A k \in 1 .. n : s[k] \in R, \A k \in 1 .. m : t[k] \in R, x \in R
               PROVE  s \in Seq(R) /\ t \in Seq(R) /\ <<x>> \in Seq(R)
    OBVIOUS
  <2>1. s \in Seq(R)
    BY SeqOfValues
  <2>2. t \in Seq(R)
    BY SeqOfValues
  <2>3. QED
    BY <2>1, <2>2
<1>2. (\A k \in 1 .. n : s[k] \in S) /\ (\A k \in 1 .. m : t[k] \in S) /\ x \in S
  OBVIOUS
<1> HIDE DEF S
<1>3. s \in Seq(S) /\ t \in Seq(S) /\ <<x>> \in Seq(S)
  BY <1>1, <1>2
<1>4. Len(s) = n /\ Len(t) = m
  BY <1>2, SeqOfValues
<1> DEFINE v == s \o t
<1>5. v \in Seq(S) /\ Len(v) = n + m /\ \A k \in 1 .. n : v[k] = s[k]
  BY <1>3, <1>4
<1>6. ASSUME NEW k \in 1 .. m PROVE v[n + k] = t[k]
  BY <1>3, <1>4
<1> HIDE DEF v
<1>7. DOMAIN (v \o <<x>>) = 1 .. n + m + 1 /\ (v \o <<x>>)[n + m + 1] = x
  BY <1>5
<1>8. \A k \in 1 .. n + m : (v \o <<x>>)[k] = v[k]
  BY <1>5
<1>9. ASSUME NEW R, s \in Seq(R), t \in Seq(R), <<x>> \in Seq(R) PROVE v \o <<x>> \in Seq(R)
  <2>1. v \in Seq(R)
    BY <1>9 DEF v
  <2>2. QED
    BY <1>9, <2>1
<1>10. \A k \in 1 .. n : (v \o <<x>>)[k] = s[k]
  BY <1>5, <1>8
<1>11. \A k \in 1 .. m : (v \o <<x>>)[n + k] = t[k]
  <2> TAKE k \in 1 .. m
  <2>1. n + k \in 1 .. n + m
    OBVIOUS
  <2>2. QED
    BY <2>1, <1>6, <1>8
<1>12. QED
  BY <1>1, <1>7, <1>9, <1>10, <1>11 DEF v

\* FlattenSeq of one list, ...
LEMMA FlattenOne ==
    ASSUME NEW s PROVE FlattenSeq(<<s>>) = s
<1> DEFINE ss == <<s>>
           n == Len(ss)
<1>1. n = 1 /\ ss[1] = s
  OBVIOUS
<1>2. n \in Nat /\ n > 0
  BY <1>1
<1> HIDE DEF ss
<1>3. PICK f : f = [i \in 1 .. n |-> IF i = 1 THEN ss[i] ELSE f[i - 1] \o ss[i]]
               /\ FlattenSeq(ss) = f[n]
  BY <1>2, FlattenDef
<1> HIDE DEF n
<1>4. \A i \in 1 .. 1 : f[i] = IF i = 1 THEN ss[i] ELSE f[i - 1] \o ss[i]
  BY <1>1, <1>3
<1>5. f[1] = s
  BY <1>1, <1>4
<1>6. QED
  BY <1>1, <1>3, <1>5 DEF ss

\* ... of two, ...
LEMMA FlattenTwo ==
    ASSUME NEW s, NEW t PROVE FlattenSeq(<<s, t>>) = s \o t
<1> DEFINE ss == <<s, t>>
           n == Len(ss)
<1>1. n = 2 /\ ss[1] = s /\ ss[2] = t
  OBVIOUS
<1>2. n \in Nat /\ n > 0
  BY <1>1
<1> HIDE DEF ss
<1>3. PICK f : f = [i \in 1 .. n |-> IF i = 1 THEN ss[i] ELSE f[i - 1] \o ss[i]]
               /\ FlattenSeq(ss) = f[n]
  BY <1>2, FlattenDef
<1> HIDE DEF n
<1>4. \A i \in 1 .. 2 : f[i] = IF i = 1 THEN ss[i] ELSE f[i - 1] \o ss[i]
  BY <1>1, <1>3
<1>5. f[1] = s
  BY <1>1, <1>4
<1>6. f[2] = f[1] \o t
  BY <1>1, <1>4, 2 \in 1 .. 2, 2 # 1, 2 - 1 = 1
<1>7. QED
  BY <1>1, <1>3, <1>5, <1>6 DEF ss

\* ... and of three.
LEMMA FlattenThree ==
    ASSUME NEW ss, Len(ss) = 3 PROVE FlattenSeq(ss) = ss[1] \o ss[2] \o ss[3]
<1> DEFINE n == Len(ss)
<1>1. n \in Nat /\ n > 0 /\ n = 3
  OBVIOUS
<1>2. PICK f : f = [i \in 1 .. n |-> IF i = 1 THEN ss[i] ELSE f[i - 1] \o ss[i]]
               /\ FlattenSeq(ss) = f[n]
  BY <1>1, FlattenDef
<1> HIDE DEF n
<1>3. \A i \in 1 .. 3 : f[i] = IF i = 1 THEN ss[i] ELSE f[i - 1] \o ss[i]
  BY <1>1, <1>2
<1>4. f[1] = ss[1]
  BY <1>3
<1>5. f[2] = f[1] \o ss[2]
  BY <1>3, 2 \in 1 .. 3, 2 # 1, 2 - 1 = 1
<1>6. f[3] = f[2] \o ss[3]
  BY <1>3, 3 \in 1 .. 3, 3 # 1, 3 - 1 = 2
<1>7. QED
  BY <1>1, <1>2, <1>4, <1>5, <1>6

\* What the dialogue hands on.
StationOk(st) ==
    /\ st.levels \in Seq(BuiltLevels)
    /\ st.transformers \in Seq(TransformerSet)
    /\ \A x \in Range(st.transformers) : /\ x.level \in DOMAIN st.levels
                                         /\ x.tap \in DOMAIN st.levels[x.level].taps
    /\ st.network \in NetworkSet /\ st.scada \in ScadaSet

BreakersOf(st) == Len(AllBreakers(st))
XfmrsOf(st) == Len(st.transformers)
Publishers(st) == 1 .. BreakersOf(st) + XfmrsOf(st)
ScadaPlace(st) == BreakersOf(st) + XfmrsOf(st) + 1
IedAt(st, i) == Document(st).ieds[i]
ApAt(st, i) == SubNetwork(st).aps[i]

\* How many breakers and transformers a station has.
LEMMA Counts ==
    ASSUME NEW st, StationOk(st)
    PROVE  /\ BreakersOf(st) \in Nat /\ XfmrsOf(st) \in Nat
           /\ DOMAIN AllBreakers(st) = 1 .. BreakersOf(st)
           /\ DOMAIN st.transformers = 1 .. XfmrsOf(st)
           /\ AllBreakers(st) \in Seq(BreakerSet) /\ st.transformers \in Seq(TransformerSet)
           /\ \A i \in 1 .. XfmrsOf(st) : st.transformers[i] \in TransformerSet
           /\ \A i \in 1 .. BreakersOf(st) : AllBreakers(st)[i] \in BreakerSet
<1> DEFINE s == AllBreakers(st)
           t == st.transformers
<1>1. s \in Seq(BreakerSet) /\ t \in Seq(TransformerSet)
  BY StationBreakers DEF StationOk
<1> HIDE DEF s, t
<1>2. /\ Len(s) \in Nat /\ Len(t) \in Nat /\ DOMAIN s = 1 .. Len(s) /\ DOMAIN t = 1 .. Len(t)
      /\ \A i \in 1 .. Len(s) : s[i] \in BreakerSet
      /\ \A i \in 1 .. Len(t) : t[i] \in TransformerSet
  BY <1>1
<1>3. QED
  BY <1>1, <1>2 DEF s, t, BreakersOf, XfmrsOf

\* The document has one IED for each breaker, each transformer and SCADA, in this order.
LEMMA IedsOfDocument ==
    ASSUME NEW st, StationOk(st)
    PROVE  /\ DOMAIN Document(st).ieds = 1 .. ScadaPlace(st)
           /\ \A i \in 1 .. BreakersOf(st) : IedAt(st, i) =
                BreakerIed(st, AllBreakers(st)[i], AllInterlocks(st), AllRemoteTrips(st))
           /\ \A i \in 1 .. XfmrsOf(st) :
                IedAt(st, BreakersOf(st) + i) = TransformerIed(st, st.transformers[i])
           /\ IedAt(st, ScadaPlace(st)) = ScadaIed(st)
<1> DEFINE n == BreakersOf(st)
           m == XfmrsOf(st)
           B(b) == BreakerIed(st, b, AllInterlocks(st), AllRemoteTrips(st))
           X(x) == TransformerIed(st, x)
           s == [k \in 1 .. n |-> B(AllBreakers(st)[k])]
           t == [k \in 1 .. m |-> X(st.transformers[k])]
           x == ScadaIed(st)
<1>1. /\ n \in Nat /\ m \in Nat
      /\ DOMAIN AllBreakers(st) = 1 .. n /\ DOMAIN st.transformers = 1 .. m
  BY Counts
<1>2. Document(st).ieds = s \o t \o <<x>>
  BY <1>1 DEF Document, Each
<1>3. s = [k \in 1 .. n |-> s[k]] /\ t = [k \in 1 .. m |-> t[k]]
  OBVIOUS
<1>4. (\A k \in 1 .. n : s[k] = B(AllBreakers(st)[k])) /\ (\A k \in 1 .. m : t[k] = X(st.transformers[k]))
  OBVIOUS
<1> HIDE DEF s, t, x, B, X, n, m
<1>5. /\ DOMAIN (s \o t \o <<x>>) = 1 .. n + m + 1
      /\ \A k \in 1 .. n : (s \o t \o <<x>>)[k] = s[k]
      /\ \A k \in 1 .. m : (s \o t \o <<x>>)[n + k] = t[k]
      /\ (s \o t \o <<x>>)[n + m + 1] = x
  BY <1>1, <1>3, Joined
<1>6. QED
  BY <1>2, <1>4, <1>5 DEF n, m, x, B, X, IedAt, ScadaPlace

\* So has the subnetwork access points.
LEMMA ApsOfDocument ==
    ASSUME NEW st, StationOk(st)
    PROVE  /\ DOMAIN SubNetwork(st).aps = 1 .. ScadaPlace(st)
           /\ \A i \in 1 .. BreakersOf(st) : ApAt(st, i) = BreakerAp(st, i, AllBreakers(st)[i])
           /\ \A i \in 1 .. XfmrsOf(st) :
                ApAt(st, BreakersOf(st) + i) = TransformerAp(st, i, st.transformers[i])
           /\ ApAt(st, ScadaPlace(st)) = ScadaAp(st)
           /\ \A R : (\A i \in 1 .. ScadaPlace(st) : ApAt(st, i) \in R) => SubNetwork(st).aps \in Seq(R)
<1> DEFINE n == BreakersOf(st)
           m == XfmrsOf(st)
           B(i, b) == BreakerAp(st, i, b)
           X(i, x) == TransformerAp(st, i, x)
           s == [k \in 1 .. n |-> B(k, AllBreakers(st)[k])]
           t == [k \in 1 .. m |-> X(k, st.transformers[k])]
           x == ScadaAp(st)
<1>1. /\ n \in Nat /\ m \in Nat
      /\ DOMAIN AllBreakers(st) = 1 .. n /\ DOMAIN st.transformers = 1 .. m
  BY Counts
<1>2. SubNetwork(st).aps = s \o t \o <<x>>
  BY <1>1 DEF SubNetwork, Numbered
<1>3. s = [k \in 1 .. n |-> s[k]] /\ t = [k \in 1 .. m |-> t[k]]
  OBVIOUS
<1>4. (\A k \in 1 .. n : s[k] = B(k, AllBreakers(st)[k])) /\ (\A k \in 1 .. m : t[k] = X(k, st.transformers[k]))
  OBVIOUS
<1> HIDE DEF s, t, x, B, X, n, m
<1>5. /\ DOMAIN (s \o t \o <<x>>) = 1 .. n + m + 1
      /\ \A k \in 1 .. n : (s \o t \o <<x>>)[k] = s[k]
      /\ \A k \in 1 .. m : (s \o t \o <<x>>)[n + k] = t[k]
      /\ (s \o t \o <<x>>)[n + m + 1] = x
  BY <1>1, <1>3, Joined
<1> DEFINE u == s \o t \o <<x>>
<1>6. ASSUME NEW R, \A i \in 1 .. ScadaPlace(st) : ApAt(st, i) \in R PROVE SubNetwork(st).aps \in Seq(R)
  <2>1. u = SubNetwork(st).aps /\ n + m + 1 \in Nat /\ ScadaPlace(st) = n + m + 1 /\ DOMAIN u = 1 .. n + m + 1
    BY <1>1, <1>2, <1>5 DEF ScadaPlace, n, m
  <2>2. \A k \in 1 .. n + m + 1 : u[k] \in R
    BY <1>6, <2>1 DEF ApAt
  <2>3. u = [k \in 1 .. n + m + 1 |-> u[k]]
    <3> DEFINE S == {s[k] : k \in 1 .. n} \cup {t[k] : k \in 1 .. m} \cup {x}
    <3>1. (\A k \in 1 .. n : s[k] \in S) /\ (\A k \in 1 .. m : t[k] \in S) /\ x \in S
      OBVIOUS
    <3> HIDE DEF S, u
    <3>2. u \in Seq(S)
      BY <1>1, <1>3, <3>1, Joined DEF u
    <3>3. QED
      BY <2>1, <3>2
  <2> HIDE DEF u
  <2>4. QED
    BY <2>1, <2>2, <2>3, SeqOfValues
<1>7. QED
  BY <1>2, <1>4, <1>5, <1>6 DEF n, m, x, B, X, ApAt, ScadaPlace

Config(st, i) == MapIed(Document(st), IedAt(st, i))
ScadaConfig(st) == MapScada(Document(st), IedAt(st, ScadaPlace(st)))

\* Who is at which place.
LEMMA NamesOfIeds ==
    ASSUME NEW st, StationOk(st)
    PROVE  /\ \A i \in 1 .. BreakersOf(st) : IedAt(st, i).name = AllBreakers(st)[i].name
           /\ \A i \in 1 .. XfmrsOf(st) :
                IedAt(st, BreakersOf(st) + i).name = st.transformers[i].name
           /\ IedAt(st, ScadaPlace(st)).name = st.scada.iedName
           /\ \A i \in Publishers(st) : IedAt(st, i).type = ""
           /\ IedAt(st, ScadaPlace(st)).type = "SCADA"
           /\ \A i \in 1 .. ScadaPlace(st) : ApAt(st, i).ied = IedAt(st, i).name
<1> DEFINE n == BreakersOf(st)
           m == XfmrsOf(st)
           k == ScadaPlace(st)
<1>1. n \in Nat /\ m \in Nat /\ k = n + m + 1
  BY Counts DEF ScadaPlace
<1>2. ASSUME NEW i \in 1 .. n
      PROVE  /\ IedAt(st, i).name = AllBreakers(st)[i].name /\ IedAt(st, i).type = ""
             /\ ApAt(st, i).ied = AllBreakers(st)[i].name
  <2> DEFINE b == AllBreakers(st)[i]
             il == AllInterlocks(st)
             rt == AllRemoteTrips(st)
  <2>1. IedAt(st, i) = BreakerIed(st, b, il, rt) /\ ApAt(st, i) = BreakerAp(st, i, b)
    BY IedsOfDocument, ApsOfDocument
  <2> HIDE DEF b, il, rt
  <2>2. BreakerIed(st, b, il, rt).name = b.name /\ BreakerIed(st, b, il, rt).type = ""
    BY DEF BreakerIed, Ied
  <2>3. BreakerAp(st, i, b).ied = b.name
    BY DEF BreakerAp
  <2>4. QED
    BY <2>1, <2>2, <2>3 DEF b
<1>3. ASSUME NEW i \in 1 .. m
      PROVE  /\ IedAt(st, n + i).name = st.transformers[i].name /\ IedAt(st, n + i).type = ""
             /\ ApAt(st, n + i).ied = st.transformers[i].name
  <2> DEFINE x == st.transformers[i]
  <2>1. IedAt(st, n + i) = TransformerIed(st, x) /\ ApAt(st, n + i) = TransformerAp(st, i, x)
    BY IedsOfDocument, ApsOfDocument
  <2> HIDE DEF x
  <2>2. TransformerIed(st, x).name = x.name /\ TransformerIed(st, x).type = ""
    BY DEF TransformerIed, Ied
  <2>3. TransformerAp(st, i, x).ied = x.name
    BY DEF TransformerAp
  <2>4. QED
    BY <2>1, <2>2, <2>3 DEF x
<1>4. /\ IedAt(st, k).name = st.scada.iedName /\ IedAt(st, k).type = "SCADA"
      /\ ApAt(st, k).ied = st.scada.iedName
  BY IedsOfDocument, ApsOfDocument DEF ScadaIed, Ied, ScadaAp
<1>5. \A i \in 1 .. k : i \in 1 .. n \/ (\E j \in 1 .. m : i = n + j) \/ i = k
  <2>1. ASSUME NEW i \in 1 .. k, i \notin 1 .. n, i # k PROVE i - n \in 1 .. m /\ i = n + (i - n)
    BY <1>1, <2>1
  <2>2. QED
    BY <2>1
<1>6. Publishers(st) = 1 .. n + m
  BY DEF Publishers
<1> HIDE DEF n, m, k
<1>7. \A i \in 1 .. k : ApAt(st, i).ied = IedAt(st, i).name
  BY <1>2, <1>3, <1>4, <1>5
<1>8. ASSUME NEW i \in Publishers(st) PROVE IedAt(st, i).type = ""
  <2>1. i \in 1 .. k /\ i # k
    BY <1>1, <1>6
  <2>2. QED
    BY <2>1, <1>2, <1>3, <1>5
<1>9. QED
  BY <1>2, <1>3, <1>4, <1>7, <1>8 DEF n, m, k

\* The publishers come first, and SCADA last.
LEMMA PublisherPlaces ==
    ASSUME NEW st, StationOk(st)
    PROVE  /\ ScadaPlace(st) \in Nat /\ ScadaPlace(st) \notin Publishers(st)
           /\ Publishers(st) \subseteq 1 .. ScadaPlace(st) /\ Publishers(st) \subseteq Nat
           /\ ScadaPlace(st) \in 1 .. ScadaPlace(st)
           /\ \A i \in 1 .. ScadaPlace(st) : i = ScadaPlace(st) \/ i \in Publishers(st)
           /\ \A i \in Publishers(st) : \/ i \in 1 .. BreakersOf(st)
                                        \/ \E j \in 1 .. XfmrsOf(st) : i = BreakersOf(st) + j
           /\ \A i \in 1 .. BreakersOf(st) : i \in Publishers(st)
           /\ \A j \in 1 .. XfmrsOf(st) : BreakersOf(st) + j \in Publishers(st)
<1> DEFINE n == BreakersOf(st)
           m == XfmrsOf(st)
           k == ScadaPlace(st)
<1>1. n \in Nat /\ m \in Nat /\ k = n + m + 1 /\ Publishers(st) = 1 .. n + m
  BY Counts DEF ScadaPlace, Publishers
<1> HIDE DEF n, m, k
<1>2. \A i \in 1 .. n + m : i \in 1 .. n \/ (\E j \in 1 .. m : i = n + j)
  <2>1. ASSUME NEW i \in 1 .. n + m, i \notin 1 .. n PROVE i - n \in 1 .. m /\ i = n + (i - n)
    BY <1>1, <2>1
  <2>2. QED
    BY <2>1
<1>3. \A j \in 1 .. m : n + j \in 1 .. n + m
  BY <1>1
<1>4. QED
  BY <1>1, <1>2, <1>3 DEF n, m, k

\* A valid document gives every IED a name of its own.
LEMMA NamesDiffer ==
    ASSUME NEW st, StationOk(st), SchemaValid(Document(st)),
           NEW i \in 1 .. ScadaPlace(st), NEW j \in 1 .. ScadaPlace(st),
           IedAt(st, i).name = IedAt(st, j).name
    PROVE  i = j
<1> DEFINE s == Document(st).ieds
           t == [k \in DOMAIN s |-> s[k].name]
<1>1. Names(s) = t
  BY DEF Names, Each
<1>2. \A p, q \in DOMAIN t : t[p] = t[q] => p = q
  <2>1. Distinct(Names(s))
    BY DEF SchemaValid
  <2>2. Distinct(t)
    BY <1>1, <2>1
  <2> HIDE DEF t
  <2>3. QED
    BY <2>2 DEF Distinct
<1>3. DOMAIN s = 1 .. ScadaPlace(st)
  BY IedsOfDocument
<1>4. QED
  BY <1>2, <1>3 DEF IedAt

\* The access point found for an IED is its own.
LEMMA FindApOf ==
    ASSUME NEW st, StationOk(st), SchemaValid(Document(st)), NEW i \in 1 .. ScadaPlace(st)
    PROVE  FindAp(Document(st), IedAt(st, i).name) = <<[net |-> SubNetwork(st), ap |-> ApAt(st, i)]>>
<1> DEFINE net == SubNetwork(st)
           aps == net.aps
           pairs == [k \in DOMAIN aps |-> [net |-> net, ap |-> aps[k]]]
           name == IedAt(st, i).name
           found == {k \in DOMAIN pairs : pairs[k].ap.ied = name}
<1>1. Document(st).subnets = <<net>>
  BY DEF Document
<1> DEFINE nets == Document(st).subnets
           lists == [k \in DOMAIN nets |-> [j \in DOMAIN nets[k].aps |-> [net |-> nets[k], ap |-> nets[k].aps[j]]]]
           all == FlattenSeq(lists)
<1>2. lists = <<pairs>>
  BY <1>1
<1>3. FlattenSeq(<<pairs>>) = pairs
  BY FlattenOne
<1>4. FindAp(Document(st), name) =
        IF found = {} THEN <<>> ELSE <<pairs[CHOOSE k \in found : \A j \in found : k <= j]>>
  <2>1. FindAp(Document(st), name) =
          LET hits == {k \in DOMAIN all : all[k].ap.ied = name}
          IN  IF hits = {} THEN <<>> ELSE <<all[CHOOSE k \in hits : \A j \in hits : k <= j]>>
    BY DEF FindAp, First, Each
  <2>2. all = pairs
    BY <1>2, <1>3
  <2> HIDE DEF all, pairs
  <2>3. QED
    BY <2>1, <2>2, Zenon
<1>5. DOMAIN pairs = 1 .. ScadaPlace(st) /\ \A k \in 1 .. ScadaPlace(st) :
         pairs[k] = [net |-> net, ap |-> ApAt(st, k)] /\ pairs[k].ap.ied = IedAt(st, k).name
  BY ApsOfDocument, NamesOfIeds DEF ApAt
<1>6. \A k \in 1 .. ScadaPlace(st) : IedAt(st, k).name = name <=> k = i
  BY NamesDiffer
<1> HIDE DEF pairs, name
<1>7. found = {i}
  BY <1>5, <1>6
<1> HIDE DEF found
<1>8. i \in Nat
  BY PublisherPlaces
<1>9. (CHOOSE k \in found : \A j \in found : k <= j) = i
  BY <1>7, <1>8
<1>10. QED
  BY <1>4, <1>5, <1>7, <1>9 DEF name, net

\* The configurations: one of each publisher, and the one of SCADA.
LEMMA Configurations ==
    ASSUME NEW st, StationOk(st), SchemaValid(Document(st))
    PROVE  /\ \A i \in Publishers(st) : Config(st, i) \in Range(MapDocument(Document(st)))
           /\ ScadaConfig(st) \in Range(MapDocument(Document(st)))
           /\ \A c \in Range(MapDocument(Document(st))) :
                (\E i \in Publishers(st) : c = Config(st, i)) \/ c = ScadaConfig(st)
<1> DEFINE D == Document(st)
           s == D.ieds
           K == ScadaPlace(st)
           names == {ied.name : ied \in Range(s)}
           Named(name) == {i \in DOMAIN s : s[i].name = name}
           At1(name) == CHOOSE i \in Named(name) : \A j \in Named(name) : j <= i
           Of1(i) == IF s[i].type = "SCADA" THEN MapScada(D, s[i]) ELSE MapIed(D, s[i])
<1>1. MapDocument(D) = [name \in names |-> Of1(At1(name))]
  BY DEF MapDocument
<1>2. DOMAIN s = 1 .. K /\ \A i \in 1 .. K : s[i] = IedAt(st, i)
  BY IedsOfDocument DEF IedAt
<1>3. ASSUME NEW i \in 1 .. K PROVE s[i].name \in names /\ At1(s[i].name) = i
  <2>1. s[i].name \in names
    BY <1>2 DEF Range
  <2>2. Named(s[i].name) = {i}
    BY <1>2, NamesDiffer
  <2>3. i \in Nat
    BY PublisherPlaces
  <2> HIDE DEF Named
  <2>4. QED
    BY <2>1, <2>2, <2>3
<1>4. \A name \in names : \E i \in 1 .. K : name = s[i].name
  BY <1>2 DEF Range
<1>5. \A i \in Publishers(st) : Of1(i) = Config(st, i) /\ i \in 1 .. K
  BY <1>2, NamesOfIeds, PublisherPlaces DEF Config
<1>6. Of1(K) = ScadaConfig(st) /\ K \in 1 .. K
  BY <1>2, NamesOfIeds, PublisherPlaces DEF ScadaConfig
<1>7. \A i \in 1 .. K : i = K \/ i \in Publishers(st)
  BY PublisherPlaces
<1> DEFINE cs == MapDocument(D)
<1> HIDE DEF names, At1, Of1, K, s, D, cs
<1>8. \A i \in 1 .. K : Of1(i) \in Range(cs)
  BY <1>1, <1>3 DEF cs, Range
<1>9. \A c \in Range(cs) : \E i \in 1 .. K : c = Of1(i)
  BY <1>1, <1>3, <1>4 DEF cs, Range
<1>10. QED
  BY <1>5, <1>6, <1>7, <1>8, <1>9 DEF cs, D, K

-----------------------------------------------------------------------------
(* GOOSE. *)

\* Addresses of publishers, by their place.
LEMMA MacOfTransformer ==
    ASSUME NEW st, StationOk(st), SchemaValid(Document(st)), NEW i \in 1 .. XfmrsOf(st)
    PROVE  MacAppidIndex(st)[st.transformers[i].name] = BreakersOf(st) + i
<1> DEFINE n == BreakersOf(st)
           m == XfmrsOf(st)
           s == [k \in 1 .. n |-> AllBreakers(st)[k].name]
           t == [k \in 1 .. m |-> st.transformers[k].name]
           u == s \o t
           x == st.transformers[i].name
           Is(k, y) == u[k] = y /\ \A j \in DOMAIN u : u[j] = y => j <= k
<1>1. /\ n \in Nat /\ m \in Nat
      /\ DOMAIN AllBreakers(st) = 1 .. n /\ DOMAIN st.transformers = 1 .. m
  BY Counts
<1>2. MacAppidIndex(st) = [y \in Range(u) |-> CHOOSE k \in DOMAIN u : Is(k, y)]
  BY <1>1 DEF MacAppidIndex, Each
<1> DEFINE S == {s[k] : k \in 1 .. n} \cup {t[k] : k \in 1 .. m}
<1>3. /\ s = [k \in 1 .. n |-> s[k]] /\ t = [k \in 1 .. m |-> t[k]]
      /\ (\A k \in 1 .. n : s[k] \in S) /\ (\A k \in 1 .. m : t[k] \in S)
      /\ \A k \in 1 .. n : s[k] = IedAt(st, k).name
      /\ \A k \in 1 .. m : t[k] = IedAt(st, n + k).name
      /\ t[i] = x
  BY NamesOfIeds
<1> HIDE DEF s, t, S, x
<1>4. s \in Seq(S) /\ Len(s) = n /\ t \in Seq(S) /\ Len(t) = m
  BY <1>1, <1>3, SeqOfValues
<1>5. DOMAIN u = 1 .. n + m /\ (\A k \in 1 .. n : u[k] = s[k]) /\ (\A k \in 1 .. m : u[n + k] = t[k])
  BY <1>1, <1>4
<1>6. n + i \in 1 .. n + m /\ u[n + i] = x
  BY <1>1, <1>3, <1>5
<1> HIDE DEF u
<1>7. ASSUME NEW k \in 1 .. n + m, u[k] = x PROVE k = n + i
  <2>1. u[k] = IedAt(st, k).name
    <3>1. CASE k \in 1 .. n
      BY <1>3, <1>5, <3>1
    <3>2. CASE k \notin 1 .. n
      <4>1. k - n \in 1 .. m /\ n + (k - n) = k
        BY <1>1, <3>2
      <4>2. QED
        BY <1>3, <1>5, <4>1
    <3>3. QED
      BY <3>1, <3>2
  <2>2. u[n + i] = IedAt(st, n + i).name
    BY <1>3, <1>5
  <2>3. k \in 1 .. ScadaPlace(st) /\ n + i \in 1 .. ScadaPlace(st)
    BY <1>1, <1>6, PublisherPlaces DEF Publishers, n, m
  <2>4. QED
    BY <1>6, <1>7, <2>1, <2>2, <2>3, NamesDiffer
<1>8. Is(n + i, x) /\ \A k \in DOMAIN u : Is(k, x) => k = n + i
  <2>1. n + i <= n + i
    BY <1>1
  <2>2. QED
    BY <1>5, <1>6, <1>7, <2>1
<1>9. x \in Range(u)
  BY <1>5, <1>6 DEF Range
<1> HIDE DEF Is
<1>10. (CHOOSE k \in DOMAIN u : Is(k, x)) = n + i
  BY <1>5, <1>6, <1>8
<1>11. MacAppidIndex(st)[x] = n + i
  BY <1>2, <1>9, <1>10
<1>12. QED
  BY <1>11 DEF x, n

\* Every publisher has one GSE element.
LEMMA GseOf ==
    ASSUME NEW st, StationOk(st), SchemaValid(Document(st))
    PROVE  /\ \A i \in Publishers(st) : ApAt(st, i).gse = <<Gse(st, i)>>
           /\ ApAt(st, ScadaPlace(st)).gse = <<>>
<1>1. ASSUME NEW i \in 1 .. BreakersOf(st) PROVE ApAt(st, i).gse = <<Gse(st, i)>>
  BY ApsOfDocument DEF BreakerAp
<1>2. ASSUME NEW j \in 1 .. XfmrsOf(st)
      PROVE  ApAt(st, BreakersOf(st) + j).gse = <<Gse(st, BreakersOf(st) + j)>>
  <2> DEFINE x == st.transformers[j]
  <2>1. ApAt(st, BreakersOf(st) + j) = TransformerAp(st, j, x)
    BY ApsOfDocument
  <2>2. TransformerAp(st, j, x).gse = <<Gse(st, MacAppidIndex(st)[x.name])>>
    BY DEF TransformerAp
  <2>3. MacAppidIndex(st)[x.name] = BreakersOf(st) + j
    BY MacOfTransformer
  <2>4. QED
    BY <2>1, <2>2, <2>3
<1>3. ApAt(st, ScadaPlace(st)).gse = <<>>
  BY ApsOfDocument DEF ScadaAp
<1>4. QED
  BY <1>1, <1>2, <1>3, PublisherPlaces

\* Every publisher has one logical device with one GOOSE control block.
LEMMA DeviceOf ==
    ASSUME NEW st, StationOk(st), NEW i \in Publishers(st)
    PROVE  /\ IedAt(st, i).devices[1].inst = "LD0"
           /\ IedAt(st, i).devices[1].ln0.gse # <<>>
           /\ IedAt(st, i).devices[1].ln0.gse[1].name = "gcbGoose1"
<1>1. ASSUME NEW b, NEW il, NEW rt
      PROVE  /\ BreakerIed(st, b, il, rt).devices[1].inst = "LD0"
             /\ BreakerIed(st, b, il, rt).devices[1].ln0.gse
                  = <<[name |-> "gcbGoose1", datSet |-> "dsGoose1", appID |-> b.name]>>
  BY DEF BreakerIed, Ied, Ln0
<1>2. ASSUME NEW x
      PROVE  /\ TransformerIed(st, x).devices[1].inst = "LD0"
             /\ TransformerIed(st, x).devices[1].ln0.gse
                  = <<[name |-> "gcbGoose1", datSet |-> "", appID |-> x.name]>>
  BY DEF TransformerIed, Ied, Ln0
<1>3. CASE i \in 1 .. BreakersOf(st)
  <2> DEFINE b == AllBreakers(st)[i]
             ied == BreakerIed(st, b, AllInterlocks(st), AllRemoteTrips(st))
  <2>1. IedAt(st, i) = ied
    BY <1>3, IedsOfDocument
  <2>2. ied.devices[1].inst = "LD0"
        /\ ied.devices[1].ln0.gse = <<[name |-> "gcbGoose1", datSet |-> "dsGoose1", appID |-> b.name]>>
    BY <1>1
  <2> HIDE DEF ied
  <2>3. QED
    BY <2>1, <2>2
<1>4. ASSUME NEW j \in 1 .. XfmrsOf(st), i = BreakersOf(st) + j
      PROVE  /\ IedAt(st, i).devices[1].inst = "LD0"
             /\ IedAt(st, i).devices[1].ln0.gse # <<>>
             /\ IedAt(st, i).devices[1].ln0.gse[1].name = "gcbGoose1"
  <2> DEFINE x == st.transformers[j]
             ied == TransformerIed(st, x)
           r == [name |-> "gcbGoose1", datSet |-> "", appID |-> x.name]
  <2>1. IedAt(st, i) = ied
    BY <1>4, IedsOfDocument
  <2>2. ied.devices[1].inst = "LD0" /\ ied.devices[1].ln0.gse = <<r>>
    BY <1>2
  <2>3. r.name = "gcbGoose1"
    OBVIOUS
  <2> HIDE DEF ied, r
  <2>4. <<r>> # <<>> /\ <<r>>[1] = r
    OBVIOUS
  <2>5. QED
    BY <2>1, <2>2, <2>3, <2>4
<1>5. QED
  BY <1>3, <1>4, PublisherPlaces

\* The parts of the configuration of a publisher.
LEMMA ConfigParts ==
    ASSUME NEW st, NEW i
    PROVE  /\ Config(st, i).name = IedAt(st, i).name /\ Config(st, i).role = "ied"
           /\ Config(st, i).port = IedAt(st, i).devices[1].ln0.settings.mmsPort
           /\ Config(st, i).goose = MapGoose(Document(st), IedAt(st, i), IedAt(st, i).devices[1])
           /\ Config(st, i).points = CollectPoints(Document(st), IedAt(st, i).devices[1])
           /\ Config(st, i).rules = MapRules(IedAt(st, i).devices[1].ln0.rules)
<1> DEFINE D == Document(st)
           ied == IedAt(st, i)
<1>1. Config(st, i) = MapIed(D, ied)
  BY DEF Config
<1> HIDE DEF D, ied
<1>2. /\ MapIed(D, ied).name = ied.name /\ MapIed(D, ied).role = "ied"
      /\ MapIed(D, ied).port = ied.devices[1].ln0.settings.mmsPort
      /\ MapIed(D, ied).goose = MapGoose(D, ied, ied.devices[1])
      /\ MapIed(D, ied).points = CollectPoints(D, ied.devices[1])
      /\ MapIed(D, ied).rules = MapRules(ied.devices[1].ln0.rules)
  BY DEF MapIed
<1>3. QED
  BY <1>1, <1>2 DEF D, ied

\* The first of some GSE elements that is for the control block of a device.
GseFor(gses, ld) ==
    First(gses, LAMBDA g : g.ldInst = ld.inst /\ g.cbName = ld.ln0.gse[1].name)[1]

\* The GSE element of a device with one of them.
LEMMA GseForOne ==
    ASSUME NEW g, NEW ld, g.ldInst = ld.inst, g.cbName = ld.ln0.gse[1].name
    PROVE  GseFor(<<g>>, ld) = g
<1> DEFINE s == <<g>>
           hits == {k \in DOMAIN s : s[k].ldInst = ld.inst /\ s[k].cbName = ld.ln0.gse[1].name}
           pick == CHOOSE k \in hits : \A j \in hits : k <= j
<1>1. GseFor(s, ld) = (IF hits = {} THEN <<>> ELSE <<s[pick]>>)[1]
  BY DEF GseFor, First
<1>2. DOMAIN s = {1} /\ s[1] = g
  OBVIOUS
<1> HIDE DEF s
<1>3. hits = {1}
  BY <1>2
<1> HIDE DEF hits
<1>4. pick = 1
  BY <1>3
<1> HIDE DEF pick
<1>5. QED
  BY <1>1, <1>2, <1>3, <1>4 DEF s

\* The GOOSE section of a publisher.
LEMMA GooseOf ==
    ASSUME NEW st, StationOk(st), SchemaValid(Document(st)), NEW i \in Publishers(st)
    PROVE  Config(st, i).goose =
             <<[group |-> "255.10", port |-> <<8104>>, heartbeat |-> st.network.maxTime,
                burst |-> BurstLadder(st.network.minTime, st.network.maxTime)]>>
<1> DEFINE D == Document(st)
           ied == IedAt(st, i)
           ld == ied.devices[1]
           found == FindAp(D, ied.name)[1]
           gse == Gse(st, i)
<1>1. found = [net |-> SubNetwork(st), ap |-> ApAt(st, i)]
  BY FindApOf, PublisherPlaces
<1>2. ApAt(st, i).gse = <<gse>>
  BY GseOf
<1>3. ld.inst = "LD0" /\ ld.ln0.gse # <<>> /\ ld.ln0.gse[1].name = "gcbGoose1"
  BY DeviceOf
<1>4. SubNetwork(st).group[1] = "255.10" /\ SubNetwork(st).port = <<8104>>
  BY DEF SubNetwork
<1>5. /\ gse.ldInst = "LD0" /\ gse.cbName = "gcbGoose1"
      /\ gse.minTime = st.network.minTime /\ gse.maxTime = st.network.maxTime
  BY DEF Gse
<1>6. MapGoose(D, ied, ld) =
        <<[group |-> found.net.group[1], port |-> found.net.port,
           heartbeat |-> GseFor(found.ap.gse, ld).maxTime,
           burst |-> BurstLadder(GseFor(found.ap.gse, ld).minTime, GseFor(found.ap.gse, ld).maxTime)]>>
  BY <1>3, Zenon DEF MapGoose, GseFor
<1>7. found.ap.gse = <<gse>> /\ found.net = SubNetwork(st)
  BY <1>1, <1>2
<1> HIDE DEF found, ld, gse
<1>8. GseFor(<<gse>>, ld) = gse
  BY <1>3, <1>5, GseForOne
<1>9. MapGoose(D, ied, ld) =
         <<[group |-> "255.10", port |-> <<8104>>, heartbeat |-> st.network.maxTime,
            burst |-> BurstLadder(st.network.minTime, st.network.maxTime)]>>
  BY <1>4, <1>5, <1>6, <1>7, <1>8
<1>10. QED
  BY <1>9, ConfigParts DEF ld

\* Doubling and rounding of the intervals.
LEMMA RoundedSteps ==
    ASSUME NEW a \in Nat \ {0}, NEW b \in Nat \ {0}
    PROVE  /\ RoundToMs(8 * a) = a
           /\ RoundToMs(8 * a) < RoundToMs(20 * a)
           /\ RoundToMs(20 * a) < RoundToMs(50 * a)
           /\ RoundToMs(50 * a) < RoundToMs(125 * a)
           /\ \A x \in Nat : x < 8 * b => RoundToMs(x) <= b
BY DEF RoundToMs

\* The ladder of retransmissions rises, and stays below the heartbeat.
LEMMA LadderShape ==
    ASSUME NEW a \in Nat \ {0}, NEW b \in Nat \ {0}
    PROVE  LET burst == BurstLadder(a, b)
           IN  /\ burst[1] = a
               /\ \A i \in 1 .. Len(burst) - 1 : burst[i] < burst[i + 1]
               /\ a < b => \A i \in DOMAIN burst : burst[i] <= b
               /\ a >= b => Len(burst) = 1
<1> DEFINE steps == <<8 * a, 20 * a, 50 * a, 125 * a>>
           Cut(k) == /\ \A i \in 1 .. k : steps[i] < 8 * b
                     /\ k < 4 => steps[k + 1] >= 8 * b
           n == CHOOSE k \in 0 .. 4 : Cut(k)
           burst == BurstLadder(a, b)
<1>1. burst = IF n = 0 THEN <<a>> ELSE [i \in 1 .. n |-> RoundToMs(steps[i])]
  BY DEF BurstLadder
<1>2. steps[1] = 8 * a /\ steps[2] = 20 * a /\ steps[3] = 50 * a /\ steps[4] = 125 * a
  OBVIOUS
<1>3. \A i \in 1 .. 4 : steps[i] \in Nat
  BY <1>2
<1> HIDE DEF steps
<1>3a. /\ RoundToMs(steps[1]) = a
      /\ RoundToMs(steps[1]) < RoundToMs(steps[2])
      /\ RoundToMs(steps[2]) < RoundToMs(steps[3])
      /\ RoundToMs(steps[3]) < RoundToMs(steps[4])
      /\ \A x \in Nat : x < 8 * b => RoundToMs(x) <= b
  <2>1. /\ RoundToMs(8 * a) = a
        /\ RoundToMs(8 * a) < RoundToMs(20 * a)
        /\ RoundToMs(20 * a) < RoundToMs(50 * a)
        /\ RoundToMs(50 * a) < RoundToMs(125 * a)
        /\ \A x \in Nat : x < 8 * b => RoundToMs(x) <= b
    BY RoundedSteps
  <2>2. QED
    BY <1>2, <2>1
<1>4. \E k \in 0 .. 4 : Cut(k)
  <2>1. CASE steps[1] >= 8 * b
    <3>1. Cut(0)
      BY <2>1
    <3>2. QED
      BY <3>1
  <2>2. CASE steps[1] < 8 * b /\ steps[2] >= 8 * b
    <3>1. Cut(1)
      BY <2>2
    <3>2. QED
      BY <3>1
  <2>3. CASE steps[1] < 8 * b /\ steps[2] < 8 * b /\ steps[3] >= 8 * b
    <3>1. Cut(2)
      BY <2>3
    <3>2. QED
      BY <3>1
  <2>4. CASE steps[1] < 8 * b /\ steps[2] < 8 * b /\ steps[3] < 8 * b /\ steps[4] >= 8 * b
    <3>1. Cut(3)
      BY <2>4
    <3>2. QED
      BY <3>1
  <2>5. CASE steps[1] < 8 * b /\ steps[2] < 8 * b /\ steps[3] < 8 * b /\ steps[4] < 8 * b
    <3>1. Cut(4)
      BY <2>5
    <3>2. QED
      BY <3>1
  <2>6. QED
    BY <1>2, <2>1, <2>2, <2>3, <2>4, <2>5
<1> HIDE DEF Cut
<1>5. n \in 0 .. 4 /\ Cut(n)
  BY <1>4
<1> HIDE DEF n
<1>6. CASE n = 0
  <2>1. burst = <<a>>
    BY <1>1, <1>6
  <2> HIDE DEF burst
  <2>2. Len(burst) = 1 /\ DOMAIN burst = {1} /\ burst[1] = a
    BY <2>1
  <2>3. QED
    BY <2>2 DEF burst
<1>7. CASE n # 0
  <2>0. a < b
    <3>1. steps[1] < 8 * b
      BY <1>5, <1>7 DEF Cut
    <3>2. QED
      BY <1>2, <3>1
  <2>1. burst = [i \in 1 .. n |-> RoundToMs(steps[i])] /\ n \in 1 .. 4
    BY <1>1, <1>5, <1>7
  <2> HIDE DEF burst
  <2>2. DOMAIN burst = 1 .. n /\ Len(burst) = n /\ \A i \in 1 .. n : burst[i] = RoundToMs(steps[i])
    BY <2>1
  <2>3. burst[1] = a
    BY <1>3a, <2>1, <2>2
  <2>4. ASSUME NEW i \in 1 .. n - 1 PROVE burst[i] < burst[i + 1]
    <3>1. i \in 1 .. 3 /\ i \in 1 .. n /\ i + 1 \in 1 .. n
      BY <2>1
    <3>2. RoundToMs(steps[i]) < RoundToMs(steps[i + 1])
      <4>1. i = 1 \/ i = 2 \/ i = 3
        BY <3>1
      <4>2. QED
        BY <1>3a, <4>1
    <3>3. QED
      BY <2>2, <3>1, <3>2
  <2>5. ASSUME NEW i \in 1 .. n PROVE burst[i] <= b
    <3>1. steps[i] < 8 * b /\ steps[i] \in Nat
      BY <1>3, <1>5, <2>1 DEF Cut
    <3>2. QED
      BY <1>3a, <2>2, <3>1
  <2>6. QED
    BY <2>0, <2>2, <2>3, <2>4, <2>5 DEF burst
<1>8. QED
  BY <1>6, <1>7

-----------------------------------------------------------------------------
(* A compiled station. *)

\* The configuration of the SCADA daemon is told by its role.
LEMMA ScadaRole ==
    ASSUME NEW st
    PROVE  ScadaConfig(st).role = "scada" /\ ScadaConfig(st).name = IedAt(st, ScadaPlace(st)).name
<1> DEFINE D == Document(st)
           ied == IedAt(st, ScadaPlace(st))
<1>1. ScadaConfig(st) = MapScada(D, ied)
  BY DEF ScadaConfig
<1> HIDE DEF D, ied
<1>2. MapScada(D, ied).role = "scada" /\ MapScada(D, ied).name = ied.name
  BY DEF MapScada
<1>3. QED
  BY <1>1, <1>2 DEF ied

\* What was compiled: the document of the station, publisher by publisher.
LEMMA Compiled ==
    ASSUME ToolInv, status = "compiled"
    PROVE  /\ StationOk(Station) /\ SchemaValid(Document(Station))
           /\ doc = Document(Station)
           /\ \A c \in Ieds : \E i \in Publishers(Station) : c = Config(Station, i)
           /\ \A i \in Publishers(Station) : Config(Station, i) \in Ieds
           /\ Scada = ScadaConfig(Station)
           /\ Station.levels = levels /\ Station.transformers = transformers
           /\ Station.network = settings.network /\ Station.scada = settings.scada
<1>1. /\ phase = "accepted" /\ doc = Document(Station) /\ SchemaValid(doc)
      /\ configs = MapDocument(doc)
  BY DEF ToolInv, OutcomeInv
<1>2. /\ Station.levels = levels /\ Station.transformers = transformers
      /\ Station.network = settings.network /\ Station.scada = settings.scada
  BY DEF Station
<1>3. StationOk(Station)
  <2>1. settings.network \in NetworkSet /\ settings.scada \in ScadaSet
    BY <1>1 DEF ToolInv, StationInv, SettingsTyped
  <2>2. /\ levels \in Seq(BuiltLevels) /\ transformers \in Seq(TransformerSet)
        /\ \A x \in Range(transformers) : /\ x.level \in DOMAIN levels
                                          /\ x.tap \in DOMAIN levels[x.level].taps
    BY DEF ToolInv, StationInv, LevelsBuilt, TransformersPlaced
  <2>3. QED
    BY <1>2, <2>1, <2>2 DEF StationOk
<1> DEFINE st == Station
<1> HIDE DEF st
<1>4. StationOk(st) /\ SchemaValid(Document(st)) /\ configs = MapDocument(Document(st))
  BY <1>1, <1>3 DEF st
<1>5. /\ \A i \in Publishers(st) : Config(st, i) \in Range(configs) /\ Config(st, i).role = "ied"
      /\ ScadaConfig(st) \in Range(configs) /\ ScadaConfig(st).role = "scada"
      /\ \A c \in Range(configs) : (\E i \in Publishers(st) : c = Config(st, i)) \/ c = ScadaConfig(st)
  BY <1>4, Configurations, ConfigParts, ScadaRole
<1>6. /\ \A c \in Ieds : \E i \in Publishers(st) : c = Config(st, i)
      /\ \A i \in Publishers(st) : Config(st, i) \in Ieds
  BY <1>5 DEF Ieds
<1>7. Scada = ScadaConfig(st)
  BY <1>5 DEF Scada
<1>8. QED
  BY <1>1, <1>2, <1>3, <1>6, <1>7 DEF st

\* The bursts of every compiled station start at MinTime and slow down.  They
\* keep below the heartbeat where MinTime is below MaxTime, and else they are
\* the one interval MinTime.
THEOREM BurstsSlowDown == ToolSpec => []LadderRises
<1>1. ToolInv => LadderRises
  <2> SUFFICES ASSUME ToolInv, status = "compiled", NEW c \in Ieds
               PROVE  LET minTime == settings.network.minTime
                          maxTime == settings.network.maxTime
                          burst == c.goose[1].burst
                      IN  /\ c.goose[1].heartbeat = maxTime
                          /\ burst[1] = minTime
                          /\ \A i \in 1 .. Len(burst) - 1 : burst[i] < burst[i + 1]
                          /\ minTime < maxTime => \A i \in DOMAIN burst : burst[i] <= maxTime
                          /\ minTime >= maxTime => Len(burst) = 1
    BY DEF LadderRises
  <2> DEFINE a == settings.network.minTime
             b == settings.network.maxTime
             burst == BurstLadder(a, b)
  <2>1. PICK i \in Publishers(Station) : c = Config(Station, i)
    BY Compiled
  <2>2. c.goose = <<[group |-> "255.10", port |-> <<8104>>, heartbeat |-> b, burst |-> burst]>>
    BY <2>1, Compiled, GooseOf
  <2>3. c.goose[1].burst = burst /\ c.goose[1].heartbeat = b
    BY <2>2
  <2>4. a \in Nat \ {0} /\ b \in Nat \ {0}
    BY Compiled DEF StationOk, NetworkSet
  <2> HIDE DEF a, b, burst
  <2>5. /\ burst[1] = a
        /\ \A k \in 1 .. Len(burst) - 1 : burst[k] < burst[k + 1]
        /\ a < b => \A k \in DOMAIN burst : burst[k] <= b
        /\ a >= b => Len(burst) = 1
    BY <2>4, LadderShape DEF burst
  <2>6. QED
    BY <2>3, <2>5 DEF a, b
<1>2. QED
  BY <1>1, ToolInvariant, PTL

-----------------------------------------------------------------------------
(* Identities. *)

\* Sequences of any values are sequences of sequences of some set.
LEMMA SeqsOfValues ==
    ASSUME NEW n \in Nat, NEW ss, ss = [k \in 1 .. n |-> ss[k]],
           \A k \in 1 .. n : \E m \in Nat : ss[k] = [j \in 1 .. m |-> ss[k][j]]
    PROVE  \E S : ss \in Seq(Seq(S))
<1> DEFINE S == UNION {Range(ss[k]) : k \in 1 .. n}
<1>1. ASSUME NEW k \in 1 .. n PROVE ss[k] \in Seq(S)
  <2>1. PICK m \in Nat : ss[k] = [j \in 1 .. m |-> ss[k][j]]
    OBVIOUS
  <2>2. \A j \in 1 .. m : ss[k][j] \in S
    BY <2>1 DEF Range
  <2> HIDE DEF S
  <2>3. QED
    BY <2>1, <2>2, SeqOfValues
<1> HIDE DEF S
<1> DEFINE T == Seq(S)
<1>2. \A k \in 1 .. n : ss[k] \in T
  BY <1>1
<1> HIDE DEF T
<1>3. ss \in Seq(T)
  BY <1>2, SeqOfValues
<1>4. QED
  BY <1>3 DEF T

\* Lists names every place once.
LEMMA ListsInjective ==
    ASSUME NEW S, NEW ss, NEW t \in Seq(S), NEW at, Lists(t, ss, at),
           NEW p \in DOMAIN t, NEW q \in DOMAIN t, at[p] = at[q]
    PROVE  p = q
<1>1. p \in Nat /\ q \in Nat
  OBVIOUS
<1>2. at[p] \in Nat \X Nat
  BY DEF Lists
<1>3. at[p][1] \in Nat /\ at[p][2] \in Nat
  BY <1>2
<1>4. /\ p < q => at[p][1] < at[q][1] \/ (at[p][1] = at[q][1] /\ at[p][2] < at[q][2])
      /\ q < p => at[q][1] < at[p][1] \/ (at[q][1] = at[p][1] /\ at[q][2] < at[p][2])
  BY DEF Lists
<1>5. QED
  BY <1>1, <1>3, <1>4

\* Two sequences, one after the other.
Counted(s, n) == s = [k \in 1 .. n |-> s[k]]
Parted(s, t, n, m) ==
    /\ DOMAIN (s \o t) = 1 .. n + m
    /\ \A k \in 1 .. n : (s \o t)[k] = s[k]
    /\ \A k \in 1 .. m : (s \o t)[n + k] = t[k]
    /\ \A p \in 1 .. n + m : p \in 1 .. n \/ \E k \in 1 .. m : p = n + k
    /\ \A k \in 1 .. n : k \in 1 .. n + m
    /\ \A k \in 1 .. m : n + k \in 1 .. n + m

LEMMA TwoParts ==
    ASSUME NEW n \in Nat, NEW m \in Nat, NEW s, Counted(s, n), NEW t, Counted(t, m)
    PROVE  Parted(s, t, n, m)
<1>0. s = [k \in 1 .. n |-> s[k]] /\ t = [k \in 1 .. m |-> t[k]]
  BY DEF Counted
<1> DEFINE S == {s[k] : k \in 1 .. n} \cup {t[k] : k \in 1 .. m}
<1>1. (\A k \in 1 .. n : s[k] \in S) /\ (\A k \in 1 .. m : t[k] \in S)
  OBVIOUS
<1> HIDE DEF S
<1>2. s \in Seq(S) /\ Len(s) = n
  BY <1>0, <1>1, SeqOfValues
<1>3. t \in Seq(S) /\ Len(t) = m
  BY <1>0, <1>1, SeqOfValues
<1>4. DOMAIN (s \o t) = 1 .. n + m /\ \A k \in 1 .. n : (s \o t)[k] = s[k]
  BY <1>2, <1>3
<1>5. ASSUME NEW k \in 1 .. m PROVE (s \o t)[n + k] = t[k] /\ n + k \in 1 .. n + m
  BY <1>2, <1>3
<1>6. ASSUME NEW p \in 1 .. n + m PROVE p \in 1 .. n \/ \E k \in 1 .. m : p = n + k
  <2>1. CASE p <= n
    BY <2>1
  <2>2. CASE ~ p <= n
    <3>1. p - n \in 1 .. m /\ p = n + (p - n)
      BY <2>2
    <3>2. QED
      BY <3>1
  <2>3. QED
    BY <2>1, <2>2
<1>7. \A k \in 1 .. n : k \in 1 .. n + m
  OBVIOUS
<1>8. QED
  BY <1>4, <1>5, <1>6, <1>7 DEF Parted

\* The places of a list that are picked from elements of which some are one
\* long and the others empty: t lists e[i] for every i of P at most once.
PicksOne(t, P, e) ==
    \E from : /\ \A p \in DOMAIN t : from[p] \in P /\ t[p] = e[from[p]]
              /\ \A p, q \in DOMAIN t : from[p] = from[q] => p = q

\* Lists of one element or none, one after the other.
LEMMA SinglesFlattened ==
    ASSUME NEW K \in Nat, NEW ss, ss = [k \in 1 .. K |-> ss[k]], NEW P, NEW e,
           \A k \in 1 .. K : k \in P => ss[k] = <<e[k]>>,
           \A k \in 1 .. K : k \notin P => ss[k] = <<>>
    PROVE  /\ \E n \in Nat : Counted(FlattenSeq(ss), n)
           /\ PicksOne(FlattenSeq(ss), P, e)
<1> DEFINE t == FlattenSeq(ss)
<1>1. DOMAIN ss = 1 .. K
  OBVIOUS
<1>2. ASSUME NEW k \in 1 .. K PROVE \E m \in Nat : ss[k] = [j \in 1 .. m |-> ss[k][j]]
  <2>1. CASE k \in P
    <3>1. ss[k] = <<e[k]>>
      BY <2>1
    <3>2. \A x : <<x>> = [j \in 1 .. 1 |-> <<x>>[j]]
      OBVIOUS
    <3>3. ss[k] = [j \in 1 .. 1 |-> ss[k][j]]
      BY <3>1, <3>2
    <3>4. QED
      BY <3>3
  <2>2. CASE k \notin P
    <3>1. ss[k] = [j \in 1 .. 0 |-> ss[k][j]]
      BY <2>2
    <3>2. QED
      BY <3>1
  <2>3. QED
    BY <2>1, <2>2
<1>3. PICK S : ss \in Seq(Seq(S))
  BY <1>2, SeqsOfValues
<1> HIDE DEF t
<1>4. t \in Seq(S) /\ \E at : Lists(t, ss, at)
  BY <1>3, FlattenLists DEF t
<1>5. PICK at : Lists(t, ss, at)
  BY <1>4
<1>6. ASSUME NEW p \in DOMAIN t
      PROVE  at[p][1] \in P /\ at[p][2] = 1 /\ t[p] = e[at[p][1]]
  <2> DEFINE i == at[p][1]
             j == at[p][2]
  <2>1. at[p] \in Places(ss) /\ t[p] = ss[i][j]
    BY <1>5 DEF Lists
  <2>2. i \in 1 .. K /\ j \in DOMAIN ss[i]
    BY <1>1, <2>1 DEF Places
  <2> HIDE DEF i, j
  <2>3. i \in P
    <3>1. i \notin P => ss[i] = <<>>
      BY <2>2
    <3>2. ss[i] = <<>> => DOMAIN ss[i] = {}
      OBVIOUS
    <3>3. QED
      BY <2>2, <3>1, <3>2
  <2>4. ss[i] = <<e[i]>>
    BY <2>2, <2>3
  <2>5. j = 1 /\ ss[i][j] = e[i]
    BY <2>2, <2>4
  <2>6. QED
    BY <2>1, <2>3, <2>5 DEF i, j
<1>7. ASSUME NEW p \in DOMAIN t, NEW q \in DOMAIN t, at[p][1] = at[q][1] PROVE p = q
  <2>1. at[p][1] = at[q][1] /\ at[p][2] = at[q][2]
    BY <1>6, <1>7
  <2>2. at[p] \in Nat \X Nat /\ at[q] \in Nat \X Nat
    BY <1>5 DEF Lists
  <2>3. at[p] = at[q]
    BY <2>1, <2>2
  <2>4. t \in Seq(S) /\ p \in DOMAIN t /\ q \in DOMAIN t
    BY <1>4
  <2>5. QED
    BY ONLY <1>5, <2>3, <2>4, ListsInjective, Zenon
<1> DEFINE from == [p \in DOMAIN t |-> at[p][1]]
<1>8. \A p \in DOMAIN t : from[p] = at[p][1] /\ from[p] \in P /\ t[p] = e[from[p]]
  BY <1>6
<1> HIDE DEF from
<1>9. PicksOne(t, P, e)
  BY <1>7, <1>8 DEF PicksOne
<1>10. \E n \in Nat : Counted(t, n)
  <2>1. Len(t) \in Nat /\ t = [k \in 1 .. Len(t) |-> t[k]]
    BY <1>4
  <2>2. QED
    BY <2>1 DEF Counted
<1>11. QED
  BY <1>9, <1>10 DEF t

AllGse(st) == FlattenSeq([k \in DOMAIN SubNetwork(st).aps |-> SubNetwork(st).aps[k].gse])
AllSmv(st) == FlattenSeq([k \in DOMAIN SubNetwork(st).aps |-> SubNetwork(st).aps[k].smv])

\* Publishers that count from one, with a prefix and a base.
Identified(t, prefix, base, hi) ==
    \E num : /\ \A p \in DOMAIN t : /\ num[p] \in 1 .. hi
                                    /\ t[p].mac = <<prefix, num[p]>>
                                    /\ t[p].appid = base + num[p]
             /\ \A p, q \in DOMAIN t : num[p] = num[q] => p = q

\* Publishers that are picked from numbered ones are.
LEMMA PickedIdentities ==
    ASSUME NEW t, NEW P, NEW e, PicksOne(t, P, e), NEW prefix, NEW base, NEW hi, NEW at,
           \A i \in P : at[i] \in 1 .. hi /\ e[i].mac = <<prefix, at[i]>> /\ e[i].appid = base + at[i],
           \A i, j \in P : at[i] = at[j] => i = j
    PROVE  Identified(t, prefix, base, hi)
<1>1. PICK from : /\ \A p \in DOMAIN t : from[p] \in P /\ t[p] = e[from[p]]
                  /\ \A p, q \in DOMAIN t : from[p] = from[q] => p = q
  BY DEF PicksOne
<1> DEFINE num == [p \in DOMAIN t |-> at[from[p]]]
<1>2. \A p \in DOMAIN t : num[p] \in 1 .. hi /\ t[p].mac = <<prefix, num[p]>> /\ t[p].appid = base + num[p]
  BY <1>1
<1>3. ASSUME NEW p \in DOMAIN t, NEW q \in DOMAIN t, num[p] = num[q] PROVE p = q
  BY <1>1, <1>3
<1> HIDE DEF num
<1>4. QED
  BY <1>2, <1>3 DEF Identified

\* Those of GOOSE count through all publishers, 
LEMMA GseIdentified ==
    ASSUME NEW st, StationOk(st), SchemaValid(Document(st))
    PROVE  /\ \E n \in Nat : Counted(AllGse(st), n)
           /\ Identified(AllGse(st), st.network.macPrefix, st.network.appidBase - 1, BreakersOf(st) + XfmrsOf(st))
<1> DEFINE aps == SubNetwork(st).aps
           K == ScadaPlace(st)
           P == Publishers(st)
           ss == [k \in DOMAIN aps |-> aps[k].gse]
           e == [i \in P |-> Gse(st, i)]
           prefix == st.network.macPrefix
           base == st.network.appidBase
           hi == BreakersOf(st) + XfmrsOf(st)
<1>1. DOMAIN aps = 1 .. K /\ K \in Nat
  BY ApsOfDocument, PublisherPlaces
<1>2. /\ \A i \in P : i \in 1 .. K /\ ss[i] = <<Gse(st, i)>>
      /\ ss[K] = <<>> /\ \A i \in 1 .. K : i = K \/ i \in P
  BY <1>1, GseOf, PublisherPlaces DEF ApAt
<1>3. ss = [k \in 1 .. K |-> ss[k]]
  BY <1>1
<1>4. \A i \in P : e[i] = Gse(st, i)
  OBVIOUS
<1>5. P = 1 .. hi /\ P \subseteq Nat /\ base \in Nat
  BY PublisherPlaces DEF Publishers, StationOk, NetworkSet
<1>6. \A i \in P : Gse(st, i).mac = <<prefix, i>> /\ Gse(st, i).appid = base + i - 1
  BY DEF Gse
<1>7. AllGse(st) = FlattenSeq(ss)
  BY DEF AllGse
<1> HIDE DEF aps, K, P, ss, e, prefix, base, hi
<1>8. /\ \A k \in 1 .. K : k \in P => ss[k] = <<e[k]>>
      /\ \A k \in 1 .. K : k \notin P => ss[k] = <<>>
  BY <1>2, <1>4
<1>9. (\E n \in Nat : Counted(FlattenSeq(ss), n)) /\ PicksOne(FlattenSeq(ss), P, e)
  BY <1>1, <1>3, <1>8, SinglesFlattened
<1> DEFINE at == [i \in P |-> i]
<1>10. /\ \A i \in P : /\ at[i] \in 1 .. hi
                       /\ e[i].mac = <<prefix, at[i]>> /\ e[i].appid = (base - 1) + at[i]
       /\ \A i, j \in P : at[i] = at[j] => i = j
  <2> SUFFICES ASSUME NEW i \in P
               PROVE  i \in 1 .. hi /\ e[i].mac = <<prefix, i>> /\ e[i].appid = (base - 1) + i
    OBVIOUS
  <2>1. i \in Nat /\ i \in 1 .. hi
    BY <1>5
  <2>2. base + i - 1 = (base - 1) + i
    BY <1>5, <2>1
  <2>3. e[i].mac = <<prefix, i>> /\ e[i].appid = base + i - 1
    BY <1>4, <1>6
  <2>4. QED
    BY <2>1, <2>2, <2>3
<1> HIDE DEF at
<1>11. Identified(FlattenSeq(ss), prefix, base - 1, hi)
  BY <1>9, <1>10, PickedIdentities
<1>12. QED
  BY <1>7, <1>9, <1>11 DEF prefix, base, hi

\* those of sampled values through the transformers.
LEMMA SmvIdentified ==
    ASSUME NEW st, StationOk(st)
    PROVE  /\ \E n \in Nat : Counted(AllSmv(st), n)
           /\ Identified(AllSmv(st), SmvMacPrefix, SmvBase, XfmrsOf(st))
<1> DEFINE aps == SubNetwork(st).aps
           K == ScadaPlace(st)
           n == BreakersOf(st)
           m == XfmrsOf(st)
           P == {i \in 1 .. K : \E j \in 1 .. m : i = n + j}
           ss == [k \in DOMAIN aps |-> aps[k].smv]
           e == [i \in 1 .. K |-> Smv(i - n, st.transformers[i - n])]
<1>1. /\ DOMAIN aps = 1 .. K /\ K \in Nat /\ n \in Nat /\ m \in Nat /\ K = n + m + 1
  BY ApsOfDocument, PublisherPlaces, Counts DEF ScadaPlace
<1>1a. \A i \in 1 .. K : ss[i] = ApAt(st, i).smv
  BY <1>1 DEF ApAt
<1>2. \A i \in 1 .. n : ss[i] = <<>> /\ i \in 1 .. K
  <2> SUFFICES ASSUME NEW i \in 1 .. n PROVE ss[i] = <<>> /\ i \in 1 .. K
    OBVIOUS
  <2>1. ApAt(st, i) = BreakerAp(st, i, AllBreakers(st)[i])
    BY ApsOfDocument
  <2>2. \A b : BreakerAp(st, i, b).smv = <<>>
    BY DEF BreakerAp
  <2>3. i \in 1 .. K
    BY <1>1
  <2> HIDE DEF ss
  <2>4. QED
    BY <1>1a, <2>1, <2>2, <2>3
<1>3. \A j \in 1 .. m : ss[n + j] = <<Smv(j, st.transformers[j])>> /\ n + j \in 1 .. K
  <2> SUFFICES ASSUME NEW j \in 1 .. m
               PROVE  ss[n + j] = <<Smv(j, st.transformers[j])>> /\ n + j \in 1 .. K
    OBVIOUS
  <2>1. ApAt(st, n + j) = TransformerAp(st, j, st.transformers[j])
    BY ApsOfDocument
  <2>2. \A x : TransformerAp(st, j, x).smv = <<Smv(j, x)>>
    BY DEF TransformerAp
  <2>3. n + j \in 1 .. K
    BY <1>1
  <2> HIDE DEF ss
  <2>4. QED
    BY <1>1a, <2>1, <2>2, <2>3
<1>4. ss[K] = <<>>
  <2>1. ApAt(st, K) = ScadaAp(st) /\ K \in 1 .. K
    BY ApsOfDocument, PublisherPlaces
  <2>2. ScadaAp(st).smv = <<>>
    BY DEF ScadaAp
  <2> HIDE DEF ss
  <2>3. QED
    BY <1>1a, <2>1, <2>2
<1>5. ss = [k \in 1 .. K |-> ss[k]]
  BY <1>1
<1>6. \A i \in 1 .. K : e[i] = Smv(i - n, st.transformers[i - n])
  OBVIOUS
<1>7. AllSmv(st) = FlattenSeq(ss)
  BY DEF AllSmv
<1>8. \A i \in P : i \in 1 .. K /\ \E j \in 1 .. m : i = n + j
  OBVIOUS
<1>9. \A i \in 1 .. K : i \in 1 .. n \/ i = K \/ i \in P
  <2> SUFFICES ASSUME NEW i \in 1 .. K, i \notin 1 .. n, i # K PROVE i \in P
    OBVIOUS
  <2>1. i - n \in 1 .. m /\ i = n + (i - n)
    BY <1>1
  <2>2. QED
    BY <2>1
<1> HIDE DEF aps, K, P, ss, e, n, m
<1>10. ASSUME NEW k \in P PROVE ss[k] = <<e[k]>> /\ k - n \in 1 .. m /\ k \in Nat
  <2>1. PICK j \in 1 .. m : k = n + j
    BY <1>8
  <2>2. k - n = j /\ k \in Nat /\ k \in 1 .. K
    BY <1>1, <1>8, <2>1
  <2>3. e[k] = Smv(j, st.transformers[j])
    BY <1>6, <2>2
  <2>4. QED
    BY <1>3, <2>1, <2>2, <2>3
<1>11. \A k \in 1 .. K : k \notin P => ss[k] = <<>>
  BY <1>2, <1>4, <1>9
<1>12. (\E l \in Nat : Counted(FlattenSeq(ss), l)) /\ PicksOne(FlattenSeq(ss), P, e)
  BY <1>1, <1>5, <1>10, <1>11, SinglesFlattened
<1> DEFINE at == [i \in P |-> i - n]
<1>13. ASSUME NEW i \in P
       PROVE  at[i] \in 1 .. m /\ e[i].mac = <<SmvMacPrefix, at[i]>> /\ e[i].appid = SmvBase + at[i]
  <2>1. e[i] = Smv(i - n, st.transformers[i - n])
    BY <1>6, <1>8
  <2>2. \A j, x : Smv(j, x).mac = <<SmvMacPrefix, j>> /\ Smv(j, x).appid = SmvBase + j
    BY DEF Smv
  <2>3. QED
    BY <1>10, <2>1, <2>2
<1>14. \A i, j \in P : at[i] = at[j] => i = j
  BY <1>1, <1>10
<1> HIDE DEF at
<1>15. Identified(FlattenSeq(ss), SmvMacPrefix, SmvBase, m)
  BY <1>12, <1>13, <1>14, PickedIdentities
<1>16. QED
  BY <1>7, <1>12, <1>15 DEF m

\* Two sequences of different elements with none in common.
LEMMA DistinctJoined ==
    ASSUME NEW n \in Nat, NEW m \in Nat, NEW s, Counted(s, n), NEW t, Counted(t, m), Distinct(s), Distinct(t),
           \A i \in DOMAIN s : \A j \in DOMAIN t : s[i] # t[j]
    PROVE  Distinct(s \o t)
<1> DEFINE u == s \o t
<1>1. Parted(s, t, n, m)
  BY TwoParts
<1>2. DOMAIN s = 1 .. n /\ DOMAIN t = 1 .. m
  BY DEF Counted
<1>3. /\ DOMAIN u = 1 .. n + m
      /\ \A k \in 1 .. n : u[k] = s[k]
      /\ \A k \in 1 .. m : u[n + k] = t[k]
      /\ \A p \in 1 .. n + m : p \in 1 .. n \/ \E k \in 1 .. m : p = n + k
  BY <1>1 DEF Parted
<1> HIDE DEF u
<1>4. ASSUME NEW p \in DOMAIN u, NEW q \in DOMAIN u, u[p] = u[q] PROVE p = q
  <2>1. CASE p \in 1 .. n /\ q \in 1 .. n
    BY <1>2, <1>3, <1>4, <2>1 DEF Distinct
  <2>2. ASSUME NEW k \in 1 .. m, p = n + k, q \in 1 .. n PROVE FALSE
    BY <1>2, <1>3, <1>4, <2>2
  <2>3. ASSUME NEW k \in 1 .. m, q = n + k, p \in 1 .. n PROVE FALSE
    BY <1>2, <1>3, <1>4, <2>3
  <2>4. ASSUME NEW k \in 1 .. m, NEW l \in 1 .. m, p = n + k, q = n + l PROVE p = q
    <3>1. t[k] = t[l]
      BY <1>3, <1>4, <2>4
    <3>2. k = l
      BY <1>2, <3>1 DEF Distinct
    <3>3. QED
      BY <2>4, <3>2
  <2>5. QED
    BY <1>3, <2>1, <2>2, <2>3, <2>4
<1>5. Distinct(u)
  BY <1>4 DEF Distinct
<1>6. QED
  BY <1>5 DEF u

\* Publishers that count from one differ.
LEMMA IdentitiesApart ==
    ASSUME NEW n \in Nat, NEW t, Counted(t, n), NEW prefix, NEW base \in Int, NEW hi \in Nat,
           Identified(t, prefix, base, hi)
    PROVE  LET macs == [p \in DOMAIN t |-> t[p].mac]
               appids == [p \in DOMAIN t |-> t[p].appid]
           IN  /\ Counted(macs, n) /\ Distinct(macs) /\ \A p \in DOMAIN macs : macs[p][1] = prefix
               /\ Counted(appids, n) /\ Distinct(appids)
               /\ \A p \in DOMAIN appids : /\ appids[p] \in Int
                                           /\ base + 1 <= appids[p] /\ appids[p] <= base + hi
<1> DEFINE macs == [p \in DOMAIN t |-> t[p].mac]
           appids == [p \in DOMAIN t |-> t[p].appid]
<1>1. PICK num : /\ \A p \in DOMAIN t : /\ num[p] \in 1 .. hi
                                        /\ t[p].mac = <<prefix, num[p]>>
                                        /\ t[p].appid = base + num[p]
                 /\ \A p, q \in DOMAIN t : num[p] = num[q] => p = q
  BY DEF Identified
<1>2. DOMAIN t = 1 .. n
  BY DEF Counted
<1>3. Counted(macs, n) /\ Counted(appids, n) /\ DOMAIN macs = DOMAIN t /\ DOMAIN appids = DOMAIN t
  BY <1>2 DEF Counted
<1>4. \A p \in DOMAIN t : macs[p] = <<prefix, num[p]>> /\ appids[p] = base + num[p] /\ num[p] \in 1 .. hi
  BY <1>1
<1> HIDE DEF macs, appids
<1>5. Distinct(macs)
  BY <1>1, <1>3, <1>4 DEF Distinct
<1>6. ASSUME NEW p \in DOMAIN t, NEW q \in DOMAIN t, appids[p] = appids[q] PROVE p = q
  <2>1. num[p] \in Int /\ num[q] \in Int /\ base + num[p] = base + num[q]
    BY <1>4, <1>6
  <2>2. num[p] = num[q]
    BY <2>1
  <2>3. QED
    BY <1>1, <2>2
<1>7. Distinct(appids)
  BY <1>3, <1>6 DEF Distinct
<1>8. \A p \in DOMAIN macs : macs[p][1] = prefix
  BY <1>3, <1>4
<1>9. \A p \in DOMAIN appids : appids[p] \in Int /\ base + 1 <= appids[p] /\ appids[p] <= base + hi
  BY <1>3, <1>4
<1>10. QED
  BY <1>3, <1>5, <1>7, <1>8, <1>9 DEF macs, appids

\* The ranges of the APPIDs of a station do not meet.
RangesApart(st) ==
    \/ st.network.appidBase + BreakersOf(st) + XfmrsOf(st) - 1 <= SmvBase
    \/ st.network.appidBase > SmvBase + XfmrsOf(st)

MacsOf(t) == [p \in DOMAIN t |-> t[p].mac]
AppidsOf(t) == [p \in DOMAIN t |-> t[p].appid]

\* The publishers of a document differ in address and APPID.
LEMMA PublishersDiffer ==
    ASSUME NEW st, StationOk(st), SchemaValid(Document(st))
    PROVE  /\ Distinct(MacsOf(AllGse(st))) /\ Distinct(AppidsOf(AllGse(st)))
           /\ Distinct(MacsOf(AllSmv(st))) /\ Distinct(AppidsOf(AllSmv(st)))
           /\ st.network.macPrefix # SmvMacPrefix => Distinct(MacsOf(AllGse(st)) \o MacsOf(AllSmv(st)))
           /\ RangesApart(st) => Distinct(AppidsOf(AllGse(st)) \o AppidsOf(AllSmv(st)))
<1> DEFINE g == AllGse(st)
           v == AllSmv(st)
           prefix == st.network.macPrefix
           a == st.network.appidBase
           n == BreakersOf(st)
           m == XfmrsOf(st)
<1>1. a \in Nat /\ n \in Nat /\ m \in Nat
  BY Counts DEF StationOk, NetworkSet
<1>2. PICK k \in Nat : Counted(g, k)
  BY GseIdentified
<1>3. PICK l \in Nat : Counted(v, l)
  BY SmvIdentified
<1>4. Identified(g, prefix, a - 1, n + m) /\ Identified(v, SmvMacPrefix, SmvBase, m)
  BY GseIdentified, SmvIdentified
<1>5. a - 1 \in Int /\ n + m \in Nat /\ SmvBase = 4000
  BY <1>1 DEF SmvBase
<1> DEFINE gm == MacsOf(g)
           ga == AppidsOf(g)
           vm == MacsOf(v)
           va == AppidsOf(v)
<1> HIDE DEF g, v, prefix, a, n, m
<1>6. /\ Counted(gm, k) /\ Distinct(gm) /\ \A p \in DOMAIN gm : gm[p][1] = prefix
      /\ Counted(ga, k) /\ Distinct(ga)
      /\ \A p \in DOMAIN ga : ga[p] \in Int /\ (a - 1) + 1 <= ga[p] /\ ga[p] <= (a - 1) + (n + m)
  BY <1>2, <1>4, <1>5, IdentitiesApart DEF MacsOf, AppidsOf
<1>7. /\ Counted(vm, l) /\ Distinct(vm) /\ \A p \in DOMAIN vm : vm[p][1] = SmvMacPrefix
      /\ Counted(va, l) /\ Distinct(va)
      /\ \A p \in DOMAIN va : va[p] \in Int /\ SmvBase + 1 <= va[p] /\ va[p] <= SmvBase + m
  BY <1>1, <1>3, <1>4, <1>5, IdentitiesApart DEF MacsOf, AppidsOf
<1> HIDE DEF gm, ga, vm, va
<1>8. ASSUME prefix # SmvMacPrefix PROVE Distinct(gm \o vm)
  <2>1. \A i \in DOMAIN gm : \A j \in DOMAIN vm : gm[i] # vm[j]
    BY <1>6, <1>7, <1>8
  <2>2. QED
    BY <1>2, <1>3, <1>6, <1>7, <2>1, DistinctJoined
<1>9. ASSUME a + n + m - 1 <= SmvBase \/ a > SmvBase + m PROVE Distinct(ga \o va)
  <2>1. ASSUME NEW i \in DOMAIN ga, NEW j \in DOMAIN va PROVE ga[i] # va[j]
    <3>1. ga[i] \in Int /\ (a - 1) + 1 <= ga[i] /\ ga[i] <= (a - 1) + (n + m)
      BY <1>6
    <3>2. va[j] \in Int /\ SmvBase + 1 <= va[j] /\ va[j] <= SmvBase + m
      BY <1>7
    <3>3. QED
      BY <1>1, <1>5, <1>9, <3>1, <3>2
  <2>2. QED
    BY <1>2, <1>3, <1>6, <1>7, <2>1, DistinctJoined
<1>10. QED
  BY <1>6, <1>7, <1>8, <1>9 DEF RangesApart, g, v, prefix, a, n, m, gm, ga, vm, va

-----------------------------------------------------------------------------
(* Points. *)

PointOf(D, ln0, ln, doi) ==
    [ref |-> Ref(ln.name, doi.name), type |-> ResolveCdc(D, ln.type, doi.name),
     goose |-> Ref(ln.name, doi.name) \in GoosePublishedRefs(ln0), point |-> doi.point]
LnPoints(D, ln0, ln) == [k \in DOMAIN ln.dois |-> PointOf(D, ln0, ln, ln.dois[k])]

\* Points are collected node by node: 
LEMMA PointsByNode ==
    ASSUME NEW D, NEW ld
    PROVE  CollectPoints(D, ld) = FlattenSeq([k \in DOMAIN ld.lns |-> LnPoints(D, ld.ln0, ld.lns[k])])
BY DEF CollectPoints, Each, LnPoints, PointOf

\* two data objects, 
LEMMA TwoPoints ==
    ASSUME NEW D, NEW ln0, NEW ln, NEW d, NEW e, ln.dois = <<d, e>>
    PROVE  LnPoints(D, ln0, ln) = <<PointOf(D, ln0, ln, d), PointOf(D, ln0, ln, e)>>
BY DEF LnPoints

\* one, 
LEMMA OnePoint ==
    ASSUME NEW D, NEW ln0, NEW ln, NEW d, ln.dois = <<d>>
    PROVE  LnPoints(D, ln0, ln) = <<PointOf(D, ln0, ln, d)>>
BY DEF LnPoints

\* or none of them points.
LEMMA NoPoint ==
    ASSUME NEW D, NEW ln0, NEW ln, ln.dois = <<>>
    PROVE  LnPoints(D, ln0, ln) = <<>>
BY DEF LnPoints

\* The parts of a collected point.
LEMMA PointFields ==
    ASSUME NEW D, NEW ln0, NEW ln, NEW doi
    PROVE  /\ PointOf(D, ln0, ln, doi).ref = Ref(ln.name, doi.name)
           /\ PointOf(D, ln0, ln, doi).type = ResolveCdc(D, ln.type, doi.name)
           /\ PointOf(D, ln0, ln, doi).goose = (Ref(ln.name, doi.name) \in GoosePublishedRefs(ln0))
           /\ PointOf(D, ln0, ln, doi).point = doi.point
BY DEF PointOf

\* A sequence as a function on its places.
LEMMA SeqShape ==
    ASSUME NEW S, NEW u \in Seq(S), NEW n, Len(u) = n
    PROVE  DOMAIN u = 1 .. n /\ u = [k \in 1 .. n |-> u[k]]
OBVIOUS

\* The places of a concatenation.
LEMMA TwoJoined ==
    ASSUME NEW a, NEW b
    PROVE  LET u == <<a>> \o <<b>> \o <<>>
           IN  /\ DOMAIN u = 1 .. 2 /\ u = [k \in 1 .. 2 |-> u[k]]
               /\ u[1] = a /\ u[2] = b
<1> DEFINE S == {a, b}
           s == <<a>>
           t == <<b>>
           e == <<>>
           v == s \o t
           u == v \o e
<1>1. s \in Seq(S) /\ t \in Seq(S) /\ Len(s) = 1 /\ Len(t) = 1 /\ s[1] = a /\ t[1] = b
      /\ e \in Seq(S) /\ Len(e) = 0
  OBVIOUS
<1> HIDE DEF S, s, t, e
<1>1a. s \in Seq(S) /\ t \in Seq(S)
  BY <1>1
<1>2. /\ v \in Seq(S) /\ Len(v) = Len(s) + Len(t)
      /\ \A k \in 1 .. Len(s) : v[k] = s[k]
      /\ \A k \in 1 .. Len(t) : v[Len(s) + k] = t[k]
  BY <1>1a
<1> HIDE DEF v
<1>2a. v \in Seq(S) /\ e \in Seq(S)
  BY <1>1, <1>2
<1>3. v[1] = s[1] /\ v[2] = t[1] /\ Len(v) = 2
  BY <1>1, <1>2
<1>4. /\ u \in Seq(S) /\ Len(u) = Len(v) + Len(e)
      /\ \A k \in 1 .. Len(v) : u[k] = v[k]
  BY <1>2a
<1> HIDE DEF u
<1>5. Len(u) = 2 /\ u[1] = v[1] /\ u[2] = v[2]
  BY <1>1, <1>3, <1>4
<1>6. DOMAIN u = 1 .. 2 /\ u = [k \in 1 .. 2 |-> u[k]]
  BY <1>4, <1>5, SeqShape
<1>7. QED
  BY <1>1, <1>3, <1>5, <1>6 DEF s, t, e, u, v

\* What the templates resolve.
LEMMA Resolved ==
    ASSUME NEW st
    PROVE  /\ ResolveCdc(Document(st), "XCBR_Basic", "Pos") # <<>>
           /\ ResolveCdc(Document(st), "XCBR_Basic", "PosCtl") # <<>>
           /\ ResolveCdc(Document(st), "MMXU_Basic", "Amp") # <<>>
           /\ ResolveCdc(Document(st), "MMXU_Basic", "Vol") # <<>>
<1> DEFINE t == Document(st).templates
           D == Document(st)
<1>1. t = Templates
  BY DEF Document
<1>2. /\ {"XCBR_Basic", "MMXU_Basic"} \subseteq DOMAIN t
      /\ {"Pos", "PosCtl"} \subseteq DOMAIN t["XCBR_Basic"]
      /\ {"Amp", "Vol"} \subseteq DOMAIN t["MMXU_Basic"]
      /\ t["XCBR_Basic"]["Pos"] = "DPS" /\ t["XCBR_Basic"]["PosCtl"] = "DPC"
      /\ t["MMXU_Basic"]["Amp"] = "MV" /\ t["MMXU_Basic"]["Vol"] = "MV"
  BY <1>1 DEF Templates
<1>3. {"DPS", "DPC", "MV"} \subseteq CdcToType
  BY DEF CdcToType
<1>4. \A type, do : /\ type \in DOMAIN t /\ do \in DOMAIN t[type] /\ t[type][do] \in CdcToType
                    => ResolveCdc(D, type, do) = <<t[type][do]>>
  BY DEF ResolveCdc
<1>5. \A x : <<x>> # <<>>
  OBVIOUS
<1> HIDE DEF t, D
<1>6. QED
  BY <1>2, <1>3, <1>4, <1>5 DEF D

\* The points of a breaker IED and of a transformer IED.
LEMMA BreakerPoints ==
    ASSUME NEW st, StationOk(st), NEW i \in 1 .. BreakersOf(st)
    PROVE  LET pts == CollectPoints(Document(st), IedAt(st, i).devices[1])
               low == Lower(IedAt(st, i).name)
           IN  /\ DOMAIN pts = 1 .. 4 /\ pts = [k \in 1 .. 4 |-> pts[k]]
               /\ pts[1].ref = Ref("XCBR1", "Pos") /\ pts[1].goose = TRUE
               /\ pts[2].ref = Ref("XCBR1", "PosCtl")
               /\ pts[3].ref = Ref("MMXU1", "Amp") /\ pts[4].ref = Ref("MMXU1", "Vol")
               /\ pts[1].point.address = <<low, "status">>
               /\ pts[2].point.address = <<low, "control">>
               /\ pts[3].point.address = <<low, "ammeter">>
               /\ pts[4].point.address = <<low, "voltmeter">>
               /\ \A k \in 1 .. 4 : pts[k].type # <<>>
<1> DEFINE D == Document(st)
           b == AllBreakers(st)[i]
           il == AllInterlocks(st)
           rt == AllRemoteTrips(st)
           ied == BreakerIed(st, b, il, rt)
           ld == ied.devices[1]
           d1 == Doi("Pos", Point("redstone", b.name, "status", <<>>))
           d2 == Doi("PosCtl", Point("redstone", b.name, "control", <<30>>))
           d3 == Doi("Amp", Point("meter", b.name, "ammeter", <<>>))
           d4 == Doi("Vol", Point("meter", b.name, "voltmeter", <<>>))
           l1 == Ln("XCBR1", "XCBR_Basic", <<d1, d2>>)
           l2 == Ln("MMXU1", "MMXU_Basic", <<d3, d4>>)
           pts == CollectPoints(D, ld)
<1>1. IedAt(st, i) = ied /\ IedAt(st, i).name = b.name
  BY IedsOfDocument, NamesOfIeds
<1>2. ld.lns = <<l1, l2>>
  BY DEF BreakerIed, Ied
<1>3. /\ ld.ln0.dataSets = <<[name |-> "dsGoose1", members |-> <<Ref("XCBR1", "Pos")>>]>>
      /\ ld.ln0.gse = <<[name |-> "gcbGoose1", datSet |-> "dsGoose1", appID |-> b.name]>>
  BY DEF BreakerIed, Ied, Ln0
<1>4. /\ d1.name = "Pos" /\ d1.point.address = <<Lower(b.name), "status">>
      /\ d2.name = "PosCtl" /\ d2.point.address = <<Lower(b.name), "control">>
      /\ d3.name = "Amp" /\ d3.point.address = <<Lower(b.name), "ammeter">>
      /\ d4.name = "Vol" /\ d4.point.address = <<Lower(b.name), "voltmeter">>
  BY DEF Doi, Point
<1> HIDE DEF d1, d2, d3, d4
<1>5. /\ l1.name = "XCBR1" /\ l2.name = "MMXU1" /\ l1.dois = <<d1, d2>> /\ l2.dois = <<d3, d4>>
      /\ l1.type = "XCBR_Basic" /\ l2.type = "MMXU_Basic"
  BY DEF Ln
<1> HIDE DEF l1, l2, ld
<1>6. Ref("XCBR1", "Pos") \in GoosePublishedRefs(ld.ln0)
  <2> DEFINE ds == [name |-> "dsGoose1", members |-> <<Ref("XCBR1", "Pos")>>]
             gc == [name |-> "gcbGoose1", datSet |-> "dsGoose1", appID |-> b.name]
  <2>1. ds \in Range(ld.ln0.dataSets) /\ gc \in Range(ld.ln0.gse)
    BY <1>3 DEF Range
  <2>2. ds.name = "dsGoose1" /\ gc.datSet = "dsGoose1" /\ "dsGoose1" # ""
    OBVIOUS
  <2>3. Ref("XCBR1", "Pos") \in Range(ds.members)
    BY DEF Range
  <2> HIDE DEF ds, gc
  <2>4. QED
    BY <2>1, <2>2, <2>3 DEF GoosePublishedRefs
<1> DEFINE p1 == PointOf(D, ld.ln0, l1, d1)
           p2 == PointOf(D, ld.ln0, l1, d2)
           p3 == PointOf(D, ld.ln0, l2, d3)
           p4 == PointOf(D, ld.ln0, l2, d4)
<1>7. pts = <<p1, p2>> \o <<p3, p4>>
  <2> DEFINE q1 == LnPoints(D, ld.ln0, l1)
             q2 == LnPoints(D, ld.ln0, l2)
             ss == [k \in DOMAIN ld.lns |-> LnPoints(D, ld.ln0, ld.lns[k])]
  <2>1. ss = <<q1, q2>>
    BY <1>2
  <2>2. pts = FlattenSeq(ss)
    BY PointsByNode
  <2>3. q1 = <<p1, p2>> /\ q2 = <<p3, p4>>
    BY <1>5, TwoPoints
  <2> HIDE DEF q1, q2, ss, pts, p1, p2, p3, p4
  <2>4. QED
    BY <2>1, <2>2, <2>3, FlattenTwo
<1>8. /\ p1.ref = Ref("XCBR1", "Pos") /\ p1.goose = TRUE /\ p1.point = d1.point
      /\ p2.ref = Ref("XCBR1", "PosCtl") /\ p2.point = d2.point
      /\ p3.ref = Ref("MMXU1", "Amp") /\ p3.point = d3.point
      /\ p4.ref = Ref("MMXU1", "Vol") /\ p4.point = d4.point
  <2>1. /\ p1.ref = Ref("XCBR1", "Pos") /\ p1.point = d1.point
        /\ p1.goose = (Ref("XCBR1", "Pos") \in GoosePublishedRefs(ld.ln0))
    BY <1>4, <1>5, PointFields
  <2>2. p2.ref = Ref("XCBR1", "PosCtl") /\ p2.point = d2.point
    BY <1>4, <1>5, PointFields
  <2>3. p3.ref = Ref("MMXU1", "Amp") /\ p3.point = d3.point
    BY <1>4, <1>5, PointFields
  <2>4. p4.ref = Ref("MMXU1", "Vol") /\ p4.point = d4.point
    BY <1>4, <1>5, PointFields
  <2>5. QED
    BY <1>6, <2>1, <2>2, <2>3, <2>4
<1>8a. p1.type # <<>> /\ p2.type # <<>> /\ p3.type # <<>> /\ p4.type # <<>>
  <2>1. /\ p1.type = ResolveCdc(D, "XCBR_Basic", "Pos") /\ p2.type = ResolveCdc(D, "XCBR_Basic", "PosCtl")
        /\ p3.type = ResolveCdc(D, "MMXU_Basic", "Amp") /\ p4.type = ResolveCdc(D, "MMXU_Basic", "Vol")
    BY <1>4, <1>5, PointFields
  <2> HIDE DEF p1, p2, p3, p4
  <2>2. QED
    BY <2>1, Resolved
<1> HIDE DEF p1, p2, p3, p4, pts
<1>9. DOMAIN pts = 1 .. 4 /\ pts[1] = p1 /\ pts[2] = p2 /\ pts[3] = p3 /\ pts[4] = p4
      /\ pts = [k \in 1 .. 4 |-> pts[k]]
  <2> DEFINE S == {p1, p2, p3, p4}
             v == <<p1, p2>>
             w == <<p3, p4>>
  <2>1. /\ v \in Seq(S) /\ w \in Seq(S) /\ Len(v) = 2 /\ Len(w) = 2
        /\ v[1] = p1 /\ v[2] = p2 /\ w[1] = p3 /\ w[2] = p4
    OBVIOUS
  <2>2. pts = v \o w
    BY <1>7
  <2> HIDE DEF S, v, w
  <2>3. v \in Seq(S) /\ w \in Seq(S)
    BY <2>1
  <2>4. /\ v \o w \in Seq(S) /\ Len(v \o w) = Len(v) + Len(w)
        /\ \A k \in 1 .. Len(v) : (v \o w)[k] = v[k]
        /\ \A k \in 1 .. Len(w) : (v \o w)[Len(v) + k] = w[k]
    BY <2>3
  <2>5. /\ pts \in Seq(S) /\ Len(pts) = 4
        /\ pts[1] = v[1] /\ pts[2] = v[2] /\ pts[3] = w[1] /\ pts[4] = w[2]
    BY <2>1, <2>2, <2>4
  <2>6. DOMAIN pts = 1 .. 4 /\ pts = [k \in 1 .. 4 |-> pts[k]]
    BY <2>5, SeqShape
  <2>7. QED
    BY <2>1, <2>5, <2>6
<1>9a. \A k \in 1 .. 4 : pts[k].type # <<>>
  BY <1>8a, <1>9
<1>10. QED
  BY <1>1, <1>4, <1>8, <1>9, <1>9a DEF pts, ld

\* The points of a transformer.
LEMMA TransformerPoints ==
    ASSUME NEW st, StationOk(st), NEW j \in 1 .. XfmrsOf(st), NEW i, i = BreakersOf(st) + j
    PROVE  LET pts == CollectPoints(Document(st), IedAt(st, i).devices[1])
               low == Lower(IedAt(st, i).name)
           IN  /\ DOMAIN pts = 1 .. 2 /\ pts = [k \in 1 .. 2 |-> pts[k]]
               /\ pts[1].ref = Ref("MMXU1", "Amp") /\ pts[2].ref = Ref("MMXU2", "Amp")
               /\ pts[1].point.address = <<low, "hv-ammeter">>
               /\ pts[2].point.address = <<low, "lv-ammeter">>
               /\ \A k \in 1 .. 2 : pts[k].type # <<>>
<1> DEFINE D == Document(st)
           x == st.transformers[j]
           ied == TransformerIed(st, x)
           ld == ied.devices[1]
           d1 == Doi("Amp", Point("meter", x.name, "hv-ammeter", <<>>))
           d2 == Doi("Amp", Point("meter", x.name, "lv-ammeter", <<>>))
           l1 == Ln("MMXU1", "MMXU_Basic", <<d1>>)
           l2 == Ln("MMXU2", "MMXU_Basic", <<d2>>)
           l3 == Ln("RDRE1", "RDRE_Basic", <<>>)
           pts == CollectPoints(D, ld)
<1>1. IedAt(st, i) = ied /\ IedAt(st, i).name = x.name
  BY IedsOfDocument, NamesOfIeds
<1>2. ld.lns = <<l1, l2, l3>>
  BY DEF TransformerIed, Ied
<1>3. /\ d1.name = "Amp" /\ d1.point.address = <<Lower(x.name), "hv-ammeter">>
      /\ d2.name = "Amp" /\ d2.point.address = <<Lower(x.name), "lv-ammeter">>
  BY DEF Doi, Point
<1> HIDE DEF d1, d2
<1>4. /\ l1.name = "MMXU1" /\ l2.name = "MMXU2" /\ l1.dois = <<d1>> /\ l2.dois = <<d2>> /\ l3.dois = <<>>
      /\ l1.type = "MMXU_Basic" /\ l2.type = "MMXU_Basic"
  BY DEF Ln
<1> HIDE DEF l1, l2, l3, ld
<1> DEFINE p1 == PointOf(D, ld.ln0, l1, d1)
           p2 == PointOf(D, ld.ln0, l2, d2)
<1>5. pts = <<p1>> \o <<p2>> \o <<>>
  <2> DEFINE q1 == LnPoints(D, ld.ln0, l1)
             q2 == LnPoints(D, ld.ln0, l2)
             q3 == LnPoints(D, ld.ln0, l3)
             ss == [k \in DOMAIN ld.lns |-> LnPoints(D, ld.ln0, ld.lns[k])]
  <2>1. ss = <<q1, q2, q3>>
    BY <1>2
  <2>2. pts = FlattenSeq(ss)
    BY PointsByNode
  <2>3. q1 = <<p1>> /\ q2 = <<p2>> /\ q3 = <<>>
    BY <1>4, OnePoint, NoPoint
  <2> HIDE DEF q1, q2, q3, ss, pts, p1, p2
  <2>4. Len(ss) = 3 /\ ss[1] = q1 /\ ss[2] = q2 /\ ss[3] = q3
    BY <2>1
  <2>5. FlattenSeq(ss) = ss[1] \o ss[2] \o ss[3]
    BY <2>4, FlattenThree
  <2>6. QED
    BY <2>2, <2>3, <2>4, <2>5
<1>6. /\ p1.ref = Ref("MMXU1", "Amp") /\ p1.point = d1.point
      /\ p2.ref = Ref("MMXU2", "Amp") /\ p2.point = d2.point
  BY <1>3, <1>4, PointFields
<1>6a. p1.type # <<>> /\ p2.type # <<>>
  <2>1. p1.type = ResolveCdc(D, "MMXU_Basic", "Amp") /\ p2.type = ResolveCdc(D, "MMXU_Basic", "Amp")
    BY <1>3, <1>4, PointFields
  <2> HIDE DEF p1, p2
  <2>2. QED
    BY <2>1, Resolved
<1> HIDE DEF p1, p2, pts
<1>7. DOMAIN pts = 1 .. 2 /\ pts[1] = p1 /\ pts[2] = p2 /\ pts = [k \in 1 .. 2 |-> pts[k]]
  BY <1>5, TwoJoined
<1>7a. \A k \in 1 .. 2 : pts[k].type # <<>>
  BY <1>6a, <1>7
<1>8. QED
  BY <1>1, <1>3, <1>6, <1>7, <1>7a DEF pts, ld

PointsAt(st, i) == CollectPoints(Document(st), IedAt(st, i).devices[1])

\* The adapter of a point names its IED.
LEMMA PointAddresses ==
    ASSUME NEW st, StationOk(st), NEW i \in Publishers(st)
    PROVE  /\ \E m \in Nat : PointsAt(st, i) = [j \in 1 .. m |-> PointsAt(st, i)[j]]
           /\ \A j \in DOMAIN PointsAt(st, i) :
                PointsAt(st, i)[j].point.address[1] = Lower(IedAt(st, i).name)
           /\ \A j, k \in DOMAIN PointsAt(st, i) :
                PointsAt(st, i)[j].point.address = PointsAt(st, i)[k].point.address => j = k
<1> DEFINE pts == PointsAt(st, i)
           low == Lower(IedAt(st, i).name)
           Fine == /\ \E m \in Nat : pts = [j \in 1 .. m |-> pts[j]]
                   /\ \A j \in DOMAIN pts : pts[j].point.address[1] = low
                   /\ \A j, k \in DOMAIN pts : pts[j].point.address = pts[k].point.address => j = k
<1>1. CASE i \in 1 .. BreakersOf(st)
  <2>1. /\ DOMAIN pts = 1 .. 4 /\ pts = [k \in 1 .. 4 |-> pts[k]]
        /\ pts[1].point.address = <<low, "status">>
        /\ pts[2].point.address = <<low, "control">>
        /\ pts[3].point.address = <<low, "ammeter">>
        /\ pts[4].point.address = <<low, "voltmeter">>
    BY <1>1, BreakerPoints DEF PointsAt
  <2> HIDE DEF pts, low
  <2>2. \A j \in 1 .. 4 : j = 1 \/ j = 2 \/ j = 3 \/ j = 4
    OBVIOUS
  <2>3. \A j \in DOMAIN pts : pts[j].point.address[1] = low
    BY <2>1, <2>2
  <2> DEFINE Role(j) == pts[j].point.address[2]
  <2>4. Role(1) = "status" /\ Role(2) = "control" /\ Role(3) = "ammeter" /\ Role(4) = "voltmeter"
    BY <2>1
  <2>5. \A j, k \in DOMAIN pts : Role(j) = Role(k) => j = k
    <3> HIDE DEF Role
    <3> QED
      BY <2>1, <2>2, <2>4
  <2>6. \A j, k \in DOMAIN pts : pts[j].point.address = pts[k].point.address => j = k
    BY <2>5
  <2>7. \E m \in Nat : pts = [j \in 1 .. m |-> pts[j]]
    BY <2>1
  <2>8. Fine
    BY <2>3, <2>6, <2>7
  <2>9. QED
    BY <2>8 DEF pts, low
<1>2. ASSUME NEW j \in 1 .. XfmrsOf(st), i = BreakersOf(st) + j PROVE Fine
  <2>1. /\ DOMAIN pts = 1 .. 2 /\ pts = [k \in 1 .. 2 |-> pts[k]]
        /\ pts[1].point.address = <<low, "hv-ammeter">>
        /\ pts[2].point.address = <<low, "lv-ammeter">>
    BY <1>2, TransformerPoints DEF PointsAt
  <2> HIDE DEF pts, low
  <2>2. \A k \in 1 .. 2 : k = 1 \/ k = 2
    OBVIOUS
  <2>3. \A k \in DOMAIN pts : pts[k].point.address[1] = low
    BY <2>1, <2>2
  <2> DEFINE Role(k) == pts[k].point.address[2]
  <2>4. Role(1) = "hv-ammeter" /\ Role(2) = "lv-ammeter"
    BY <2>1
  <2>5. \A k, l \in DOMAIN pts : Role(k) = Role(l) => k = l
    <3> HIDE DEF Role
    <3> QED
      BY <2>1, <2>2, <2>4
  <2>6. \A k, l \in DOMAIN pts : pts[k].point.address = pts[l].point.address => k = l
    BY <2>5
  <2>7. \E m \in Nat : pts = [k \in 1 .. m |-> pts[k]]
    BY <2>1
  <2>8. QED
    BY <2>3, <2>6, <2>7
<1>3. QED
  BY <1>1, <1>2, PublisherPlaces

AllPoints(D) ==
    FlattenSeq(Each(LAMBDA ied : IF ied.type = "SCADA" THEN <<>>
                                 ELSE CollectPoints(D, ied.devices[1]), D.ieds))

\* No two points have one adapter if no two names differ in case only.
LEMMA AddressesDistinct ==
    ASSUME NEW st, StationOk(st),
           \A i, j \in 1 .. ScadaPlace(st) :
                Lower(IedAt(st, i).name) = Lower(IedAt(st, j).name) => i = j
    PROVE  Distinct(Each(LAMBDA p : p.point.address, AllPoints(Document(st))))
<1> DEFINE D == Document(st)
           K == ScadaPlace(st)
           ss == [k \in DOMAIN D.ieds |-> IF D.ieds[k].type = "SCADA" THEN <<>>
                                          ELSE CollectPoints(D, D.ieds[k].devices[1])]
           t == AllPoints(Document(st))
<1>1. DOMAIN D.ieds = 1 .. K /\ K \in Nat
  BY IedsOfDocument, PublisherPlaces
<1>2. /\ \A i \in Publishers(st) : i \in 1 .. K /\ i \in Nat /\ ss[i] = PointsAt(st, i)
      /\ ss[K] = <<>> /\ \A i \in 1 .. K : i = K \/ i \in Publishers(st)
  BY <1>1, NamesOfIeds, PublisherPlaces DEF IedAt, PointsAt
<1>3. ss = [k \in 1 .. K |-> ss[k]] /\ DOMAIN ss = 1 .. K
  BY <1>1
<1>4. t = FlattenSeq(ss)
  BY DEF AllPoints, Each
<1> HIDE DEF ss, t, D, K
<1>5. ASSUME NEW k \in 1 .. K PROVE \E m \in Nat : ss[k] = [j \in 1 .. m |-> ss[k][j]]
  <2>1. CASE k = K
    <3>1. ss[k] = [j \in 1 .. 0 |-> ss[k][j]]
      BY <1>2, <2>1
    <3>2. QED
      BY <3>1
  <2>2. CASE k \in Publishers(st)
    <3> DEFINE pts == PointsAt(st, k)
    <3>1. \E m \in Nat : pts = [j \in 1 .. m |-> pts[j]]
      BY <2>2, PointAddresses
    <3> HIDE DEF pts
    <3>2. ss[k] = pts
      BY <1>2, <2>2 DEF pts
    <3>3. QED
      BY <3>1, <3>2
  <2>3. QED
    BY <1>2, <2>1, <2>2
<1>6. PICK S : ss \in Seq(Seq(S))
  BY <1>1, <1>3, <1>5, SeqsOfValues
<1>7. t \in Seq(S) /\ \E at : Lists(t, ss, at)
  BY <1>4, <1>6, FlattenLists
<1>8. PICK at : Lists(t, ss, at)
  BY <1>7
<1>9. ASSUME NEW p \in DOMAIN t
      PROVE  /\ at[p][1] \in Publishers(st) /\ at[p][2] \in DOMAIN PointsAt(st, at[p][1])
             /\ t[p] = PointsAt(st, at[p][1])[at[p][2]]
  <2>1. at[p] \in Places(ss) /\ t[p] = ss[at[p][1]][at[p][2]]
    BY <1>8 DEF Lists
  <2>2. at[p][1] \in 1 .. K /\ at[p][2] \in DOMAIN ss[at[p][1]]
    BY <1>3, <2>1 DEF Places
  <2>3. at[p][1] # K
    BY <1>2, <2>2
  <2>4. at[p][1] \in Publishers(st)
    BY <1>2, <2>2, <2>3
  <2>5. QED
    BY <1>2, <2>1, <2>2, <2>4
<1>10. ASSUME NEW p \in DOMAIN t, NEW q \in DOMAIN t, t[p].point.address = t[q].point.address
       PROVE  p = q
  <2> DEFINE i == at[p][1]
             j == at[q][1]
  <2>1. Lower(IedAt(st, i).name) = Lower(IedAt(st, j).name)
    <3>1. /\ t[p].point.address[1] = Lower(IedAt(st, i).name)
          /\ t[q].point.address[1] = Lower(IedAt(st, j).name)
      BY <1>9, PointAddresses
    <3>2. QED
      BY <1>10, <3>1
  <2>2. i \in 1 .. K /\ j \in 1 .. K
    BY <1>2, <1>9
  <2>3. i = j
    BY <2>1, <2>2 DEF K
  <2>4. at[p][2] = at[q][2]
    BY <1>9, <1>10, <2>3, PointAddresses
  <2>5. at[p] \in Nat \X Nat /\ at[q] \in Nat \X Nat
    BY <1>8 DEF Lists
  <2>6. at[p] = at[q]
    BY <2>3, <2>4, <2>5
  <2>7. QED
    BY <1>7, <1>8, <2>6, ListsInjective, Zenon
<1> DEFINE addresses == [p \in DOMAIN t |-> t[p].point.address]
<1>11. Distinct(addresses)
  BY <1>10 DEF Distinct
<1>12. Each(LAMBDA p : p.point.address, t) = addresses
  BY DEF Each
<1>13. QED
  BY <1>11, <1>12 DEF t

\* In every compiled station the publishers of GOOSE have different MAC
\* addresses and APPIDs, and so have those of sampled values; one of each
\* kind may share an address or an APPID only if the prefix or the numbers
\* typed for GOOSE are those of sampled values.  The points have different
\* adapters unless names differ in case only.
THEOREM NoSharedIdentity == ToolSpec => []IdentitiesDistinct
<1>1. ToolInv => IdentitiesDistinct
  <2> SUFFICES ASSUME ToolInv, status = "compiled" PROVE IdentitiesDistinct
    BY DEF IdentitiesDistinct
  <2> DEFINE st == Station
             gse == FlattenSeq(Each(LAMBDA ap : ap.gse, doc.subnets[1].aps))
             smv == FlattenSeq(Each(LAMBDA ap : ap.smv, doc.subnets[1].aps))
             Macs(s) == Each(LAMBDA e : e.mac, s)
             Appids(s) == Each(LAMBDA e : e.appid, s)
             points == FlattenSeq(Each(LAMBDA ied : IF ied.type = "SCADA" THEN <<>>
                                               ELSE CollectPoints(doc, ied.devices[1]), doc.ieds))
             lows == Each(LAMBDA ied : Lower(ied.name), doc.ieds)
  <2>1. StationOk(st) /\ SchemaValid(Document(st)) /\ doc = Document(st)
    BY Compiled
  <2>1a. st.network = settings.network /\ st.transformers = transformers /\ (AppidsApart => RangesApart(st))
    BY Compiled DEF AppidsApart, RangesApart, BreakersOf, XfmrsOf
  <2> HIDE DEF st
  <2>2. doc.subnets[1] = SubNetwork(st)
    BY <2>1 DEF Document
  <2>3. gse = AllGse(st) /\ smv = AllSmv(st)
    BY <2>2 DEF AllGse, AllSmv, Each
  <2>4. points = AllPoints(Document(st))
    <3>1. points = AllPoints(doc)
      BY DEF AllPoints
    <3> HIDE DEF points
    <3>2. QED
      BY <2>1, <3>1
  <2>5. ASSUME Distinct(lows) PROVE Distinct(Each(LAMBDA p : p.point.address, points))
    <3> DEFINE l == [k \in DOMAIN doc.ieds |-> Lower(doc.ieds[k].name)]
    <3>1. lows = l
      BY DEF Each
    <3>2. DOMAIN doc.ieds = 1 .. ScadaPlace(st) /\ \A k \in 1 .. ScadaPlace(st) : doc.ieds[k] = IedAt(st, k)
      BY <2>1, IedsOfDocument DEF IedAt
    <3>3. \A i, j \in DOMAIN l : l[i] = l[j] => i = j
      BY <2>5, <3>1 DEF Distinct
    <3>4. \A i, j \in 1 .. ScadaPlace(st) :
             Lower(IedAt(st, i).name) = Lower(IedAt(st, j).name) => i = j
      BY <3>2, <3>3
    <3> HIDE DEF points
    <3>5. Distinct(Each(LAMBDA p : p.point.address, AllPoints(Document(st))))
      BY <2>1, <3>4, AddressesDistinct
    <3>6. QED
      BY <2>4, <3>5
  <2>6. /\ Distinct(Macs(gse)) /\ Distinct(Appids(gse))
        /\ Distinct(Macs(smv)) /\ Distinct(Appids(smv))
        /\ settings.network.macPrefix # SmvMacPrefix => Distinct(Macs(gse) \o Macs(smv))
        /\ AppidsApart => Distinct(Appids(gse) \o Appids(smv))
    <3>1. \A s : Macs(s) = MacsOf(s) /\ Appids(s) = AppidsOf(s)
      BY DEF Each, MacsOf, AppidsOf
    <3> HIDE DEF gse, smv, Macs, Appids
    <3>2. /\ Distinct(MacsOf(AllGse(st))) /\ Distinct(AppidsOf(AllGse(st)))
          /\ Distinct(MacsOf(AllSmv(st))) /\ Distinct(AppidsOf(AllSmv(st)))
          /\ st.network.macPrefix # SmvMacPrefix => Distinct(MacsOf(AllGse(st)) \o MacsOf(AllSmv(st)))
          /\ RangesApart(st) => Distinct(AppidsOf(AllGse(st)) \o AppidsOf(AllSmv(st)))
      BY <2>1, PublishersDiffer
    <3>3. QED
      BY <2>1a, <2>3, <3>1, <3>2
  <2>7. QED
    BY <2>5, <2>6 DEF IdentitiesDistinct
<1>2. QED
  BY <1>1, ToolInvariant, PTL

-----------------------------------------------------------------------------
(* What SCADA is told. *)

IedNamed(D, name) == First(D.ieds, LAMBDA p : p.name = name)

\* Looking up the name of an IED finds it.
LEMMA IedNamedAt ==
    ASSUME NEW st, StationOk(st), SchemaValid(Document(st)), NEW i \in 1 .. ScadaPlace(st)
    PROVE  IedNamed(Document(st), IedAt(st, i).name) = <<IedAt(st, i)>>
<1> DEFINE s == Document(st).ieds
           name == IedAt(st, i).name
           found == {k \in DOMAIN s : s[k].name = name}
           pick == CHOOSE k \in found : \A j \in found : k <= j
<1>1. IedNamed(Document(st), name) = IF found = {} THEN <<>> ELSE <<s[pick]>>
  BY DEF IedNamed, First
<1>2. DOMAIN s = 1 .. ScadaPlace(st) /\ \A k \in 1 .. ScadaPlace(st) : s[k] = IedAt(st, k)
  BY IedsOfDocument DEF IedAt
<1>3. \A k \in 1 .. ScadaPlace(st) : IedAt(st, k).name = name <=> k = i
  BY NamesDiffer
<1>4. i \in Nat
  BY PublisherPlaces
<1> HIDE DEF s, name
<1>5. found = {i}
  BY <1>2, <1>3
<1> HIDE DEF found
<1>6. pick = i
  BY <1>4, <1>5
<1> HIDE DEF pick
<1>7. QED
  BY <1>1, <1>2, <1>5, <1>6 DEF name

IsPeer(D, ap, self) ==
    LET peer == IedNamed(D, ap.ied) IN ap.ied # self /\ peer # <<>> /\ peer[1].type # "SCADA"

\* The peers of SCADA are all other access points.
LEMMA PeersAt ==
    ASSUME NEW st, StationOk(st), SchemaValid(Document(st))
    PROVE  PeerAps(Document(st), SubNetwork(st), IedAt(st, ScadaPlace(st)).name)
             = At(SubNetwork(st).aps, Publishers(st))
<1> DEFINE D == Document(st)
           net == SubNetwork(st)
           self == IedAt(st, ScadaPlace(st)).name
           aps == net.aps
           places == {k \in DOMAIN aps : IsPeer(D, aps[k], self)}
<1>1. PeerAps(D, net, self) = At(aps, places)
  BY DEF PeerAps, Chosen, IsPeer, IedNamed
<1>2. DOMAIN aps = 1 .. ScadaPlace(st) /\ \A k \in 1 .. ScadaPlace(st) : aps[k].ied = IedAt(st, k).name
  BY ApsOfDocument, NamesOfIeds DEF ApAt
<1>3. ASSUME NEW k \in 1 .. ScadaPlace(st) PROVE IsPeer(D, aps[k], self) <=> k \in Publishers(st)
  <2>1. IedNamed(D, IedAt(st, k).name) = <<IedAt(st, k)>>
    BY IedNamedAt
  <2>2. <<IedAt(st, k)>> # <<>> /\ <<IedAt(st, k)>>[1] = IedAt(st, k)
    OBVIOUS
  <2>3. IedAt(st, k).name = self <=> k = ScadaPlace(st)
    BY NamesDiffer, PublisherPlaces
  <2>4. k = ScadaPlace(st) => IedAt(st, k).type = "SCADA"
    BY NamesOfIeds
  <2>5. k \in Publishers(st) => IedAt(st, k).type # "SCADA" /\ k # ScadaPlace(st)
    BY NamesOfIeds, PublisherPlaces
  <2>6. k = ScadaPlace(st) \/ k \in Publishers(st)
    BY PublisherPlaces
  <2> HIDE DEF aps, D, self
  <2>7. QED
    BY <1>2, <2>1, <2>2, <2>3, <2>4, <2>5, <2>6 DEF IsPeer
<1>4. places = Publishers(st)
  <2>1. Publishers(st) \subseteq 1 .. ScadaPlace(st)
    BY PublisherPlaces
  <2> HIDE DEF aps, D, self
  <2>2. QED
    BY <1>2, <1>3, <2>1
<1>5. QED
  BY <1>1, <1>4

ScadaRow(D, ap) ==
    [name |-> ap.ied, ip |-> ap.address[1], port |-> IedNamed(D, ap.ied)[1].devices[1].ln0.settings.mmsPort]

\* SCADA is given every publisher once, in their order, in the one subnetwork.
LEMMA ScadaParts ==
    ASSUME NEW st, StationOk(st), SchemaValid(Document(st))
    PROVE  /\ ScadaConfig(st).group = "255.10"
           /\ ScadaConfig(st).alarms = Alarms(st)
           /\ \E f : /\ f \in [DOMAIN ScadaConfig(st).ieds -> Publishers(st)]
                     /\ \A p, q \in DOMAIN ScadaConfig(st).ieds : f[p] = f[q] => p = q
                     /\ \A i \in Publishers(st) : \E p \in DOMAIN ScadaConfig(st).ieds : f[p] = i
                     /\ \A p \in DOMAIN ScadaConfig(st).ieds :
                          /\ ScadaConfig(st).ieds[p].name = IedAt(st, f[p]).name
                          /\ ScadaConfig(st).ieds[p].ip = ApAt(st, f[p]).address[1]
<1> DEFINE D == Document(st)
           ied == IedAt(st, ScadaPlace(st))
           found == FindAp(D, ied.name)[1]
           peers == PeerAps(D, found.net, ied.name)
           cfg == MapScada(D, ied)
<1>1. ScadaConfig(st) = cfg
  BY Zenon DEF ScadaConfig
<1>2. /\ cfg.group = found.net.group[1] /\ cfg.alarms = ied.devices[1].ln0.alarms
      /\ cfg.ieds = [k \in DOMAIN peers |-> ScadaRow(D, peers[k])]
  <2> HIDE DEF D, ied
  <2>1. QED
    BY Zenon DEF MapScada, Each, IedNamed, ScadaRow
<1> HIDE DEF cfg
<1>3. found.net = SubNetwork(st)
  <2>1. FindAp(D, ied.name) = <<[net |-> SubNetwork(st), ap |-> ApAt(st, ScadaPlace(st))]>>
    BY FindApOf, PublisherPlaces
  <2>2. \A a, b : <<[net |-> a, ap |-> b]>>[1].net = a
    OBVIOUS
  <2> HIDE DEF D, ied
  <2>3. QED
    BY <2>1, <2>2
<1>4. cfg.group = "255.10"
  <2>1. SubNetwork(st).group[1] = "255.10"
    BY DEF SubNetwork
  <2>2. QED
    BY <1>2, <1>3, <2>1
<1>5. ied.devices[1].ln0.alarms = Alarms(st)
  <2>1. ied = ScadaIed(st)
    BY IedsOfDocument
  <2>2. ScadaIed(st).devices[1].ln0.alarms = Alarms(st)
    <3> DEFINE a == Alarms(st)
    <3> HIDE DEF a
    <3>1. [Ln0(st, NoRules, <<>>, <<>>, <<>>) EXCEPT !.alarms = a].alarms = a
      BY DEF Ln0
    <3>2. QED
      BY <3>1 DEF ScadaIed, Ied, a
  <2>3. QED
    BY <2>1, <2>2
<1> DEFINE aps == SubNetwork(st).aps
           P == Publishers(st)
<1>6. peers = At(aps, P)
  BY <1>3, PeersAt
<1>7. DOMAIN aps = 1 .. ScadaPlace(st) /\ aps \in Seq(Range(aps)) /\ P \subseteq DOMAIN aps
      /\ \A i \in P : aps[i] = ApAt(st, i) /\ aps[i].ied = IedAt(st, i).name
      /\ P \subseteq Nat
  <2>1. DOMAIN aps = 1 .. ScadaPlace(st) /\ \A R : (\A i \in 1 .. ScadaPlace(st) : ApAt(st, i) \in R) => aps \in Seq(R)
    BY ApsOfDocument
  <2>2. \A i \in 1 .. ScadaPlace(st) : ApAt(st, i) \in Range(aps)
    BY <2>1 DEF ApAt, Range
  <2>3. P \subseteq 1 .. ScadaPlace(st) /\ P \subseteq Nat
    BY PublisherPlaces
  <2>4. \A i \in P : aps[i] = ApAt(st, i) /\ aps[i].ied = IedAt(st, i).name
    BY <2>3, NamesOfIeds DEF ApAt
  <2>5. QED
    BY <2>1, <2>2, <2>3, <2>4
<1> HIDE DEF aps, P, peers
<1>8. PICK f \in [DOMAIN peers -> P] :
         /\ \A p \in DOMAIN peers : peers[p] = aps[f[p]]
         /\ \A p, q \in DOMAIN peers : p < q => f[p] < f[q]
         /\ \A k \in P : \E p \in DOMAIN peers : f[p] = k
  <2> DEFINE S == Range(aps)
             t == At(aps, P)
  <2>1. aps \in Seq(S) /\ P \in SUBSET DOMAIN aps
    BY <1>7
  <2> HIDE DEF S
  <2>2. \E f \in [DOMAIN t -> P] :
           /\ \A p \in DOMAIN t : t[p] = aps[f[p]]
           /\ \A p, q \in DOMAIN t : p < q => f[p] < f[q]
           /\ \A k \in P : \E p \in DOMAIN t : f[p] = k
    BY <2>1, AtPlaces
  <2>3. peers = t
    BY <1>6
  <2> HIDE DEF t
  <2>4. QED
    BY <2>2, <2>3
<1>9. DOMAIN peers \subseteq Nat
  <2> DEFINE S == Range(aps)
  <2>1. aps \in Seq(S) /\ P \in SUBSET DOMAIN aps
    BY <1>7
  <2> HIDE DEF S
  <2>2. peers \in Seq(S)
    BY <1>6, <2>1, AtPicks
  <2>3. QED
    BY <2>2
<1>10. \A p, q \in DOMAIN peers : f[p] = f[q] => p = q
  <2> SUFFICES ASSUME NEW p \in DOMAIN peers, NEW q \in DOMAIN peers, f[p] = f[q] PROVE p = q
    OBVIOUS
  <2>1. f[p] \in Nat /\ f[q] \in Nat /\ p \in Nat /\ q \in Nat
    BY <1>7, <1>8, <1>9
  <2>2. ~ (p < q) /\ ~ (q < p)
    BY <1>8, <2>1
  <2>3. QED
    BY <2>1, <2>2
<1>11. ASSUME NEW p \in DOMAIN peers
       PROVE  /\ cfg.ieds[p].name = IedAt(st, f[p]).name
              /\ cfg.ieds[p].ip = ApAt(st, f[p]).address[1]
  <2>0. \A ap : ScadaRow(D, ap).name = ap.ied /\ ScadaRow(D, ap).ip = ap.address[1]
    BY DEF ScadaRow
  <2>1. cfg.ieds[p].name = peers[p].ied /\ cfg.ieds[p].ip = peers[p].address[1]
    BY <1>2, <2>0
  <2>2. peers[p] = aps[f[p]] /\ f[p] \in P
    BY <1>8
  <2>3. QED
    BY <1>7, <2>1, <2>2
<1>12. DOMAIN cfg.ieds = DOMAIN peers
  BY <1>2
<1>13. cfg.alarms = Alarms(st)
  BY <1>2, <1>5
<1>14. /\ f \in [DOMAIN cfg.ieds -> P]
       /\ \A p, q \in DOMAIN cfg.ieds : f[p] = f[q] => p = q
       /\ \A i \in P : \E p \in DOMAIN cfg.ieds : f[p] = i
       /\ \A p \in DOMAIN cfg.ieds : /\ cfg.ieds[p].name = IedAt(st, f[p]).name
                                     /\ cfg.ieds[p].ip = ApAt(st, f[p]).address[1]
  BY <1>8, <1>10, <1>11, <1>12
<1>15. QED
  BY <1>1, <1>4, <1>13, <1>14 DEF P

\* The schema refuses two levels of the same name.
LEMMA LevelNamesDiffer ==
    ASSUME NEW st, StationOk(st), SchemaValid(Document(st)),
           NEW i \in DOMAIN st.levels, NEW j \in DOMAIN st.levels,
           st.levels[i].name = st.levels[j].name
    PROVE  i = j
<1> DEFINE n == Len(st.levels)
           m == XfmrsOf(st)
           lvs == [k \in 1 .. m |-> st.transformers[k].lv]
           all == AllLevels(st)
           sub == Document(st).substation
           s == [k \in 1 .. m |-> st.transformers[k].name]
           t == [k \in DOMAIN all |-> all[k].name]
           u == s \o t
<1>1. m \in Nat /\ DOMAIN st.transformers = 1 .. m
  BY Counts
<1>2. n \in Nat /\ DOMAIN st.levels = 1 .. n /\ st.levels = [k \in 1 .. n |-> st.levels[k]]
  <2>1. st.levels \in Seq(BuiltLevels)
    BY DEF StationOk
  <2>2. QED
    BY <2>1
<1>3. all = st.levels \o lvs
  BY <1>1 DEF AllLevels, Each
<1>4. lvs = [k \in 1 .. m |-> lvs[k]]
  OBVIOUS
<1>5. DOMAIN all = 1 .. n + m /\ \A k \in 1 .. n : all[k] = st.levels[k] /\ k \in 1 .. n + m
  <2> DEFINE l == st.levels
  <2>1. Counted(l, n) /\ Counted(lvs, m)
    BY <1>2, <1>4 DEF Counted
  <2> HIDE DEF l, n, m, lvs, all
  <2>2. Parted(l, lvs, n, m)
    BY <1>1, <1>2, <2>1, TwoParts
  <2>3. QED
    BY <1>3, <2>2 DEF l, Parted
<1>6. \A p, q \in DOMAIN u : u[p] = u[q] => p = q
  <2>1. Distinct(Names(sub.transformers) \o Names(sub.levels))
    BY DEF SchemaValid
  <2>2. sub.transformers = [k \in 1 .. m |-> TransformerElement(st, st.transformers[k])]
        /\ sub.levels = [k \in DOMAIN all |-> LevelElement(all[k])]
    BY <1>1 DEF Document, SubstationElement, Each
  <2>3. /\ \A x : TransformerElement(st, x).name = x.name
        /\ \A lv : LevelElement(lv).name = lv.name
    BY DEF TransformerElement, LevelElement
  <2> HIDE DEF all, sub, m
  <2>4. Names(sub.transformers) = s
    BY <2>2, <2>3 DEF Names, Each
  <2>5. Names(sub.levels) = t
    BY <2>2, <2>3 DEF Names, Each
  <2> HIDE DEF s, t
  <2>6. QED
    BY <2>1, <2>4, <2>5 DEF Distinct
<1>7. /\ \A k \in 1 .. n : u[m + k] = st.levels[k].name /\ m + k \in DOMAIN u
  <2>1. s = [k \in 1 .. m |-> s[k]] /\ DOMAIN t = 1 .. n + m /\ t = [k \in 1 .. n + m |-> t[k]]
    BY <1>5
  <2>2. \A k \in 1 .. n : t[k] = st.levels[k].name
    BY <1>5
  <2>2a. n + m \in Nat
    BY <1>1, <1>2
  <2> HIDE DEF s, t, n, m
  <2>3. Counted(s, m) /\ Counted(t, n + m)
    BY <2>1 DEF Counted
  <2>4. Parted(s, t, m, n + m)
    BY <1>1, <2>2a, <2>3, TwoParts
  <2>5. QED
    BY <1>5, <2>2, <2>4 DEF Parted
<1> HIDE DEF u, n, m
<1>8. m + i = m + j
  BY <1>2, <1>6, <1>7
<1>9. QED
  BY <1>1, <1>2, <1>8

\* The rules of an IED.
InterlockOf(peer) ==
    [Interlock(peer) EXCEPT !.peerIed = CoerceBoolOrStr(@), !.peerValue = CoerceBoolOrStr(@),
                            !.blockValue = CoerceBoolOrStr(@)]
TripOf(x) ==
    [RemoteTrip(x) EXCEPT !.peerIed = CoerceBoolOrStr(@), !.peerValue = CoerceBoolOrStr(@),
                          !.tripValue = CoerceBoolOrStr(@)]
PeersOf(st, i) == Of(IedAt(st, i).name, AllInterlocks(st))
TripsOf(st, i) == Of(IedAt(st, i).name, AllRemoteTrips(st))

\* The rules of a breaker, ...
LEMMA BreakerRules ==
    ASSUME NEW st, StationOk(st), NEW i \in 1 .. BreakersOf(st)
    PROVE  /\ Config(st, i).rules.interlocks =
                [k \in DOMAIN PeersOf(st, i) |-> InterlockOf(PeersOf(st, i)[k])]
           /\ Config(st, i).rules.remoteTrips =
                [k \in DOMAIN TripsOf(st, i) |-> TripOf(TripsOf(st, i)[k])]
           /\ Config(st, i).rules.ptoc = <<Ptoc(st.protection)>>
           /\ Config(st, i).rules.pdif = <<>> /\ Config(st, i).rules.pdis = <<>>
<1> DEFINE il == AllInterlocks(st)
           rt == AllRemoteTrips(st)
           b == AllBreakers(st)[i]
           name == b.name
           peers == Of(name, il)
           trips == Of(name, rt)
           I == [k \in DOMAIN peers |-> Interlock(peers[k])]
           T == [k \in DOMAIN trips |-> RemoteTrip(trips[k])]
           ptoc == <<Ptoc(st.protection)>>
           rules == [NoRules EXCEPT !.interlocks = I, !.remoteTrips = T, !.ptoc = ptoc]
<1>1. IedAt(st, i) = BreakerIed(st, b, il, rt) /\ IedAt(st, i).name = name
  BY IedsOfDocument, NamesOfIeds
<1> HIDE DEF il, rt
<1>2. BreakerIed(st, b, il, rt).devices[1].ln0.rules = rules
  <2>1. /\ I = Each(Interlock, Of(b.name, il)) /\ T = Each(RemoteTrip, Of(b.name, rt))
    BY DEF Each
  <2> HIDE DEF I, T, b, ptoc
  <2>2. BreakerIed(st, b, il, rt).devices[1].ln0.rules =
          [NoRules EXCEPT !.interlocks = Each(Interlock, Of(b.name, il)),
                          !.remoteTrips = Each(RemoteTrip, Of(b.name, rt)), !.ptoc = <<Ptoc(st.protection)>>]
    BY DEF BreakerIed, Ied, Ln0
  <2>3. QED
    BY <2>1, <2>2 DEF ptoc
<1>3. Config(st, i).rules = MapRules(rules)
  BY <1>1, <1>2, ConfigParts
<1>4. PeersOf(st, i) = peers /\ TripsOf(st, i) = trips
  BY <1>1 DEF PeersOf, TripsOf, il, rt
<1> HIDE DEF peers, trips
<1>5. /\ DOMAIN I = DOMAIN peers /\ \A k \in DOMAIN peers : I[k] = Interlock(peers[k])
      /\ DOMAIN T = DOMAIN trips /\ \A k \in DOMAIN trips : T[k] = RemoteTrip(trips[k])
  OBVIOUS
<1> HIDE DEF I, T, ptoc
<1>6. /\ rules.interlocks = I /\ rules.remoteTrips = T /\ rules.ptoc = ptoc
      /\ rules.pdif = <<>> /\ rules.pdis = <<>>
  BY DEF NoRules
<1> HIDE DEF rules
<1>7. /\ MapRules(rules).interlocks = [k \in DOMAIN I |-> [I[k] EXCEPT !.peerIed = CoerceBoolOrStr(@),
                                          !.peerValue = CoerceBoolOrStr(@), !.blockValue = CoerceBoolOrStr(@)]]
      /\ MapRules(rules).remoteTrips = [k \in DOMAIN T |-> [T[k] EXCEPT !.peerIed = CoerceBoolOrStr(@),
                                          !.peerValue = CoerceBoolOrStr(@), !.tripValue = CoerceBoolOrStr(@)]]
      /\ MapRules(rules).ptoc = ptoc /\ MapRules(rules).pdif = <<>> /\ MapRules(rules).pdis = <<>>
  BY <1>6 DEF MapRules, Each
<1>8. /\ MapRules(rules).interlocks = [k \in DOMAIN peers |-> InterlockOf(peers[k])]
      /\ MapRules(rules).remoteTrips = [k \in DOMAIN trips |-> TripOf(trips[k])]
  <2>1. MapRules(rules).interlocks = [k \in DOMAIN peers |-> InterlockOf(peers[k])]
    <3>1. \A p : [Interlock(p) EXCEPT !.peerIed = CoerceBoolOrStr(@), !.peerValue = CoerceBoolOrStr(@),
                                      !.blockValue = CoerceBoolOrStr(@)] = InterlockOf(p)
      BY DEF InterlockOf
    <3>2. QED
      BY <1>5, <1>7, <3>1
  <2>2. MapRules(rules).remoteTrips = [k \in DOMAIN trips |-> TripOf(trips[k])]
    <3>1. \A x : [RemoteTrip(x) EXCEPT !.peerIed = CoerceBoolOrStr(@), !.peerValue = CoerceBoolOrStr(@),
                                       !.tripValue = CoerceBoolOrStr(@)] = TripOf(x)
      BY DEF TripOf
    <3>2. QED
      BY <1>5, <1>7, <3>1
  <2>3. QED
    BY <2>1, <2>2
<1>9. QED
  BY <1>3, <1>4, <1>7, <1>8 DEF ptoc

\* ... and of a transformer.
LEMMA TransformerRules ==
    ASSUME NEW st, StationOk(st), NEW j \in 1 .. XfmrsOf(st)
    PROVE  /\ Config(st, BreakersOf(st) + j).rules.interlocks = <<>>
           /\ Config(st, BreakersOf(st) + j).rules.remoteTrips = <<>>
           /\ Config(st, BreakersOf(st) + j).rules.ptoc = <<>>
           /\ Config(st, BreakersOf(st) + j).rules.pdif =
                <<[name |-> "PDIF1", inputs |-> <<Ref("MMXU1", "Amp"), Ref("MMXU2", "Amp")>>]>>
           /\ Config(st, BreakersOf(st) + j).rules.pdis = <<[name |-> "PDIS1"]>>
<1> DEFINE pdif == <<[name |-> "PDIF1", inputs |-> <<Ref("MMXU1", "Amp"), Ref("MMXU2", "Amp")>>]>>
           pdis == <<[name |-> "PDIS1"]>>
           rules == [NoRules EXCEPT !.pdif = pdif, !.pdis = pdis]
           x == st.transformers[j]
<1>1. TransformerIed(st, x).devices[1].ln0.rules = rules
  <2> HIDE DEF pdif, pdis
  <2>1. QED
    BY DEF TransformerIed, Ied, Ln0, pdif, pdis
<1>2. IedAt(st, BreakersOf(st) + j) = TransformerIed(st, x)
  BY IedsOfDocument
<1>3. Config(st, BreakersOf(st) + j).rules = MapRules(rules)
  BY <1>1, <1>2, ConfigParts
<1> HIDE DEF pdif, pdis
<1>4. /\ rules.interlocks = <<>> /\ rules.remoteTrips = <<>> /\ rules.ptoc = <<>>
      /\ rules.pdif = pdif /\ rules.pdis = pdis
  BY DEF NoRules
<1> HIDE DEF rules
<1>5. /\ MapRules(rules).interlocks = <<>> /\ MapRules(rules).remoteTrips = <<>>
      /\ MapRules(rules).ptoc = <<>> /\ MapRules(rules).pdif = pdif /\ MapRules(rules).pdis = pdis
  BY <1>4 DEF MapRules, Each
<1>6. QED
  BY <1>3, <1>5 DEF pdif, pdis

\* The differential protection of a transformer is a scheme of its configuration.
LEMMA TransformerScheme ==
    ASSUME NEW st, StationOk(st), NEW j \in 1 .. XfmrsOf(st)
    PROVE  HasScheme(Config(st, BreakersOf(st) + j), Ref("PDIF1", "Op"))
<1> DEFINE cfg == Config(st, BreakersOf(st) + j)
           a == [name |-> "PDIF1", inputs |-> <<Ref("MMXU1", "Amp"), Ref("MMXU2", "Amp")>>]
           b == [name |-> "PDIS1"]
           e == <<>>
           s == <<a>>
           t == <<b>>
           S == {a, b}
<1>1. cfg.rules.ptoc = e /\ cfg.rules.pdif = s /\ cfg.rules.pdis = t
  BY TransformerRules
<1>2. a.name = "PDIF1"
  OBVIOUS
<1> HIDE DEF a, b, cfg
<1>3. e \in Seq(S) /\ s \in Seq(S) /\ t \in Seq(S) /\ Len(e) = 0 /\ Len(s) = 1 /\ Len(t) = 1 /\ s[1] = a
  OBVIOUS
<1> HIDE DEF e, s, t, S
<1> DEFINE v == e \o s
<1>4. v \in Seq(S) /\ Len(v) = 1 /\ v[1] = a
  BY <1>3
<1> HIDE DEF v
<1>5. 1 \in DOMAIN (v \o t) /\ (v \o t)[1] = a
  BY <1>3, <1>4
<1>6. a \in Range(v \o t)
  BY <1>5 DEF Range
<1>7. a \in Range(cfg.rules.ptoc \o cfg.rules.pdif \o cfg.rules.pdis)
  BY <1>1, <1>6 DEF v
<1>8. QED
  BY <1>2, <1>7 DEF HasScheme, cfg

\* What an alarm of a station refers to is a point or a scheme of a publisher.
LEMMA AlarmsExist ==
    ASSUME NEW st, StationOk(st), NEW lv \in Range(st.levels)
    PROVE  \E i \in Publishers(st) : /\ Config(st, i).name = Breakers(lv)[1].name
                                     /\ Has(Config(st, i), Ref("MMXU1", "Vol"))
<1>1. Breakers(lv)[1] \in Range(AllBreakers(st))
  <2>1. st.levels \in Seq(BuiltLevels)
    BY DEF StationOk
  <2>2. lv \in BuiltLevels
    BY <2>1 DEF Range
  <2>3. Breakers(lv) \in Seq(BreakerSet) /\ Breakers(lv) # <<>>
    BY <2>2, LevelBreakers
  <2>4. 1 \in DOMAIN Breakers(lv)
    BY <2>3
  <2>5. Breakers(lv)[1] \in Range(Breakers(lv))
    BY <2>4 DEF Range
  <2>6. Range(AllBreakers(st)) = UNION {Range(Breakers(l)) : l \in Range(st.levels)}
    BY <2>1, StationBreakers
  <2>7. QED
    BY <2>5, <2>6
<1>2. PICK i \in 1 .. BreakersOf(st) : AllBreakers(st)[i] = Breakers(lv)[1]
  BY <1>1, Counts DEF Range
<1>3. i \in Publishers(st)
  BY PublisherPlaces
<1>4. Config(st, i).name = Breakers(lv)[1].name
  <2>1. Config(st, i).name = IedAt(st, i).name
    BY ConfigParts
  <2>2. IedAt(st, i).name = AllBreakers(st)[i].name
    BY NamesOfIeds
  <2>3. QED
    BY <1>2, <2>1, <2>2
<1>5. Has(Config(st, i), Ref("MMXU1", "Vol"))
  <2> DEFINE pts == CollectPoints(Document(st), IedAt(st, i).devices[1])
  <2>1. DOMAIN pts = 1 .. 4 /\ pts[4].ref = Ref("MMXU1", "Vol")
    BY BreakerPoints
  <2>2. Config(st, i).points = pts
    BY ConfigParts
  <2> HIDE DEF pts
  <2>3. pts[4] \in Range(pts)
    BY <2>1 DEF Range
  <2>4. QED
    BY <2>1, <2>2, <2>3 DEF Has
<1>6. QED
  BY <1>3, <1>4, <1>5

LowAlarm(lv) == [id |-> Suffixed(lv.name, "_VOLTAGE_LOW"), ied |-> Breakers(lv)[1].name,
                 ref |-> Ref("MMXU1", "Vol")]
TripAlarm(x) == [id |-> Suffixed(x.name, "_DIFF_TRIP"), ied |-> x.name, ref |-> Ref("PDIF1", "Op")]

\* The alarms of a station, one for a level or a transformer each.
LEMMA AlarmPlaces ==
    ASSUME NEW st, StationOk(st), NEW p \in DOMAIN Alarms(st)
    PROVE  \/ p \in DOMAIN st.levels /\ Alarms(st)[p] = LowAlarm(st.levels[p])
           \/ \E n \in Nat, k \in 1 .. XfmrsOf(st) :
                /\ n = IF st.scada.undervoltage THEN Len(st.levels) ELSE 0
                /\ p = n + k /\ Alarms(st)[p] = TripAlarm(st.transformers[k])
<1> DEFINE l == st.levels
           x == st.transformers
           n == IF st.scada.undervoltage THEN Len(l) ELSE 0
           m == IF st.scada.trip THEN XfmrsOf(st) ELSE 0
           s == [k \in 1 .. n |-> LowAlarm(l[k])]
           t == [k \in 1 .. m |-> TripAlarm(x[k])]
<1>1. Len(l) \in Nat /\ DOMAIN l = 1 .. Len(l)
  <2>1. l \in Seq(BuiltLevels)
    BY DEF StationOk
  <2> HIDE DEF l
  <2>2. QED
    BY <2>1
<1>2. XfmrsOf(st) \in Nat /\ DOMAIN x = 1 .. XfmrsOf(st)
  BY Counts
<1>3. n \in Nat /\ m \in Nat
  BY <1>1, <1>2
<1>4. Alarms(st) = s \o t
  <2>1. s = IF st.scada.undervoltage THEN [k \in DOMAIN l |-> LowAlarm(l[k])] ELSE <<>>
    BY <1>1
  <2>2. t = IF st.scada.trip THEN [k \in DOMAIN x |-> TripAlarm(x[k])] ELSE <<>>
    BY <1>2
  <2> HIDE DEF s, t, l, x, n, m
  <2>3. Alarms(st) = (IF st.scada.undervoltage THEN [k \in DOMAIN l |-> LowAlarm(l[k])] ELSE <<>>)
                     \o (IF st.scada.trip THEN [k \in DOMAIN x |-> TripAlarm(x[k])] ELSE <<>>)
    BY DEF Alarms, Each, LowAlarm, TripAlarm, l, x
  <2>4. QED
    BY <2>1, <2>2, <2>3
<1>5. s = [k \in 1 .. n |-> s[k]] /\ t = [k \in 1 .. m |-> t[k]]
  OBVIOUS
<1>6. (\A k \in 1 .. n : s[k] = LowAlarm(l[k])) /\ (\A k \in 1 .. m : t[k] = TripAlarm(x[k]))
  OBVIOUS
<1>7. (\A k \in 1 .. n : k \in DOMAIN l) /\ (\A k \in 1 .. m : k \in 1 .. XfmrsOf(st))
  BY <1>1, <1>2
<1> HIDE DEF s, t, m
<1>8. n \in Nat /\ n = IF st.scada.undervoltage THEN Len(st.levels) ELSE 0
  BY <1>3
<1> HIDE DEF n
<1>8a. m \in Nat
  BY <1>3
<1>9. /\ DOMAIN (s \o t) = 1 .. n + m
      /\ \A k \in 1 .. n : (s \o t)[k] = s[k]
      /\ \A k \in 1 .. m : (s \o t)[n + k] = t[k]
      /\ \A q \in 1 .. n + m : q \in 1 .. n \/ \E k \in 1 .. m : q = n + k
  <2>1. Counted(s, n) /\ Counted(t, m)
    BY <1>5 DEF Counted
  <2>2. Parted(s, t, n, m)
    BY <1>8, <1>8a, <2>1, TwoParts
  <2>3. QED
    BY <2>2 DEF Parted
<1>10. p \in 1 .. n \/ \E k \in 1 .. m : p = n + k
  BY <1>4, <1>9
<1>11. CASE p \in 1 .. n
  BY <1>4, <1>6, <1>7, <1>9, <1>11
<1>12. CASE \E k \in 1 .. m : p = n + k
  <2>1. PICK k \in 1 .. m : p = n + k
    BY <1>12
  <2>2. k \in 1 .. XfmrsOf(st) /\ Alarms(st)[p] = TripAlarm(st.transformers[k])
    BY <1>4, <1>6, <1>7, <1>9, <2>1
  <2>3. QED
    BY <1>8, <2>1, <2>2
<1>13. QED
  BY <1>10, <1>11, <1>12

\* No two alarms have one identity.
LEMMA AlarmsDistinct ==
    ASSUME NEW st, StationOk(st), SchemaValid(Document(st))
    PROVE  Distinct(Each(LAMBDA a : a.id, Alarms(st)))
<1> DEFINE a == Alarms(st)
<1> SUFFICES ASSUME NEW p \in DOMAIN a, NEW q \in DOMAIN a, a[p].id = a[q].id PROVE p = q
  BY DEF Distinct, Each
<1>1. /\ \A lv : LowAlarm(lv).id = Suffixed(lv.name, "_VOLTAGE_LOW")
      /\ \A x : TripAlarm(x).id = Suffixed(x.name, "_DIFF_TRIP")
  BY DEF LowAlarm, TripAlarm
<1>2. \A k \in DOMAIN st.levels : st.levels[k].name \in Stems \X Nat \X Seq(STRING)
  <2> TAKE k \in DOMAIN st.levels
  <2>1. st.levels[k] \in BuiltLevels
    BY DEF StationOk
  <2>2. st.levels[k].name \in NameSet
    BY <2>1, BuiltLevelShape
  <2>3. QED
    BY <2>2 DEF NameSet
<1>3. \A k \in 1 .. XfmrsOf(st) : st.transformers[k].name \in Stems \X Nat \X Seq(STRING)
  BY Counts DEF TransformerSet, NameSet
<1> DEFINE Low(r) == r \in DOMAIN st.levels /\ a[r] = LowAlarm(st.levels[r])
           n == IF st.scada.undervoltage THEN Len(st.levels) ELSE 0
           Trip(r, k) == r = n + k /\ a[r] = TripAlarm(st.transformers[k])
<1>4. \A r \in DOMAIN a : Low(r) \/ \E k \in 1 .. XfmrsOf(st) : Trip(r, k)
  <2> SUFFICES ASSUME NEW r \in DOMAIN a PROVE Low(r) \/ \E k \in 1 .. XfmrsOf(st) : Trip(r, k)
    OBVIOUS
  <2>1. \/ Low(r)
        \/ \E n1 \in Nat, k \in 1 .. XfmrsOf(st) :
                /\ n1 = IF st.scada.undervoltage THEN Len(st.levels) ELSE 0
                /\ r = n1 + k /\ a[r] = TripAlarm(st.transformers[k])
    BY AlarmPlaces
  <2>2. QED
    BY <2>1
<1>5. CASE Low(p) /\ Low(q)
  <2>1. Suffixed(st.levels[p].name, "_VOLTAGE_LOW") = Suffixed(st.levels[q].name, "_VOLTAGE_LOW")
    BY <1>1, <1>5
  <2>2. st.levels[p].name = st.levels[q].name
    BY <1>2, <1>5, <2>1, SuffixedInjective
  <2>3. QED
    BY <1>5, <2>2, LevelNamesDiffer
<1>6. ASSUME NEW r \in DOMAIN a, NEW o \in DOMAIN a, NEW k \in 1 .. XfmrsOf(st), Low(r), Trip(o, k)
      PROVE a[r].id # a[o].id
  <2>1. a[r].id = Suffixed(st.levels[r].name, "_VOLTAGE_LOW") /\ a[o].id = Suffixed(st.transformers[k].name, "_DIFF_TRIP")
    BY <1>1, <1>6
  <2>2. Suffixed(st.levels[r].name, "_VOLTAGE_LOW") = Suffixed(st.transformers[k].name, "_DIFF_TRIP")
        => "_VOLTAGE_LOW" = "_DIFF_TRIP"
    BY <1>2, <1>3, <1>6, SuffixedInjective
  <2>3. QED
    BY <2>1, <2>2
<1>7. ASSUME NEW j \in 1 .. XfmrsOf(st), NEW k \in 1 .. XfmrsOf(st), Trip(p, j), Trip(q, k)
      PROVE p = q
  <2>1. Suffixed(st.transformers[j].name, "_DIFF_TRIP") = Suffixed(st.transformers[k].name, "_DIFF_TRIP")
    <3>1. a[p] = TripAlarm(st.transformers[j]) /\ a[q] = TripAlarm(st.transformers[k])
      BY <1>7
    <3> HIDE DEF a
    <3>2. TripAlarm(st.transformers[j]).id = TripAlarm(st.transformers[k]).id
      BY <3>1
    <3>3. QED
      BY <1>1, <3>2
  <2>2. st.transformers[j].name = st.transformers[k].name
    BY <1>3, <2>1, SuffixedInjective
  <2>3. IedAt(st, BreakersOf(st) + j).name = IedAt(st, BreakersOf(st) + k).name
    BY <2>2, NamesOfIeds
  <2>4. BreakersOf(st) + j = BreakersOf(st) + k
    BY <2>3, NamesDiffer, PublisherPlaces
  <2>5. BreakersOf(st) \in Nat /\ j \in Nat /\ k \in Nat
    BY Counts
  <2>6. j = k
    BY <2>4, <2>5
  <2>7. QED
    BY <1>7, <2>6
<1> HIDE DEF Low, Trip, a
<1>8. QED
  BY <1>4, <1>5, <1>6, <1>7

\* Where the ranges of the host numbers are apart, no two publishers share one.
LEMMA HostsDiffer ==
    ASSUME NEW st, StationOk(st),
           \/ st.network.hostBreakers + BreakersOf(st) <= st.network.hostTransformers
           \/ st.network.hostTransformers + XfmrsOf(st) <= st.network.hostBreakers,
           NEW i \in Publishers(st), NEW j \in Publishers(st),
           ApAt(st, i).address[1] = ApAt(st, j).address[1]
    PROVE  i = j
<1> DEFINE n == BreakersOf(st)
           m == XfmrsOf(st)
           b == st.network.hostBreakers
           x == st.network.hostTransformers
           host(k) == ApAt(st, k).address[1]
<1>1. n \in Nat /\ m \in Nat /\ b \in Nat /\ x \in Nat
  BY Counts DEF StationOk, NetworkSet
<1>2. \A k \in 1 .. n : host(k) = b + k - 1
  <2> TAKE k \in 1 .. n
  <2>1. ApAt(st, k) = BreakerAp(st, k, AllBreakers(st)[k])
    BY ApsOfDocument
  <2>2. \A y : BreakerAp(st, k, y).address = <<b + k - 1>>
    BY DEF BreakerAp
  <2>3. QED
    BY <2>1, <2>2
<1>3. \A k \in 1 .. m : host(n + k) = x + k - 1
  <2> TAKE k \in 1 .. m
  <2>1. ApAt(st, n + k) = TransformerAp(st, k, st.transformers[k])
    BY ApsOfDocument
  <2>2. \A y : TransformerAp(st, k, y).address = <<x + k - 1>>
    BY DEF TransformerAp
  <2>3. QED
    BY <2>1, <2>2
<1>4. \A k \in Publishers(st) : k \in 1 .. n \/ \E h \in 1 .. m : k = n + h
  BY PublisherPlaces
<1>5. (b + n <= x \/ x + m <= b) /\ host(i) = host(j)
  OBVIOUS
<1> HIDE DEF n, m, b, x, host
<1>6. CASE i \in 1 .. n /\ j \in 1 .. n
  BY <1>1, <1>2, <1>5, <1>6
<1>7. ASSUME NEW g \in 1 .. m, NEW h \in 1 .. m, i = n + g, j = n + h PROVE i = j
  BY <1>1, <1>3, <1>5, <1>7
<1>8. ASSUME NEW g \in 1 .. n, NEW h \in 1 .. m PROVE host(g) # host(n + h)
  <2>1. host(g) = b + g - 1 /\ host(n + h) = x + h - 1
    BY <1>2, <1>3
  <2>2. QED
    BY <1>1, <1>5, <2>1
<1>9. QED
  BY <1>4, <1>5, <1>6, <1>7, <1>8

\* The SCADA daemon of every compiled station polls every IED once, over the
\* group all of them publish to, at hosts of their own where the two ranges
\* are apart; its alarms are distinct, and each is about a point or a scheme
\* that the configuration of the IED has.
THEOREM ScadaSeesStation == ToolSpec => []ScadaSeesAll
<1>1. ASSUME ToolInv PROVE ScadaSeesAll
  <2> SUFFICES ASSUME status = "compiled" PROVE ScadaSeesAll
    BY DEF ScadaSeesAll
  <2> DEFINE st == Station
             ieds == Scada.ieds
  <2>1. /\ StationOk(st) /\ SchemaValid(Document(st))
        /\ \A c \in Ieds : \E i \in Publishers(st) : c = Config(st, i)
        /\ \A i \in Publishers(st) : Config(st, i) \in Ieds
        /\ Scada = ScadaConfig(st)
        /\ st.levels = levels /\ st.transformers = transformers
        /\ st.network = settings.network /\ st.scada = settings.scada
    BY <1>1, Compiled
  <2>2. HostsApart => \/ st.network.hostBreakers + BreakersOf(st) <= st.network.hostTransformers
                      \/ st.network.hostTransformers + XfmrsOf(st) <= st.network.hostBreakers
    BY <2>1 DEF HostsApart, BreakersOf, XfmrsOf
  <2> HIDE DEF st
  <2>3. Scada.group = "255.10" /\ Scada.alarms = Alarms(st)
    BY <2>1, ScadaParts
  <2>4. PICK f \in [DOMAIN ieds -> Publishers(st)] :
           /\ \A p, q \in DOMAIN ieds : f[p] = f[q] => p = q
           /\ \A i \in Publishers(st) : \E p \in DOMAIN ieds : f[p] = i
           /\ \A p \in DOMAIN ieds : /\ ieds[p].name = IedAt(st, f[p]).name
                                     /\ ieds[p].ip = ApAt(st, f[p]).address[1]
    BY <2>1, ScadaParts
  <2> HIDE DEF ieds
  <2>5. \A i \in Publishers(st) : Config(st, i).name = IedAt(st, i).name
    BY ConfigParts
  <2>6. Distinct(Names(ieds))
    <3> SUFFICES ASSUME NEW p \in DOMAIN ieds, NEW q \in DOMAIN ieds, ieds[p].name = ieds[q].name PROVE p = q
      BY DEF Distinct, Names, Each
    <3>1. f[p] \in 1 .. ScadaPlace(st) /\ f[q] \in 1 .. ScadaPlace(st)
      BY <2>1, <2>4, PublisherPlaces
    <3>2. IedAt(st, f[p]).name = IedAt(st, f[q]).name
      BY <2>4
    <3>3. f[p] = f[q]
      BY <2>1, <3>1, <3>2, NamesDiffer
    <3>4. QED
      BY <2>4, <3>3
  <2>7. Range(Names(ieds)) = {c.name : c \in Ieds}
    <3>1. Range(Names(ieds)) = {ieds[p].name : p \in DOMAIN ieds}
      BY DEF Names, Each, Range
    <3>2. ASSUME NEW p \in DOMAIN ieds PROVE \E c \in Ieds : ieds[p].name = c.name
      BY <2>1, <2>4, <2>5
    <3>3. ASSUME NEW c \in Ieds PROVE \E p \in DOMAIN ieds : ieds[p].name = c.name
      <4>1. PICK i \in Publishers(st) : c = Config(st, i)
        BY <2>1
      <4>2. PICK p \in DOMAIN ieds : f[p] = i
        BY <2>4
      <4>3. QED
        BY <2>4, <2>5, <4>1, <4>2
    <3>4. QED
      BY <3>1, <3>2, <3>3
  <2>8. HostsApart => Distinct(Each(LAMBDA e : e.ip, ieds))
    <3> SUFFICES ASSUME HostsApart, NEW p \in DOMAIN ieds, NEW q \in DOMAIN ieds, ieds[p].ip = ieds[q].ip
                 PROVE  p = q
      BY DEF Distinct, Each
    <3>1. ApAt(st, f[p]).address[1] = ApAt(st, f[q]).address[1] /\ f[p] \in Publishers(st) /\ f[q] \in Publishers(st)
      BY <2>4
    <3>2. f[p] = f[q]
      BY <2>1, <2>2, <3>1, HostsDiffer
    <3>3. QED
      BY <2>4, <3>2
  <2>9. \A c \in Ieds : c.goose[1].group = Scada.group
    <3> TAKE c \in Ieds
    <3>1. PICK i \in Publishers(st) : c = Config(st, i)
      BY <2>1
    <3> DEFINE burst == BurstLadder(st.network.minTime, st.network.maxTime)
    <3>2. c.goose = <<[group |-> "255.10", port |-> <<8104>>, heartbeat |-> st.network.maxTime,
                       burst |-> burst]>>
      BY <2>1, <3>1, GooseOf
    <3> HIDE DEF burst
    <3>3. QED
      BY <2>3, <3>2
  <2>10. Distinct(Each(LAMBDA a : a.id, Scada.alarms))
    BY <2>1, <2>3, AlarmsDistinct
  <2>11. \A a \in Range(Scada.alarms) : \E c \in Ieds :
            c.name = a.ied /\ (Has(c, a.ref) \/ HasScheme(c, a.ref))
    <3> SUFFICES ASSUME NEW p \in DOMAIN Alarms(st)
                 PROVE  \E c \in Ieds : /\ c.name = Alarms(st)[p].ied
                                        /\ Has(c, Alarms(st)[p].ref) \/ HasScheme(c, Alarms(st)[p].ref)
      BY <2>3 DEF Range
    <3>1. CASE p \in DOMAIN st.levels /\ Alarms(st)[p] = LowAlarm(st.levels[p])
      <4>1. st.levels[p] \in Range(st.levels)
        BY <3>1 DEF Range
      <4>2. PICK i \in Publishers(st) : /\ Config(st, i).name = Breakers(st.levels[p])[1].name
                                        /\ Has(Config(st, i), Ref("MMXU1", "Vol"))
        BY <2>1, <4>1, AlarmsExist
      <4>3. /\ Alarms(st)[p].ied = Breakers(st.levels[p])[1].name
            /\ Alarms(st)[p].ref = Ref("MMXU1", "Vol")
        BY <3>1 DEF LowAlarm
      <4>4. QED
        BY <2>1, <4>2, <4>3
    <3>2. ASSUME NEW k \in 1 .. XfmrsOf(st), Alarms(st)[p] = TripAlarm(st.transformers[k])
          PROVE  \E c \in Ieds : /\ c.name = Alarms(st)[p].ied
                                 /\ Has(c, Alarms(st)[p].ref) \/ HasScheme(c, Alarms(st)[p].ref)
      <4> DEFINE i == BreakersOf(st) + k
      <4>1. i \in Publishers(st)
        BY <2>1, PublisherPlaces
      <4>2. HasScheme(Config(st, i), Ref("PDIF1", "Op"))
        BY <2>1, TransformerScheme
      <4>3. IedAt(st, i).name = st.transformers[k].name
        BY <2>1, NamesOfIeds
      <4>4. Alarms(st)[p].ied = st.transformers[k].name /\ Alarms(st)[p].ref = Ref("PDIF1", "Op")
        BY <3>2 DEF TripAlarm
      <4> HIDE DEF i
      <4>5. QED
        BY <2>1, <2>5, <4>1, <4>2, <4>3, <4>4
    <3>3. \/ p \in DOMAIN st.levels /\ Alarms(st)[p] = LowAlarm(st.levels[p])
          \/ \E k \in 1 .. XfmrsOf(st) : Alarms(st)[p] = TripAlarm(st.transformers[k])
      BY <2>1, AlarmPlaces
    <3>4. QED
      BY <3>1, <3>2, <3>3
  <2>12. QED
    BY <2>6, <2>7, <2>8, <2>9, <2>10, <2>11 DEF ScadaSeesAll, ieds
<1>2. QED
  BY <1>1, ToolInvariant, PTL

-----------------------------------------------------------------------------
(* Interlocks. *)

\* A function of the naturals up to n that is defined by recursion exists.
LEMMA Recursion ==
    ASSUME NEW n \in Nat, NEW S, NEW s0 \in S, NEW step \in [S \X (1 .. n) -> S]
    PROVE  \E f \in [0 .. n -> S] : f[0] = s0 /\ \A i \in 1 .. n : f[i] = step[<<f[i - 1], i>>]
<1> DEFINE Body(f, i) == IF i = 0 THEN s0 ELSE step[<<f[i - 1], i>>]
           Is(f, m) == f \in [0 .. m -> S] /\ \A i \in 0 .. m : f[i] = Body(f, i)
           T == {m \in Nat : m <= n => \E f : Is(f, m)}
<1>1. 0 \in T
  <2> DEFINE f == [i \in 0 .. 0 |-> s0]
  <2>1. Is(f, 0)
    OBVIOUS
  <2> HIDE DEF Is
  <2>2. QED
    BY <2>1
<1>2. ASSUME NEW m \in Nat, m \in T PROVE m + 1 \in T
  <2> SUFFICES ASSUME m + 1 <= n PROVE \E f : Is(f, m + 1)
    OBVIOUS
  <2>1. PICK f : Is(f, m)
    BY <1>2
  <2> DEFINE g == [i \in 0 .. m + 1 |-> IF i = m + 1 THEN step[<<f[m], m + 1>>] ELSE f[i]]
  <2>2. f[m] \in S /\ m + 1 \in 1 .. n
    BY <2>1
  <2>3. step[<<f[m], m + 1>>] \in S
    BY <2>2
  <2>4. \A i \in 0 .. m : f[i] \in S /\ f[i] = Body(f, i) /\ g[i] = f[i]
    BY <2>1
  <2>5. g \in [0 .. m + 1 -> S]
    <3> DEFINE G(i) == IF i = m + 1 THEN step[<<f[m], m + 1>>] ELSE f[i]
    <3>1. \A i \in 0 .. m + 1 : i \in 0 .. m \/ i = m + 1
      OBVIOUS
    <3>2. \A i \in 0 .. m + 1 : G(i) \in S
      BY <2>3, <2>4, <3>1
    <3> HIDE DEF G
    <3>3. [i \in 0 .. m + 1 |-> G(i)] \in [0 .. m + 1 -> S]
      BY <3>2
    <3>4. QED
      BY <3>3 DEF G
  <2>6. g[m + 1] = step[<<f[m], m + 1>>]
    OBVIOUS
  <2>7. \A i \in 0 .. m + 1 : i \in 0 .. m \/ i = m + 1
    OBVIOUS
  <2> HIDE DEF g
  <2>8. ASSUME NEW i \in 0 .. m PROVE g[i] = Body(g, i)
    <3>1. i # 0 => i - 1 \in 0 .. m
      OBVIOUS
    <3>2. QED
      BY <2>4, <3>1
  <2>9. g[m + 1] = Body(g, m + 1)
    <3>1. m + 1 # 0 /\ m + 1 - 1 = m /\ m \in 0 .. m
      OBVIOUS
    <3>2. Body(g, m + 1) = step[<<g[m], m + 1>>]
      BY <3>1
    <3>3. g[m] = f[m]
      BY <2>4, <3>1
    <3> HIDE DEF Body
    <3>4. QED
      BY <2>6, <3>2, <3>3
  <2>10. Is(g, m + 1)
    BY <2>5, <2>7, <2>8, <2>9
  <2> HIDE DEF Is
  <2>11. QED
    BY <2>10
<1>3. n \in T
  <2> HIDE DEF T
  <2> QED
    BY <1>1, <1>2, Induction
<1>4. PICK f : Is(f, n)
  BY <1>3
<1>5. f \in [0 .. n -> S] /\ f[0] = s0
  <2>1. 0 \in 0 .. n
    OBVIOUS
  <2>2. QED
    BY <1>4, <2>1
<1>6. \A i \in 1 .. n : f[i] = step[<<f[i - 1], i>>]
  BY <1>4
<1>7. QED
  BY <1>5, <1>6

Bounding(lv, i) == BreakersBounding(TapNode(i), lv.breakers)
Named(pair) == {pair[1].name, pair[2].name}
PairsOf(lv) == {Bounding(lv, i) : i \in {j \in DOMAIN lv.taps : Len(Bounding(lv, j)) = 2}}
IsFree(pairs, pair) == \A p \in Range(pairs) : Named(p) \cap Named(pair) = {}
NextPairs(lv, pairs, i) ==
    IF Len(Bounding(lv, i)) = 2 /\ IsFree(pairs, Bounding(lv, i))
    THEN Append(pairs, Bounding(lv, i)) ELSE pairs

\* The pairs that interlock are taken tap by tap.
LEMMA PairsTapByTap ==
    ASSUME NEW lv, NEW n \in Nat, Len(lv.taps) = n, DOMAIN lv.taps = 1 .. n
    PROVE  \E f \in [0 .. n -> Seq(PairsOf(lv))] :
             /\ f[0] = <<>> /\ \A i \in 1 .. n : f[i] = NextPairs(lv, f[i - 1], i)
             /\ IllustrativeInterlocks(lv) = f[n]
<1> DEFINE S == Seq(PairsOf(lv))
           Body(f, i) == IF i = 0 THEN <<>> ELSE NextPairs(lv, f[i - 1], i)
           Is(f) == f = [i \in 0 .. n |-> Body(f, i)]
           pairs == CHOOSE f : Is(f)
           step == [z \in S \X (1 .. n) |-> NextPairs(lv, z[1], z[2])]
<1>1. ASSUME NEW s \in S, NEW i \in 1 .. n PROVE NextPairs(lv, s, i) \in S
  <2>1. Len(Bounding(lv, i)) = 2 => Bounding(lv, i) \in PairsOf(lv)
    BY DEF PairsOf
  <2> DEFINE b == Bounding(lv, i)
             R == PairsOf(lv)
  <2>2. s \in Seq(R)
    OBVIOUS
  <2> HIDE DEF b, R
  <2>3. b \in R => Append(s, b) \in Seq(R)
    BY <2>2
  <2>4. QED
    BY <2>1, <2>3 DEF NextPairs, b, R
<1>2. step \in [S \X (1 .. n) -> S]
  <2> HIDE DEF S
  <2>1. \A z \in S \X (1 .. n) : NextPairs(lv, z[1], z[2]) \in S
    BY <1>1
  <2>2. QED
    BY <2>1
<1>3. <<>> \in S
  OBVIOUS
<1>4. \A s \in S, i \in 1 .. n : step[<<s, i>>] = NextPairs(lv, s, i)
  <2> HIDE DEF S
  <2>1. QED
    OBVIOUS
<1> HIDE DEF S, step
<1>5. PICK f \in [0 .. n -> S] : f[0] = <<>> /\ \A i \in 1 .. n : f[i] = step[<<f[i - 1], i>>]
  <2>1. \A s0 \in S : \E f \in [0 .. n -> S] : f[0] = s0 /\ \A i \in 1 .. n : f[i] = step[<<f[i - 1], i>>]
    BY <1>2, Recursion
  <2> DEFINE e == <<>>
  <2>2. e \in S
    BY <1>3
  <2> HIDE DEF e
  <2>3. \E f \in [0 .. n -> S] : f[0] = e /\ \A i \in 1 .. n : f[i] = step[<<f[i - 1], i>>]
    BY <2>1, <2>2
  <2>4. QED
    BY <2>3 DEF e
<1>6. \A i \in 0 .. n : f[i] = Body(f, i)
  <2> TAKE i \in 0 .. n
  <2>1. CASE i = 0
    BY <1>5, <2>1
  <2>2. CASE i # 0
    <3>1. f[i - 1] \in S /\ i \in 1 .. n
      BY <2>2
    <3>2. QED
      BY <1>4, <1>5, <2>2, <3>1
  <2>3. QED
    BY <2>1, <2>2
<1>7. f = [i \in 0 .. n |-> f[i]]
  OBVIOUS
<1> HIDE DEF Body
<1>8. Is(f)
  BY <1>6, <1>7
<1> HIDE DEF Is
<1>9. Is(pairs)
  BY <1>8
<1>10. IllustrativeInterlocks(lv) = pairs[n]
  <2>1. IllustrativeInterlocks(lv) =
          (CHOOSE g : g = [i \in 0 .. n |->
              IF i = 0 THEN <<>>
              ELSE IF /\ Len(BreakersBounding(TapNode(i), lv.breakers)) = 2
                      /\ \A p \in Range(g[i - 1]) :
                           {p[1].name, p[2].name} \cap
                             {BreakersBounding(TapNode(i), lv.breakers)[1].name,
                              BreakersBounding(TapNode(i), lv.breakers)[2].name} = {}
                   THEN Append(g[i - 1], BreakersBounding(TapNode(i), lv.breakers)) ELSE g[i - 1]])[n]
    BY DEF IllustrativeInterlocks
  <2>2. QED
    BY <2>1 DEF Is, Body, NextPairs, IsFree, Named, Bounding
<1> HIDE DEF pairs
<1>11. pairs[0] = <<>> /\ \A i \in 1 .. n : pairs[i] = NextPairs(lv, pairs[i - 1], i)
  BY <1>9 DEF Is, Body
<1>12. DOMAIN pairs = 0 .. n /\ pairs = [i \in 0 .. n |-> pairs[i]]
  BY <1>9 DEF Is
<1>13. \A i \in 0 .. n : pairs[i] \in S
  <2> DEFINE T == {i \in Nat : i <= n => pairs[i] \in S}
  <2>1. 0 \in T
    BY <1>3, <1>11
  <2>2. ASSUME NEW i \in Nat, i \in T PROVE i + 1 \in T
    <3> SUFFICES ASSUME i + 1 <= n PROVE pairs[i + 1] \in S
      OBVIOUS
    <3>1. pairs[i] \in S /\ i + 1 \in 1 .. n /\ i + 1 - 1 = i
      BY <2>2
    <3>2. pairs[i + 1] = NextPairs(lv, pairs[i], i + 1)
      BY <1>11, <3>1
    <3>3. QED
      BY <1>1, <3>1, <3>2
  <2> HIDE DEF T
  <2>3. Nat \subseteq T
    BY <2>1, <2>2, Induction
  <2>4. QED
    BY <2>3 DEF T
<1>14. pairs \in [0 .. n -> S]
  BY <1>12, <1>13
<1>15. QED
  BY <1>10, <1>11, <1>14 DEF S

\* The elements of a sequence that pass a test are among its elements, each in
\* its place.
LEMMA BoundingShape ==
    ASSUME NEW lv, lv.breakers \in Seq(Devices), NEW i, Len(Bounding(lv, i)) = 2
    PROVE  \E k, l \in DOMAIN lv.breakers :
             /\ k < l /\ lv.breakers[k].type = "CBR" /\ lv.breakers[l].type = "CBR"
             /\ Bounding(lv, i)[1] = lv.breakers[k] /\ Bounding(lv, i)[2] = lv.breakers[l]
<1> DEFINE s == lv.breakers
           reached == Reached(TapNode(i), {Ends(b) : b \in {d \in Range(s) : ~IsCbr(d)}})
           P == {k \in DOMAIN s : IsCbr(s[k]) /\ Ends(s[k]) \cap reached # {}}
           t == At(s, P)
<1>1. Bounding(lv, i) = t
  BY DEF Bounding, BreakersBounding, Chosen
<1>2. s \in Seq(Devices) /\ P \in SUBSET DOMAIN s /\ \A k \in P : s[k].type = "CBR"
  BY DEF IsCbr
<1> HIDE DEF s, P
<1>3. At(s, P) \in Seq(Devices) /\ Picks(At(s, P), s, P)
  BY <1>2, AtPicks
<1> HIDE DEF t
<1>4. PICK f \in [DOMAIN t -> P] :
             /\ \A p \in DOMAIN t : t[p] = s[f[p]]
             /\ \A p, q \in DOMAIN t : p < q => f[p] < f[q]
  BY <1>3 DEF Picks, t
<1>5. t \in Seq(Devices) /\ Len(t) = 2
  BY <1>1, <1>3 DEF t
<1>6. 1 \in DOMAIN t /\ 2 \in DOMAIN t
  BY <1>5
<1>7. f[1] < f[2] /\ f[1] \in P /\ f[2] \in P /\ t[1] = s[f[1]] /\ t[2] = s[f[2]]
  BY <1>4, <1>6
<1>8. QED
  BY <1>1, <1>2, <1>7 DEF s

\* A pair that interlocks are the two breakers bounding a tap.
LEMMA BoundingOf ==
    ASSUME NEW lv \in BuiltLevels, NEW pair \in Range(IllustrativeInterlocks(lv))
    PROVE  \E i \in DOMAIN lv.taps : pair = Bounding(lv, i) /\ Len(Bounding(lv, i)) = 2
<1> DEFINE n == Len(lv.taps)
           R == PairsOf(lv)
           s == IllustrativeInterlocks(lv)
<1>1. lv.taps \in Seq(TapSet)
  BY BuiltLevelShape
<1>2. n \in Nat /\ DOMAIN lv.taps = 1 .. n
  BY <1>1
<1>3. s \in Seq(R)
  <2>1. PICK f \in [0 .. n -> Seq(PairsOf(lv))] : s = f[n]
    BY <1>2, PairsTapByTap
  <2>2. QED
    BY <1>2, <2>1
<1> HIDE DEF s, R
<1>4. \A p \in Range(s) : p \in R
  BY <1>3 DEF Range
<1>5. pair \in R
  BY <1>4 DEF s
<1>6. QED
  BY <1>5 DEF R, PairsOf

\* Which devices a selection picks.
LEMMA DevicesAt ==
    ASSUME NEW s \in Seq(Devices), NEW P \in SUBSET DOMAIN s
    PROVE  \E f \in [DOMAIN At(s, P) -> P] :
             /\ \A p \in DOMAIN At(s, P) : At(s, P)[p] = s[f[p]]
             /\ \A p, q \in DOMAIN At(s, P) : p < q => f[p] < f[q]
             /\ \A k \in P : \E p \in DOMAIN At(s, P) : f[p] = k
BY AtPlaces

\* Breakers at different places of a level have different numbers.
LEMMA BreakersApart ==
    ASSUME NEW st, StationOk(st), SchemaValid(Document(st)), NEW v \in DOMAIN st.levels,
           NEW k \in DOMAIN st.levels[v].breakers, NEW l \in DOMAIN st.levels[v].breakers,
           st.levels[v].breakers[k].type = "CBR", st.levels[v].breakers[l].type = "CBR"
    PROVE  \E i, j \in 1 .. BreakersOf(st) :
             /\ AllBreakers(st)[i] = st.levels[v].breakers[k]
             /\ AllBreakers(st)[j] = st.levels[v].breakers[l]
             /\ i = j => k = l
<1> DEFINE L == st.levels
           s == L[v].breakers
           P == {x \in DOMAIN s : s[x].type = "CBR"}
           t == Breakers(L[v])
           lists == [x \in DOMAIN L |-> Breakers(L[x])]
           all == AllBreakers(st)
<1>1. L \in Seq(BuiltLevels)
  BY DEF StationOk
<1>2. L[v] \in BuiltLevels /\ v \in Nat
  BY <1>1
<1>3. s \in Seq(Devices)
  BY <1>2, BuiltLevelShape
<1>4. t = At(s, P)
  BY DEF Breakers, Chosen, IsCbr
<1>5. lists \in Seq(Seq(BreakerSet))
  <2>1. \A x \in DOMAIN L : lists[x] \in Seq(BreakerSet)
    <3> TAKE x \in DOMAIN L
    <3>1. L[x] \in BuiltLevels
      BY <1>1
    <3>2. QED
      BY <3>1, LevelBreakers
  <2> DEFINE W == Seq(BreakerSet)
  <2>2. DOMAIN lists = DOMAIN L /\ lists = [x \in DOMAIN L |-> lists[x]]
    OBVIOUS
  <2> HIDE DEF L, lists, W
  <2>3. QED
    BY <1>1, <2>1, <2>2, ImageSeq DEF W
<1>6. all = FlattenSeq(lists)
  BY DEF AllBreakers, Each
<1>7. k \in P /\ l \in P /\ P \in SUBSET DOMAIN s
  OBVIOUS
<1>8. lists[v] = t /\ v \in DOMAIN lists
  OBVIOUS
<1> HIDE DEF s, P, L
<1>9. \E f \in [DOMAIN At(s, P) -> P] :
         /\ \A p \in DOMAIN At(s, P) : At(s, P)[p] = s[f[p]]
         /\ \A p, q \in DOMAIN At(s, P) : p < q => f[p] < f[q]
         /\ \A x \in P : \E p \in DOMAIN At(s, P) : f[p] = x
  BY <1>3, <1>7, DevicesAt
<1> HIDE DEF t
<1>10. PICK f \in [DOMAIN t -> P] :
         /\ \A p \in DOMAIN t : t[p] = s[f[p]]
         /\ \A x \in P : \E p \in DOMAIN t : f[p] = x
  BY <1>4, <1>9
<1>11. PICK p \in DOMAIN t, q \in DOMAIN t : f[p] = k /\ f[q] = l
  BY <1>7, <1>10
<1> HIDE DEF lists, all
<1>12. PICK at : Lists(FlattenSeq(lists), lists, at)
  BY <1>5, FlattenLists
<1>13. \A x \in DOMAIN t : x \in Nat
  <2>1. t \in Seq(BreakerSet)
    BY <1>2, LevelBreakers DEF t
  <2>2. QED
    BY <2>1
<1>14. <<v, p>> \in Places(lists) /\ <<v, q>> \in Places(lists)
  BY <1>2, <1>8, <1>13 DEF Places
<1>15. PICK i \in DOMAIN all, j \in DOMAIN all : at[i] = <<v, p>> /\ at[j] = <<v, q>>
  BY <1>6, <1>12, <1>14 DEF Lists
<1>16. all[i] = lists[v][p] /\ all[j] = lists[v][q]
  <2>1. all[i] = lists[at[i][1]][at[i][2]] /\ all[j] = lists[at[j][1]][at[j][2]]
    BY <1>6, <1>12, <1>15 DEF Lists
  <2>2. QED
    BY <1>15, <2>1
<1>17. all[i] = s[k] /\ all[j] = s[l]
  BY <1>8, <1>10, <1>11, <1>16
<1>18. i = j => k = l
  <2>1. i = j => <<v, p>> = <<v, q>>
    BY <1>15
  <2>2. <<v, p>> = <<v, q>> => p = q
    OBVIOUS
  <2>3. QED
    BY <1>11, <2>1, <2>2
<1>19. DOMAIN all = 1 .. BreakersOf(st)
  BY Counts DEF all
<1>20. QED
  BY <1>15, <1>17, <1>18, <1>19 DEF all, s, L

\* The two breakers of a pair have different names.
LEMMA PairApart ==
    ASSUME NEW st, StationOk(st), SchemaValid(Document(st)), NEW lv \in Range(st.levels),
           NEW pair \in Range(IllustrativeInterlocks(lv))
    PROVE  \E i, j \in 1 .. BreakersOf(st) :
             /\ i # j /\ IedAt(st, i).name = pair[1].name /\ IedAt(st, j).name = pair[2].name
<1>1. PICK v \in DOMAIN st.levels : lv = st.levels[v]
  BY DEF Range
<1>2. lv \in BuiltLevels
  BY <1>1 DEF StationOk
<1>3. PICK t : pair = Bounding(lv, t) /\ Len(Bounding(lv, t)) = 2
  BY <1>2, BoundingOf
<1>4. lv.breakers \in Seq(Devices)
  BY <1>2, BuiltLevelShape
<1>5. PICK k \in DOMAIN lv.breakers, l \in DOMAIN lv.breakers :
             /\ k < l /\ lv.breakers[k].type = "CBR" /\ lv.breakers[l].type = "CBR"
             /\ pair[1] = lv.breakers[k] /\ pair[2] = lv.breakers[l]
  BY <1>3, <1>4, BoundingShape
<1>6. k \in Nat /\ l \in Nat
  BY <1>4
<1>7. PICK i \in 1 .. BreakersOf(st), j \in 1 .. BreakersOf(st) :
             /\ AllBreakers(st)[i] = lv.breakers[k] /\ AllBreakers(st)[j] = lv.breakers[l]
             /\ i = j => k = l
  BY <1>1, <1>5, BreakersApart
<1>8. i # j
  BY <1>5, <1>6, <1>7
<1>9. IedAt(st, i).name = AllBreakers(st)[i].name /\ IedAt(st, j).name = AllBreakers(st)[j].name
  BY NamesOfIeds
<1>10. QED
  BY <1>5, <1>7, <1>8, <1>9

\* What a name is paired with.
LEMMA OfPairs ==
    ASSUME NEW S, NEW pairs \in Seq(S), NEW name
    PROVE  /\ \A k \in DOMAIN Of(name, pairs) : <<name, Of(name, pairs)[k]>> \in
                    {<<p[1], p[2]>> : p \in Range(pairs)}
           /\ \A p \in Range(pairs) : p[1] = name =>
                    \E k \in DOMAIN Of(name, pairs) : Of(name, pairs)[k] = p[2]
<1> DEFINE P == {k \in DOMAIN pairs : pairs[k][1] = name}
           t == At(pairs, P)
<1>1. Of(name, pairs) = [k \in DOMAIN t |-> t[k][2]]
  BY DEF Of, Each, Chosen
<1>2. P \in SUBSET DOMAIN pairs
  OBVIOUS
<1>3. Range(t) = {pairs[k] : k \in P}
  BY <1>2, RangeAt
<1> HIDE DEF t
<1>4. ASSUME NEW k \in DOMAIN t PROVE t[k] \in Range(pairs) /\ t[k][1] = name
  <2>1. t[k] \in Range(t)
    BY DEF Range
  <2>2. PICK j \in P : t[k] = pairs[j]
    BY <1>3, <2>1
  <2>3. QED
    BY <2>2 DEF Range
<1>5. ASSUME NEW p \in Range(pairs), p[1] = name PROVE \E k \in DOMAIN t : t[k] = p
  <2>1. PICK j \in DOMAIN pairs : pairs[j] = p
    BY DEF Range
  <2>2. j \in P
    BY <1>5, <2>1
  <2>3. p \in Range(t)
    BY <1>3, <2>1, <2>2
  <2>4. QED
    BY <2>3 DEF Range
<1> HIDE DEF P
<1>6. ASSUME NEW k \in DOMAIN t PROVE <<name, t[k][2]>> \in {<<p[1], p[2]>> : p \in Range(pairs)}
  <2>1. <<name, t[k][2]>> = <<t[k][1], t[k][2]>>
    BY <1>4
  <2>2. QED
    BY <1>4, <2>1
<1>7. QED
  BY <1>1, <1>5, <1>6

Both(pair) == <<<<pair[1].name, pair[2].name>>, <<pair[2].name, pair[1].name>>>>
BothWays(lv) == FlattenSeq([k \in DOMAIN IllustrativeInterlocks(lv) |-> Both(IllustrativeInterlocks(lv)[k])])

\* The pairs of a level, both ways round.
LEMMA LevelInterlocks ==
    ASSUME NEW lv \in BuiltLevels
    PROVE  \E T : /\ BothWays(lv) \in Seq(T)
                  /\ \A q : q \in Range(BothWays(lv)) <=>
                       \E pair \in Range(IllustrativeInterlocks(lv)) :
                          q = <<pair[1].name, pair[2].name>> \/ q = <<pair[2].name, pair[1].name>>
<1> DEFINE s == IllustrativeInterlocks(lv)
           ss == [k \in DOMAIN s |-> Both(s[k])]
           T == {<<pair[1].name, pair[2].name>> : pair \in Range(s)}
                \cup {<<pair[2].name, pair[1].name>> : pair \in Range(s)}
           n == Len(lv.taps)
           R == PairsOf(lv)
<1>1. s \in Seq(R)
  <2>1. lv.taps \in Seq(TapSet)
    BY BuiltLevelShape
  <2>2. n \in Nat /\ DOMAIN lv.taps = 1 .. n
    BY <2>1
  <2>3. PICK f \in [0 .. n -> Seq(PairsOf(lv))] : s = f[n]
    BY <2>2, PairsTapByTap
  <2>4. QED
    BY <2>2, <2>3
<1>2. BothWays(lv) = FlattenSeq(ss)
  BY DEF BothWays
<1> HIDE DEF s, R
<1>3. ASSUME NEW k \in DOMAIN s
      PROVE  /\ ss[k] \in Seq(T)
             /\ Range(ss[k]) = {<<s[k][1].name, s[k][2].name>>, <<s[k][2].name, s[k][1].name>>}
  <2> DEFINE a == <<s[k][1].name, s[k][2].name>>
             b == <<s[k][2].name, s[k][1].name>>
  <2>1. s[k] \in Range(s)
    BY DEF Range
  <2>2. a \in T /\ b \in T
    BY <2>1
  <2>3. ss[k] = <<a, b>>
    BY DEF Both
  <2> HIDE DEF a, b, T, ss
  <2>4. <<a, b>> \in Seq(T) /\ Range(<<a, b>>) = {a, b}
    BY <2>2 DEF Range
  <2>5. QED
    BY <2>3, <2>4 DEF a, b
<1> DEFINE W == Seq(T)
<1>4. ss \in Seq(W)
  <2>1. DOMAIN ss = DOMAIN s /\ ss = [k \in DOMAIN s |-> ss[k]]
    OBVIOUS
  <2>2. \A k \in DOMAIN s : ss[k] \in W
    BY <1>3
  <2> HIDE DEF ss, W
  <2>3. QED
    BY <1>1, <2>1, <2>2, ImageSeq
<1>5. DOMAIN ss = DOMAIN s
  OBVIOUS
<1> HIDE DEF ss, T
<1>6. FlattenSeq(ss) \in Seq(T) /\ Range(FlattenSeq(ss)) = UNION {Range(ss[k]) : k \in DOMAIN ss}
  BY <1>4, FlattenLists, RangeFlatten
<1>7. ASSUME NEW q
      PROVE q \in Range(FlattenSeq(ss)) <=> \E k \in DOMAIN s : q \in Range(ss[k])
  BY <1>5, <1>6
<1>8. ASSUME NEW q
      PROVE  q \in Range(FlattenSeq(ss)) <=>
               \E pair \in Range(s) : q = <<pair[1].name, pair[2].name>> \/ q = <<pair[2].name, pair[1].name>>
  <2>1. q \in Range(FlattenSeq(ss)) <=>
           \E k \in DOMAIN s : q = <<s[k][1].name, s[k][2].name>> \/ q = <<s[k][2].name, s[k][1].name>>
    BY <1>3, <1>7
  <2>2. QED
    BY <2>1 DEF Range
<1>9. QED
  BY <1>2, <1>6, <1>8 DEF s

\* All interlocks of a station come from a pair of one of its levels.
LEMMA StationInterlocks ==
    ASSUME NEW st, StationOk(st)
    PROVE  /\ \E S : AllInterlocks(st) \in Seq(S)
           /\ \A q : q \in Range(AllInterlocks(st)) <=>
                \E lv \in Range(st.levels) : \E pair \in Range(IllustrativeInterlocks(lv)) :
                   q = <<pair[1].name, pair[2].name>> \/ q = <<pair[2].name, pair[1].name>>
<1> DEFINE L == st.levels
           ss == [k \in DOMAIN L |-> BothWays(L[k])]
           all == AllInterlocks(st)
           T == UNION {Range(ss[k]) : k \in DOMAIN L}
           W == Seq(T)
<1>1. L \in Seq(BuiltLevels)
  BY DEF StationOk
<1>2. all = FlattenSeq(ss)
  BY DEF AllInterlocks, Each, BothWays, Both
<1> HIDE DEF L, all
<1>3. \A k \in DOMAIN L : L[k] \in BuiltLevels /\ ss[k] = BothWays(L[k])
  BY <1>1
<1>4. ASSUME NEW k \in DOMAIN L PROVE ss[k] \in Seq(T)
  <2>1. PICK S : ss[k] \in Seq(S)
    BY <1>3, LevelInterlocks
  <2> DEFINE z == ss[k]
  <2>2. \A x \in DOMAIN z : z[x] \in T
    BY DEF Range
  <2>3. z \in Seq(S)
    BY <2>1
  <2> HIDE DEF z, T
  <2>4. z \in Seq(T)
    <3>1. Len(z) \in Nat /\ z = [x \in 1 .. Len(z) |-> z[x]] /\ DOMAIN z = 1 .. Len(z)
      BY <2>3
    <3>2. QED
      BY <2>2, <3>1, SeqOfValues
  <2>5. QED
    BY <2>4 DEF z
<1>5. ss \in Seq(W)
  <2>1. DOMAIN ss = DOMAIN L /\ ss = [k \in DOMAIN L |-> ss[k]]
    OBVIOUS
  <2>2. \A k \in DOMAIN L : ss[k] \in W
    BY <1>4
  <2> HIDE DEF ss, W
  <2>3. QED
    BY <1>1, <2>1, <2>2, ImageSeq
<1>6. DOMAIN ss = DOMAIN L
  OBVIOUS
<1> HIDE DEF ss, T
<1>7. FlattenSeq(ss) \in Seq(T) /\ Range(FlattenSeq(ss)) = UNION {Range(ss[k]) : k \in DOMAIN ss}
  BY <1>5, FlattenLists, RangeFlatten
<1>8. ASSUME NEW q
      PROVE q \in Range(all) <=> \E k \in DOMAIN L : q \in Range(BothWays(L[k]))
  BY <1>2, <1>3, <1>6, <1>7
<1>9. ASSUME NEW k \in DOMAIN L, NEW q
      PROVE  q \in Range(BothWays(L[k])) <=>
               \E pair \in Range(IllustrativeInterlocks(L[k])) :
                  q = <<pair[1].name, pair[2].name>> \/ q = <<pair[2].name, pair[1].name>>
  BY <1>3, LevelInterlocks
<1>10. ASSUME NEW q
       PROVE q \in Range(all) <=> \E lv \in Range(L) : \E pair \in Range(IllustrativeInterlocks(lv)) :
                   q = <<pair[1].name, pair[2].name>> \/ q = <<pair[2].name, pair[1].name>>
  <2>1. \A lv : lv \in Range(L) <=> \E k \in DOMAIN L : lv = L[k]
    BY DEF Range
  <2>2. q \in Range(all) <=> \E k \in DOMAIN L : \E pair \in Range(IllustrativeInterlocks(L[k])) :
                   q = <<pair[1].name, pair[2].name>> \/ q = <<pair[2].name, pair[1].name>>
    BY <1>8, <1>9
  <2>3. QED
    BY <2>1, <2>2
<1>11. QED
  BY <1>2, <1>7, <1>10 DEF L, all

TripPair(b, x) == <<b.name, x>>
TripsAt(st, x) == [k \in DOMAIN RemoteTripsFor(st.levels[x.level], x.tap) |->
                     TripPair(RemoteTripsFor(st.levels[x.level], x.tap)[k], x)]

\* All remote trips of a station are those of its transformers.
LEMMA StationTrips ==
    ASSUME NEW st, StationOk(st)
    PROVE  /\ \E S : AllRemoteTrips(st) \in Seq(S)
           /\ \A q : q \in Range(AllRemoteTrips(st)) <=>
                \E x \in Range(st.transformers) : \E b \in Range(RemoteTripsFor(st.levels[x.level], x.tap)) :
                   q = <<b.name, x>>
<1> DEFINE X == st.transformers
           ss == [k \in DOMAIN X |-> TripsAt(st, X[k])]
           all == AllRemoteTrips(st)
           T == UNION {Range(ss[k]) : k \in DOMAIN X}
           W == Seq(T)
<1>1. X \in Seq(TransformerSet) /\ \A x \in Range(X) : x.level \in DOMAIN st.levels
  BY DEF StationOk
<1>2. all = FlattenSeq(ss)
  BY DEF AllRemoteTrips, Each, TripsAt, TripPair
<1> HIDE DEF X, all
<1>3. ASSUME NEW k \in DOMAIN X
      PROVE  /\ ss[k] \in Seq(T)
             /\ Range(ss[k]) = {<<b.name, X[k]>> : b \in Range(RemoteTripsFor(st.levels[X[k].level], X[k].tap))}
  <2> DEFINE lv == st.levels[X[k].level]
             r == RemoteTripsFor(lv, X[k].tap)
             x == X[k]
             z == ss[k]
  <2>1. lv \in BuiltLevels
    <3>1. X[k].level \in DOMAIN st.levels
      BY <1>1 DEF Range
    <3>2. QED
      BY <3>1 DEF StationOk
  <2>2. lv.breakers \in Seq(Devices)
    BY <2>1, BuiltLevelShape
  <2>3. r \in Seq(Devices)
    <3> DEFINE s == lv.breakers
               reached == Reached(TapNode(X[k].tap), {Ends(b) : b \in {d \in Range(s) : ~IsCbr(d)}})
               P == {l \in DOMAIN s : IsCbr(s[l]) /\ Ends(s[l]) \cap reached # {}}
    <3>1. r = At(s, P)
      BY DEF RemoteTripsFor, BreakersBounding, Chosen
    <3>2. s \in Seq(Devices) /\ P \in SUBSET DOMAIN s
      BY <2>2
    <3> HIDE DEF s, P
    <3>3. QED
      BY <3>1, <3>2, AtPicks
  <2>4. z = [l \in DOMAIN r |-> TripPair(r[l], x)]
    BY DEF TripsAt
  <2> HIDE DEF r, x
  <2>5. Len(r) \in Nat /\ DOMAIN r = 1 .. Len(r)
    BY <2>3
  <2>6. \A l \in DOMAIN z : z[l] \in T
    <3>1. \A l \in DOMAIN ss[k] : ss[k][l] \in Range(ss[k])
      BY DEF Range
    <3> HIDE DEF ss
    <3>2. QED
      BY <3>1
  <2> HIDE DEF z, T
  <2>7. z = [l \in 1 .. Len(r) |-> z[l]] /\ DOMAIN z = 1 .. Len(r)
    BY <2>4, <2>5
  <2>8. z \in Seq(T)
    BY <2>5, <2>6, <2>7, SeqOfValues
  <2>9. Range(z) = {<<b.name, x>> : b \in Range(r)}
    BY <2>4 DEF Range, TripPair
  <2>10. QED
    BY <2>8, <2>9 DEF z, r, x
<1>4. ss \in Seq(W)
  <2>1. DOMAIN ss = DOMAIN X /\ ss = [k \in DOMAIN X |-> ss[k]]
    OBVIOUS
  <2>2. \A k \in DOMAIN X : ss[k] \in W
    BY <1>3
  <2> HIDE DEF ss, W
  <2>3. QED
    BY <1>1, <2>1, <2>2, ImageSeq
<1>5. DOMAIN ss = DOMAIN X
  OBVIOUS
<1> HIDE DEF ss, T
<1>6. FlattenSeq(ss) \in Seq(T) /\ Range(FlattenSeq(ss)) = UNION {Range(ss[k]) : k \in DOMAIN ss}
  BY <1>4, FlattenLists, RangeFlatten
<1>7. ASSUME NEW q
      PROVE  q \in Range(all) <=> \E k \in DOMAIN X : q \in Range(ss[k])
  BY <1>2, <1>5, <1>6
<1>8. ASSUME NEW q
      PROVE  q \in Range(all) <=> \E k \in DOMAIN X : \E b \in Range(RemoteTripsFor(st.levels[X[k].level], X[k].tap)) :
                   q = <<b.name, X[k]>>
  BY <1>3, <1>7
<1>9. ASSUME NEW q
      PROVE  q \in Range(all) <=> \E x \in Range(X) : \E b \in Range(RemoteTripsFor(st.levels[x.level], x.tap)) :
                   q = <<b.name, x>>
  BY <1>8 DEF Range
<1>10. QED
  BY <1>2, <1>6, <1>9 DEF X, all

\* A sequence of one.
LEMMA OneElement ==
    ASSUME NEW x PROVE DOMAIN <<x>> = {1} /\ <<x>>[1] = x /\ Range(<<x>>) = {x}
BY DEF Range

DataSetNamed(sets, name) == First(sets, LAMBDA ds : ds.name = name)

\* The data set found by the name of the only one.
LEMMA DataSetOne ==
    ASSUME NEW ds, NEW name, ds.name = name
    PROVE  DataSetNamed(<<ds>>, name) = <<ds>>
<1> DEFINE s == <<ds>>
           hits == {k \in DOMAIN s : s[k].name = name}
           pick == CHOOSE k \in hits : \A j \in hits : k <= j
<1>1. DataSetNamed(s, name) = IF hits = {} THEN <<>> ELSE <<s[pick]>>
  BY DEF DataSetNamed, First
<1>2. DOMAIN s = {1} /\ s[1] = ds
  OBVIOUS
<1> HIDE DEF s
<1>3. hits = {1}
  BY <1>2
<1> HIDE DEF hits
<1>4. pick = 1
  BY <1>3
<1> HIDE DEF pick
<1>5. QED
  BY <1>1, <1>2, <1>3, <1>4 DEF s

\* The one report of a device lists the members of its one data set.
LEMMA ReportOf ==
    ASSUME NEW D, NEW ied, NEW ds, NEW rc, ied.devices[1].ln0.reports = <<rc>>,
           ied.devices[1].ln0.dataSets = <<ds>>, ds.name = rc.datSet, rc.datSet # ""
    PROVE  \A r \in Range(MapIed(D, ied).reports) : r.dataset = ds.members
<1> DEFINE ln0 == ied.devices[1].ln0
           reports == MapIed(D, ied).reports
<1>1. reports = [k \in DOMAIN ln0.reports |-> MapReportControl(ln0, ln0.reports[k])]
  BY DEF MapIed, Each
<1>2. MapReportControl(ln0, rc).dataset =
         IF rc.datSet = "" THEN <<>> ELSE DataSetNamed(ln0.dataSets, rc.datSet)[1].members
  BY DEF MapReportControl, DataSetNamed
<1>3. DataSetNamed(ln0.dataSets, rc.datSet) = <<ds>>
  BY DataSetOne
<1>4. MapReportControl(ln0, rc).dataset = ds.members
  <2>1. <<ds>>[1] = ds
    OBVIOUS
  <2>2. QED
    BY <1>2, <1>3, <2>1
<1>5. ln0.reports = <<rc>>
  OBVIOUS
<1> HIDE DEF ln0, reports
<1>6. Range(reports) = {MapReportControl(ln0, rc)}
  <2> DEFINE m(r) == MapReportControl(ln0, r)
             one == <<rc>>
  <2>1. DOMAIN one = {1} /\ one[1] = rc
    BY OneElement
  <2>2. reports = [k \in DOMAIN one |-> m(one[k])]
    BY <1>1, <1>5
  <2> HIDE DEF m, one
  <2>3. DOMAIN reports = {1} /\ reports[1] = m(rc)
    BY <2>1, <2>2
  <2>4. QED
    BY <2>3 DEF Range, m
<1>7. QED
  BY <1>4, <1>6 DEF reports

\* The reports of a publisher list points it has.
LEMMA ReportsOf ==
    ASSUME NEW st, StationOk(st)
    PROVE  /\ \A i \in 1 .. BreakersOf(st) : \A r \in Range(Config(st, i).reports) :
                r.dataset = <<Ref("XCBR1", "Pos")>>
           /\ \A j \in 1 .. XfmrsOf(st) : \A r \in Range(Config(st, BreakersOf(st) + j).reports) :
                r.dataset = <<Ref("MMXU1", "Amp"), Ref("MMXU2", "Amp")>>
<1> DEFINE D == Document(st)
<1>1. ASSUME NEW i \in 1 .. BreakersOf(st)
      PROVE  \A r \in Range(Config(st, i).reports) : r.dataset = <<Ref("XCBR1", "Pos")>>
  <2> DEFINE b == AllBreakers(st)[i]
             ied == BreakerIed(st, b, AllInterlocks(st), AllRemoteTrips(st))
             ds == [name |-> "dsGoose1", members |-> <<Ref("XCBR1", "Pos")>>]
             rc == Report(CbName("rcbStatus1", NoName), "dsGoose1")
  <2>1. IedAt(st, i) = ied
    BY IedsOfDocument
  <2>2. ied.devices[1].ln0.reports = <<rc>> /\ ied.devices[1].ln0.dataSets = <<ds>>
    <3> HIDE DEF ds, rc
    <3>1. \A a, z : BreakerIed(st, b, a, z).devices[1].ln0.reports = <<Report(CbName("rcbStatus1", NoName), "dsGoose1")>>
               /\ BreakerIed(st, b, a, z).devices[1].ln0.dataSets
                    = <<[name |-> "dsGoose1", members |-> <<Ref("XCBR1", "Pos")>>]>>
      BY DEF BreakerIed, Ied, Ln0
    <3>2. QED
      BY <3>1 DEF ds, rc
  <2>3. ds.name = rc.datSet /\ rc.datSet # "" /\ ds.members = <<Ref("XCBR1", "Pos")>>
    BY DEF Report
  <2> HIDE DEF ied, ds, rc, D
  <2>4. \A r \in Range(MapIed(D, ied).reports) : r.dataset = ds.members
    BY <2>2, <2>3, ReportOf
  <2>5. QED
    BY <2>1, <2>3, <2>4 DEF Config, D
<1>2. ASSUME NEW j \in 1 .. XfmrsOf(st)
      PROVE  \A r \in Range(Config(st, BreakersOf(st) + j).reports) :
                r.dataset = <<Ref("MMXU1", "Amp"), Ref("MMXU2", "Amp")>>
  <2> DEFINE ied == TransformerIed(st, st.transformers[j])
             ds == [name |-> "dsStatus1", members |-> <<Ref("MMXU1", "Amp"), Ref("MMXU2", "Amp")>>]
             rc == Report(CbName("rcb", st.transformers[j].name), "dsStatus1")
  <2>1. IedAt(st, BreakersOf(st) + j) = ied
    BY IedsOfDocument
  <2>2. ied.devices[1].ln0.reports = <<rc>> /\ ied.devices[1].ln0.dataSets = <<ds>>
    <3> HIDE DEF ds, rc
    <3>1. \A x : TransformerIed(st, x).devices[1].ln0.reports = <<Report(CbName("rcb", x.name), "dsStatus1")>>
               /\ TransformerIed(st, x).devices[1].ln0.dataSets
                    = <<[name |-> "dsStatus1", members |-> <<Ref("MMXU1", "Amp"), Ref("MMXU2", "Amp")>>]>>
      BY DEF TransformerIed, Ied, Ln0
    <3>2. QED
      BY <3>1 DEF ds, rc
  <2>3. ds.name = rc.datSet /\ rc.datSet # "" /\ ds.members = <<Ref("MMXU1", "Amp"), Ref("MMXU2", "Amp")>>
    BY DEF Report
  <2> HIDE DEF ied, ds, rc, D
  <2>4. \A r \in Range(MapIed(D, ied).reports) : r.dataset = ds.members
    BY <2>2, <2>3, ReportOf
  <2>5. QED
    BY <2>1, <2>3, <2>4 DEF Config, D
<1>3. QED
  BY <1>1, <1>2

\* What a configuration says it has.
LEMMA HasPoints ==
    ASSUME NEW st, StationOk(st)
    PROVE  /\ \A i \in 1 .. BreakersOf(st) :
                /\ Has(Config(st, i), Ref("XCBR1", "Pos")) /\ Has(Config(st, i), Ref("XCBR1", "PosCtl"))
                /\ Has(Config(st, i), Ref("MMXU1", "Amp"))
                /\ \E p \in Range(Config(st, i).points) : p.ref = Ref("XCBR1", "Pos") /\ p.goose
           /\ \A j \in 1 .. XfmrsOf(st) :
                /\ Has(Config(st, BreakersOf(st) + j), Ref("MMXU1", "Amp"))
                /\ Has(Config(st, BreakersOf(st) + j), Ref("MMXU2", "Amp"))
<1>1. ASSUME NEW i \in 1 .. BreakersOf(st)
      PROVE  /\ Has(Config(st, i), Ref("XCBR1", "Pos")) /\ Has(Config(st, i), Ref("XCBR1", "PosCtl"))
             /\ Has(Config(st, i), Ref("MMXU1", "Amp"))
             /\ \E p \in Range(Config(st, i).points) : p.ref = Ref("XCBR1", "Pos") /\ p.goose
  <2> DEFINE pts == CollectPoints(Document(st), IedAt(st, i).devices[1])
  <2>1. /\ DOMAIN pts = 1 .. 4
        /\ pts[1].ref = Ref("XCBR1", "Pos") /\ pts[1].goose = TRUE
        /\ pts[2].ref = Ref("XCBR1", "PosCtl") /\ pts[3].ref = Ref("MMXU1", "Amp")
    BY BreakerPoints
  <2>2. Config(st, i).points = pts
    BY ConfigParts
  <2> HIDE DEF pts
  <2>3. pts[1] \in Range(pts) /\ pts[2] \in Range(pts) /\ pts[3] \in Range(pts)
    BY <2>1 DEF Range
  <2>4. QED
    BY <2>1, <2>2, <2>3 DEF Has
<1>2. ASSUME NEW j \in 1 .. XfmrsOf(st)
      PROVE  /\ Has(Config(st, BreakersOf(st) + j), Ref("MMXU1", "Amp"))
             /\ Has(Config(st, BreakersOf(st) + j), Ref("MMXU2", "Amp"))
  <2> DEFINE i == BreakersOf(st) + j
             pts == CollectPoints(Document(st), IedAt(st, i).devices[1])
  <2>1. /\ DOMAIN pts = 1 .. 2
        /\ pts[1].ref = Ref("MMXU1", "Amp") /\ pts[2].ref = Ref("MMXU2", "Amp")
    BY TransformerPoints
  <2>2. Config(st, i).points = pts
    BY ConfigParts
  <2> HIDE DEF pts
  <2>3. pts[1] \in Range(pts) /\ pts[2] \in Range(pts)
    BY <2>1 DEF Range
  <2>4. QED
    BY <2>1, <2>2, <2>3 DEF Has
<1>3. QED
  BY <1>1, <1>2

\* A name of a breaker is not taken for a boolean.
LEMMA BreakerReadable ==
    ASSUME NEW n PROVE CoerceBoolOrStr(CbrName(n)) = CbrName(n)
<1>1. \A w : Word(w)[1] = w
  BY DEF Word
<1>2. CbrName(n)[1] = "CB"
  BY DEF CbrName
<1>3. \A w : w # "CB" => CbrName(n) # Word(w)
  BY <1>1, <1>2
<1>4. CbrName(n) \notin {Word("true"), Word("True"), Word("TRUE")}
      /\ CbrName(n) \notin {Word("false"), Word("False"), Word("FALSE")}
  BY <1>3
<1>5. QED
  BY <1>4 DEF CoerceBoolOrStr

\* The parts of an interlock rule, ...
LEMMA InterlockFields ==
    ASSUME NEW peer
    PROVE  /\ InterlockOf(peer).localRef = Ref("XCBR1", "PosCtl")
           /\ InterlockOf(peer).peerRef = Ref("XCBR1", "Pos")
           /\ InterlockOf(peer).peerIed = CoerceBoolOrStr(peer)
BY DEF InterlockOf, Interlock

\* ... and of a remote trip.
LEMMA TripFields ==
    ASSUME NEW x
    PROVE  /\ TripOf(x).localRef = Ref("XCBR1", "PosCtl") /\ TripOf(x).peerRef = Ref("PDIF1", "Op")
           /\ TripOf(x).peerIed = CoerceBoolOrStr(x.name)
           /\ TripOf(x).peerValue = LuaTrue
<1>1. CoerceBoolOrStr(Word("true")) = LuaTrue
  <2>1. Word("true") \in {Word("true"), Word("True"), Word("TRUE")}
    OBVIOUS
  <2>2. Word("true") \notin {Word("false"), Word("False"), Word("FALSE")}
    BY DEF Word
  <2>3. QED
    BY <2>1, <2>2 DEF CoerceBoolOrStr
<1>2. TripOf(x).peerValue = CoerceBoolOrStr(Word("true"))
  BY DEF TripOf, RemoteTrip
<1>3. QED
  BY <1>1, <1>2 DEF TripOf, RemoteTrip

\* Who a breaker is interlocked with: another one, that is interlocked with it.
LEMMA PeerOf ==
    ASSUME NEW st, StationOk(st), SchemaValid(Document(st)), NEW i \in 1 .. BreakersOf(st),
           NEW k \in DOMAIN PeersOf(st, i)
    PROVE  \E j \in 1 .. BreakersOf(st) :
             /\ j # i /\ PeersOf(st, i)[k] = IedAt(st, j).name
             /\ \E l \in DOMAIN PeersOf(st, j) : PeersOf(st, j)[l] = IedAt(st, i).name
<1> DEFINE all == AllInterlocks(st)
           name == IedAt(st, i).name
           peer == PeersOf(st, i)[k]
<1>1. PICK S : all \in Seq(S)
  BY StationInterlocks
<1>2. \A q : q \in Range(all) <=>
         \E lv \in Range(st.levels) : \E pair \in Range(IllustrativeInterlocks(lv)) :
            q = <<pair[1].name, pair[2].name>> \/ q = <<pair[2].name, pair[1].name>>
  BY StationInterlocks
<1> HIDE DEF all, name
<1>3. PICK p \in Range(all) : <<name, peer>> = <<p[1], p[2]>>
  <2>1. \A x \in DOMAIN Of(name, all) : <<name, Of(name, all)[x]>> \in {<<p[1], p[2]>> : p \in Range(all)}
    BY <1>1, OfPairs
  <2>2. PeersOf(st, i) = Of(name, all)
    BY DEF PeersOf, name, all
  <2> HIDE DEF peer
  <2>3. <<name, peer>> \in {<<p[1], p[2]>> : p \in Range(all)}
    BY <2>1, <2>2 DEF peer
  <2>4. QED
    BY <2>3
<1> HIDE DEF peer
<1>4. PICK lv \in Range(st.levels) : \E pair \in Range(IllustrativeInterlocks(lv)) :
            p = <<pair[1].name, pair[2].name>> \/ p = <<pair[2].name, pair[1].name>>
  BY <1>2
<1>5. PICK pair \in Range(IllustrativeInterlocks(lv)) :
            p = <<pair[1].name, pair[2].name>> \/ p = <<pair[2].name, pair[1].name>>
  BY <1>4
<1>6. PICK g \in 1 .. BreakersOf(st), h \in 1 .. BreakersOf(st) :
             /\ g # h /\ IedAt(st, g).name = pair[1].name /\ IedAt(st, h).name = pair[2].name
  BY PairApart
<1>7. name = p[1] /\ peer = p[2]
  BY <1>3
<1> DEFINE q == <<peer, name>>
<1>8. q \in Range(all)
  <2>1. q = <<pair[1].name, pair[2].name>> \/ q = <<pair[2].name, pair[1].name>>
    BY <1>5, <1>7
  <2> HIDE DEF q
  <2>2. QED
    BY <1>2, <2>1
<1>9. \E j \in 1 .. BreakersOf(st) : j # i /\ IedAt(st, j).name = peer
  <2>1. i \in 1 .. ScadaPlace(st) /\ g \in 1 .. ScadaPlace(st) /\ h \in 1 .. ScadaPlace(st)
    BY PublisherPlaces
  <2>2. CASE p = <<pair[1].name, pair[2].name>>
    <3>1. IedAt(st, g).name = IedAt(st, i).name
      BY <1>6, <1>7, <2>2 DEF name
    <3>2. g = i
      BY <2>1, <3>1, NamesDiffer
    <3>3. QED
      BY <1>6, <1>7, <2>2, <3>2
  <2>3. CASE p = <<pair[2].name, pair[1].name>>
    <3>1. IedAt(st, h).name = IedAt(st, i).name
      BY <1>6, <1>7, <2>3 DEF name
    <3>2. h = i
      BY <2>1, <3>1, NamesDiffer
    <3>3. QED
      BY <1>6, <1>7, <2>3, <3>2
  <2>4. QED
    BY <1>5, <2>2, <2>3
<1>10. PICK j \in 1 .. BreakersOf(st) : j # i /\ IedAt(st, j).name = peer
  BY <1>9
<1>11. \E l \in DOMAIN PeersOf(st, j) : PeersOf(st, j)[l] = name
  <2>1. q[1] = peer /\ q[2] = name
    OBVIOUS
  <2> HIDE DEF q
  <2>2. \E l \in DOMAIN Of(peer, all) : Of(peer, all)[l] = name
    <3>1. ASSUME NEW nm
          PROVE  \A z \in Range(all) : z[1] = nm => \E l \in DOMAIN Of(nm, all) : Of(nm, all)[l] = z[2]
      BY <1>1, OfPairs
    <3>2. QED
      BY <1>8, <2>1, <3>1
  <2>3. PeersOf(st, j) = Of(peer, all)
    BY <1>10 DEF PeersOf, all
  <2>4. QED
    BY <2>2, <2>3
<1>12. QED
  BY <1>10, <1>11 DEF peer, name

\* What is to trip a breaker is a transformer.
LEMMA TripperOf ==
    ASSUME NEW st, StationOk(st), NEW i \in 1 .. BreakersOf(st), NEW k \in DOMAIN TripsOf(st, i)
    PROVE  \E j \in 1 .. XfmrsOf(st) : TripsOf(st, i)[k] = st.transformers[j]
<1> DEFINE all == AllRemoteTrips(st)
           name == IedAt(st, i).name
<1>1. PICK S : all \in Seq(S)
  BY StationTrips
<1>2. \A q : q \in Range(all) => \E x \in Range(st.transformers) : \E b : q = <<b, x>>
  BY StationTrips
<1>3. TripsOf(st, i) = Of(name, all)
  BY DEF TripsOf
<1> HIDE DEF all, name
<1>4. <<name, Of(name, all)[k]>> \in {<<p[1], p[2]>> : p \in Range(all)}
  BY <1>1, <1>3, OfPairs
<1>5. PICK p \in Range(all) : <<name, Of(name, all)[k]>> = <<p[1], p[2]>>
  BY <1>4
<1>6. PICK x \in Range(st.transformers) : \E b : p = <<b, x>>
  BY <1>2
<1>7. Of(name, all)[k] = x
  BY <1>5, <1>6
<1>8. PICK j \in 1 .. XfmrsOf(st) : st.transformers[j] = x
  BY Counts DEF Range
<1>9. QED
  BY <1>3, <1>7, <1>8

\* Every publisher says GOOSE to the one group.
LEMMA GroupOf ==
    ASSUME NEW st, StationOk(st), SchemaValid(Document(st)), NEW i \in Publishers(st)
    PROVE  Config(st, i).goose[1].group = "255.10"
<1> DEFINE burst == BurstLadder(st.network.minTime, st.network.maxTime)
<1>1. Config(st, i).goose = <<[group |-> "255.10", port |-> <<8104>>, heartbeat |-> st.network.maxTime,
                               burst |-> burst]>>
  BY GooseOf
<1> HIDE DEF burst
<1>2. QED
  BY <1>1

\* What the rules and reports of every compiled configuration refer to exists
\* where it is looked for, breakers that interlock do so mutually, and what
\* they need of each other is said in one group.  A transformer that is called
\* like a boolean is excepted: its trip is awaited from no IED.
THEOREM RulesFindTheirEnds == ToolSpec => []RulesResolve
<1>1. ASSUME ToolInv PROVE RulesResolve
  <2> SUFFICES ASSUME status = "compiled", NEW c \in Ieds
      PROVE /\ \A il \in Range(c.rules.interlocks) :
                 /\ Has(c, il.localRef)
                 /\ \E d \in Ieds \ {c} :
                      /\ d.name = il.peerIed /\ d.goose[1].group = c.goose[1].group
                      /\ \E p \in Range(d.points) : p.ref = il.peerRef /\ p.goose
                      /\ \E back \in Range(d.rules.interlocks) : back.peerIed = c.name
            /\ \A rt \in Range(c.rules.remoteTrips) :
                 /\ Has(c, rt.localRef) /\ rt.peerValue = LuaTrue
                 /\ rt.peerIed \notin {LuaTrue, LuaFalse} =>
                      \E d \in Ieds : /\ d.name = rt.peerIed /\ HasScheme(d, rt.peerRef)
                                     /\ d.goose[1].group = c.goose[1].group
            /\ \A s \in Range(c.rules.ptoc) : Has(c, s.input) /\ Has(c, s.trip)
            /\ \A s \in Range(c.rules.pdif) : \A ref \in Range(s.inputs) : Has(c, ref)
            /\ \A r \in Range(c.reports) : \A ref \in Range(r.dataset) : Has(c, ref)
    BY DEF RulesResolve
  <2> DEFINE st == Station
             n == BreakersOf(st)
             m == XfmrsOf(st)
  <2>1. /\ StationOk(st) /\ SchemaValid(Document(st))
        /\ \E i \in Publishers(st) : c = Config(st, i)
        /\ \A i \in Publishers(st) : Config(st, i) \in Ieds
    BY <1>1, Compiled
  <2> HIDE DEF st
  <2>2. PICK i \in Publishers(st) : c = Config(st, i)
    BY <2>1
  <2>3. /\ i \in 1 .. n \/ \E j \in 1 .. m : i = n + j
        /\ \A j \in 1 .. n : j \in Publishers(st) /\ j \in 1 .. ScadaPlace(st)
        /\ \A j \in 1 .. m : n + j \in Publishers(st)
    BY <2>1, PublisherPlaces
  <2>4. \A j \in Publishers(st) : /\ Config(st, j).name = IedAt(st, j).name
                                  /\ Config(st, j).goose[1].group = "255.10"
    BY <2>1, ConfigParts, GroupOf
  <2>5. CASE i \in 1 .. n
    <3>1. /\ c.rules.interlocks = [k \in DOMAIN PeersOf(st, i) |-> InterlockOf(PeersOf(st, i)[k])]
          /\ c.rules.remoteTrips = [k \in DOMAIN TripsOf(st, i) |-> TripOf(TripsOf(st, i)[k])]
          /\ c.rules.ptoc = <<Ptoc(st.protection)>> /\ c.rules.pdif = <<>>
      BY <2>1, <2>2, <2>5, BreakerRules
    <3>2. /\ Has(c, Ref("XCBR1", "Pos")) /\ Has(c, Ref("XCBR1", "PosCtl")) /\ Has(c, Ref("MMXU1", "Amp"))
      BY <2>1, <2>2, <2>5, HasPoints
    <3>3. ASSUME NEW k \in DOMAIN PeersOf(st, i)
          PROVE  LET il == InterlockOf(PeersOf(st, i)[k])
                 IN  /\ Has(c, il.localRef)
                     /\ \E d \in Ieds \ {c} :
                          /\ d.name = il.peerIed /\ d.goose[1].group = c.goose[1].group
                          /\ \E p \in Range(d.points) : p.ref = il.peerRef /\ p.goose
                          /\ \E back \in Range(d.rules.interlocks) : back.peerIed = c.name
      <4> DEFINE peer == PeersOf(st, i)[k]
                 il == InterlockOf(peer)
      <4>1. PICK j \in 1 .. n :
               /\ j # i /\ peer = IedAt(st, j).name
               /\ \E l \in DOMAIN PeersOf(st, j) : PeersOf(st, j)[l] = IedAt(st, i).name
        BY <2>1, <2>5, PeerOf
      <4>2. \A g \in 1 .. n : CoerceBoolOrStr(IedAt(st, g).name) = IedAt(st, g).name
        <5> TAKE g \in 1 .. n
        <5>1. IedAt(st, g).name = AllBreakers(st)[g].name /\ AllBreakers(st)[g] \in BreakerSet
          BY <2>1, NamesOfIeds, Counts
        <5>2. PICK number \in Nat : AllBreakers(st)[g] = BreakerOf(number)
          BY <5>1 DEF BreakerSet
        <5>3. QED
          BY <5>1, <5>2, BreakerFields, BreakerReadable
      <4> HIDE DEF peer, n
      <4>3. /\ il.localRef = Ref("XCBR1", "PosCtl") /\ il.peerRef = Ref("XCBR1", "Pos")
            /\ il.peerIed = IedAt(st, j).name
        BY <4>1, <4>2, InterlockFields
      <4> DEFINE d == Config(st, j)
      <4>4. d \in Ieds /\ d.name = il.peerIed /\ d.goose[1].group = c.goose[1].group
        BY <2>1, <2>2, <2>3, <2>4, <4>3
      <4>5. d # c
        <5>1. IedAt(st, j).name # IedAt(st, i).name
          BY <2>1, <2>3, <2>5, <4>1, NamesDiffer
        <5>2. d.name # c.name
          BY <2>2, <2>3, <2>4, <5>1
        <5>3. QED
          BY <5>2
      <4>6. \E p \in Range(d.points) : p.ref = il.peerRef /\ p.goose
        BY <2>1, <4>3, HasPoints DEF n
      <4>7. \E back \in Range(d.rules.interlocks) : back.peerIed = c.name
        <5>1. PICK l \in DOMAIN PeersOf(st, j) : PeersOf(st, j)[l] = IedAt(st, i).name
          BY <4>1
        <5>2. d.rules.interlocks = [x \in DOMAIN PeersOf(st, j) |-> InterlockOf(PeersOf(st, j)[x])]
          BY <2>1, BreakerRules DEF n
        <5> DEFINE t == d.rules.interlocks
                   back == InterlockOf(IedAt(st, i).name)
        <5> HIDE DEF d, back
        <5>3. l \in DOMAIN t /\ t[l] = back
          BY <5>1, <5>2 DEF back
        <5> HIDE DEF t
        <5>4. back \in Range(t)
          BY <5>3 DEF Range
        <5>5. back.peerIed = IedAt(st, i).name
          BY <2>5, <4>2, InterlockFields DEF back
        <5>6. QED
          BY <2>2, <2>4, <5>4, <5>5 DEF t, d
      <4> HIDE DEF d, il
      <4>8. QED
        BY <3>2, <4>3, <4>4, <4>5, <4>6, <4>7 DEF il, peer
    <3>4. ASSUME NEW k \in DOMAIN TripsOf(st, i)
          PROVE  LET rt == TripOf(TripsOf(st, i)[k])
                 IN  /\ Has(c, rt.localRef) /\ rt.peerValue = LuaTrue
                     /\ rt.peerIed \notin {LuaTrue, LuaFalse} =>
                          \E d \in Ieds : /\ d.name = rt.peerIed /\ HasScheme(d, rt.peerRef)
                                         /\ d.goose[1].group = c.goose[1].group
      <4> DEFINE x == TripsOf(st, i)[k]
                 rt == TripOf(x)
      <4>1. PICK j \in 1 .. m : x = st.transformers[j]
        BY <2>1, <2>5, TripperOf
      <4>2. /\ rt.localRef = Ref("XCBR1", "PosCtl") /\ rt.peerRef = Ref("PDIF1", "Op")
            /\ rt.peerIed = CoerceBoolOrStr(x.name) /\ rt.peerValue = LuaTrue
        BY TripFields
      <4> DEFINE d == Config(st, n + j)
      <4>3. d \in Ieds /\ HasScheme(d, Ref("PDIF1", "Op"))
        BY <2>1, <2>3, TransformerScheme
      <4>4. d.name = x.name
        BY <2>1, <2>3, <2>4, <4>1, NamesOfIeds
      <4>5. d.goose[1].group = c.goose[1].group
        BY <2>2, <2>3, <2>4
      <4>6. CoerceBoolOrStr(x.name) \notin {LuaTrue, LuaFalse} => CoerceBoolOrStr(x.name) = x.name
        BY DEF CoerceBoolOrStr
      <4> HIDE DEF d, rt, x
      <4>7. QED
        BY <3>2, <4>2, <4>3, <4>4, <4>5, <4>6 DEF rt, x
    <3>5. \A s \in Range(c.rules.ptoc) : Has(c, s.input) /\ Has(c, s.trip)
      <4>1. /\ Ptoc(st.protection).input = Ref("MMXU1", "Amp")
            /\ Ptoc(st.protection).trip = Ref("XCBR1", "PosCtl")
        BY DEF Ptoc
      <4>2. Range(c.rules.ptoc) = {Ptoc(st.protection)}
        BY <3>1, OneElement
      <4>3. QED
        BY <3>2, <4>1, <4>2
    <3>6. Range(c.rules.pdif) = {}
      BY <3>1 DEF Range
    <3>7. \A r \in Range(c.reports) : \A ref \in Range(r.dataset) : Has(c, ref)
      <4> TAKE r \in Range(c.reports)
      <4>1. r.dataset = <<Ref("XCBR1", "Pos")>>
        BY <2>1, <2>2, <2>5, ReportsOf
      <4>2. Range(r.dataset) = {Ref("XCBR1", "Pos")}
        BY <4>1, OneElement
      <4>3. QED
        BY <3>2, <4>2
    <3>8. /\ \A il \in Range(c.rules.interlocks) : \E k \in DOMAIN PeersOf(st, i) : il = InterlockOf(PeersOf(st, i)[k])
          /\ \A rt \in Range(c.rules.remoteTrips) : \E k \in DOMAIN TripsOf(st, i) : rt = TripOf(TripsOf(st, i)[k])
      BY <3>1 DEF Range
    <3>9. QED
      BY <3>3, <3>4, <3>5, <3>6, <3>7, <3>8
  <2>6. ASSUME NEW j \in 1 .. m, i = n + j
        PROVE  /\ Range(c.rules.interlocks) = {} /\ Range(c.rules.remoteTrips) = {} /\ Range(c.rules.ptoc) = {}
               /\ \A s \in Range(c.rules.pdif) : \A ref \in Range(s.inputs) : Has(c, ref)
               /\ \A r \in Range(c.reports) : \A ref \in Range(r.dataset) : Has(c, ref)
    <3> DEFINE refs == <<Ref("MMXU1", "Amp"), Ref("MMXU2", "Amp")>>
               pdif == [name |-> "PDIF1", inputs |-> refs]
    <3>1. /\ c.rules.interlocks = <<>> /\ c.rules.remoteTrips = <<>> /\ c.rules.ptoc = <<>>
          /\ c.rules.pdif = <<pdif>>
      BY <2>1, <2>2, <2>6, TransformerRules
    <3>2. Has(c, Ref("MMXU1", "Amp")) /\ Has(c, Ref("MMXU2", "Amp"))
      BY <2>1, <2>2, <2>6, HasPoints
    <3>3. \A ref \in Range(refs) : Has(c, ref)
      BY <3>2 DEF Range
    <3>4. \A r \in Range(c.reports) : r.dataset = refs
      BY <2>1, <2>2, <2>6, ReportsOf
    <3>5. pdif.inputs = refs
      OBVIOUS
    <3> HIDE DEF pdif, refs
    <3>6. Range(c.rules.pdif) = {pdif}
      BY <3>1, OneElement
    <3>7. Range(c.rules.interlocks) = {} /\ Range(c.rules.remoteTrips) = {} /\ Range(c.rules.ptoc) = {}
      BY <3>1 DEF Range
    <3>8. QED
      BY <3>3, <3>4, <3>5, <3>6, <3>7
  <2>7. QED
    BY <2>3, <2>5, <2>6
<1>2. QED
  BY <1>1, ToolInvariant, PTL

-----------------------------------------------------------------------------
(* What is connected to a node. *)

Near(links, seen) == seen \cup UNION {l \in links : l \cap seen # {}}
Closed(links, Z) == \A l \in links : l \cap Z # {} => l \subseteq Z
IsWalk(f, nodes, links) ==
    f = [seen \in SUBSET nodes |-> IF Near(links, seen) = seen THEN seen ELSE f[Near(links, seen)]]
ClosureOf(nodes, links, seen) ==
    {x \in nodes : \A Z \in SUBSET nodes : seen \subseteq Z /\ Closed(links, Z) => x \in Z}

\* One more step of the walk adds the nodes next to what was seen.
LEMMA NearGrows ==
    ASSUME NEW nodes, NEW links \in SUBSET SUBSET nodes, NEW seen \in SUBSET nodes
    PROVE  /\ Near(links, seen) \in SUBSET nodes /\ seen \subseteq Near(links, seen)
           /\ Near(links, seen) = seen <=> Closed(links, seen)
           /\ \A Z : Closed(links, Z) => (seen \subseteq Z <=> Near(links, seen) \subseteq Z)
<1>1. Near(links, seen) \in SUBSET nodes /\ seen \subseteq Near(links, seen)
  BY DEF Near
<1>2. ASSUME Near(links, seen) = seen PROVE Closed(links, seen)
  BY <1>2 DEF Near, Closed
<1>3. ASSUME NEW Z, Closed(links, Z), seen \subseteq Z PROVE Near(links, seen) \subseteq Z
  <2> SUFFICES ASSUME NEW x \in Near(links, seen) PROVE x \in Z
    OBVIOUS
  <2>1. x \in seen \/ \E l \in links : l \cap seen # {} /\ x \in l
    BY DEF Near
  <2>2. QED
    BY <1>3, <2>1 DEF Closed
<1>4. ASSUME Closed(links, seen) PROVE Near(links, seen) = seen
  BY <1>1, <1>3, <1>4
<1>5. QED
  BY <1>1, <1>2, <1>3, <1>4

\* A walk exists, ...
LEMMA WalkExists ==
    ASSUME NEW nodes, NEW links \in SUBSET SUBSET nodes
    PROVE  \E f : IsWalk(f, nodes, links)
<1> DEFINE f == [seen \in SUBSET nodes |-> ClosureOf(nodes, links, seen)]
<1>1. ASSUME NEW seen \in SUBSET nodes
      PROVE  ClosureOf(nodes, links, seen) =
               IF Near(links, seen) = seen THEN seen ELSE ClosureOf(nodes, links, Near(links, seen))
  <2>1. CASE Near(links, seen) = seen
    <3>1. Closed(links, seen)
      BY <2>1, NearGrows
    <3>2. ClosureOf(nodes, links, seen) = seen
      BY <3>1 DEF ClosureOf
    <3>3. QED
      BY <2>1, <3>2
  <2>2. CASE Near(links, seen) # seen
    <3>1. \A Z : Closed(links, Z) => (seen \subseteq Z <=> Near(links, seen) \subseteq Z)
      BY NearGrows
    <3>2. ClosureOf(nodes, links, seen) = ClosureOf(nodes, links, Near(links, seen))
      BY <3>1 DEF ClosureOf
    <3>3. QED
      BY <2>2, <3>2
  <2>3. QED
    BY <2>1, <2>2
<1>2. \A seen \in SUBSET nodes : Near(links, seen) \in SUBSET nodes
  BY NearGrows
<1>3. \A seen \in SUBSET nodes : f[seen] = IF Near(links, seen) = seen THEN seen ELSE f[Near(links, seen)]
  BY <1>1, <1>2
<1>4. f = [seen \in SUBSET nodes |-> f[seen]]
  OBVIOUS
<1> HIDE DEF f
<1>5. IsWalk(f, nodes, links)
  BY <1>3, <1>4 DEF IsWalk
<1>6. QED
  BY <1>5

\* ... and ends with the least closed set around what was seen.
LEMMA WalkEnds ==
    ASSUME NEW nodes, IsFiniteSet(nodes), NEW links \in SUBSET SUBSET nodes,
           NEW f, IsWalk(f, nodes, links), NEW start \in SUBSET nodes
    PROVE  /\ start \subseteq f[start] /\ Closed(links, f[start])
           /\ \A Z : start \subseteq Z /\ Closed(links, Z) => f[start] \subseteq Z
<1> DEFINE Good(seen) == /\ seen \subseteq f[seen] /\ Closed(links, f[seen])
                         /\ \A Z : seen \subseteq Z /\ Closed(links, Z) => f[seen] \subseteq Z
           T == {k \in Nat : \A seen \in SUBSET nodes : Cardinality(nodes \ seen) < k => Good(seen)}
<1>1. \A seen \in SUBSET nodes : IsFiniteSet(nodes \ seen) /\ Cardinality(nodes \ seen) \in Nat
  BY FS_Subset, FS_CardinalityType
<1>2. 0 \in T
  BY <1>1
<1>3. ASSUME NEW k \in Nat, k \in T PROVE k + 1 \in T
  <2> SUFFICES ASSUME NEW seen \in SUBSET nodes, Cardinality(nodes \ seen) < k + 1 PROVE Good(seen)
    OBVIOUS
  <2>1. f[seen] = IF Near(links, seen) = seen THEN seen ELSE f[Near(links, seen)]
    BY DEF IsWalk
  <2>2. CASE Near(links, seen) = seen
    BY <2>1, <2>2, NearGrows
  <2>3. CASE Near(links, seen) # seen
    <3> DEFINE next == Near(links, seen)
    <3>1. next \in SUBSET nodes /\ seen \subseteq next
      BY NearGrows
    <3>2. \A Z : Closed(links, Z) => (seen \subseteq Z <=> next \subseteq Z)
      BY NearGrows
    <3>3. next # seen /\ f[seen] = f[next]
      BY <2>1, <2>3
    <3> HIDE DEF next
    <3>4. nodes \ next \in SUBSET (nodes \ seen) /\ nodes \ next # nodes \ seen
      BY <3>1, <3>3
    <3>5. Cardinality(nodes \ next) <= Cardinality(nodes \ seen)
          /\ Cardinality(nodes \ next) # Cardinality(nodes \ seen)
      BY <1>1, <3>4, FS_Subset
    <3>6. Cardinality(nodes \ next) < k
      <4> DEFINE c == Cardinality(nodes \ next)
                 d == Cardinality(nodes \ seen)
      <4>1. c \in Nat /\ d \in Nat
        BY <1>1, <3>1
      <4>2. c <= d /\ c # d /\ d < k + 1
        BY <3>5
      <4> HIDE DEF c, d
      <4>3. c < k
        BY <4>1, <4>2
      <4>4. QED
        BY <4>3 DEF c
    <3>7. Good(next)
      BY <1>3, <3>1, <3>6
    <3>8. QED
      BY <3>1, <3>2, <3>3, <3>7
  <2>4. QED
    BY <2>2, <2>3
<1> HIDE DEF T
<1>4. Nat \subseteq T
  BY <1>2, <1>3, Induction
<1>5. PICK k \in T : Cardinality(nodes \ start) < k
  <2> DEFINE c == Cardinality(nodes \ start)
  <2>1. c \in Nat
    BY <1>1
  <2> HIDE DEF c
  <2>2. c + 1 \in T /\ c < c + 1
    BY <1>4, <2>1
  <2>3. QED
    BY <2>2 DEF c
<1>6. Good(start)
  BY <1>5 DEF T
<1>7. QED
  BY <1>6

\* Reached is the least set of nodes around a node that no link leaves.
LEMMA ReachedLeast ==
    ASSUME NEW node, NEW links, IsFiniteSet({node} \cup UNION links)
    PROVE  /\ node \in Reached(node, links) /\ Closed(links, Reached(node, links))
           /\ \A Z : node \in Z /\ Closed(links, Z) => Reached(node, links) \subseteq Z
<1> DEFINE nodes == {node} \cup (UNION links)
           f == CHOOSE f : IsWalk(f, nodes, links)
<1>1. links \in SUBSET SUBSET nodes /\ {node} \in SUBSET nodes /\ IsFiniteSet(nodes)
  OBVIOUS
<1>2. Reached(node, links) = f[{node}]
  BY DEF Reached, IsWalk, Near
<1> HIDE DEF nodes
<1>3. IsWalk(f, nodes, links)
  BY <1>1, WalkExists
<1> HIDE DEF f
<1>4. ASSUME NEW start \in SUBSET nodes
      PROVE  /\ start \subseteq f[start] /\ Closed(links, f[start])
             /\ \A Z : start \subseteq Z /\ Closed(links, Z) => f[start] \subseteq Z
  BY <1>1, <1>3, WalkEnds
<1>5. /\ {node} \subseteq f[{node}] /\ Closed(links, f[{node}])
      /\ \A Z : {node} \subseteq Z /\ Closed(links, Z) => f[{node}] \subseteq Z
  BY <1>1, <1>4, Zenon
<1>6. ASSUME NEW Z, node \in Z, Closed(links, Z) PROVE f[{node}] \subseteq Z
  <2>1. {node} \subseteq Z
    BY <1>6
  <2>2. QED
    BY <1>5, <1>6, <2>1
<1>7. node \in f[{node}]
  BY <1>5
<1>8. QED
  BY <1>2, <1>5, <1>6, <1>7, Zenon

\* The nodes at the ends of some devices are finitely many.
LEMMA FiniteEnds ==
    ASSUME NEW S, NEW s \in Seq(S), NEW D \in SUBSET Range(s), NEW node
    PROVE  IsFiniteSet({node} \cup UNION {Ends(d) : d \in D})
<1> DEFINE n == Len(s)
           A == {s[k].a : k \in 1 .. n}
           B == {s[k].b : k \in 1 .. n}
<1>1. n \in Nat /\ DOMAIN s = 1 .. n
  OBVIOUS
<1>2. IsFiniteSet(1 .. n)
  BY <1>1, FS_Interval
<1>3. IsFiniteSet(A)
  <2> DEFINE g == [k \in 1 .. n |-> s[k].a]
  <2>1. g \in Surjection(1 .. n, A)
    BY DEF Surjection
  <2> HIDE DEF g, A
  <2>2. QED
    BY <1>2, <2>1, FS_Surjection
<1>4. IsFiniteSet(B)
  <2> DEFINE g == [k \in 1 .. n |-> s[k].b]
  <2>1. g \in Surjection(1 .. n, B)
    BY DEF Surjection
  <2> HIDE DEF g, B
  <2>2. QED
    BY <1>2, <2>1, FS_Surjection
<1>5. IsFiniteSet({node} \cup (A \cup B))
  BY <1>3, <1>4, FS_Singleton, FS_Union
<1>6. ASSUME NEW x \in UNION {Ends(d) : d \in D} PROVE x \in A \cup B
  <2>1. PICK d \in D : x \in Ends(d)
    OBVIOUS
  <2>2. PICK k \in DOMAIN s : s[k] = d
    BY <2>1 DEF Range
  <2>3. x = s[k].a \/ x = s[k].b
    BY <2>1, <2>2 DEF Ends
  <2>4. QED
    BY <1>1, <2>3
<1> HIDE DEF A, B
<1> DEFINE U == UNION {Ends(d) : d \in D}
<1>7. {node} \cup U \in SUBSET ({node} \cup (A \cup B))
  BY <1>6
<1> HIDE DEF U
<1>8. IsFiniteSet({node} \cup U)
  BY <1>5, <1>7, FS_Subset
<1>9. QED
  BY <1>8 DEF U

-----------------------------------------------------------------------------
(* The surroundings of a tap. *)

Terminals == {"bus", "tap"} \X Nat

\* The breakers of a level as the layout built them, between buses and taps.
Yard(C) ==
    /\ \A c \in C : \E m \in Nat : \E a, b \in Terminals : a # b /\ c = Cbr(m, a, b)
    /\ \A c, d \in C : c.name = d.name => c = d

\* The number of a breaker tells what it stands between.
LEMMA YardCbr ==
    ASSUME NEW C, Yard(C), NEW m \in Nat, NEW a \in Terminals, NEW b \in Terminals, Cbr(m, a, b) \in C,
           NEW p \in Terminals, NEW q \in Terminals, Cbr(m, p, q) \in C
    PROVE  a = p /\ b = q
<1>1. a \in Nodes /\ b \in Nodes /\ p \in Nodes /\ q \in Nodes
  BY DEF Terminals, Nodes
<1>2. Cbr(m, a, b).name = CbrName(m) /\ Cbr(m, p, q).name = CbrName(m)
  BY <1>1, CbrShape
<1>3. Cbr(m, a, b) = Cbr(m, p, q)
  BY <1>2 DEF Yard
<1>4. Cbr(m, a, b).a = a /\ Cbr(m, a, b).b = b /\ Cbr(m, p, q).a = p /\ Cbr(m, p, q).b = q
  BY DEF Cbr
<1>5. QED
  BY <1>3, <1>4

\* What a device of a yard joins, ...
LEMMA YardDevice ==
    ASSUME NEW C, Yard(C), NEW tps \in Seq(TapSet), NEW numbers \in SUBSET DOMAIN tps,
           NEW d \in DevicesOf(tps, C, numbers)
    PROVE  \/ \E m \in Nat : \E a, b \in Terminals : Cbr(m, a, b) \in C /\ d = BreakerOf(m)
           \/ \E m \in Nat : \E a, b \in Terminals :
                /\ Cbr(m, a, b) \in C /\ d.type = "DIS"
                /\ Ends(d) = {a, SideA(m)} \/ Ends(d) = {SideB(m), b}
           \/ \E i \in Nat : d.type = "DIS" /\ Ends(d) = {TapNode(i), ExitNode(i)}
<1>0. Terminals \subseteq Nodes
  BY DEF Terminals, Nodes
<1>1. ASSUME NEW name, NEW a, NEW b PROVE Dis(name, a, b).type = "DIS" /\ Ends(Dis(name, a, b)) = {a, b}
  BY DEF Dis, Ends
<1>2. CASE \E c \in C : d = Isolated(c)
  <2>1. PICK c \in C : d = Isolated(c)
    BY <1>2
  <2>2. PICK m \in Nat, a \in Terminals, b \in Terminals : c = Cbr(m, a, b)
    BY DEF Yard
  <2>3. d = BreakerOf(m)
    BY <1>0, <2>1, <2>2, CbrShape
  <2>4. QED
    BY <2>2, <2>3
<1>3. CASE \E c \in C : d \in PairOf(c)
  <2>1. PICK c \in C : d \in PairOf(c)
    BY <1>3
  <2>2. PICK m \in Nat, a \in Terminals, b \in Terminals : c = Cbr(m, a, b)
    BY DEF Yard
  <2>3. PairOf(c) = {Dis(Suffixed(CbrName(m), "DA"), a, SideA(m)),
                     Dis(Suffixed(CbrName(m), "DB"), SideB(m), b)}
    BY <1>0, <2>2, PairOfCbr
  <2>4. d.type = "DIS" /\ (Ends(d) = {a, SideA(m)} \/ Ends(d) = {SideB(m), b})
    BY <1>1, <2>1, <2>3
  <2>5. QED
    BY <2>2, <2>4
<1>4. CASE \E i \in numbers : d = ExitDisconnect(tps, i)
  <2>1. PICK i \in numbers : d = ExitDisconnect(tps, i)
    BY <1>4
  <2>2. i \in Nat
    OBVIOUS
  <2>3. d.type = "DIS" /\ Ends(d) = {TapNode(i), ExitNode(i)}
    BY <1>1, <2>1 DEF ExitDisconnect
  <2>4. QED
    BY <2>2, <2>3
<1>5. QED
  BY <1>2, <1>3, <1>4 DEF DevicesOf

\* ... and the devices between the two ends of a breaker.
Disconnectable(D, m, a, b) ==
    \E d, e \in D \cap Disconnects : Ends(d) = {a, SideA(m)} /\ Ends(e) = {SideB(m), b}

\* A breaker has its disconnects on both sides.
LEMMA AroundBreaker ==
    ASSUME NEW C, NEW tps, NEW numbers, NEW m \in Nat, NEW a \in Terminals, NEW b \in Terminals,
           Cbr(m, a, b) \in C
    PROVE  /\ BreakerOf(m) \in DevicesOf(tps, C, numbers)
           /\ Disconnectable(DevicesOf(tps, C, numbers), m, a, b)
<1>0. a \in Nodes /\ b \in Nodes
  BY DEF Terminals, Nodes
<1>1. Isolated(Cbr(m, a, b)) = BreakerOf(m)
  BY <1>0, CbrShape
<1>2. /\ PairOf(Cbr(m, a, b)) = {Dis(Suffixed(CbrName(m), "DA"), a, SideA(m)),
                                Dis(Suffixed(CbrName(m), "DB"), SideB(m), b)}
      /\ PairOf(Cbr(m, a, b)) \subseteq Disconnects
  BY <1>0, PairOfCbr
<1>3. ASSUME NEW name, NEW x, NEW y PROVE Dis(name, x, y).type = "DIS" /\ Ends(Dis(name, x, y)) = {x, y}
  BY DEF Dis, Ends
<1> DEFINE d == Dis(Suffixed(CbrName(m), "DA"), a, SideA(m))
           e == Dis(Suffixed(CbrName(m), "DB"), SideB(m), b)
<1>4. d.type = "DIS" /\ Ends(d) = {a, SideA(m)} /\ e.type = "DIS" /\ Ends(e) = {SideB(m), b}
  BY <1>3
<1> HIDE DEF d, e
<1>5. d \in PairOf(Cbr(m, a, b)) /\ e \in PairOf(Cbr(m, a, b))
  BY <1>2 DEF d, e
<1>6. d \in DevicesOf(tps, C, numbers) /\ e \in DevicesOf(tps, C, numbers)
  BY <1>5 DEF DevicesOf
<1>7. BreakerOf(m) \in DevicesOf(tps, C, numbers)
  BY <1>1 DEF DevicesOf
<1>8. d \in Disconnects /\ e \in Disconnects
  BY <1>2, <1>5
<1>9. Disconnectable(DevicesOf(tps, C, numbers), m, a, b)
  BY <1>4, <1>6, <1>8 DEF Disconnectable
<1>10. QED
  BY <1>7, <1>9

\* A device that is no breaker has a name of its own kind.
LEMMA DisconnectName ==
    ASSUME NEW d \in Disconnects, NEW n
    PROVE  d.name # CbrName(n)
<1>1. PICK name \in DisNames, a \in Nodes, b \in Nodes : d = Dis(name, a, b)
  BY DEF Disconnects
<1>2. d.name = name
  BY <1>1 DEF Dis
<1>3. name[3] # <<>>
  BY DEF DisNames
<1>4. CbrName(n)[3] = <<>>
  BY DEF CbrName
<1>5. QED
  BY <1>2, <1>3, <1>4

\* Nothing but its own isolating points and its exit is next to a tap.
Around(C, t) ==
    {TapNode(t), ExitNode(t)}
    \cup {SideA(m) : m \in {k \in Nat : \E b \in Terminals : Cbr(k, TapNode(t), b) \in C}}
    \cup {SideB(m) : m \in {k \in Nat : \E a \in Terminals : Cbr(k, a, TapNode(t)) \in C}}

\* Of buses and taps, the tap alone is in its surroundings.
LEMMA AroundTap ==
    ASSUME NEW C, NEW t \in Nat
    PROVE  /\ TapNode(t) \in Around(C, t)
           /\ \A a \in Terminals : a \in Around(C, t) <=> a = TapNode(t)
           /\ \A m \in Nat : SideA(m) \in Around(C, t) <=> \E b \in Terminals : Cbr(m, TapNode(t), b) \in C
           /\ \A m \in Nat : SideB(m) \in Around(C, t) <=> \E a \in Terminals : Cbr(m, a, TapNode(t)) \in C
           /\ \A i \in Nat : ExitNode(i) \in Around(C, t) <=> i = t
           /\ \A n \in Around(C, t) : n[1] \in {"bus", "tap"} => n = TapNode(t)
<1> DEFINE A == {k \in Nat : \E b \in Terminals : Cbr(k, TapNode(t), b) \in C}
           B == {k \in Nat : \E a \in Terminals : Cbr(k, a, TapNode(t)) \in C}
<1>1. \A n : n \in Around(C, t) <=> \/ n = TapNode(t) \/ n = ExitNode(t)
                                    \/ \E m \in A : n = SideA(m)
                                    \/ \E m \in B : n = SideB(m)
  BY DEF Around
<1>2. A \subseteq Nat /\ B \subseteq Nat
  OBVIOUS
<1>3. \A m : m \in A <=> m \in Nat /\ \E b \in Terminals : Cbr(m, TapNode(t), b) \in C
  OBVIOUS
<1>4. \A m : m \in B <=> m \in Nat /\ \E a \in Terminals : Cbr(m, a, TapNode(t)) \in C
  OBVIOUS
<1> HIDE DEF A, B
<1>5. \A m : SideA(m) \in Around(C, t) <=> m \in A
  BY <1>1 DEF SideA, SideB, TapNode, ExitNode
<1>6. \A m : SideB(m) \in Around(C, t) <=> m \in B
  BY <1>1 DEF SideA, SideB, TapNode, ExitNode
<1>7. \A i \in Nat : ExitNode(i) \in Around(C, t) <=> i = t
  BY <1>1 DEF SideA, SideB, TapNode, ExitNode
<1>8. \A n \in Around(C, t) : n[1] \in {"bus", "tap"} => n = TapNode(t)
  BY <1>1 DEF SideA, SideB, TapNode, ExitNode
<1>9. \A a \in Terminals : a[1] \in {"bus", "tap"}
  BY DEF Terminals
<1>10. \A a \in Terminals : a \in Around(C, t) <=> a = TapNode(t)
  BY <1>1, <1>8, <1>9
<1>11. QED
  BY <1>1, <1>3, <1>4, <1>5, <1>6, <1>7, <1>8, <1>10

\* What is joined to a tap while no breaker is closed.
Links(lv) == {Ends(b) : b \in {d \in Range(lv.breakers) : ~IsCbr(d)}}
Beside(lv, t) == Reached(TapNode(t), Links(lv))

\* No disconnect leaves the surroundings of a tap.
LEMMA AroundClosed ==
    ASSUME NEW C, Yard(C), NEW tps \in Seq(TapSet), NEW numbers \in SUBSET DOMAIN tps,
           NEW d \in DevicesOf(tps, C, numbers), d.type # "CBR", NEW t \in Nat,
           Ends(d) \cap Around(C, t) # {}
    PROVE  Ends(d) \subseteq Around(C, t)
<1>0. TapNode(t) \in Terminals
  BY DEF TapNode, Terminals
<1>1. CASE \E m \in Nat : \E a, b \in Terminals : Cbr(m, a, b) \in C /\ d = BreakerOf(m)
  BY <1>1, BreakerFields
<1>2. CASE \E m \in Nat : \E a, b \in Terminals :
                /\ Cbr(m, a, b) \in C
                /\ Ends(d) = {a, SideA(m)} \/ Ends(d) = {SideB(m), b}
  <2>1. PICK m \in Nat, a \in Terminals, b \in Terminals :
                /\ Cbr(m, a, b) \in C
                /\ Ends(d) = {a, SideA(m)} \/ Ends(d) = {SideB(m), b}
    BY <1>2
  <2>2. SideA(m) \in Around(C, t) <=> a = TapNode(t)
    <3>1. SideA(m) \in Around(C, t) <=> \E q \in Terminals : Cbr(m, TapNode(t), q) \in C
      BY AroundTap
    <3>2. \A q \in Terminals : Cbr(m, TapNode(t), q) \in C => a = TapNode(t)
      BY <1>0, <2>1, YardCbr
    <3>3. QED
      BY <2>1, <3>1, <3>2
  <2>3. SideB(m) \in Around(C, t) <=> b = TapNode(t)
    <3>1. SideB(m) \in Around(C, t) <=> \E q \in Terminals : Cbr(m, q, TapNode(t)) \in C
      BY AroundTap
    <3>2. \A q \in Terminals : Cbr(m, q, TapNode(t)) \in C => b = TapNode(t)
      BY <1>0, <2>1, YardCbr
    <3>3. QED
      BY <2>1, <3>1, <3>2
  <2>4. (a \in Around(C, t) <=> a = TapNode(t)) /\ (b \in Around(C, t) <=> b = TapNode(t))
    BY AroundTap
  <2>5. QED
    BY <2>1, <2>2, <2>3, <2>4
<1>3. CASE \E i \in Nat : Ends(d) = {TapNode(i), ExitNode(i)}
  <2>1. PICK i \in Nat : Ends(d) = {TapNode(i), ExitNode(i)}
    BY <1>3
  <2>2. TapNode(i) \in Terminals
    BY DEF TapNode, Terminals
  <2>3. TapNode(i) \in Around(C, t) <=> TapNode(i) = TapNode(t)
    BY <2>2, AroundTap
  <2>4. TapNode(i) = TapNode(t) <=> i = t
    BY DEF TapNode
  <2>5. ExitNode(i) \in Around(C, t) <=> i = t
    BY AroundTap
  <2>6. QED
    BY <2>1, <2>3, <2>4, <2>5
<1>4. QED
  BY <1>1, <1>2, <1>3, YardDevice

\* Beside a tap is only what surrounds it.
LEMMA BesideTap ==
    ASSUME NEW C, Yard(C), NEW tps \in Seq(TapSet), NEW numbers \in SUBSET DOMAIN tps,
           NEW lv, lv.breakers \in Seq(Devices), Range(lv.breakers) = DevicesOf(tps, C, numbers),
           NEW t \in Nat
    PROVE  /\ TapNode(t) \in Beside(lv, t) /\ Closed(Links(lv), Beside(lv, t))
           /\ Beside(lv, t) \subseteq Around(C, t)
<1> DEFINE D == {d \in Range(lv.breakers) : ~IsCbr(d)}
<1>1. IsFiniteSet({TapNode(t)} \cup UNION {Ends(d) : d \in D})
  <2>1. D \in SUBSET Range(lv.breakers)
    OBVIOUS
  <2> HIDE DEF D
  <2>2. QED
    BY <2>1, FiniteEnds
<1>2. Links(lv) = {Ends(d) : d \in D}
  BY DEF Links
<1> DEFINE L == Links(lv)
<1>3. IsFiniteSet({TapNode(t)} \cup UNION L)
  BY <1>1, <1>2
<1>4. Closed(L, Around(C, t))
  <2>1. ASSUME NEW l \in L, l \cap Around(C, t) # {} PROVE l \subseteq Around(C, t)
    <3>1. PICK d \in D : l = Ends(d)
      BY <1>2
    <3>2. d \in DevicesOf(tps, C, numbers) /\ d.type # "CBR"
      BY <3>1 DEF IsCbr
    <3>3. QED
      BY <2>1, <3>1, <3>2, AroundClosed
  <2>2. QED
    BY <2>1 DEF Closed
<1> HIDE DEF L
<1>5. /\ TapNode(t) \in Reached(TapNode(t), L) /\ Closed(L, Reached(TapNode(t), L))
      /\ \A Z : TapNode(t) \in Z /\ Closed(L, Z) => Reached(TapNode(t), L) \subseteq Z
  BY <1>3, ReachedLeast
<1>6. TapNode(t) \in Around(C, t)
  BY AroundTap
<1>7. QED
  BY <1>4, <1>5, <1>6 DEF L, Beside

\* The breakers that a trip of the tap opens are those on its surroundings.
OpenedFor(lv, t) == {b.name : b \in Range(RemoteTripsFor(lv, t))}

\* They are the breakers one of whose ends is beside it.
LEMMA OpenedOnes ==
    ASSUME NEW lv, lv.breakers \in Seq(Devices), NEW t \in Nat
    PROVE  OpenedFor(lv, t) = {d.name : d \in {e \in Range(lv.breakers) :
                                          e.type = "CBR" /\ Ends(e) \cap Beside(lv, t) # {}}}
<1> DEFINE s == lv.breakers
           P == {k \in DOMAIN s : IsCbr(s[k]) /\ Ends(s[k]) \cap Beside(lv, t) # {}}
<1>1. RemoteTripsFor(lv, t) = At(s, P)
  BY DEF RemoteTripsFor, BreakersBounding, Chosen, Beside, Links
<1>2. P \in SUBSET DOMAIN s /\ s \in Seq(Devices)
  OBVIOUS
<1>3. \A k : k \in P <=> k \in DOMAIN s /\ s[k].type = "CBR" /\ Ends(s[k]) \cap Beside(lv, t) # {}
  BY DEF IsCbr
<1> HIDE DEF s, P
<1>4. Range(At(s, P)) = {s[k] : k \in P}
  BY <1>2, RangeAt
<1>5. {s[k] : k \in P} = {e \in Range(s) : e.type = "CBR" /\ Ends(e) \cap Beside(lv, t) # {}}
  BY <1>3 DEF Range
<1>6. QED
  BY <1>1, <1>4, <1>5 DEF OpenedFor, s

\* With these open the tap is on its own, ...
LEMMA TripIsolates ==
    ASSUME NEW C, Yard(C), NEW tps \in Seq(TapSet), NEW numbers \in SUBSET DOMAIN tps,
           NEW lv, lv.breakers \in Seq(Devices), Range(lv.breakers) = DevicesOf(tps, C, numbers),
           NEW t \in Nat
    PROVE  IsIsolated(lv, t, OpenedFor(lv, t))
<1> DEFINE D == {d \in Range(lv.breakers) : d.name \notin OpenedFor(lv, t)}
           L == {Ends(d) : d \in D}
<1>1. IsFiniteSet({TapNode(t)} \cup UNION L)
  <2>1. D \in SUBSET Range(lv.breakers)
    OBVIOUS
  <2> HIDE DEF D
  <2>2. QED
    BY <2>1, FiniteEnds
<1>2. Closed(L, Beside(lv, t))
  <2>1. ASSUME NEW l \in L, l \cap Beside(lv, t) # {} PROVE l \subseteq Beside(lv, t)
    <3>1. PICK d \in D : l = Ends(d)
      OBVIOUS
    <3>2. d \in Range(lv.breakers) /\ d.name \notin OpenedFor(lv, t)
      BY <3>1
    <3>3. d.type # "CBR"
      BY <2>1, <3>1, <3>2, OpenedOnes
    <3>4. l \in Links(lv)
      BY <3>1, <3>2, <3>3 DEF Links, IsCbr
    <3>5. Closed(Links(lv), Beside(lv, t))
      BY BesideTap
    <3>6. QED
      BY <2>1, <3>4, <3>5 DEF Closed
  <2>2. QED
    BY <2>1 DEF Closed
<1>3. Connected(lv, TapNode(t), OpenedFor(lv, t)) = Reached(TapNode(t), L)
  BY DEF Connected
<1> HIDE DEF L
<1>4. \A Z : TapNode(t) \in Z /\ Closed(L, Z) => Reached(TapNode(t), L) \subseteq Z
  BY <1>1, ReachedLeast
<1>5. TapNode(t) \in Beside(lv, t) /\ Beside(lv, t) \subseteq Around(C, t)
  BY BesideTap
<1>6. Connected(lv, TapNode(t), OpenedFor(lv, t)) \subseteq Around(C, t)
  BY <1>2, <1>3, <1>4, <1>5
<1>7. \A n \in Around(C, t) : n[1] \in {"bus", "tap"} => n = TapNode(t)
  BY AroundTap
<1>8. QED
  BY <1>6, <1>7 DEF IsIsolated

\* ... and with one of them closed it is not.
LEMMA NoTripInVain ==
    ASSUME NEW C, Yard(C), NEW tps \in Seq(TapSet), NEW numbers \in SUBSET DOMAIN tps,
           NEW lv, lv.breakers \in Seq(Devices), Range(lv.breakers) = DevicesOf(tps, C, numbers),
           NEW t \in Nat, NEW name \in OpenedFor(lv, t)
    PROVE  ~IsIsolated(lv, t, OpenedFor(lv, t) \ {name})
<1> DEFINE open == OpenedFor(lv, t) \ {name}
           D == {d \in Range(lv.breakers) : d.name \notin open}
           L == {Ends(d) : d \in D}
           Z == Reached(TapNode(t), L)
<1>0. TapNode(t) \in Terminals
  BY DEF TapNode, Terminals
<1>1. IsFiniteSet({TapNode(t)} \cup UNION L)
  <2>1. D \in SUBSET Range(lv.breakers)
    OBVIOUS
  <2> HIDE DEF D
  <2>2. QED
    BY <2>1, FiniteEnds
<1>2. TapNode(t) \in Z /\ Closed(L, Z)
  <2> HIDE DEF L
  <2>1. QED
    BY <1>1, ReachedLeast
<1>3. Connected(lv, TapNode(t), open) = Z
  BY DEF Connected
<1>4. PICK d \in Range(lv.breakers) : d.type = "CBR" /\ Ends(d) \cap Beside(lv, t) # {} /\ d.name = name
  BY OpenedOnes
<1>5. \A e \in Range(lv.breakers) : e.name \in OpenedFor(lv, t) => \E m \in Nat : e.name = CbrName(m)
  <2> SUFFICES ASSUME NEW e \in Range(lv.breakers), e.name \in OpenedFor(lv, t)
               PROVE  \E m \in Nat : e.name = CbrName(m)
    OBVIOUS
  <2>1. PICK f \in Range(lv.breakers) : f.type = "CBR" /\ f.name = e.name
    BY OpenedOnes
  <2>2. \A x \in Range(lv.breakers) : x \in Devices
    BY DEF Range
  <2>3. f \in BreakerSet
    BY <2>1, <2>2, DeviceFields
  <2>4. PICK m \in Nat : f = BreakerOf(m)
    BY <2>3 DEF BreakerSet
  <2>5. QED
    BY <2>1, <2>4, BreakerFields
<1>6. PICK m \in Nat, p \in Terminals, q \in Terminals : Cbr(m, p, q) \in C /\ d = BreakerOf(m)
  <2>1. d \in DevicesOf(tps, C, numbers)
    OBVIOUS
  <2>2. QED
    BY <1>4, <2>1, YardDevice
<1>7. Ends(d) = {SideA(m), SideB(m)}
  BY <1>6, BreakerFields DEF Ends
<1>8. p # q /\ (p = TapNode(t) \/ q = TapNode(t))
  <2>0. p # q
    <3>1. PICK k \in Nat : \E a, b \in Terminals : a # b /\ Cbr(m, p, q) = Cbr(k, a, b)
      BY <1>6 DEF Yard
    <3>2. PICK a \in Terminals, b \in Terminals : a # b /\ Cbr(m, p, q) = Cbr(k, a, b)
      BY <3>1
    <3>3. a = p /\ b = q
      BY <3>2 DEF Cbr
    <3>4. QED
      BY <3>2, <3>3
  <2>1. Beside(lv, t) \subseteq Around(C, t)
    BY BesideTap
  <2>2. SideA(m) \in Around(C, t) \/ SideB(m) \in Around(C, t)
    BY <1>4, <1>7, <2>1
  <2>3. CASE SideA(m) \in Around(C, t)
    <3>1. PICK b \in Terminals : Cbr(m, TapNode(t), b) \in C
      BY <2>3, AroundTap
    <3>2. QED
      BY <1>0, <1>6, <2>0, <3>1, YardCbr
  <2>4. CASE SideB(m) \in Around(C, t)
    <3>1. PICK a \in Terminals : Cbr(m, a, TapNode(t)) \in C
      BY <2>4, AroundTap
    <3>2. QED
      BY <1>0, <1>6, <2>0, <3>1, YardCbr
  <2>6. QED
    BY <2>0, <2>2, <2>3, <2>4
<1>9. PICK e \in Range(lv.breakers), f \in Range(lv.breakers) :
        e \in Disconnects /\ f \in Disconnects /\ Ends(e) = {p, SideA(m)} /\ Ends(f) = {SideB(m), q}
  <2>1. Cbr(m, p, q) \in C
    BY <1>6
  <2>2. Disconnectable(DevicesOf(tps, C, numbers), m, p, q)
    BY <2>1, AroundBreaker
  <2>3. QED
    BY <2>2 DEF Disconnectable
<1>10. Ends(d) \in L /\ Ends(e) \in L /\ Ends(f) \in L
  <2>1. d \in D
    BY <1>4
  <2>2. e \in D /\ f \in D
    BY <1>5, <1>9, DisconnectName
  <2>3. QED
    BY <2>1, <2>2
<1>11. \A l \in L : l \cap Z # {} => l \subseteq Z
  BY <1>2 DEF Closed
<1> HIDE DEF Z, L
<1>12. p \in Z /\ q \in Z
  BY <1>2, <1>7, <1>8, <1>9, <1>10, <1>11
<1>13. p[1] \in {"bus", "tap"} /\ q[1] \in {"bus", "tap"}
  BY DEF Terminals
<1>14. QED
  BY <1>3, <1>8, <1>12, <1>13 DEF IsIsolated

\* The breakers that each layout builds.
CbrsOf(layout, tps, start) == UNION {Range(c.cbs) : c \in Range(Cells(layout, tps, start))}

\* A breaker from the bus to each tap, ...
LEMMA SingleBusYard ==
    ASSUME NEW tps \in Seq(TapSet), NEW start \in Nat
    PROVE  \A cb \in CbrsOf("single_bus", tps, start) :
             \E i \in DOMAIN tps : cb = Cbr(start + i - 1, Bus(1), TapNode(i))
<1> SUFFICES ASSUME NEW cb \in CbrsOf("single_bus", tps, start)
             PROVE  \E i \in DOMAIN tps : cb = Cbr(start + i - 1, Bus(1), TapNode(i))
  OBVIOUS
<1>1. Cells("single_bus", tps, start) = SingleBus(tps, start)
  BY DEF Cells
<1>2. PICK c \in Range(SingleBus(tps, start)) : cb \in Range(c.cbs)
  BY <1>1 DEF CbrsOf
<1>3. PICK i \in DOMAIN tps : c = Cell(<<"Bay", i, <<>>>>, <<Cbr(start + i - 1, Bus(1), TapNode(i))>>, <<i>>)
  BY <1>2 DEF SingleBus, Range
<1> DEFINE w == Cbr(start + i - 1, Bus(1), TapNode(i))
<1>4. c.cbs = <<w>>
  BY <1>3 DEF Cell
<1> HIDE DEF w
<1>5. cb = w
  BY <1>2, <1>4 DEF Range
<1>6. QED
  BY <1>5 DEF w

\* ... a tie between the buses, ...
LEMMA MainAndTransferYard ==
    ASSUME NEW tps \in Seq(TapSet), NEW start \in Nat
    PROVE  \A cb \in CbrsOf("main_and_transfer", tps, start) :
             \/ \E i \in DOMAIN tps : cb = Cbr(start + i - 1, Bus(1), TapNode(i))
             \/ cb = Cbr(start + Len(tps), Bus(1), Bus(2))
<1> DEFINE w == Cbr(start + Len(tps), Bus(1), Bus(2))
           tie == Cell(<<"Tie", 0, <<>>>>, <<w>>, <<>>)
           s == SingleBus(tps, start)
<1> SUFFICES ASSUME NEW cb \in CbrsOf("main_and_transfer", tps, start), cb # w
             PROVE  \E i \in DOMAIN tps : cb = Cbr(start + i - 1, Bus(1), TapNode(i))
  OBVIOUS
<1>1. Cells("main_and_transfer", tps, start) = Append(s, tie)
  BY DEF Cells, MainAndTransfer
<1>2. Range(Append(s, tie)) = Range(s) \cup {tie}
  <2>1. s = [k \in 1 .. Len(tps) |-> s[k]] /\ Len(tps) \in Nat
    BY DEF SingleBus
  <2> HIDE DEF s, tie
  <2>2. \A k \in 1 .. Len(tps) : s[k] \in Range(s)
    BY <2>1 DEF Range
  <2>3. s \in Seq(Range(s)) /\ Len(s) = Len(tps)
    BY <2>1, <2>2, SeqOfValues
  <2>4. /\ DOMAIN Append(s, tie) = 1 .. Len(s) + 1 /\ DOMAIN s = 1 .. Len(s) /\ Len(s) \in Nat
        /\ \A k \in 1 .. Len(s) : Append(s, tie)[k] = s[k]
        /\ Append(s, tie)[Len(s) + 1] = tie
    BY <2>3
  <2> DEFINE z == Append(s, tie)
  <2> HIDE DEF z
  <2>5. Range(z) = Range(s) \cup {tie}
    BY <2>4 DEF z, Range
  <2>6. QED
    BY <2>5 DEF z
<1>3. PICK c \in Range(s) \cup {tie} : cb \in Range(c.cbs)
  BY <1>1, <1>2 DEF CbrsOf
<1>4. c # tie
  <2>1. tie.cbs = <<w>>
    BY DEF Cell
  <2> HIDE DEF w
  <2>2. Range(<<w>>) = {w}
    BY DEF Range
  <2>3. QED
    BY <1>3, <2>1, <2>2
<1>5. cb \in CbrsOf("single_bus", tps, start)
  <2>1. Cells("single_bus", tps, start) = s
    BY DEF Cells
  <2>2. QED
    BY <1>3, <1>4, <2>1 DEF CbrsOf
<1>6. QED
  BY <1>5, SingleBusYard

\* ... a breaker from each tap to the next, ...
LEMMA RingBusYard ==
    ASSUME NEW tps \in Seq(TapSet), NEW start \in Nat
    PROVE  \A cb \in CbrsOf("ring_bus", tps, start) :
             \E i \in DOMAIN tps : cb = Cbr(start + i - 1, TapNode(i), TapNode((i % Len(tps)) + 1))
<1> SUFFICES ASSUME NEW cb \in CbrsOf("ring_bus", tps, start)
             PROVE  \E i \in DOMAIN tps : cb = Cbr(start + i - 1, TapNode(i), TapNode((i % Len(tps)) + 1))
  OBVIOUS
<1>1. Cells("ring_bus", tps, start) = RingBus(tps, start)
  BY DEF Cells
<1>2. PICK c \in Range(RingBus(tps, start)) : cb \in Range(c.cbs)
  BY <1>1 DEF CbrsOf
<1>3. PICK i \in DOMAIN tps : c = Cell(<<"Bay", i, <<>>>>,
                                       <<Cbr(start + i - 1, TapNode(i), TapNode((i % Len(tps)) + 1))>>, <<i>>)
  BY <1>2 DEF RingBus, Range
<1> DEFINE w == Cbr(start + i - 1, TapNode(i), TapNode((i % Len(tps)) + 1))
<1>4. c.cbs = <<w>>
  BY <1>3 DEF Cell
<1> HIDE DEF w
<1>5. cb = w
  BY <1>2, <1>4 DEF Range
<1>6. QED
  BY <1>5 DEF w

\* ... and three breakers in a diameter.
LEMMA BreakerAndHalfYard ==
    ASSUME NEW tps \in Seq(TapSet), NEW start \in Nat
    PROVE  \A cb \in CbrsOf("breaker_and_half", tps, start) :
             \E d \in 1 .. Len(tps) \div 2 :
               \/ cb = Cbr(start + 3 * (d - 1), Bus(1), TapNode(2 * d - 1))
               \/ cb = Cbr(start + 3 * (d - 1) + 1, TapNode(2 * d - 1), TapNode(2 * d - 1 + 1))
               \/ cb = Cbr(start + 3 * (d - 1) + 2, TapNode(2 * d - 1 + 1), Bus(2))
<1> SUFFICES ASSUME NEW cb \in CbrsOf("breaker_and_half", tps, start)
             PROVE  \E d \in 1 .. Len(tps) \div 2 :
               \/ cb = Cbr(start + 3 * (d - 1), Bus(1), TapNode(2 * d - 1))
               \/ cb = Cbr(start + 3 * (d - 1) + 1, TapNode(2 * d - 1), TapNode(2 * d - 1 + 1))
               \/ cb = Cbr(start + 3 * (d - 1) + 2, TapNode(2 * d - 1 + 1), Bus(2))
  OBVIOUS
<1>1. Cells("breaker_and_half", tps, start) = BreakerAndHalf(tps, start)
  BY DEF Cells
<1>2. PICK c \in Range(BreakerAndHalf(tps, start)) : cb \in Range(c.cbs)
  BY <1>1 DEF CbrsOf
<1>3. PICK d \in 1 .. Len(tps) \div 2 : c = BreakerAndHalf(tps, start)[d]
  BY <1>2 DEF BreakerAndHalf, Range
<1> DEFINE i == 2 * d - 1
           m == start + 3 * (d - 1)
           u == Cbr(m, Bus(1), TapNode(i))
           v == Cbr(m + 1, TapNode(i), TapNode(i + 1))
           w == Cbr(m + 2, TapNode(i + 1), Bus(2))
<1>4. c = Cell(<<"Diameter", d, <<>>>>, <<u, v, w>>, <<i, i + 1>>)
  BY <1>3 DEF BreakerAndHalf
<1> HIDE DEF u, v, w
<1>5. c.cbs = <<u, v, w>>
  BY <1>4 DEF Cell
<1>6. cb = u \/ cb = v \/ cb = w
  BY <1>2, <1>5 DEF Range
<1>7. QED
  BY <1>6 DEF u, v, w

\* A name tells the number.
LEMMA CbrAlike ==
    ASSUME NEW m, NEW a, NEW b, NEW k, NEW p, NEW q
    PROVE  Cbr(m, a, b).name = Cbr(k, p, q).name => m = k
BY DEF Cbr

\* They stand between different buses and taps, and have different numbers.
LEMMA LayoutYard ==
    ASSUME NEW layout \in Layouts, NEW tps \in Seq(TapSet), NEW start \in Nat, ~Refuses(layout, tps)
    PROVE  Yard(CbrsOf(layout, tps, start))
<1> DEFINE n == Len(tps)
           C == CbrsOf(layout, tps, start)
<1>1. n \in Nat /\ DOMAIN tps = 1 .. n
  OBVIOUS
<1>2. Bus(1) \in Terminals /\ Bus(2) \in Terminals /\ Bus(1) # Bus(2)
  BY DEF Bus, Terminals
<1>3. \A i \in Nat : TapNode(i) \in Terminals /\ TapNode(i) # Bus(1) /\ TapNode(i) # Bus(2)
  BY DEF TapNode, Bus, Terminals
<1>4. \A i, j : TapNode(i) = TapNode(j) => i = j
  BY DEF TapNode
<1>5. \A m, k, a, b, p, q : Cbr(m, a, b).name = Cbr(k, p, q).name => m = k
  BY CbrAlike
<1> HIDE DEF n
<1>6. CASE layout = "single_bus"
  <2>1. \A cb \in C : \E i \in 1 .. n : cb = Cbr(start + i - 1, Bus(1), TapNode(i))
    BY <1>1, <1>6, SingleBusYard
  <2> HIDE DEF C
  <2>2. \A i \in 1 .. n : start + i - 1 \in Nat /\ i \in Nat
    BY <1>1
  <2>3. ASSUME NEW cb \in C PROVE \E m \in Nat : \E a, b \in Terminals : a # b /\ cb = Cbr(m, a, b)
    BY <1>2, <1>3, <2>1, <2>2
  <2>4. ASSUME NEW cb \in C, NEW other \in C, cb.name = other.name PROVE cb = other
    <3>1. PICK i \in 1 .. n : cb = Cbr(start + i - 1, Bus(1), TapNode(i))
      BY <2>1
    <3>2. PICK j \in 1 .. n : other = Cbr(start + j - 1, Bus(1), TapNode(j))
      BY <2>1
    <3>3. start + i - 1 = start + j - 1
      BY <1>5, <2>4, <3>1, <3>2
    <3>4. i = j
      BY <1>1, <3>3
    <3>5. QED
      BY <3>1, <3>2, <3>4
  <2>5. QED
    BY <2>3, <2>4 DEF Yard, C
<1>7. CASE layout = "main_and_transfer"
  <2>1. \A cb \in C : (\E i \in 1 .. n : cb = Cbr(start + i - 1, Bus(1), TapNode(i)))
                      \/ cb = Cbr(start + n, Bus(1), Bus(2))
    BY <1>1, <1>7, MainAndTransferYard DEF n
  <2> HIDE DEF C
  <2>2. start + n \in Nat /\ \A i \in 1 .. n : start + i - 1 \in Nat /\ i \in Nat /\ start + i - 1 # start + n
    BY <1>1
  <2>3. ASSUME NEW cb \in C PROVE \E m \in Nat : \E a, b \in Terminals : a # b /\ cb = Cbr(m, a, b)
    BY <1>2, <1>3, <2>1, <2>2
  <2>4. ASSUME NEW cb \in C, NEW other \in C, cb.name = other.name PROVE cb = other
    <3>1. ASSUME NEW i \in 1 .. n, cb = Cbr(start + i - 1, Bus(1), TapNode(i)),
                 NEW j \in 1 .. n, other = Cbr(start + j - 1, Bus(1), TapNode(j))
          PROVE  cb = other
      <4>1. start + i - 1 = start + j - 1
        BY <1>5, <2>4, <3>1
      <4>2. i = j
        BY <1>1, <4>1
      <4>3. QED
        BY <3>1, <4>2
    <3>2. ASSUME NEW i \in 1 .. n, cb = Cbr(start + i - 1, Bus(1), TapNode(i)),
                 other = Cbr(start + n, Bus(1), Bus(2))
          PROVE  FALSE
      BY <1>5, <2>2, <2>4, <3>2
    <3>3. ASSUME NEW j \in 1 .. n, other = Cbr(start + j - 1, Bus(1), TapNode(j)),
                 cb = Cbr(start + n, Bus(1), Bus(2))
          PROVE  FALSE
      BY <1>5, <2>2, <2>4, <3>3
    <3>4. QED
      BY <2>1, <3>1, <3>2, <3>3
  <2>5. QED
    BY <2>3, <2>4 DEF Yard, C
<1>8. CASE layout = "ring_bus"
  <2>0. n >= 3
    BY <1>1, <1>8 DEF Refuses, n
  <2>1. \A cb \in C : \E i \in 1 .. n : cb = Cbr(start + i - 1, TapNode(i), TapNode((i % n) + 1))
    BY <1>1, <1>8, RingBusYard DEF n
  <2> HIDE DEF C
  <2>2. \A i \in 1 .. n : start + i - 1 \in Nat /\ i \in Nat /\ (i % n) + 1 \in Nat /\ (i % n) + 1 # i
    BY <1>1, <2>0
  <2>3. ASSUME NEW cb \in C PROVE \E m \in Nat : \E a, b \in Terminals : a # b /\ cb = Cbr(m, a, b)
    <3>1. PICK i \in 1 .. n : cb = Cbr(start + i - 1, TapNode(i), TapNode((i % n) + 1))
      BY <2>1
    <3>2. TapNode(i) # TapNode((i % n) + 1)
      BY <1>4, <2>2
    <3>3. QED
      BY <1>3, <2>2, <3>1, <3>2
  <2>4. ASSUME NEW cb \in C, NEW other \in C, cb.name = other.name PROVE cb = other
    <3>1. PICK i \in 1 .. n : cb = Cbr(start + i - 1, TapNode(i), TapNode((i % n) + 1))
      BY <2>1
    <3>2. PICK j \in 1 .. n : other = Cbr(start + j - 1, TapNode(j), TapNode((j % n) + 1))
      BY <2>1
    <3>3. start + i - 1 = start + j - 1
      BY <1>5, <2>4, <3>1, <3>2
    <3>4. i = j
      BY <1>1, <3>3
    <3>5. QED
      BY <3>1, <3>2, <3>4
  <2>5. QED
    BY <2>3, <2>4 DEF Yard, C
<1>9. CASE layout = "breaker_and_half"
  <2> DEFINE h == n \div 2
             U(d) == Cbr(start + 3 * (d - 1), Bus(1), TapNode(2 * d - 1))
             V(d) == Cbr(start + 3 * (d - 1) + 1, TapNode(2 * d - 1), TapNode(2 * d - 1 + 1))
             W(d) == Cbr(start + 3 * (d - 1) + 2, TapNode(2 * d - 1 + 1), Bus(2))
  <2>0. h \in Nat
    BY <1>1
  <2>1. \A cb \in C : \E d \in 1 .. h : cb = U(d) \/ cb = V(d) \/ cb = W(d)
    BY <1>9, BreakerAndHalfYard DEF n
  <2> HIDE DEF C, h
  <2>2. \A d \in 1 .. h : /\ start + 3 * (d - 1) \in Nat /\ start + 3 * (d - 1) + 1 \in Nat
                          /\ start + 3 * (d - 1) + 2 \in Nat /\ 2 * d - 1 \in Nat /\ 2 * d - 1 + 1 \in Nat
                          /\ 2 * d - 1 + 1 # 2 * d - 1
    BY <2>0
  <2>3. ASSUME NEW cb \in C PROVE \E m \in Nat : \E a, b \in Terminals : a # b /\ cb = Cbr(m, a, b)
    <3>1. PICK d \in 1 .. h : cb = U(d) \/ cb = V(d) \/ cb = W(d)
      BY <2>1
    <3>2. TapNode(2 * d - 1) # TapNode(2 * d - 1 + 1)
      BY <1>4, <2>2
    <3>3. QED
      BY <1>2, <1>3, <2>2, <3>1, <3>2
  <2>4. ASSUME NEW cb \in C, NEW other \in C, cb.name = other.name PROVE cb = other
    <3>1. PICK d \in 1 .. h : cb = U(d) \/ cb = V(d) \/ cb = W(d)
      BY <2>1
    <3>2. PICK e \in 1 .. h : other = U(e) \/ other = V(e) \/ other = W(e)
      BY <2>1
    <3> DEFINE x == 3 * (d - 1)
               y == 3 * (e - 1)
    <3>3. x \in Int /\ y \in Int /\ (x = y => d = e) /\ x # y + 1 /\ x # y + 2 /\ y # x + 1 /\ y # x + 2
      BY <2>0
    <3> HIDE DEF x, y
    <3>4. d = e /\ \/ cb = U(d) /\ other = U(e)
                   \/ cb = V(d) /\ other = V(e)
                   \/ cb = W(d) /\ other = W(e)
      <4>1. \E k, l \in 0 .. 2 :
              /\ start + x + k = start + y + l
              /\ cb = IF k = 0 THEN U(d) ELSE IF k = 1 THEN V(d) ELSE W(d)
              /\ other = IF l = 0 THEN U(e) ELSE IF l = 1 THEN V(e) ELSE W(e)
        <5>1. PICK k \in 0 .. 2 : cb = IF k = 0 THEN U(d) ELSE IF k = 1 THEN V(d) ELSE W(d)
          BY <3>1
        <5>2. PICK l \in 0 .. 2 : other = IF l = 0 THEN U(e) ELSE IF l = 1 THEN V(e) ELSE W(e)
          BY <3>2
        <5>3. \E a, b : cb = Cbr(start + x + k, a, b)
          <6>1. k = 0 \/ k = 1 \/ k = 2
            OBVIOUS
          <6>2. CASE k = 0
            <7>1. cb = Cbr(start + x, Bus(1), TapNode(2 * d - 1))
              BY <5>1, <6>2 DEF x
            <7>2. start + x = start + x + k
              BY <3>3, <6>2
            <7>3. QED
              BY <7>1, <7>2
          <6>3. CASE k = 1
            <7>1. cb = Cbr(start + x + 1, TapNode(2 * d - 1), TapNode(2 * d - 1 + 1))
              BY <5>1, <6>3 DEF x
            <7>2. QED
              BY <6>3, <7>1
          <6>4. CASE k = 2
            <7>1. cb = Cbr(start + x + 2, TapNode(2 * d - 1 + 1), Bus(2))
              BY <5>1, <6>4 DEF x
            <7>2. QED
              BY <6>4, <7>1
          <6>5. QED
            BY <6>1, <6>2, <6>3, <6>4
        <5>4. \E a, b : other = Cbr(start + y + l, a, b)
          <6>1. l = 0 \/ l = 1 \/ l = 2
            OBVIOUS
          <6>2. CASE l = 0
            <7>1. other = Cbr(start + y, Bus(1), TapNode(2 * e - 1))
              BY <5>2, <6>2 DEF y
            <7>2. start + y = start + y + l
              BY <3>3, <6>2
            <7>3. QED
              BY <7>1, <7>2
          <6>3. CASE l = 1
            <7>1. other = Cbr(start + y + 1, TapNode(2 * e - 1), TapNode(2 * e - 1 + 1))
              BY <5>2, <6>3 DEF y
            <7>2. QED
              BY <6>3, <7>1
          <6>4. CASE l = 2
            <7>1. other = Cbr(start + y + 2, TapNode(2 * e - 1 + 1), Bus(2))
              BY <5>2, <6>4 DEF y
            <7>2. QED
              BY <6>4, <7>1
          <6>5. QED
            BY <6>1, <6>2, <6>3, <6>4
        <5>5. start + x + k = start + y + l
          BY <1>5, <2>4, <5>3, <5>4
        <5>6. QED
          BY <5>1, <5>2, <5>5
      <4>2. PICK k \in 0 .. 2, l \in 0 .. 2 :
              /\ start + x + k = start + y + l
              /\ cb = IF k = 0 THEN U(d) ELSE IF k = 1 THEN V(d) ELSE W(d)
              /\ other = IF l = 0 THEN U(e) ELSE IF l = 1 THEN V(e) ELSE W(e)
        BY <4>1
      <4>3. x = y /\ k = l
        BY <3>3, <4>2
      <4> HIDE DEF U, V, W
      <4>4. QED
        BY <3>3, <4>2, <4>3
    <3>5. QED
      BY <3>4
  <2>5. QED
    BY <2>3, <2>4 DEF Yard, C
<1>10. QED
  BY <1>6, <1>7, <1>8, <1>9 DEF Layouts, C

\* The devices of the cells are those of all their breakers and taps.
LEMMA LayoutDevices ==
    ASSUME NEW layout \in Layouts, NEW tps \in Seq(TapSet), NEW start \in Nat, ~Refuses(layout, tps)
    PROVE  \E numbers \in SUBSET DOMAIN tps :
              LevelDevices(layout, tps, start) = DevicesOf(tps, CbrsOf(layout, tps, start), numbers)
<1> DEFINE cells == Cells(layout, tps, start)
           C == CbrsOf(layout, tps, start)
           numbers == UNION {Range(c.taps) : c \in Range(cells)}
<1>1. cells \in Seq(CellsOf(tps))
  BY CellsTyped
<1>2. numbers \in SUBSET DOMAIN tps
  <2> SUFFICES ASSUME NEW c \in Range(cells) PROVE Range(c.taps) \subseteq DOMAIN tps
    OBVIOUS
  <2>1. c \in CellsOf(tps)
    BY <1>1 DEF Range
  <2>2. c.taps \in Seq(DOMAIN tps)
    BY <2>1 DEF CellsOf
  <2>3. QED
    BY <2>2 DEF Range
<1>3. LevelDevices(layout, tps, start) = DevicesOf(tps, C, numbers)
  <2> DEFINE R == Range(cells)
  <2>1. C = UNION {Range(c.cbs) : c \in R} /\ numbers = UNION {Range(c.taps) : c \in R}
    BY DEF CbrsOf
  <2>2. LevelDevices(layout, tps, start) = UNION {DevicesOf(tps, Range(c.cbs), Range(c.taps)) : c \in R}
    BY DEF LevelDevices, CellDevices
  <2> HIDE DEF R, C, numbers
  <2>3. \A x : x \in DevicesOf(tps, C, numbers) <=>
          \E c \in R : x \in DevicesOf(tps, Range(c.cbs), Range(c.taps))
    BY <2>1 DEF DevicesOf
  <2>4. QED
    BY <2>2, <2>3
<1>4. QED
  BY <1>2, <1>3

\* A level is such a yard.
LEMMA LevelYard ==
    ASSUME NEW lv \in BuiltLevels
    PROVE  \E start \in Nat : \E numbers \in SUBSET DOMAIN lv.taps :
              /\ Yard(CbrsOf(lv.layout, lv.taps, start))
              /\ lv.layout \in Layouts /\ ~Refuses(lv.layout, lv.taps)
              /\ lv.taps \in Seq(TapSet) /\ lv.breakers \in Seq(Devices)
              /\ Range(lv.breakers) = DevicesOf(lv.taps, CbrsOf(lv.layout, lv.taps, start), numbers)
<1>1. PICK start \in Nat :
             /\ lv.layout \in Layouts /\ lv.taps \in Seq(TapSet) /\ ~Refuses(lv.layout, lv.taps)
             /\ lv.breakers \in Seq(Devices)
             /\ Range(lv.breakers) = LevelDevices(lv.layout, lv.taps, start)
  BY BuiltLevelShape
<1>2. Yard(CbrsOf(lv.layout, lv.taps, start))
  BY <1>1, LayoutYard
<1>3. PICK numbers \in SUBSET DOMAIN lv.taps :
              LevelDevices(lv.layout, lv.taps, start)
                = DevicesOf(lv.taps, CbrsOf(lv.layout, lv.taps, start), numbers)
  BY <1>1, LayoutDevices
<1>4. QED
  BY <1>1, <1>2, <1>3

\* Only a readable name is read as itself.
LEMMA ReadableName ==
    ASSUME NEW name, Readable(name)
    PROVE  /\ CoerceBoolOrStr(name) = name
           /\ \A other : CoerceBoolOrStr(other) = name => other = name
<1>1. CoerceBoolOrStr(LuaTrue) = LuaTrue /\ CoerceBoolOrStr(LuaFalse) = LuaFalse
  <2>1. \A w : LuaTrue # Word(w) /\ LuaFalse # Word(w)
    BY DEF LuaTrue, LuaFalse, Word
  <2>2. /\ LuaTrue \notin {Word("true"), Word("True"), Word("TRUE")}
        /\ LuaTrue \notin {Word("false"), Word("False"), Word("FALSE")}
        /\ LuaFalse \notin {Word("true"), Word("True"), Word("TRUE")}
        /\ LuaFalse \notin {Word("false"), Word("False"), Word("FALSE")}
    BY <2>1
  <2>3. QED
    BY <2>2 DEF CoerceBoolOrStr
<1>2. \A other : CoerceBoolOrStr(other) \in {LuaTrue, LuaFalse, other}
  BY DEF CoerceBoolOrStr
<1>3. name # LuaTrue /\ name # LuaFalse
  BY <1>1 DEF Readable
<1>4. CoerceBoolOrStr(name) = name
  BY <1>2 DEF Readable
<1>5. QED
  BY <1>2, <1>3, <1>4

\* The breakers that listen to a transformer are those around its tap.
Listening(st, x) ==
    {i \in 1 .. BreakersOf(st) :
       \E k \in DOMAIN TripsOf(st, i) : CoerceBoolOrStr(TripsOf(st, i)[k].name) = x.name}

\* Their names are those the trip is meant for.
LEMMA ListeningOnes ==
    ASSUME NEW st, StationOk(st), SchemaValid(Document(st)), NEW x \in Range(st.transformers),
           Readable(x.name)
    PROVE  {IedAt(st, i).name : i \in Listening(st, x)} = OpenedFor(st.levels[x.level], x.tap)
<1> DEFINE all == AllRemoteTrips(st)
           X == st.transformers
           n == BreakersOf(st)
           AtTap(y) == OpenedFor(st.levels[y.level], y.tap)
<1>1. PICK S : all \in Seq(S)
  BY StationTrips
<1>2. \A q : q \in Range(all) <=> \E y \in Range(X) : \E name \in AtTap(y) : q = <<name, y>>
  <2>1. \A q : q \in Range(all) <=>
          \E y \in Range(X) : \E b \in Range(RemoteTripsFor(st.levels[y.level], y.tap)) : q = <<b.name, y>>
    BY StationTrips
  <2>2. \A q : \A y : (\E b \in Range(RemoteTripsFor(st.levels[y.level], y.tap)) : q = <<b.name, y>>)
                      <=> \E name \in AtTap(y) : q = <<name, y>>
    BY DEF OpenedFor
  <2> HIDE DEF all, X, AtTap
  <2>3. QED
    BY <2>1, <2>2 DEF X
<1>3. ASSUME NEW y \in Range(X), y.name = x.name PROVE y = x
  <2>1. PICK i \in 1 .. XfmrsOf(st), j \in 1 .. XfmrsOf(st) : X[i] = x /\ X[j] = y
    BY Counts DEF Range
  <2>2. IedAt(st, n + i).name = x.name /\ IedAt(st, n + j).name = y.name
    BY <2>1, NamesOfIeds
  <2>3. n + i \in 1 .. ScadaPlace(st) /\ n + j \in 1 .. ScadaPlace(st)
    BY PublisherPlaces
  <2>4. n + i = n + j
    BY <1>3, <2>2, <2>3, NamesDiffer
  <2>5. i = j
    BY <2>4, Counts
  <2>6. QED
    BY <2>1, <2>5
<1>4. \A i \in 1 .. n : TripsOf(st, i) = Of(IedAt(st, i).name, all)
  BY DEF TripsOf
<1> HIDE DEF all, X, AtTap
<1>5. ASSUME NEW i \in 1 .. n, NEW k \in DOMAIN TripsOf(st, i), CoerceBoolOrStr(TripsOf(st, i)[k].name) = x.name
      PROVE  IedAt(st, i).name \in AtTap(x)
  <2> DEFINE name == IedAt(st, i).name
             y == Of(name, all)[k]
  <2>0. k \in DOMAIN Of(name, all) /\ TripsOf(st, i)[k] = y
    BY <1>4
  <2>1. <<name, y>> \in {<<p[1], p[2]>> : p \in Range(all)}
    <3> HIDE DEF name
    <3>1. QED
      BY <1>1, <2>0, OfPairs
  <2> HIDE DEF y, name
  <2>2. PICK p \in Range(all) : <<name, y>> = <<p[1], p[2]>>
    BY <2>1
  <2>3. PICK z \in Range(X) : \E opened \in AtTap(z) : p = <<opened, z>>
    BY <1>2
  <2>4. y = z /\ name \in AtTap(z)
    BY <2>2, <2>3
  <2>5. z.name = x.name
    BY <1>5, <2>0, <2>4, ReadableName
  <2>6. z = x
    BY <1>3, <2>5
  <2>7. QED
    BY <2>4, <2>6 DEF name
<1>6. ASSUME NEW name \in AtTap(x)
      PROVE  \E i \in Listening(st, x) : IedAt(st, i).name = name
  <2>1. <<name, x>> \in Range(all)
    BY <1>2 DEF X
  <2>2. PICK i \in 1 .. n : IedAt(st, i).name = name
    <3>1. PICK k \in DOMAIN X : X[k] = x
      BY DEF X, Range
    <3>2. x.level \in DOMAIN st.levels /\ st.levels[x.level] \in BuiltLevels
      BY DEF StationOk
    <3> DEFINE lv == st.levels[x.level]
    <3>3. PICK b \in Range(RemoteTripsFor(lv, x.tap)) : b.name = name
      BY DEF AtTap, OpenedFor
    <3>4. lv.breakers \in Seq(Devices) /\ lv.breakers = [q \in DOMAIN lv.breakers |-> lv.breakers[q]]
      BY <3>2, BuiltLevelShape
    <3>5. b \in Range(lv.breakers) /\ b.type = "CBR"
      <4> DEFINE s == lv.breakers
                 reached == Reached(TapNode(x.tap), {Ends(e) : e \in {d \in Range(s) : ~IsCbr(d)}})
                 P == {q \in DOMAIN s : IsCbr(s[q]) /\ Ends(s[q]) \cap reached # {}}
      <4>1. RemoteTripsFor(lv, x.tap) = At(s, P)
        BY DEF RemoteTripsFor, BreakersBounding, Chosen
      <4>2. P \in SUBSET DOMAIN s /\ s \in Seq(Devices) /\ \A q \in P : s[q].type = "CBR"
        BY <3>4 DEF IsCbr
      <4> HIDE DEF s, P
      <4>3. Range(At(s, P)) = {s[q] : q \in P}
        BY <4>2, RangeAt
      <4>4. PICK q \in P : b = s[q]
        BY <3>3, <4>1, <4>3
      <4>5. QED
        BY <4>2, <4>4 DEF s, Range
    <3>6. b \in BreakerSet
      <4>1. b \in Devices
        BY <3>4, <3>5 DEF Range
      <4>2. QED
        BY <3>5, <4>1, DeviceFields
    <3>7. b \in Range(Breakers(lv))
      BY <3>2, <3>5, <3>6, LevelBreakers
    <3>8. b \in Range(AllBreakers(st))
      <4>1. lv \in Range(st.levels)
        BY <3>2 DEF Range
      <4>2. st.levels \in Seq(BuiltLevels)
        BY DEF StationOk
      <4>3. Range(AllBreakers(st)) = UNION {Range(Breakers(l)) : l \in Range(st.levels)}
        BY <4>2, StationBreakers
      <4>4. QED
        BY <3>7, <4>1, <4>3
    <3>9. PICK i \in 1 .. n : AllBreakers(st)[i] = b
      BY <3>8, Counts DEF Range
    <3>10. QED
      BY <3>3, <3>9, NamesOfIeds
  <2>3. PICK k \in DOMAIN Of(name, all) : Of(name, all)[k] = x
    <3>1. \A p \in Range(all) : p[1] = name => \E k \in DOMAIN Of(name, all) : Of(name, all)[k] = p[2]
      BY <1>1, OfPairs
    <3>2. QED
      BY <2>1, <3>1
  <2>4. TripsOf(st, i)[k].name = x.name /\ k \in DOMAIN TripsOf(st, i)
    BY <1>4, <2>2, <2>3
  <2>5. i \in Listening(st, x)
    BY <2>4, ReadableName DEF Listening
  <2>6. QED
    BY <2>2, <2>5
<1>7. \A i \in Listening(st, x) : IedAt(st, i).name \in AtTap(x)
  BY <1>5 DEF Listening
<1>8. QED
  BY <1>6, <1>7 DEF AtTap

\* The trip of a transformer, taken by the breakers whose configuration awaits
\* it, takes the tap of the transformer off every bus and every other tap, and
\* opens no breaker that could have stayed closed, whatever the layout, the
\* number of taps and the names.
THEOREM TripsReachTheirBreakers == ToolSpec => []TripsIsolate
<1>1. ASSUME ToolInv PROVE TripsIsolate
  <2> SUFFICES ASSUME status = "compiled", NEW x \in Range(transformers), Readable(x.name)
      PROVE LET opened == {c.name : c \in {d \in Ieds : \E t \in Range(d.rules.remoteTrips) :
                                              t.peerIed = x.name}}
                lv == levels[x.level]
            IN  /\ IsIsolated(lv, x.tap, opened)
                /\ \A b \in opened : ~IsIsolated(lv, x.tap, opened \ {b})
    BY DEF TripsIsolate
  <2> DEFINE st == Station
             n == BreakersOf(st)
             opened == {c.name : c \in {d \in Ieds : \E t \in Range(d.rules.remoteTrips) :
                                              t.peerIed = x.name}}
             lv == levels[x.level]
  <2>1. /\ StationOk(st) /\ SchemaValid(Document(st))
        /\ \A c \in Ieds : \E i \in Publishers(st) : c = Config(st, i)
        /\ \A i \in Publishers(st) : Config(st, i) \in Ieds
        /\ st.transformers = transformers /\ st.levels = levels
    BY <1>1, Compiled
  <2> HIDE DEF st
  <2>2. /\ \A i \in Publishers(st) : i \in 1 .. n \/ \E j \in 1 .. XfmrsOf(st) : i = n + j
        /\ \A i \in 1 .. n : i \in Publishers(st)
    BY <2>1, PublisherPlaces
  <2>3. \A i \in Publishers(st) : Config(st, i).name = IedAt(st, i).name
    BY <2>1, ConfigParts
  <2>4. ASSUME NEW i \in 1 .. n
        PROVE  (\E t \in Range(Config(st, i).rules.remoteTrips) : t.peerIed = x.name) <=> i \in Listening(st, x)
    <3> DEFINE rt == Config(st, i).rules.remoteTrips
               trips == TripsOf(st, i)
    <3>1. rt = [k \in DOMAIN trips |-> TripOf(trips[k])]
      BY <2>1, BreakerRules
    <3>2. \A k \in DOMAIN trips : TripOf(trips[k]).peerIed = CoerceBoolOrStr(trips[k].name)
      BY TripFields
    <3>3. i \in Listening(st, x) <=> \E k \in DOMAIN trips : CoerceBoolOrStr(trips[k].name) = x.name
      BY DEF Listening
    <3> HIDE DEF rt, trips
    <3>4. Range(rt) = {TripOf(trips[k]) : k \in DOMAIN trips}
      BY <3>1 DEF Range
    <3>5. QED
      BY <3>2, <3>3, <3>4 DEF rt
  <2>5. ASSUME NEW j \in 1 .. XfmrsOf(st)
        PROVE  Range(Config(st, n + j).rules.remoteTrips) = {}
    <3>1. Config(st, n + j).rules.remoteTrips = <<>>
      BY <2>1, TransformerRules
    <3>2. QED
      BY <3>1 DEF Range
  <2>6. opened = {IedAt(st, i).name : i \in Listening(st, x)}
    <3>1. ASSUME NEW c \in Ieds, NEW t \in Range(c.rules.remoteTrips), t.peerIed = x.name
          PROVE  \E i \in Listening(st, x) : c.name = IedAt(st, i).name
      <4>1. PICK i \in Publishers(st) : c = Config(st, i)
        BY <2>1
      <4>2. i \in 1 .. n
        BY <2>2, <2>5, <3>1, <4>1
      <4>3. QED
        BY <2>3, <2>4, <3>1, <4>1, <4>2
    <3>2. ASSUME NEW i \in Listening(st, x)
          PROVE  \E c \in Ieds : (\E t \in Range(c.rules.remoteTrips) : t.peerIed = x.name) /\ c.name = IedAt(st, i).name
      <4>1. i \in 1 .. n
        BY DEF Listening
      <4>2. QED
        BY <2>1, <2>2, <2>3, <2>4, <4>1
    <3>3. QED
      BY <3>1, <3>2
  <2>7. opened = OpenedFor(lv, x.tap)
    BY <2>1, <2>6, ListeningOnes
  <2>8. lv \in BuiltLevels /\ x.tap \in Nat
    <3>1. x.level \in DOMAIN levels /\ x.tap \in DOMAIN levels[x.level].taps /\ levels \in Seq(BuiltLevels)
      BY <2>1 DEF StationOk
    <3>2. lv \in BuiltLevels
      BY <3>1
    <3>3. lv.taps \in Seq(TapSet)
      BY <3>2, BuiltLevelShape
    <3>4. QED
      BY <3>1, <3>2, <3>3
  <2>9. PICK start \in Nat, numbers \in SUBSET DOMAIN lv.taps :
              /\ Yard(CbrsOf(lv.layout, lv.taps, start))
              /\ lv.taps \in Seq(TapSet) /\ lv.breakers \in Seq(Devices)
              /\ Range(lv.breakers) = DevicesOf(lv.taps, CbrsOf(lv.layout, lv.taps, start), numbers)
    <3> HIDE DEF lv
    <3>1. QED
      BY <2>8, LevelYard
  <2> HIDE DEF lv, opened
  <2>10. IsIsolated(lv, x.tap, OpenedFor(lv, x.tap))
    BY <2>8, <2>9, TripIsolates
  <2>11. \A name \in OpenedFor(lv, x.tap) : ~IsIsolated(lv, x.tap, OpenedFor(lv, x.tap) \ {name})
    BY <2>8, <2>9, NoTripInVain
  <2>12. QED
    BY <2>7, <2>10, <2>11 DEF lv, opened
<1>2. QED
  BY <1>1, ToolInvariant, PTL

-----------------------------------------------------------------------------
(* The order of the breakers. *)

\* How many breakers a cell of a layout has.
Width(layout) == IF layout = "breaker_and_half" THEN 3 ELSE 1

\* The breakers of the cells are numbered on.
LEMMA CellNumbers ==
    ASSUME NEW layout \in Layouts, NEW tps \in Seq(TapSet), NEW start \in Nat,
           NEW c \in DOMAIN Cells(layout, tps, start), NEW k \in DOMAIN Cells(layout, tps, start)[c].cbs
    PROVE  /\ c \in Nat \ {0} /\ k \in 1 .. Width(layout)
           /\ \E a, b : Cells(layout, tps, start)[c].cbs[k] = Cbr(start + Width(layout) * (c - 1) + (k - 1), a, b)
<1> DEFINE cells == Cells(layout, tps, start)
           n == Len(tps)
<1>1. n \in Nat /\ DOMAIN tps = 1 .. n
  OBVIOUS
<1>2. ASSUME NEW w, NEW d, cells[c].cbs = <<w>>, d = start + (c - 1), c \in Nat \ {0}, Width(layout) = 1,
             \E a, b : w = Cbr(d, a, b)
      PROVE  /\ c \in Nat \ {0} /\ k \in 1 .. Width(layout)
             /\ \E a, b : cells[c].cbs[k] = Cbr(start + Width(layout) * (c - 1) + (k - 1), a, b)
  <2>1. k = 1 /\ cells[c].cbs[k] = w
    BY <1>2
  <2>2. start + Width(layout) * (c - 1) + (k - 1) = d
    BY <1>2, <2>1
  <2>3. QED
    BY <1>2, <2>1, <2>2
<1>3. CASE layout = "single_bus"
  <2>1. cells = SingleBus(tps, start)
    BY <1>3 DEF Cells
  <2>2. c \in 1 .. n /\ cells[c] = Cell(<<"Bay", c, <<>>>>, <<Cbr(start + c - 1, Bus(1), TapNode(c))>>, <<c>>)
    BY <1>1, <2>1 DEF SingleBus
  <2>3. cells[c].cbs = <<Cbr(start + c - 1, Bus(1), TapNode(c))>>
    BY <2>2 DEF Cell
  <2>4. c \in Nat \ {0} /\ start + c - 1 = start + (c - 1) /\ Width(layout) = 1
    BY <1>1, <1>3, <2>2 DEF Width
  <2>5. QED
    BY <1>2, <2>3, <2>4
<1>4. CASE layout = "ring_bus"
  <2>1. cells = RingBus(tps, start)
    BY <1>4 DEF Cells
  <2> DEFINE w == Cbr(start + c - 1, TapNode(c), TapNode((c % n) + 1))
  <2>2. c \in 1 .. n /\ cells[c] = Cell(<<"Bay", c, <<>>>>, <<w>>, <<c>>)
    BY <1>1, <2>1 DEF RingBus
  <2>3. cells[c].cbs = <<w>>
    BY <2>2 DEF Cell
  <2>4. c \in Nat \ {0} /\ start + c - 1 = start + (c - 1) /\ Width(layout) = 1
    BY <1>1, <1>4, <2>2 DEF Width
  <2>5. \E a, b : w = Cbr(start + (c - 1), a, b)
    BY <2>4
  <2> HIDE DEF w
  <2>6. QED
    BY <1>2, <2>3, <2>4, <2>5
<1>5. CASE layout = "main_and_transfer"
  <2> DEFINE s == SingleBus(tps, start)
             w == Cbr(start + n, Bus(1), Bus(2))
             tie == Cell(<<"Tie", 0, <<>>>>, <<w>>, <<>>)
  <2>1. cells = Append(s, tie)
    BY <1>5 DEF Cells, MainAndTransfer
  <2>2. s = [i \in 1 .. n |-> s[i]]
    BY <1>1 DEF SingleBus
  <2>3. \A i \in 1 .. n : s[i] = Cell(<<"Bay", i, <<>>>>, <<Cbr(start + i - 1, Bus(1), TapNode(i))>>, <<i>>)
    BY <1>1 DEF SingleBus
  <2>4. tie.cbs = <<w>>
    BY DEF Cell
  <2> HIDE DEF s, tie, w
  <2>5. s \in Seq(Range(s)) /\ Len(s) = n
    <3>1. \A i \in 1 .. n : s[i] \in Range(s)
      BY <2>2 DEF Range
    <3>2. QED
      BY <1>1, <2>2, <3>1, SeqOfValues
  <2>6. /\ DOMAIN Append(s, tie) = 1 .. n + 1
        /\ \A i \in 1 .. n : Append(s, tie)[i] = s[i]
        /\ Append(s, tie)[n + 1] = tie
    BY <1>1, <2>5
  <2>7. Width(layout) = 1 /\ c \in 1 .. n + 1 /\ c \in Nat \ {0} /\ start + c - 1 = start + (c - 1)
    BY <1>1, <1>5, <2>1, <2>6 DEF Width
  <2>8. CASE c \in 1 .. n
    <3>1. cells[c] = Cell(<<"Bay", c, <<>>>>, <<Cbr(start + c - 1, Bus(1), TapNode(c))>>, <<c>>)
      BY <2>1, <2>3, <2>6, <2>8
    <3>2. cells[c].cbs = <<Cbr(start + c - 1, Bus(1), TapNode(c))>>
      BY <3>1 DEF Cell
    <3>3. QED
      BY <1>2, <2>7, <3>2
  <2>9. CASE c = n + 1
    <3>1. cells[c].cbs = <<w>>
      BY <2>1, <2>4, <2>6, <2>9
    <3>2. start + (c - 1) = start + n
      BY <1>1, <2>9
    <3>3. \E a, b : w = Cbr(start + (c - 1), a, b)
      BY <3>2 DEF w
    <3>4. QED
      BY <1>2, <2>7, <3>1, <3>3
  <2>10. QED
    BY <1>1, <2>7, <2>8, <2>9
<1>6. CASE layout = "breaker_and_half"
  <2>1. cells = BreakerAndHalf(tps, start)
    BY <1>6 DEF Cells
  <2> DEFINE i == 2 * c - 1
             m == start + 3 * (c - 1)
             x == Cbr(m, Bus(1), TapNode(i))
             y == Cbr(m + 1, TapNode(i), TapNode(i + 1))
             z == Cbr(m + 2, TapNode(i + 1), Bus(2))
  <2>2. c \in 1 .. n \div 2 /\ cells[c] = Cell(<<"Diameter", c, <<>>>>, <<x, y, z>>, <<i, i + 1>>)
    BY <1>1, <2>1 DEF BreakerAndHalf
  <2>3. c \in Nat \ {0} /\ Width(layout) = 3
    BY <1>1, <1>6, <2>2 DEF Width
  <2>4. m \in Nat
    BY <2>3
  <2> HIDE DEF m
  <2>5. (\E a, b : x = Cbr(m, a, b)) /\ (\E a, b : y = Cbr(m + 1, a, b)) /\ (\E a, b : z = Cbr(m + 2, a, b))
    OBVIOUS
  <2> HIDE DEF x, y, z
  <2>6. cells[c].cbs = <<x, y, z>>
    BY <2>2 DEF Cell
  <2>7. \/ k = 1 /\ cells[c].cbs[k] = x
        \/ k = 2 /\ cells[c].cbs[k] = y
        \/ k = 3 /\ cells[c].cbs[k] = z
    BY <2>6
  <2>8. k \in 1 .. 3 /\ \E a, b : cells[c].cbs[k] = Cbr(m + (k - 1), a, b)
    <3>1. CASE k = 1
      <4>1. m + (k - 1) = m
        BY <2>4, <3>1
      <4>2. QED
        BY <2>5, <2>7, <3>1, <4>1
    <3>2. CASE k = 2
      <4>1. m + (k - 1) = m + 1
        BY <2>4, <3>2
      <4>2. QED
        BY <2>5, <2>7, <3>2, <4>1
    <3>3. CASE k = 3
      <4>1. m + (k - 1) = m + 2
        BY <2>4, <3>3
      <4>2. QED
        BY <2>5, <2>7, <3>3, <4>1
    <3>4. QED
      BY <2>7, <3>1, <3>2, <3>3
  <2>9. m = start + Width(layout) * (c - 1)
    BY <2>3 DEF m
  <2>10. QED
    BY <2>3, <2>8, <2>9
<1>7. QED
  BY <1>3, <1>4, <1>5, <1>6 DEF Layouts

\* They grow from cell to cell and within a cell.
LEMMA NumbersRise ==
    ASSUME NEW w \in {1, 3}, NEW start \in Nat, NEW c \in Nat, NEW d \in Nat, NEW k \in 1 .. w, NEW l \in 1 .. w,
           c < d \/ (c = d /\ k < l)
    PROVE  start + w * (c - 1) + (k - 1) < start + w * (d - 1) + (l - 1)
<1>1. CASE w = 1
  BY <1>1
<1>2. CASE w = 3
  BY <1>2
<1>3. QED
  BY <1>1, <1>2

\* Of the devices of a bay only those it begins with are breakers.
LEMMA BayBegins ==
    ASSUME NEW tps \in Seq(TapSet), NEW cell \in CellsOf(tps), NEW k \in DOMAIN Equipped(tps, cell).breakers,
           Equipped(tps, cell).breakers[k].type = "CBR"
    PROVE  k \in DOMAIN cell.cbs /\ Equipped(tps, cell).breakers[k] = Isolated(cell.cbs[k])
<1>1. PICK one, two, three : BayParts(tps, cell, one, two, three)
  BY EquippedParts
<1> DEFINE t == Equipped(tps, cell).breakers
<1>2. /\ one \in Seq(Devices) /\ two \in Seq(Devices) /\ three \in Seq(Devices)
      /\ t = (one \o two) \o three
      /\ DOMAIN one = DOMAIN cell.cbs /\ \A j \in DOMAIN cell.cbs : one[j] = Isolated(cell.cbs[j])
  BY <1>1 DEF BayParts
<1>3. \A d \in Range(two) \cup Range(three) : d.type # "CBR"
  <2>1. \A d \in Range(two) : d \in Disconnects
    <3> SUFFICES ASSUME NEW d \in Range(two) PROVE d \in Disconnects
      OBVIOUS
    <3>1. PICK cb \in Range(cell.cbs) : d \in PairOf(cb)
      BY <1>1 DEF BayParts
    <3>2. cb \in Cbrs
      BY <3>1 DEF CellsOf, Range
    <3>3. PICK n \in Nat, a \in Nodes, b \in Nodes : cb = Cbr(n, a, b)
      BY <3>2 DEF Cbrs
    <3>4. QED
      BY <3>1, <3>3, PairOfCbr
  <2>2. \A d \in Range(three) : d \in Disconnects
    <3> SUFFICES ASSUME NEW d \in Range(three) PROVE d \in Disconnects
      OBVIOUS
    <3>1. PICK i \in Range(cell.taps) : d = ExitDisconnect(tps, i)
      BY <1>1 DEF BayParts
    <3>2. i \in DOMAIN tps
      BY <3>1 DEF CellsOf, Range
    <3>3. QED
      BY <3>1, <3>2, ExitTyped
  <2>3. \A d \in Disconnects : d.type = "DIS"
    BY DEF Disconnects, Dis
  <2>4. QED
    BY <2>1, <2>2, <2>3
<1> HIDE DEF t
<1>4. (one \o two) \o three = one \o (two \o three)
  BY <1>2
<1> DEFINE rest == two \o three
<1>5. rest \in Seq(Devices) /\ Range(rest) = Range(two) \cup Range(three)
  BY <1>2, RangeConcat
<1>6. t = one \o rest
  BY <1>2, <1>4
<1> HIDE DEF rest
<1>7. /\ DOMAIN (one \o rest) = 1 .. Len(one) + Len(rest) /\ DOMAIN one = 1 .. Len(one)
      /\ Len(one) \in Nat /\ Len(rest) \in Nat
      /\ \A j \in 1 .. Len(one) : (one \o rest)[j] = one[j]
      /\ \A j \in 1 .. Len(one) + Len(rest) : j \notin 1 .. Len(one) =>
            j - Len(one) \in DOMAIN rest /\ (one \o rest)[j] = rest[j - Len(one)]
  BY <1>2, <1>5
<1>8. k \in 1 .. Len(one)
  <2> SUFFICES ASSUME k \notin 1 .. Len(one) PROVE FALSE
    OBVIOUS
  <2>1. k \in 1 .. Len(one) + Len(rest)
    BY <1>6, <1>7 DEF t
  <2>2. t[k] \in Range(rest)
    BY <1>6, <1>7, <2>1 DEF Range
  <2>3. QED
    BY <1>3, <1>5, <2>2 DEF t
<1>9. QED
  BY <1>2, <1>6, <1>7, <1>8 DEF t

\* The lists of devices that a built level is put together from.
BayLists(layout, tps, start, lists, n) ==
    /\ n \in Nat /\ lists \in Seq(Seq(Devices))
    /\ \A b \in DOMAIN lists : \A j \in DOMAIN lists[b] :
         \E c \in DOMAIN Cells(layout, tps, start) :
            b = n + c /\ lists[b] = Equipped(tps, Cells(layout, tps, start)[c]).breakers
    /\ \A c \in DOMAIN Cells(layout, tps, start) :
         n + c \in DOMAIN lists /\ lists[n + c] = Equipped(tps, Cells(layout, tps, start)[c]).breakers
IsListed(layout, tps, start, s) ==
    \E lists, n : BayLists(layout, tps, start, lists, n) /\ s = FlattenSeq(lists)

\* The bays of the bare buses have none, and the others are those of the cells.
LEMMA ListsOfBuild ==
    ASSUME NEW name, NEW kv, NEW layout \in Layouts, NEW tps \in Seq(TapSet), NEW start \in Nat,
           ~Refuses(layout, tps)
    PROVE  IsListed(layout, tps, start, Build(name, kv, layout, tps, start).breakers)
<1> DEFINE buses == BusBays(layout)
           cells == Cells(layout, tps, start)
           bare == [i \in DOMAIN buses |-> BusBay(buses[i], i)]
           full == [k \in DOMAIN cells |-> Equipped(tps, cells[k])]
           bays == bare \o full
           lists == [k \in DOMAIN bays |-> bays[k].breakers]
<1>1. PICK n \in Nat : DOMAIN buses = 1 .. n
  <2>1. \/ buses = <<"BusA", "BusB">> \/ buses = <<"Bus">>
        \/ buses = <<"MainBus", "TransferBus">> \/ buses = <<>>
    BY DEF BusBays, Layouts
  <2> HIDE DEF buses
  <2>2. DOMAIN buses = 1 .. 2 \/ DOMAIN buses = 1 .. 1 \/ DOMAIN buses = 1 .. 0
    BY <2>1
  <2>3. QED
    BY <2>2
<1>2. cells \in Seq(CellsOf(tps))
  BY CellsTyped
<1>3. PICK m \in Nat : DOMAIN cells = 1 .. m
  BY <1>2
<1>4. bare = [k \in 1 .. n |-> bare[k]] /\ full = [k \in 1 .. m |-> full[k]]
  BY <1>1, <1>3
<1>5. /\ \A k \in 1 .. n : bare[k].breakers = <<>>
      /\ \A k \in 1 .. m : full[k].breakers = Equipped(tps, cells[k]).breakers
  BY <1>1, <1>3 DEF BusBay
<1>6. \A k \in 1 .. m : full[k].breakers \in Seq(Devices)
  <2>1. \A k \in 1 .. m : cells[k] \in CellsOf(tps)
    BY <1>2, <1>3
  <2> HIDE DEF cells, full
  <2>2. QED
    BY <1>5, <2>1, EquippedDevices
<1>7. Build(name, kv, layout, tps, start).breakers = FlattenSeq(lists)
  BY DEF Build, Level
<1> HIDE DEF buses, bare, full
<1>8. Parted(bare, full, n, m)
  <2>1. Counted(bare, n) /\ Counted(full, m)
    BY <1>4 DEF Counted
  <2>2. QED
    BY <1>1, <1>3, <2>1, TwoParts
<1>9. /\ DOMAIN bays = 1 .. n + m /\ \A k \in 1 .. n : bays[k] = bare[k]
      /\ \A k \in 1 .. m : bays[n + k] = full[k]
      /\ \A b \in 1 .. n + m : b \in 1 .. n \/ \E k \in 1 .. m : b = n + k
  BY <1>8 DEF Parted
<1> HIDE DEF bays
<1>10. /\ lists = [b \in 1 .. n + m |-> lists[b]] /\ DOMAIN lists = 1 .. n + m
       /\ \A k \in 1 .. n : lists[k] = <<>>
       /\ \A k \in 1 .. m : lists[n + k] = Equipped(tps, cells[k]).breakers /\ lists[n + k] \in Seq(Devices)
  <2>1. \A b \in 1 .. n + m : lists[b] = bays[b].breakers
    BY <1>9
  <2>2. \A k \in 1 .. n : k \in 1 .. n + m
    BY <1>3
  <2>3. \A k \in 1 .. m : n + k \in 1 .. n + m
    BY <1>1
  <2>4. lists = [b \in 1 .. n + m |-> lists[b]] /\ DOMAIN lists = 1 .. n + m
    BY <1>9
  <2> HIDE DEF lists, cells
  <2>5. \A k \in 1 .. n : lists[k] = <<>>
    BY <1>5, <1>9, <2>1, <2>2
  <2>6. \A k \in 1 .. m : lists[n + k] = full[k].breakers
    BY <1>9, <2>1, <2>3
  <2>7. QED
    BY <1>5, <1>6, <2>4, <2>5, <2>6
<1> HIDE DEF lists, cells
<1>11. lists \in Seq(Seq(Devices))
  <2> DEFINE R == Seq(Devices)
  <2>1. <<>> \in R
    OBVIOUS
  <2>2. \A b \in 1 .. n + m : lists[b] \in R
    BY <1>9, <1>10, <2>1
  <2>3. n + m \in Nat
    BY <1>1, <1>3
  <2> HIDE DEF R
  <2>4. lists \in Seq(R)
    BY <1>10, <2>2, <2>3, SeqOfValues
  <2>5. QED
    BY <2>4 DEF R
<1>12. ASSUME NEW b \in DOMAIN lists, NEW j \in DOMAIN lists[b]
       PROVE  \E c \in DOMAIN cells : b = n + c /\ lists[b] = Equipped(tps, cells[c]).breakers
  <2>1. b \notin 1 .. n
    <3>1. lists[b] # <<>>
      <4>1. DOMAIN <<>> = {}
        OBVIOUS
      <4>2. QED
        BY <1>12, <4>1
    <3>2. QED
      BY <1>10, <3>1
  <2>2. PICK k \in 1 .. m : b = n + k
    BY <1>9, <1>10, <2>1
  <2>3. QED
    BY <1>3, <1>10, <2>2
<1>12a. \A c \in DOMAIN cells : n + c \in DOMAIN lists /\ lists[n + c] = Equipped(tps, cells[c]).breakers
  <2>1. \A c \in 1 .. m : n + c \in 1 .. n + m
    BY <1>1
  <2>2. QED
    BY <1>3, <1>10, <2>1
<1>13. BayLists(layout, tps, start, lists, n)
  BY <1>1, <1>11, <1>12, <1>12a DEF BayLists, cells
<1>14. QED
  BY <1>7, <1>13 DEF IsListed

\* The breaker at a place of a level has the number of that place.
LEMMA NumberAtPlace ==
    ASSUME NEW layout \in Layouts, NEW tps \in Seq(TapSet), NEW start \in Nat, ~Refuses(layout, tps),
           NEW lists, NEW n, BayLists(layout, tps, start, lists, n),
           NEW pl \in Places(lists), lists[pl[1]][pl[2]].type = "CBR"
    PROVE  /\ pl[1] \in Nat /\ pl[1] - n \in Nat \ {0} /\ pl[2] \in 1 .. Width(layout)
           /\ lists[pl[1]][pl[2]].name = CbrName(start + Width(layout) * (pl[1] - n - 1) + (pl[2] - 1))
<1> DEFINE cells == Cells(layout, tps, start)
           b == pl[1]
           j == pl[2]
<1>1. n \in Nat /\ b \in Nat /\ j \in Nat /\ b \in DOMAIN lists /\ j \in DOMAIN lists[b]
  BY DEF BayLists, Places
<1>2. PICK c \in DOMAIN cells : b = n + c /\ lists[b] = Equipped(tps, cells[c]).breakers
  BY <1>1 DEF BayLists
<1>3. cells \in Seq(CellsOf(tps))
  BY CellsTyped
<1>4. cells[c] \in CellsOf(tps)
  BY <1>3
<1>5. j \in DOMAIN cells[c].cbs /\ lists[b][j] = Isolated(cells[c].cbs[j])
  <2>1. Equipped(tps, cells[c]).breakers[j].type = "CBR" /\ j \in DOMAIN Equipped(tps, cells[c]).breakers
    BY <1>1, <1>2
  <2> HIDE DEF cells, b, j
  <2>2. QED
    BY <1>2, <1>4, <2>1, BayBegins
<1>6. /\ c \in Nat \ {0} /\ j \in 1 .. Width(layout)
      /\ \E x, y : cells[c].cbs[j] = Cbr(start + Width(layout) * (c - 1) + (j - 1), x, y)
  <2>1. j \in DOMAIN cells[c].cbs
    BY <1>5
  <2> HIDE DEF j
  <2>2. QED
    BY <2>1, CellNumbers
<1> HIDE DEF cells, b, j
<1>7. PICK x, y : cells[c].cbs[j] = Cbr(start + Width(layout) * (c - 1) + (j - 1), x, y)
  BY <1>6
<1>8. b - n = c
  BY <1>1, <1>2, <1>6
<1>9. lists[b][j].name = CbrName(start + Width(layout) * (c - 1) + (j - 1))
  BY <1>5, <1>7 DEF Isolated, Cbr, CbrName
<1>10. QED
  BY <1>1, <1>6, <1>8, <1>9 DEF b, j

\* The breakers of a level are listed in the order of their numbers.
LEMMA LevelOrder ==
    ASSUME NEW lv \in BuiltLevels, NEW k \in DOMAIN lv.breakers, NEW l \in DOMAIN lv.breakers, k < l,
           lv.breakers[k].type = "CBR", lv.breakers[l].type = "CBR"
    PROVE  \E i, j \in Nat : i < j /\ lv.breakers[k].name = CbrName(i) /\ lv.breakers[l].name = CbrName(j)
<1>1. PICK name \in NameSet, kv \in Voltages \cup OddVoltages, layout \in Layouts,
           tps \in Seq(TapSet), start \in Nat : lv = Build(name, kv, layout, tps, start)
  BY DEF BuiltLevels
<1>2. ~Refuses(layout, tps)
  BY <1>1, TapsOfBuild DEF BuiltLevels
<1>2a. IsListed(layout, tps, start, lv.breakers)
  BY <1>1, <1>2, ListsOfBuild
<1>3. PICK lists, n : BayLists(layout, tps, start, lists, n) /\ lv.breakers = FlattenSeq(lists)
  BY <1>2a DEF IsListed
<1> DEFINE t == lv.breakers
           w == Width(layout)
<1>4. t = FlattenSeq(lists)
  BY <1>3
<1>5. lists \in Seq(Seq(Devices)) /\ n \in Nat
  BY <1>3 DEF BayLists
<1>6. PICK at : Lists(FlattenSeq(lists), lists, at)
  BY <1>5, FlattenLists
<1> HIDE DEF t
<1>7. k \in DOMAIN t /\ l \in DOMAIN t /\ t[k].type = "CBR" /\ t[l].type = "CBR"
  BY DEF t
<1>8. /\ at[k] \in Places(lists) /\ t[k] = lists[at[k][1]][at[k][2]]
      /\ at[l] \in Places(lists) /\ t[l] = lists[at[l][1]][at[l][2]]
      /\ at[k][1] < at[l][1] \/ (at[k][1] = at[l][1] /\ at[k][2] < at[l][2])
  BY <1>4, <1>6, <1>7 DEF Lists
<1> DEFINE Number(pl) == start + w * (pl[1] - n - 1) + (pl[2] - 1)
<1>9. ASSUME NEW pl \in Places(lists), lists[pl[1]][pl[2]].type = "CBR"
      PROVE  /\ pl[1] \in Nat /\ pl[1] - n \in Nat \ {0} /\ pl[2] \in 1 .. w
             /\ lists[pl[1]][pl[2]].name = CbrName(Number(pl))
  BY <1>2, <1>3, <1>9, NumberAtPlace
<1>10. w \in {1, 3}
  BY DEF Width
<1> HIDE DEF w
<1>11. ASSUME NEW pl \in Places(lists), lists[pl[1]][pl[2]].type = "CBR" PROVE Number(pl) \in Nat
  <2> DEFINE c == pl[1] - n
  <2>1. c \in Nat \ {0} /\ pl[2] \in 1 .. w
    BY <1>9, <1>11
  <2> HIDE DEF c
  <2>2. start + w * (c - 1) + (pl[2] - 1) \in Nat
    BY <1>10, <2>1
  <2>3. QED
    BY <2>2 DEF c
<1>12. Number(at[k]) < Number(at[l])
  <2> DEFINE x == at[k][1]
             y == at[l][1]
             c == x - n
             d == y - n
             i == at[k][2]
             j == at[l][2]
  <2>1. /\ x \in Nat /\ y \in Nat
        /\ c \in Nat \ {0} /\ d \in Nat \ {0} /\ i \in 1 .. w /\ j \in 1 .. w
    BY <1>7, <1>8, <1>9
  <2>2. x < y \/ (x = y /\ i < j)
    BY <1>8
  <2> HIDE DEF x, y, i, j
  <2>2a. c < d \/ (c = d /\ i < j)
    BY <1>5, <2>1, <2>2
  <2> HIDE DEF c, d
  <2>3. start + w * (c - 1) + (i - 1) < start + w * (d - 1) + (j - 1)
    BY <1>10, <2>1, <2>2a, NumbersRise
  <2>4. QED
    BY <2>3 DEF c, d, i, j, x, y
<1> HIDE DEF Number
<1>13. /\ t[k].name = CbrName(Number(at[k])) /\ t[l].name = CbrName(Number(at[l]))
       /\ Number(at[k]) \in Nat /\ Number(at[l]) \in Nat
  BY <1>7, <1>8, <1>9, <1>11
<1>14. QED
  BY <1>12, <1>13 DEF t

\* The breakers bounding a tap come in the order of their numbers.
LEMMA BoundingOrder ==
    ASSUME NEW lv \in BuiltLevels, NEW i
    PROVE  /\ Bounding(lv, i) \in Seq(Devices)
           /\ \A p, q \in DOMAIN Bounding(lv, i) : p < q =>
                \E m, n \in Nat : /\ m < n
                                  /\ Bounding(lv, i)[p].name = CbrName(m) /\ Bounding(lv, i)[q].name = CbrName(n)
<1> DEFINE s == lv.breakers
           reached == Reached(TapNode(i), {Ends(b) : b \in {d \in Range(s) : ~IsCbr(d)}})
           P == {k \in DOMAIN s : IsCbr(s[k]) /\ Ends(s[k]) \cap reached # {}}
           t == At(s, P)
<1>1. Bounding(lv, i) = t
  BY DEF Bounding, BreakersBounding, Chosen
<1>2. s \in Seq(Devices)
  BY BuiltLevelShape
<1>3. P \in SUBSET DOMAIN s /\ \A k \in P : s[k].type = "CBR"
  BY DEF IsCbr
<1>4. \A k, l \in DOMAIN s : k < l /\ s[k].type = "CBR" /\ s[l].type = "CBR" =>
         \E m, n \in Nat : m < n /\ s[k].name = CbrName(m) /\ s[l].name = CbrName(n)
  BY LevelOrder
<1> HIDE DEF s, P
<1>5. t \in Seq(Devices) /\ Picks(t, s, P)
  BY <1>2, <1>3, AtPicks
<1> HIDE DEF t
<1>6. PICK f \in [DOMAIN t -> P] : /\ \A p \in DOMAIN t : t[p] = s[f[p]]
                                   /\ \A p, q \in DOMAIN t : p < q => f[p] < f[q]
  BY <1>5 DEF Picks
<1>7. ASSUME NEW p \in DOMAIN t, NEW q \in DOMAIN t, p < q
      PROVE  \E m, n \in Nat : m < n /\ t[p].name = CbrName(m) /\ t[q].name = CbrName(n)
  <2>1. f[p] \in P /\ f[q] \in P /\ f[p] < f[q] /\ t[p] = s[f[p]] /\ t[q] = s[f[q]]
    BY <1>6, <1>7
  <2>2. QED
    BY <1>3, <1>4, <2>1
<1>8. QED
  BY <1>1, <1>5, <1>7

\* What they are called is what a trip of the tap opens.
LEMMA BoundingNames ==
    ASSUME NEW lv, NEW i
    PROVE  OpenedFor(lv, i) = {Bounding(lv, i)[p].name : p \in DOMAIN Bounding(lv, i)}
<1>1. RemoteTripsFor(lv, i) = Bounding(lv, i)
  BY DEF RemoteTripsFor, Bounding
<1>2. QED
  BY <1>1 DEF OpenedFor, Range

\* A number is in the name.
LEMMA NumberInName ==
    ASSUME NEW m, NEW n, CbrName(m) = CbrName(n)
    PROVE  m = n
BY DEF CbrName

\* Where two breakers are opened, they are the pair, the first one first, ...
LEMMA TwoBounding ==
    ASSUME NEW lv \in BuiltLevels, NEW i, NEW x \in Nat, NEW y \in Nat, x < y,
           OpenedFor(lv, i) = {CbrName(x), CbrName(y)}
    PROVE  /\ Len(Bounding(lv, i)) = 2
           /\ Bounding(lv, i)[1].name = CbrName(x) /\ Bounding(lv, i)[2].name = CbrName(y)
<1> DEFINE t == Bounding(lv, i)
<1>1. t \in Seq(Devices)
  BY BoundingOrder
<1>2. \A p, q \in DOMAIN t : p < q => \E m, n \in Nat : m < n /\ t[p].name = CbrName(m) /\ t[q].name = CbrName(n)
  BY BoundingOrder
<1>3. {t[p].name : p \in DOMAIN t} = {CbrName(x), CbrName(y)}
  BY BoundingNames
<1> HIDE DEF t
<1>4. Len(t) \in Nat /\ DOMAIN t = 1 .. Len(t)
  BY <1>1
<1>5. \A p \in DOMAIN t : t[p].name = CbrName(x) \/ t[p].name = CbrName(y)
  BY <1>3
<1>6. \A p, q \in DOMAIN t : p < q => t[p].name = CbrName(x) /\ t[q].name = CbrName(y)
  <2> SUFFICES ASSUME NEW p \in DOMAIN t, NEW q \in DOMAIN t, p < q
               PROVE  t[p].name = CbrName(x) /\ t[q].name = CbrName(y)
    OBVIOUS
  <2>1. PICK m \in Nat, n \in Nat : m < n /\ t[p].name = CbrName(m) /\ t[q].name = CbrName(n)
    BY <1>2
  <2>2. (m = x \/ m = y) /\ (n = x \/ n = y)
    BY <1>5, <2>1, NumberInName
  <2>3. m = x /\ n = y
    BY <2>1, <2>2
  <2>4. QED
    BY <2>1, <2>3
<1>7. PICK p \in DOMAIN t, q \in DOMAIN t : t[p].name = CbrName(x) /\ t[q].name = CbrName(y)
  BY <1>3
<1>8. CbrName(x) # CbrName(y)
  BY NumberInName
<1>9. p # q
  BY <1>7, <1>8
<1>10. Len(t) >= 2
  BY <1>4, <1>9
<1>11. ~ (Len(t) >= 3)
  <2> SUFFICES ASSUME Len(t) >= 3 PROVE FALSE
    OBVIOUS
  <2>1. 1 \in DOMAIN t /\ 2 \in DOMAIN t /\ 3 \in DOMAIN t
    BY <1>4
  <2>2. t[2].name = CbrName(x) /\ t[2].name = CbrName(y)
    BY <1>6, <2>1
  <2>3. QED
    BY <1>8, <2>2
<1>12. Len(t) = 2 /\ 1 \in DOMAIN t /\ 2 \in DOMAIN t
  BY <1>4, <1>10, <1>11
<1>13. t[1].name = CbrName(x) /\ t[2].name = CbrName(y)
  BY <1>6, <1>12
<1>14. QED
  BY <1>12, <1>13 DEF t

\* ... and where one is, there is no pair.
LEMMA OneBounding ==
    ASSUME NEW lv \in BuiltLevels, NEW i, NEW x, OpenedFor(lv, i) = {CbrName(x)}
    PROVE  Len(Bounding(lv, i)) # 2
<1> DEFINE t == Bounding(lv, i)
<1> SUFFICES ASSUME Len(t) = 2 PROVE FALSE
  OBVIOUS
<1>1. t \in Seq(Devices)
  BY BoundingOrder
<1>2. \A p, q \in DOMAIN t : p < q => \E m, n \in Nat : m < n /\ t[p].name = CbrName(m) /\ t[q].name = CbrName(n)
  BY BoundingOrder
<1>3. {t[p].name : p \in DOMAIN t} = {CbrName(x)}
  BY BoundingNames
<1> HIDE DEF t
<1>4. 1 \in DOMAIN t /\ 2 \in DOMAIN t
  BY <1>1
<1>5. PICK m \in Nat, n \in Nat : m < n /\ t[1].name = CbrName(m) /\ t[2].name = CbrName(n)
  BY <1>2, <1>4
<1>6. t[1].name = CbrName(x) /\ t[2].name = CbrName(x)
  BY <1>3, <1>4
<1>7. m = n
  BY <1>5, <1>6, NumberInName
<1>8. QED
  BY <1>5, <1>7

-----------------------------------------------------------------------------
(* The pairs that interlock. *)

\* The numbers of the breakers that a layout puts next to a tap.
Touching(C, t) == {m \in Nat : \E b \in Terminals : Cbr(m, TapNode(t), b) \in C \/ Cbr(m, b, TapNode(t)) \in C}

\* They are the breakers that a trip of the tap opens.
LEMMA OpenedNumbers ==
    ASSUME NEW C, Yard(C), NEW tps \in Seq(TapSet), NEW numbers \in SUBSET DOMAIN tps,
           NEW lv, lv.breakers \in Seq(Devices), Range(lv.breakers) = DevicesOf(tps, C, numbers),
           NEW t \in Nat
    PROVE  OpenedFor(lv, t) = {CbrName(m) : m \in Touching(C, t)}
<1>1. /\ TapNode(t) \in Beside(lv, t) /\ Closed(Links(lv), Beside(lv, t))
      /\ Beside(lv, t) \subseteq Around(C, t)
  BY BesideTap
<1>2. TapNode(t) \in Terminals
  BY DEF TapNode, Terminals
<1>3. OpenedFor(lv, t) = {d.name : d \in {e \in Range(lv.breakers) :
                                            e.type = "CBR" /\ Ends(e) \cap Beside(lv, t) # {}}}
  BY OpenedOnes
<1>4. ASSUME NEW d \in Range(lv.breakers), d.type = "CBR", Ends(d) \cap Beside(lv, t) # {}
      PROVE  \E m \in Touching(C, t) : d.name = CbrName(m)
  <2>1. d \in DevicesOf(tps, C, numbers)
    OBVIOUS
  <2>2. PICK m \in Nat : d = BreakerOf(m)
    BY <1>4, <2>1, YardDevice
  <2>3. Ends(d) = {SideA(m), SideB(m)} /\ d.name = CbrName(m)
    BY <2>2, BreakerFields DEF Ends
  <2>4. SideA(m) \in Around(C, t) \/ SideB(m) \in Around(C, t)
    BY <1>1, <1>4, <2>3
  <2>5. \/ \E b \in Terminals : Cbr(m, TapNode(t), b) \in C
        \/ \E b \in Terminals : Cbr(m, b, TapNode(t)) \in C
    BY <2>4, AroundTap
  <2>6. m \in Touching(C, t)
    BY <2>5 DEF Touching
  <2>7. QED
    BY <2>3, <2>6
<1>5. ASSUME NEW m \in Touching(C, t)
      PROVE  \E d \in Range(lv.breakers) : /\ d.type = "CBR" /\ Ends(d) \cap Beside(lv, t) # {}
                                           /\ d.name = CbrName(m)
  <2>1. m \in Nat /\ \E a, b \in Terminals : Cbr(m, a, b) \in C /\ (a = TapNode(t) \/ b = TapNode(t))
    BY <1>2 DEF Touching
  <2>2. PICK a \in Terminals, b \in Terminals : Cbr(m, a, b) \in C /\ (a = TapNode(t) \/ b = TapNode(t))
    BY <2>1
  <2>3. BreakerOf(m) \in Range(lv.breakers) /\ Disconnectable(Range(lv.breakers), m, a, b)
    BY <2>1, <2>2, AroundBreaker
  <2>4. PICK d, e \in Range(lv.breakers) : /\ d \in Disconnects /\ e \in Disconnects
                                           /\ Ends(d) = {a, SideA(m)} /\ Ends(e) = {SideB(m), b}
    BY <2>3 DEF Disconnectable
  <2>5. \A f \in Disconnects : ~IsCbr(f)
    BY DEF Disconnects, Dis, IsCbr
  <2>6. Ends(d) \in Links(lv) /\ Ends(e) \in Links(lv)
    BY <2>4, <2>5 DEF Links
  <2>7. \A l \in Links(lv) : l \cap Beside(lv, t) # {} => l \subseteq Beside(lv, t)
    BY <1>1 DEF Closed
  <2>8. SideA(m) \in Beside(lv, t) \/ SideB(m) \in Beside(lv, t)
    BY <1>1, <2>2, <2>4, <2>6, <2>7
  <2>9. /\ BreakerOf(m).type = "CBR" /\ BreakerOf(m).name = CbrName(m)
        /\ Ends(BreakerOf(m)) = {SideA(m), SideB(m)}
    BY <2>1, BreakerFields DEF Ends
  <2>10. QED
    BY <2>3, <2>8, <2>9
<1>6. QED
  BY <1>3, <1>4, <1>5

\* A breaker tells what it was made of.
LEMMA CbrSame ==
    ASSUME NEW m, NEW a, NEW b, NEW k, NEW p, NEW q, Cbr(m, a, b) = Cbr(k, p, q)
    PROVE  m = k /\ a = p /\ b = q
<1>1. m = k
  BY CbrAlike
<1>2. Cbr(m, a, b).a = a /\ Cbr(m, a, b).b = b /\ Cbr(k, p, q).a = p /\ Cbr(k, p, q).b = q
  BY DEF Cbr
<1>3. QED
  BY <1>1, <1>2

\* What touches a tap, when all breakers of a layout are known.
LEMMA TouchingOnes ==
    ASSUME NEW C, NEW t \in Nat, NEW m
    PROVE  m \in Touching(C, t) <=>
              /\ m \in Nat
              /\ \E a, b \in Terminals : Cbr(m, a, b) \in C /\ (a = TapNode(t) \/ b = TapNode(t))
<1>1. TapNode(t) \in Terminals
  BY DEF TapNode, Terminals
<1>2. QED
  BY <1>1 DEF Touching

\* The breakers of the cells are those of the layout.
LEMMA CbrOfCell ==
    ASSUME NEW layout, NEW tps, NEW start, NEW c \in DOMAIN Cells(layout, tps, start),
           NEW k \in DOMAIN Cells(layout, tps, start)[c].cbs
    PROVE  Cells(layout, tps, start)[c].cbs[k] \in CbrsOf(layout, tps, start)
BY DEF CbrsOf, Range

\* Where every tap has a breaker of its own, that is the one.
LEMMA OnlyBreaker ==
    ASSUME NEW layout \in {"single_bus", "main_and_transfer"}, NEW tps \in Seq(TapSet), NEW start \in Nat,
           NEW i \in 1 .. Len(tps)
    PROVE  Touching(CbrsOf(layout, tps, start), i) = {start + i - 1}
<1> DEFINE n == Len(tps)
           C == CbrsOf(layout, tps, start)
           cells == Cells(layout, tps, start)
           w == Cbr(start + i - 1, Bus(1), TapNode(i))
<1>1. n \in Nat /\ DOMAIN tps = 1 .. n /\ i \in Nat /\ start + i - 1 \in Nat
  OBVIOUS
<1>2. Bus(1) \in Terminals /\ TapNode(i) \in Terminals
  BY <1>1 DEF Bus, TapNode, Terminals
<1>3. \A cb \in C : (\E j \in 1 .. n : cb = Cbr(start + j - 1, Bus(1), TapNode(j)))
                    \/ cb = Cbr(start + n, Bus(1), Bus(2))
  <2>1. CASE layout = "single_bus"
    BY <1>1, <2>1, SingleBusYard
  <2>2. CASE layout = "main_and_transfer"
    BY <1>1, <2>2, MainAndTransferYard
  <2>3. QED
    BY <2>1, <2>2
<1>4. w \in C
  <2> DEFINE s == SingleBus(tps, start)
             tie == Cell(<<"Tie", 0, <<>>>>, <<Cbr(start + n, Bus(1), Bus(2))>>, <<>>)
  <2>1. s = [k \in 1 .. n |-> s[k]] /\ s[i].cbs = <<w>>
    BY <1>1 DEF SingleBus, Cell
  <2>2. i \in DOMAIN cells /\ cells[i] = s[i]
    <3>1. CASE layout = "single_bus"
      <4>1. cells = s
        BY <3>1 DEF Cells
      <4>2. QED
        BY <1>1, <2>1, <4>1
    <3>2. CASE layout = "main_and_transfer"
      <4>1. cells = Append(s, tie)
        BY <3>2 DEF Cells, MainAndTransfer
      <4> HIDE DEF s, tie
      <4>2. \A k \in 1 .. n : s[k] \in Range(s)
        BY <2>1 DEF Range
      <4>3. s \in Seq(Range(s)) /\ Len(s) = n
        BY <1>1, <2>1, <4>2, SeqOfValues
      <4>4. i \in DOMAIN Append(s, tie) /\ Append(s, tie)[i] = s[i]
        BY <1>1, <4>3
      <4>5. QED
        BY <4>1, <4>4
    <3>3. QED
      BY <3>1, <3>2
  <2> HIDE DEF s, cells, w
  <2>3. 1 \in DOMAIN cells[i].cbs /\ cells[i].cbs[1] = w
    BY <2>1, <2>2
  <2>4. QED
    BY <2>2, <2>3, CbrOfCell DEF cells
<1> HIDE DEF C, n
<1>5. ASSUME NEW m \in Touching(C, i) PROVE m = start + i - 1
  <2>1. PICK a \in Terminals, b \in Terminals : Cbr(m, a, b) \in C /\ (a = TapNode(i) \/ b = TapNode(i))
    BY <1>1, TouchingOnes
  <2>2. Bus(1) # TapNode(i) /\ Bus(2) # TapNode(i) /\ \A j : TapNode(j) = TapNode(i) => j = i
    BY DEF Bus, TapNode
  <2>3. CASE \E j \in 1 .. n : Cbr(m, a, b) = Cbr(start + j - 1, Bus(1), TapNode(j))
    BY <2>1, <2>2, <2>3, CbrSame
  <2>4. CASE Cbr(m, a, b) = Cbr(start + n, Bus(1), Bus(2))
    BY <2>1, <2>2, <2>4, CbrSame
  <2>5. QED
    BY <1>3, <2>1, <2>3, <2>4
<1>6. start + i - 1 \in Touching(C, i)
  BY <1>1, <1>2, <1>4, TouchingOnes
<1>7. QED
  BY <1>5, <1>6 DEF C

\* In a ring it is the one behind the tap and the one before it.
LEMMA RingBreakers ==
    ASSUME NEW tps \in Seq(TapSet), NEW start \in Nat, Len(tps) >= 3, NEW i \in 1 .. Len(tps)
    PROVE  Touching(CbrsOf("ring_bus", tps, start), i) =
              {start + i - 1, IF i = 1 THEN start + Len(tps) - 1 ELSE start + i - 2}
<1> DEFINE n == Len(tps)
           C == CbrsOf("ring_bus", tps, start)
           cells == Cells("ring_bus", tps, start)
           W(j) == Cbr(start + j - 1, TapNode(j), TapNode((j % n) + 1))
           before == IF i = 1 THEN n ELSE i - 1
<1>1. n \in Nat /\ DOMAIN tps = 1 .. n /\ i \in 1 .. n /\ n >= 3
  OBVIOUS
<1>2. \A cb \in C : \E j \in 1 .. n : cb = W(j)
  BY <1>1, RingBusYard
<1>3. \A j \in 1 .. n : W(j) \in C
  <2> TAKE j \in 1 .. n
  <2>1. cells = RingBus(tps, start)
    BY DEF Cells
  <2> DEFINE w == W(j)
  <2>2. j \in DOMAIN cells /\ cells[j] = Cell(<<"Bay", j, <<>>>>, <<w>>, <<j>>)
    BY <1>1, <2>1 DEF RingBus
  <2> HIDE DEF cells, w
  <2>3. cells[j].cbs = <<w>>
    BY <2>2 DEF Cell
  <2>4. 1 \in DOMAIN cells[j].cbs /\ cells[j].cbs[1] = w
    BY <2>3
  <2>5. w \in C
    BY <2>2, <2>4, CbrOfCell DEF cells
  <2>6. QED
    BY <2>5 DEF w
<1> HIDE DEF n, C
<1>4. \A j \in 1 .. n : (j % n) + 1 \in 1 .. n /\ ((j % n) + 1 = i <=> j = before)
  BY <1>1
<1>5. before \in 1 .. n /\ start + before - 1 \in Nat /\ start + i - 1 \in Nat
  BY <1>1
<1>6. \A j \in 1 .. n : TapNode(j) \in Terminals
  BY <1>1 DEF TapNode, Terminals
<1>7. \A j : TapNode(j) = TapNode(i) <=> j = i
  BY DEF TapNode
<1>8. i \in Nat
  BY <1>1
<1>9. start + before - 1 = IF i = 1 THEN start + n - 1 ELSE start + i - 2
  BY <1>1
<1> HIDE DEF before
<1>10. ASSUME NEW m \in Touching(C, i) PROVE m = start + i - 1 \/ m = start + before - 1
  <2>1. PICK a \in Terminals, b \in Terminals : Cbr(m, a, b) \in C /\ (a = TapNode(i) \/ b = TapNode(i))
    BY <1>8, TouchingOnes
  <2>2. PICK j \in 1 .. n : Cbr(m, a, b) = W(j)
    BY <1>2, <2>1
  <2>3. m = start + j - 1 /\ a = TapNode(j) /\ b = TapNode((j % n) + 1)
    BY <2>2, CbrSame
  <2>4. j = i \/ (j % n) + 1 = i
    BY <1>7, <2>1, <2>3
  <2>5. j = i \/ j = before
    BY <1>4, <2>4
  <2>6. QED
    BY <2>3, <2>5
<1>11. start + i - 1 \in Touching(C, i)
  <2>1. W(i) \in C /\ TapNode(i) \in Terminals /\ TapNode((i % n) + 1) \in Terminals
    BY <1>1, <1>3, <1>4, <1>6
  <2>2. QED
    BY <1>5, <1>8, <2>1, TouchingOnes
<1>12. start + before - 1 \in Touching(C, i)
  <2>1. W(before) \in C /\ TapNode(before) \in Terminals /\ TapNode((before % n) + 1) \in Terminals
    BY <1>3, <1>4, <1>5, <1>6
  <2>2. TapNode((before % n) + 1) = TapNode(i)
    BY <1>4, <1>5
  <2>3. QED
    BY <1>5, <1>8, <2>1, <2>2, TouchingOnes
<1>13. Touching(C, i) = {start + i - 1, start + before - 1}
  BY <1>10, <1>11, <1>12
<1>14. QED
  BY <1>9, <1>13 DEF C, n

\* In a diameter it is the outer one and the middle one.
LEMMA DiameterBreakers ==
    ASSUME NEW tps \in Seq(TapSet), NEW start \in Nat, NEW d \in 1 .. Len(tps) \div 2
    PROVE  /\ Touching(CbrsOf("breaker_and_half", tps, start), 2 * d - 1) =
                {start + 3 * (d - 1), start + 3 * (d - 1) + 1}
           /\ Touching(CbrsOf("breaker_and_half", tps, start), 2 * d) =
                {start + 3 * (d - 1) + 1, start + 3 * (d - 1) + 2}
<1> DEFINE h == Len(tps) \div 2
           C == CbrsOf("breaker_and_half", tps, start)
           cells == Cells("breaker_and_half", tps, start)
           u == Cbr(start + 3 * (d - 1), Bus(1), TapNode(2 * d - 1))
           v == Cbr(start + 3 * (d - 1) + 1, TapNode(2 * d - 1), TapNode(2 * d - 1 + 1))
           w == Cbr(start + 3 * (d - 1) + 2, TapNode(2 * d - 1 + 1), Bus(2))
<1>1. h \in Nat /\ d \in 1 .. h /\ d \in Nat /\ 2 * d - 1 \in Nat /\ 2 * d \in Nat /\ 2 * d - 1 + 1 = 2 * d
  <2>1. Len(tps) \in Nat
    OBVIOUS
  <2>2. QED
    BY <2>1
<1>2. \A cb \in C : \E e \in 1 .. h :
               \/ cb = Cbr(start + 3 * (e - 1), Bus(1), TapNode(2 * e - 1))
               \/ cb = Cbr(start + 3 * (e - 1) + 1, TapNode(2 * e - 1), TapNode(2 * e - 1 + 1))
               \/ cb = Cbr(start + 3 * (e - 1) + 2, TapNode(2 * e - 1 + 1), Bus(2))
  BY BreakerAndHalfYard
<1>3. u \in C /\ v \in C /\ w \in C
  <2>1. cells = BreakerAndHalf(tps, start)
    BY DEF Cells
  <2>2. d \in DOMAIN cells /\ cells[d] = Cell(<<"Diameter", d, <<>>>>, <<u, v, w>>, <<2 * d - 1, 2 * d - 1 + 1>>)
    BY <2>1 DEF BreakerAndHalf
  <2> HIDE DEF cells, u, v, w
  <2>3. cells[d].cbs = <<u, v, w>>
    BY <2>2 DEF Cell
  <2>4. /\ 1 \in DOMAIN cells[d].cbs /\ 2 \in DOMAIN cells[d].cbs /\ 3 \in DOMAIN cells[d].cbs
        /\ cells[d].cbs[1] = u /\ cells[d].cbs[2] = v /\ cells[d].cbs[3] = w
    BY <2>3
  <2>5. QED
    BY <2>2, <2>4, CbrOfCell DEF cells
<1> HIDE DEF C, h
<1>4. /\ \A t : TapNode(t) # Bus(1) /\ TapNode(t) # Bus(2)
      /\ \A t, r : TapNode(t) = TapNode(r) => t = r
  BY DEF TapNode, Bus
<1>5. Bus(1) \in Terminals /\ Bus(2) \in Terminals /\ \A t \in Nat : TapNode(t) \in Terminals
  BY DEF TapNode, Bus, Terminals
<1>6. start + 3 * (d - 1) \in Nat /\ start + 3 * (d - 1) + 1 \in Nat /\ start + 3 * (d - 1) + 2 \in Nat
  BY <1>1
<1>7. ASSUME NEW t \in Nat, NEW m \in Touching(C, t)
      PROVE  \E e \in 1 .. h :
               \/ t = 2 * e - 1 /\ (m = start + 3 * (e - 1) \/ m = start + 3 * (e - 1) + 1)
               \/ t = 2 * e /\ (m = start + 3 * (e - 1) + 1 \/ m = start + 3 * (e - 1) + 2)
  <2>1. PICK a \in Terminals, b \in Terminals : Cbr(m, a, b) \in C /\ (a = TapNode(t) \/ b = TapNode(t))
    BY TouchingOnes
  <2>2. PICK e \in 1 .. h :
               \/ Cbr(m, a, b) = Cbr(start + 3 * (e - 1), Bus(1), TapNode(2 * e - 1))
               \/ Cbr(m, a, b) = Cbr(start + 3 * (e - 1) + 1, TapNode(2 * e - 1), TapNode(2 * e - 1 + 1))
               \/ Cbr(m, a, b) = Cbr(start + 3 * (e - 1) + 2, TapNode(2 * e - 1 + 1), Bus(2))
    BY <1>2, <2>1
  <2>3. 2 * e - 1 + 1 = 2 * e
    BY <1>1
  <2>4. \/ m = start + 3 * (e - 1) /\ a = Bus(1) /\ b = TapNode(2 * e - 1)
        \/ m = start + 3 * (e - 1) + 1 /\ a = TapNode(2 * e - 1) /\ b = TapNode(2 * e)
        \/ m = start + 3 * (e - 1) + 2 /\ a = TapNode(2 * e) /\ b = Bus(2)
    BY <2>2, <2>3, CbrSame
  <2>5. QED
    BY <1>4, <2>1, <2>4
<1>8. ASSUME NEW t \in {2 * d - 1, 2 * d}, NEW m \in Touching(C, t)
      PROVE  \/ t = 2 * d - 1 /\ (m = start + 3 * (d - 1) \/ m = start + 3 * (d - 1) + 1)
             \/ t = 2 * d /\ (m = start + 3 * (d - 1) + 1 \/ m = start + 3 * (d - 1) + 2)
  <2>1. t \in Nat
    BY <1>1
  <2>2. PICK e \in 1 .. h :
               \/ t = 2 * e - 1 /\ (m = start + 3 * (e - 1) \/ m = start + 3 * (e - 1) + 1)
               \/ t = 2 * e /\ (m = start + 3 * (e - 1) + 1 \/ m = start + 3 * (e - 1) + 2)
    BY <1>7, <2>1
  <2>3. e = d
    BY <1>1, <2>2
  <2>4. QED
    BY <2>2, <2>3
<1>9. 2 * d - 1 # 2 * d
  BY <1>1
<1>10. /\ start + 3 * (d - 1) \in Touching(C, 2 * d - 1) /\ start + 3 * (d - 1) + 1 \in Touching(C, 2 * d - 1)
       /\ start + 3 * (d - 1) + 1 \in Touching(C, 2 * d) /\ start + 3 * (d - 1) + 2 \in Touching(C, 2 * d)
  <2>1. v = Cbr(start + 3 * (d - 1) + 1, TapNode(2 * d - 1), TapNode(2 * d))
    BY <1>1
  <2>2. w = Cbr(start + 3 * (d - 1) + 2, TapNode(2 * d), Bus(2))
    BY <1>1
  <2>3. TapNode(2 * d - 1) \in Terminals /\ TapNode(2 * d) \in Terminals
    BY <1>1, <1>5
  <2>4. start + 3 * (d - 1) \in Touching(C, 2 * d - 1)
    BY <1>1, <1>3, <1>5, <1>6, <2>3, TouchingOnes
  <2>5. start + 3 * (d - 1) + 1 \in Touching(C, 2 * d - 1) /\ start + 3 * (d - 1) + 1 \in Touching(C, 2 * d)
    BY <1>1, <1>3, <1>6, <2>1, <2>3, TouchingOnes
  <2>6. start + 3 * (d - 1) + 2 \in Touching(C, 2 * d)
    BY <1>1, <1>3, <1>5, <1>6, <2>2, <2>3, TouchingOnes
  <2>7. QED
    BY <2>4, <2>5, <2>6
<1>11. QED
  BY <1>8, <1>9, <1>10 DEF C

\* A tap between two breakers, which are its pair.
TwoNumbers(lv, i, x, y) ==
    /\ Len(Bounding(lv, i)) = 2
    /\ Bounding(lv, i)[1].name = CbrName(x) /\ Bounding(lv, i)[2].name = CbrName(y)

\* The numbers of the breakers that bound a tap of a level.
LEMMA LevelNumbers ==
    ASSUME NEW lv \in BuiltLevels
    PROVE  \E start \in Nat : \A i \in DOMAIN lv.taps :
             OpenedFor(lv, i) = {CbrName(m) : m \in Touching(CbrsOf(lv.layout, lv.taps, start), i)}
<1>1. PICK start \in Nat, numbers \in SUBSET DOMAIN lv.taps :
              /\ Yard(CbrsOf(lv.layout, lv.taps, start))
              /\ lv.taps \in Seq(TapSet) /\ lv.breakers \in Seq(Devices)
              /\ Range(lv.breakers) = DevicesOf(lv.taps, CbrsOf(lv.layout, lv.taps, start), numbers)
  BY LevelYard
<1>2. \A i \in DOMAIN lv.taps : i \in Nat
  BY <1>1
<1> DEFINE C == CbrsOf(lv.layout, lv.taps, start)
<1>3. Yard(C) /\ Range(lv.breakers) = DevicesOf(lv.taps, C, numbers)
  BY <1>1
<1> HIDE DEF C
<1>4. \A i \in DOMAIN lv.taps : OpenedFor(lv, i) = {CbrName(m) : m \in Touching(C, i)}
  BY <1>1, <1>2, <1>3, OpenedNumbers
<1>5. QED
  BY <1>4 DEF C

\* Two numbers make a pair, ...
LEMMA TwoTouching ==
    ASSUME NEW lv \in BuiltLevels, NEW i, NEW C, NEW x \in Nat, NEW y \in Nat, x < y,
           OpenedFor(lv, i) = {CbrName(m) : m \in Touching(C, i)}, Touching(C, i) = {x, y}
    PROVE  TwoNumbers(lv, i, x, y) /\ OpenedFor(lv, i) = {CbrName(x), CbrName(y)}
<1>1. OpenedFor(lv, i) = {CbrName(x), CbrName(y)}
  OBVIOUS
<1>2. QED
  BY <1>1, TwoBounding DEF TwoNumbers

\* ... and one does not.
LEMMA NoPair ==
    ASSUME NEW lv \in BuiltLevels, lv.layout \in {"single_bus", "main_and_transfer"}, NEW i \in DOMAIN lv.taps
    PROVE  Len(Bounding(lv, i)) # 2
<1>1. PICK start \in Nat : \A j \in DOMAIN lv.taps :
             OpenedFor(lv, j) = {CbrName(m) : m \in Touching(CbrsOf(lv.layout, lv.taps, start), j)}
  BY LevelNumbers
<1>2. lv.taps \in Seq(TapSet)
  BY BuiltLevelShape
<1>3. i \in 1 .. Len(lv.taps)
  BY <1>2
<1>4. Touching(CbrsOf(lv.layout, lv.taps, start), i) = {start + i - 1}
  BY <1>2, <1>3, OnlyBreaker
<1>5. OpenedFor(lv, i) = {CbrName(start + i - 1)}
  BY <1>1, <1>4
<1>6. QED
  BY <1>5, OneBounding

\* The pairs of a level whose taps are between two breakers each: those of the
\* odd taps have no breaker in common, each even tap shares one with the tap
\* before it, and the last tap of an odd number shares one with the first.
IsPair(lv, i) ==
    \E x, y \in Nat : x < y /\ TwoNumbers(lv, i, x, y) /\ OpenedFor(lv, i) = {CbrName(x), CbrName(y)}
Half(lv) == Len(lv.taps) \div 2
TapPairs(lv) ==
    /\ \A i \in 1 .. Len(lv.taps) : IsPair(lv, i)
    /\ \A j, k \in 1 .. Half(lv) : j # k => OpenedFor(lv, 2 * j - 1) \cap OpenedFor(lv, 2 * k - 1) = {}
    /\ \A k \in 1 .. Half(lv) : OpenedFor(lv, 2 * k - 1) \cap OpenedFor(lv, 2 * k) # {}
    /\ Len(lv.taps) = 2 * Half(lv) + 1 => /\ Half(lv) # 0
                                          /\ OpenedFor(lv, 1) \cap OpenedFor(lv, Len(lv.taps)) # {}

\* A ring is such a level, ...
LEMMA RingPairs ==
    ASSUME NEW lv \in BuiltLevels, lv.layout = "ring_bus"
    PROVE  TapPairs(lv)
<1> DEFINE n == Len(lv.taps)
           h == Half(lv)
<1>1. PICK start \in Nat : \A i \in DOMAIN lv.taps :
             OpenedFor(lv, i) = {CbrName(m) : m \in Touching(CbrsOf(lv.layout, lv.taps, start), i)}
  BY LevelNumbers
<1>2. lv.taps \in Seq(TapSet) /\ ~Refuses(lv.layout, lv.taps)
  BY BuiltLevelShape
<1>3. n \in Nat /\ n >= 3 /\ DOMAIN lv.taps = 1 .. n
  BY <1>2 DEF Refuses
<1>4. h = n \div 2
  BY DEF Half
<1> DEFINE other(i) == IF i = 1 THEN start + n - 1 ELSE start + i - 2
<1>5. \A i \in 1 .. n : Touching(CbrsOf(lv.layout, lv.taps, start), i) = {start + i - 1, other(i)}
  BY <1>2, <1>3, RingBreakers
<1> DEFINE opened(i) == OpenedFor(lv, i)
<1>6. \A i \in 1 .. n : opened(i) = {CbrName(start + i - 1), CbrName(other(i))}
  <2> HIDE DEF other
  <2>1. QED
    BY <1>1, <1>3, <1>5
<1> HIDE DEF n, h
<1>7. \A i \in 1 .. n : IsPair(lv, i)
  <2> TAKE i \in 1 .. n
  <2>1. /\ start + i - 1 \in Nat /\ other(i) \in Nat
        /\ start + i - 1 < other(i) \/ other(i) < start + i - 1
    BY <1>3
  <2>2. OpenedFor(lv, i) = {CbrName(m) : m \in Touching(CbrsOf(lv.layout, lv.taps, start), i)}
    BY <1>1, <1>3
  <2>3. Touching(CbrsOf(lv.layout, lv.taps, start), i) = {start + i - 1, other(i)}
    BY <1>5
  <2> DEFINE x == start + i - 1
             y == other(i)
             C == CbrsOf(lv.layout, lv.taps, start)
  <2> HIDE DEF x, y, C, other, opened
  <2>4. x \in Nat /\ y \in Nat /\ (x < y \/ y < x)
    BY <2>1 DEF x, y
  <2>5. OpenedFor(lv, i) = {CbrName(m) : m \in Touching(C, i)}
    BY <2>2 DEF C
  <2>6. Touching(C, i) = {x, y} /\ Touching(C, i) = {y, x}
    BY <2>3 DEF x, y, C
  <2>7. CASE x < y
    <3>1. TwoNumbers(lv, i, x, y) /\ OpenedFor(lv, i) = {CbrName(x), CbrName(y)}
      BY <2>4, <2>5, <2>6, <2>7, TwoTouching
    <3>2. QED
      BY <2>4, <2>7, <3>1 DEF IsPair
  <2>8. CASE y < x
    <3>1. TwoNumbers(lv, i, y, x) /\ OpenedFor(lv, i) = {CbrName(y), CbrName(x)}
      BY <2>4, <2>5, <2>6, <2>8, TwoTouching
    <3>2. QED
      BY <2>4, <2>8, <3>1 DEF IsPair
  <2>9. QED
    BY <2>4, <2>7, <2>8
<1>8. \A j, k \in 1 .. h : j # k => opened(2 * j - 1) \cap opened(2 * k - 1) = {}
  <2> TAKE j, k \in 1 .. h
  <2> HAVE j # k
  <2> DEFINE p == 2 * j - 1
             q == 2 * k - 1
  <2>2. /\ p \in 1 .. n /\ q \in 1 .. n
        /\ start + p - 1 # start + q - 1 /\ start + p - 1 # other(q)
        /\ other(p) # start + q - 1 /\ other(p) # other(q)
    BY <1>3, <1>4
  <2> HIDE DEF p, q, other
  <2>3. opened(p) = {CbrName(start + p - 1), CbrName(other(p))}
    BY <1>6, <2>2
  <2>4. opened(q) = {CbrName(start + q - 1), CbrName(other(q))}
    BY <1>6, <2>2
  <2> HIDE DEF opened
  <2>5. opened(p) \cap opened(q) = {}
    BY <2>2, <2>3, <2>4, NumberInName
  <2>6. QED
    BY <2>5 DEF p, q
<1>9. \A k \in 1 .. h : opened(2 * k - 1) \cap opened(2 * k) # {}
  <2> TAKE k \in 1 .. h
  <2> DEFINE p == 2 * k - 1
             q == 2 * k
  <2>1. p \in 1 .. n /\ q \in 1 .. n /\ other(q) = start + p - 1
    BY <1>3, <1>4
  <2> HIDE DEF p, q, other
  <2>2. CbrName(start + p - 1) \in opened(p) /\ CbrName(start + p - 1) \in opened(q)
    BY <1>6, <2>1
  <2> HIDE DEF opened
  <2>3. QED
    BY <2>2 DEF p, q
<1>10. n = 2 * h + 1 => h # 0 /\ opened(1) \cap opened(n) # {}
  <2> HAVE n = 2 * h + 1
  <2>1. h # 0
    BY <1>3, <1>4
  <2>2. 1 \in 1 .. n /\ n \in 1 .. n /\ other(1) = start + n - 1
    BY <1>3
  <2> HIDE DEF other
  <2>3. CbrName(start + n - 1) \in opened(1) /\ CbrName(start + n - 1) \in opened(n)
    BY <1>6, <2>2
  <2> HIDE DEF opened
  <2>4. QED
    BY <2>1, <2>3
<1>11. QED
  BY <1>7, <1>8, <1>9, <1>10 DEF TapPairs, n, h

\* ... and so is one of diameters.
LEMMA DiameterPairs ==
    ASSUME NEW lv \in BuiltLevels, lv.layout = "breaker_and_half"
    PROVE  TapPairs(lv)
<1> DEFINE n == Len(lv.taps)
           h == Half(lv)
           opened(i) == OpenedFor(lv, i)
<1>1. PICK start \in Nat : \A i \in DOMAIN lv.taps :
             OpenedFor(lv, i) = {CbrName(m) : m \in Touching(CbrsOf(lv.layout, lv.taps, start), i)}
  BY LevelNumbers
<1>2. lv.taps \in Seq(TapSet) /\ ~Refuses(lv.layout, lv.taps)
  BY BuiltLevelShape
<1>3. n \in Nat /\ n % 2 = 0 /\ DOMAIN lv.taps = 1 .. n /\ h = n \div 2
  <2>1. n \in Nat /\ DOMAIN lv.taps = 1 .. n
    BY <1>2
  <2>2. n % 2 = 0
    BY <1>2 DEF Refuses
  <2>3. QED
    BY <2>1, <2>2 DEF Half
<1> DEFINE C == CbrsOf(lv.layout, lv.taps, start)
           m(d) == start + 3 * (d - 1)
<1>4. \A d \in 1 .. h : /\ Touching(C, 2 * d - 1) = {m(d), m(d) + 1}
                        /\ Touching(C, 2 * d) = {m(d) + 1, m(d) + 2}
  <2>1. C = CbrsOf("breaker_and_half", lv.taps, start)
    OBVIOUS
  <2>2. h = Len(lv.taps) \div 2
    BY <1>3
  <2> DEFINE cbrs == CbrsOf("breaker_and_half", lv.taps, start)
  <2>3. ASSUME NEW d \in 1 .. Len(lv.taps) \div 2
        PROVE  /\ Touching(cbrs, 2 * d - 1) = {start + 3 * (d - 1), start + 3 * (d - 1) + 1}
               /\ Touching(cbrs, 2 * d) = {start + 3 * (d - 1) + 1, start + 3 * (d - 1) + 2}
    BY <1>2, DiameterBreakers
  <2> HIDE DEF C, h, cbrs
  <2>4. C = cbrs
    BY <2>1 DEF cbrs
  <2>5. QED
    BY <2>2, <2>3, <2>4
<1> HIDE DEF C, n, h
<1>5. \A i \in 1 .. n : OpenedFor(lv, i) = {CbrName(k) : k \in Touching(C, i)}
  BY <1>1, <1>3 DEF C
<1>6. \A d \in 1 .. h : 2 * d - 1 \in 1 .. n /\ 2 * d \in 1 .. n /\ m(d) \in Nat
  BY <1>3
<1>7. \A d \in 1 .. h : /\ opened(2 * d - 1) = {CbrName(m(d)), CbrName(m(d) + 1)}
                        /\ opened(2 * d) = {CbrName(m(d) + 1), CbrName(m(d) + 2)}
  <2> HIDE DEF m
  <2>1. QED
    BY <1>4, <1>5, <1>6
<1>8. \A i \in 1 .. n : \E d \in 1 .. h : i = 2 * d - 1 \/ i = 2 * d
  <2> TAKE i \in 1 .. n
  <2>1. CASE i % 2 = 0
    <3>1. i \div 2 \in 1 .. h /\ i = 2 * (i \div 2)
      BY <1>3, <2>1
    <3>2. QED
      BY <3>1
  <2>2. CASE i % 2 = 1
    <3>1. (i + 1) \div 2 \in 1 .. h /\ i = 2 * ((i + 1) \div 2) - 1
      BY <1>3, <2>2
    <3>2. QED
      BY <3>1
  <2>3. i % 2 = 0 \/ i % 2 = 1
    BY <1>3
  <2>4. QED
    BY <2>1, <2>2, <2>3
<1>9. \A i \in 1 .. n : IsPair(lv, i)
  <2> TAKE i \in 1 .. n
  <2>1. PICK d \in 1 .. h : i = 2 * d - 1 \/ i = 2 * d
    BY <1>8
  <2> DEFINE x == IF i = 2 * d - 1 THEN m(d) ELSE m(d) + 1
             y == IF i = 2 * d - 1 THEN m(d) + 1 ELSE m(d) + 2
  <2>2. x \in Nat /\ y \in Nat /\ x < y
    BY <1>6
  <2>3. Touching(C, i) = {x, y}
    <3>1. CASE i = 2 * d - 1
      BY <1>4, <3>1
    <3>2. CASE i = 2 * d /\ i # 2 * d - 1
      BY <1>4, <3>2
    <3>3. QED
      BY <2>1, <3>1, <3>2
  <2>4. OpenedFor(lv, i) = {CbrName(k) : k \in Touching(C, i)}
    BY <1>5
  <2> HIDE DEF x, y, opened, m
  <2>5. TwoNumbers(lv, i, x, y) /\ OpenedFor(lv, i) = {CbrName(x), CbrName(y)}
    BY <2>2, <2>3, <2>4, TwoTouching
  <2>6. QED
    BY <2>2, <2>5 DEF IsPair
<1>10. \A j, k \in 1 .. h : j # k => opened(2 * j - 1) \cap opened(2 * k - 1) = {}
  <2> TAKE j, k \in 1 .. h
  <2> HAVE j # k
  <2>1. m(j) # m(k) /\ m(j) # m(k) + 1 /\ m(j) + 1 # m(k) /\ m(j) + 1 # m(k) + 1
    BY <1>3
  <2>2. /\ opened(2 * j - 1) = {CbrName(m(j)), CbrName(m(j) + 1)}
        /\ opened(2 * k - 1) = {CbrName(m(k)), CbrName(m(k) + 1)}
    BY <1>7
  <2> HIDE DEF m, opened
  <2>3. QED
    BY <2>1, <2>2, NumberInName
<1>11. \A k \in 1 .. h : opened(2 * k - 1) \cap opened(2 * k) # {}
  <2> TAKE k \in 1 .. h
  <2>1. CbrName(m(k) + 1) \in opened(2 * k - 1) /\ CbrName(m(k) + 1) \in opened(2 * k)
    BY <1>7
  <2> HIDE DEF opened, m
  <2>2. QED
    BY <2>1
<1>12. n # 2 * h + 1
  BY <1>3
<1>13. QED
  BY <1>9, <1>10, <1>11, <1>12 DEF TapPairs, n, h

\* The names of a pair are those that a trip of its tap opens.
LEMMA NamedOfPair ==
    ASSUME NEW lv, NEW i, IsPair(lv, i)
    PROVE  Len(Bounding(lv, i)) = 2 /\ Named(Bounding(lv, i)) = OpenedFor(lv, i)
BY DEF IsPair, TwoNumbers, Named

\* In such a level the pairs are those of the odd taps, in their order.
LEMMA OddTaps ==
    ASSUME NEW lv \in BuiltLevels, TapPairs(lv)
    PROVE  IllustrativeInterlocks(lv) = [j \in 1 .. Half(lv) |-> Bounding(lv, 2 * j - 1)]
<1> DEFINE n == Len(lv.taps)
           h == Half(lv)
           B(i) == Bounding(lv, i)
           Pairs(k) == [j \in 1 .. k |-> B(2 * j - 1)]
<1>1. lv.taps \in Seq(TapSet)
  BY BuiltLevelShape
<1>2. n \in Nat /\ DOMAIN lv.taps = 1 .. n /\ h = n \div 2
  BY <1>1 DEF Half
<1>3. PICK f \in [0 .. n -> Seq(PairsOf(lv))] :
             /\ f[0] = <<>> /\ \A i \in 1 .. n : f[i] = NextPairs(lv, f[i - 1], i)
             /\ IllustrativeInterlocks(lv) = f[n]
  BY <1>2, PairsTapByTap
<1>4. \A i \in 1 .. n : Len(B(i)) = 2 /\ Named(B(i)) = OpenedFor(lv, i)
  BY NamedOfPair DEF TapPairs
<1>5. /\ \A j, k \in 1 .. h : j # k => OpenedFor(lv, 2 * j - 1) \cap OpenedFor(lv, 2 * k - 1) = {}
      /\ \A k \in 1 .. h : OpenedFor(lv, 2 * k - 1) \cap OpenedFor(lv, 2 * k) # {}
      /\ n = 2 * h + 1 => h # 0 /\ OpenedFor(lv, 1) \cap OpenedFor(lv, n) # {}
  BY DEF TapPairs
<1> HIDE DEF n, h, B
<1>6. h \in Nat /\ (n = 2 * h \/ n = 2 * h + 1)
  <2>1. n \in Nat /\ h = n \div 2
    BY <1>2
  <2>2. QED
    BY <2>1
<1>7. \A s : \A i \in 1 .. n :
         NextPairs(lv, s, i) =
            IF \A p \in Range(s) : Named(p) \cap OpenedFor(lv, i) = {} THEN Append(s, B(i)) ELSE s
  BY <1>4 DEF NextPairs, IsFree, B
<1>8. \A k \in 0 .. h : Range(Pairs(k)) = {B(2 * j - 1) : j \in 1 .. k}
  BY DEF Range
<1>9. \A j \in 1 .. h : 2 * j - 1 \in 1 .. n /\ Named(B(2 * j - 1)) = OpenedFor(lv, 2 * j - 1)
  BY <1>4, <1>6
<1>10. ASSUME NEW k \in Nat, k < h, f[2 * k] = Pairs(k) PROVE f[2 * (k + 1)] = Pairs(k + 1)
  <2> DEFINE s == Pairs(k)
             i == 2 * k + 1
             w == B(i)
  <2>1. i \in 1 .. n /\ i + 1 \in 1 .. n /\ i - 1 = 2 * k /\ i + 1 = 2 * (k + 1) /\ k + 1 \in 1 .. h
    BY <1>6, <1>10
  <2>2. \A p \in Range(s) : Named(p) \cap OpenedFor(lv, i) = {}
    <3>1. ASSUME NEW j \in 1 .. k PROVE Named(B(2 * j - 1)) \cap OpenedFor(lv, i) = {}
      <4>1. j \in 1 .. h /\ j # k + 1 /\ i = 2 * (k + 1) - 1
        BY <1>6, <1>10
      <4>2. QED
        BY <1>5, <1>9, <2>1, <4>1
    <3>2. k \in 0 .. h
      BY <1>6, <1>10
    <3>3. Range(s) = {B(2 * j - 1) : j \in 1 .. k}
      BY <1>8, <3>2
    <3> HIDE DEF s
    <3>4. QED
      BY <3>1, <3>3
  <2>3. f[i] = Append(s, w)
    <3>1. f[i] = NextPairs(lv, s, i)
      BY <1>3, <1>10, <2>1
    <3> HIDE DEF s, i
    <3>2. QED
      BY <1>7, <2>1, <2>2, <3>1 DEF w
  <2>4. Append(s, w) = Pairs(k + 1) /\ w \in Range(Append(s, w))
    <3>1. s = [j \in 1 .. k |-> s[j]] /\ k \in Nat
      BY <1>10
    <3>2. \A j \in 1 .. k : s[j] = B(2 * j - 1)
      OBVIOUS
    <3>3. w = B(2 * (k + 1) - 1)
      BY <1>10
    <3> HIDE DEF s, w
    <3> DEFINE V == Range(s) \cup {w}
    <3>4. w \in V /\ \A j \in 1 .. k : s[j] \in V
      BY <3>1 DEF Range
    <3> HIDE DEF V
    <3>5. s \in Seq(V) /\ Len(s) = k
      BY <3>1, <3>4, SeqOfValues
    <3>6. /\ DOMAIN Append(s, w) = 1 .. k + 1 /\ Append(s, w) = [j \in 1 .. k + 1 |-> Append(s, w)[j]]
          /\ \A j \in 1 .. k : Append(s, w)[j] = s[j]
          /\ Append(s, w)[k + 1] = w
      <4>1. /\ DOMAIN Append(s, w) = 1 .. Len(s) + 1
            /\ \A j \in 1 .. Len(s) : Append(s, w)[j] = s[j]
            /\ Append(s, w)[Len(s) + 1] = w
        BY <3>4, <3>5
      <4>2. Append(s, w) \in Seq(V)
        BY <3>4, <3>5
      <4>3. Append(s, w) = [j \in DOMAIN Append(s, w) |-> Append(s, w)[j]]
        <5> DEFINE z == Append(s, w)
        <5>1. z \in Seq(V)
          BY <4>2
        <5> HIDE DEF z
        <5>2. z = [j \in DOMAIN z |-> z[j]]
          BY <5>1
        <5>3. QED
          BY <5>2 DEF z
      <4>4. QED
        BY <3>5, <4>1, <4>3
    <3>7. \A j \in 1 .. k + 1 : Append(s, w)[j] = B(2 * j - 1)
      <4> TAKE j \in 1 .. k + 1
      <4>1. j \in 1 .. k \/ j = k + 1
        BY <1>10
      <4>2. QED
        BY <3>2, <3>3, <3>6, <4>1
    <3>8. k + 1 \in 1 .. k + 1
      BY <1>10
    <3>9. w \in Range(Append(s, w))
      BY <3>6, <3>8 DEF Range
    <3>10. Append(s, w) = Pairs(k + 1)
      BY <3>6, <3>7
    <3>11. QED
      BY <3>9, <3>10
  <2>5. Named(w) \cap OpenedFor(lv, i + 1) # {}
    <3>1. i = 2 * (k + 1) - 1 /\ i + 1 = 2 * (k + 1)
      BY <1>10
    <3>2. QED
      BY <1>5, <1>9, <2>1, <3>1
  <2>6. f[i + 1] = NextPairs(lv, f[i], i + 1)
    <3>1. i + 1 - 1 = i
      BY <2>1
    <3>2. QED
      BY <1>3, <2>1, <3>1
  <2> HIDE DEF s, w, i
  <2>7. f[i + 1] = Append(s, w)
    BY <1>7, <2>1, <2>3, <2>4, <2>5, <2>6
  <2>8. QED
    BY <2>1, <2>4, <2>7
<1>11. \A k \in Nat : k <= h => f[2 * k] = Pairs(k)
  <2> DEFINE T == {k \in Nat : k <= h => f[2 * k] = Pairs(k)}
  <2>1. 0 \in T
    <3>1. 2 * 0 = 0 /\ Pairs(0) = <<>>
      OBVIOUS
    <3>2. QED
      BY <1>3, <3>1
  <2>2. ASSUME NEW k \in Nat, k \in T PROVE k + 1 \in T
    <3>1. k + 1 <= h => k < h /\ k <= h
      BY <1>6
    <3> HIDE DEF Pairs
    <3>2. QED
      BY <1>10, <2>2, <3>1
  <2> HIDE DEF T
  <2>3. Nat \subseteq T
    BY <2>1, <2>2, Induction
  <2>4. QED
    BY <2>3 DEF T
<1>12. f[2 * h] = Pairs(h)
  BY <1>6, <1>11
<1>13. f[n] = Pairs(h)
  <2>1. CASE n = 2 * h
    BY <1>12, <2>1
  <2>2. CASE n = 2 * h + 1
    <3>1. n \in 1 .. n /\ n - 1 = 2 * h
      BY <1>6, <2>2
    <3>2. f[n] = NextPairs(lv, Pairs(h), n)
      BY <1>3, <1>12, <3>1
    <3>3. 1 \in 1 .. h /\ 1 = 2 * 1 - 1 /\ h \in 0 .. h
      BY <1>5, <1>6, <2>2
    <3>4. B(1) \in Range(Pairs(h))
      BY <1>8, <3>3
    <3>5. Named(B(1)) \cap OpenedFor(lv, n) # {}
      BY <1>5, <1>9, <2>2, <3>3
    <3> HIDE DEF Pairs
    <3>6. QED
      BY <1>7, <3>1, <3>2, <3>4, <3>5
  <2>3. QED
    BY <1>6, <2>1, <2>2
<1>14. QED
  BY <1>3, <1>13 DEF h, B

\* The question for another level comes after one has been built.
SomeLevel == phase = "another" => levels # <<>>

\* So there is a last one.
LEMMA LastLevel ==
    ASSUME StationInv, SomeLevel, phase = "another"
    PROVE  levels[Len(levels)] \in BuiltLevels
<1>1. levels \in Seq(BuiltLevels) /\ levels # <<>>
  BY DEF StationInv, LevelsBuilt, SomeLevel
<1> DEFINE L == BuiltLevels
<1> HIDE DEF L
<1>2. levels \in Seq(L)
  BY <1>1 DEF L
<1>3. levels[Len(levels)] \in L
  BY <1>1, <1>2
<1>4. QED
  BY <1>3 DEF L

\* What a pair is, by its tap.
LEMMA PairOfTap ==
    ASSUME NEW lv \in BuiltLevels, NEW i \in DOMAIN lv.taps, IsPair(lv, i)
    PROVE  /\ Bounding(lv, i)[1].name[2] < Bounding(lv, i)[2].name[2]
           /\ IsIsolated(lv, i, Named(Bounding(lv, i)))
           /\ {b.name : b \in Range(Bounding(lv, i))} = OpenedFor(lv, i)
<1> DEFINE pair == Bounding(lv, i)
<1>1. PICK x \in Nat, y \in Nat : x < y /\ TwoNumbers(lv, i, x, y)
  BY DEF IsPair
<1>2. pair[1].name = CbrName(x) /\ pair[2].name = CbrName(y)
  BY <1>1 DEF TwoNumbers
<1>3. CbrName(x)[2] = x /\ CbrName(y)[2] = y
  BY DEF CbrName
<1>4. pair[1].name[2] < pair[2].name[2]
  BY <1>1, <1>2, <1>3
<1>5. IsIsolated(lv, i, OpenedFor(lv, i))
  <2>1. PICK start \in Nat, numbers \in SUBSET DOMAIN lv.taps :
              /\ Yard(CbrsOf(lv.layout, lv.taps, start))
              /\ lv.taps \in Seq(TapSet) /\ lv.breakers \in Seq(Devices)
              /\ Range(lv.breakers) = DevicesOf(lv.taps, CbrsOf(lv.layout, lv.taps, start), numbers)
    BY LevelYard
  <2>2. i \in Nat
    BY <2>1
  <2>3. QED
    BY <2>1, <2>2, TripIsolates
<1>6. Named(pair) = OpenedFor(lv, i)
  BY NamedOfPair
<1>7. {b.name : b \in Range(pair)} = OpenedFor(lv, i)
  BY DEF OpenedFor, RemoteTripsFor, Bounding
<1>8. QED
  BY <1>4, <1>5, <1>6, <1>7

\* The pairs of a level are as documented.
LEMMA LevelDocumented ==
    ASSUME NEW lv \in BuiltLevels
    PROVE  LET pairs == IllustrativeInterlocks(lv)
               number == IF lv.layout \in {"breaker_and_half", "ring_bus"} THEN Len(lv.taps) \div 2 ELSE 0
           IN  /\ Len(pairs) = number
               /\ \A p, q \in DOMAIN pairs : p # q => Range(pairs[p]) \cap Range(pairs[q]) = {}
               /\ \A p \in DOMAIN pairs :
                    /\ pairs[p][1].name[2] < pairs[p][2].name[2]
                    /\ \E t \in DOMAIN lv.taps :
                         IsIsolated(lv, t, {pairs[p][1].name, pairs[p][2].name})
<1> DEFINE pairs == IllustrativeInterlocks(lv)
           n == Len(lv.taps)
<1>1. lv.layout \in Layouts /\ lv.taps \in Seq(TapSet)
  BY BuiltLevelShape
<1>2. n \in Nat /\ DOMAIN lv.taps = 1 .. n
  BY <1>1
<1>3. CASE lv.layout \in {"single_bus", "main_and_transfer"}
  <2>1. pairs = <<>>
    <3>1. PICK f \in [0 .. n -> Seq(PairsOf(lv))] :
             /\ f[0] = <<>> /\ \A i \in 1 .. n : f[i] = NextPairs(lv, f[i - 1], i)
             /\ IllustrativeInterlocks(lv) = f[n]
      BY <1>2, PairsTapByTap
    <3>2. \A i \in 1 .. n : f[i] = f[i - 1]
      BY <1>2, <1>3, <3>1, NoPair DEF NextPairs
    <3> DEFINE T == {i \in Nat : i <= n => f[i] = <<>>}
    <3>3. 0 \in T
      BY <3>1
    <3>4. ASSUME NEW i \in Nat, i \in T PROVE i + 1 \in T
      <4> SUFFICES ASSUME i + 1 <= n PROVE f[i + 1] = <<>>
        OBVIOUS
      <4>1. i + 1 \in 1 .. n /\ i + 1 - 1 = i /\ i <= n
        BY <1>2
      <4>2. QED
        BY <3>2, <3>4, <4>1
    <3> HIDE DEF T
    <3>5. Nat \subseteq T
      BY <3>3, <3>4, Induction
    <3>6. QED
      BY <1>2, <3>1, <3>5 DEF T
  <2>2. ~(lv.layout \in {"breaker_and_half", "ring_bus"})
    BY <1>3
  <2> HIDE DEF pairs
  <2>3. Len(pairs) = 0 /\ DOMAIN pairs = {}
    BY <2>1
  <2>4. QED
    BY <2>2, <2>3 DEF pairs
<1>4. CASE lv.layout \in {"breaker_and_half", "ring_bus"}
  <2> DEFINE h == Half(lv)
             B(i) == Bounding(lv, i)
             opened(i) == OpenedFor(lv, i)
  <2>1. TapPairs(lv)
    BY <1>4, RingPairs, DiameterPairs
  <2>2. pairs = [j \in 1 .. h |-> B(2 * j - 1)]
    BY <2>1, OddTaps
  <2>3. h \in Nat /\ h = n \div 2
    <3>1. h = n \div 2
      BY DEF Half
    <3> HIDE DEF n, h
    <3>2. QED
      BY <1>2, <3>1
  <2>4. /\ \A i \in 1 .. n : IsPair(lv, i)
        /\ \A j, k \in 1 .. h : j # k => opened(2 * j - 1) \cap opened(2 * k - 1) = {}
    BY <2>1 DEF TapPairs
  <2> HIDE DEF pairs, n, h
  <2>5. \A j \in 1 .. h : 2 * j - 1 \in 1 .. n
    BY <1>2, <2>3
  <2>6. \A j \in 1 .. h : /\ B(2 * j - 1)[1].name[2] < B(2 * j - 1)[2].name[2]
                          /\ IsIsolated(lv, 2 * j - 1, Named(B(2 * j - 1)))
                          /\ {b.name : b \in Range(B(2 * j - 1))} = opened(2 * j - 1)
    BY <1>2, <2>4, <2>5, PairOfTap
  <2> HIDE DEF B, opened
  <2>7. DOMAIN pairs = 1 .. h /\ Len(pairs) = h /\ \A j \in 1 .. h : pairs[j] = B(2 * j - 1)
    BY <2>2, <2>3
  <2>8. ASSUME NEW p \in DOMAIN pairs, NEW q \in DOMAIN pairs, p # q
        PROVE  Range(pairs[p]) \cap Range(pairs[q]) = {}
    <3> SUFFICES ASSUME NEW b \in Range(pairs[p]), b \in Range(pairs[q]) PROVE FALSE
      OBVIOUS
    <3>1. b.name \in opened(2 * p - 1) /\ b.name \in opened(2 * q - 1)
      BY <2>6, <2>7
    <3>2. QED
      BY <2>4, <2>7, <2>8, <3>1
  <2>9. ASSUME NEW p \in DOMAIN pairs
        PROVE  /\ pairs[p][1].name[2] < pairs[p][2].name[2]
               /\ \E t \in DOMAIN lv.taps : IsIsolated(lv, t, {pairs[p][1].name, pairs[p][2].name})
    <3>1. p \in 1 .. h /\ pairs[p] = B(2 * p - 1)
      BY <2>7
    <3>2. Named(pairs[p]) = {pairs[p][1].name, pairs[p][2].name}
      BY DEF Named
    <3>3. 2 * p - 1 \in DOMAIN lv.taps
      BY <1>2, <2>5, <3>1
    <3>4. QED
      BY <2>6, <3>1, <3>2, <3>3
  <2>10. Len(pairs) = Len(lv.taps) \div 2
    BY <2>3, <2>7 DEF n
  <2>11. QED
    BY <1>4, <2>8, <2>9, <2>10 DEF pairs
<1>5. QED
  BY <1>1, <1>3, <1>4 DEF Layouts

\* Whatever the layout and the number of taps, the pairs that interlock are
\* those derive.py documents: as many as there are diameters or halves of the
\* ring, none elsewhere, no breaker in two of them, the lower number first, and
\* each of them around a tap that it takes off every bus and every other tap.
THEOREM PairsAreDocumented == ToolSpec => []InterlocksAsDocumented
<1>1. ToolInit => SomeLevel
  BY DEF ToolInit, Init, SomeLevel
<1>2. ASSUME ToolInv, SomeLevel, [ToolNext]_<<vars, tools>> PROVE SomeLevel'
  <2>1. CASE CompleteLevel
    <3> DEFINE lv == Build(draft.name, draft.kv, draft.layout, taps, breakerIndex)
    <3>1. levels' = Append(levels, lv)
      BY <2>1 DEF CompleteLevel
    <3>2. levels \in Seq(BuiltLevels)
      BY <1>2 DEF ToolInv, StationInv, LevelsBuilt
    <3> DEFINE L == BuiltLevels
    <3> HIDE DEF lv, L
    <3>3. levels \in Seq(L)
      BY <3>2 DEF L
    <3>4. Len(levels') = Len(levels) + 1 /\ Len(levels) \in Nat
      BY <3>1, <3>3
    <3>5. levels' # <<>>
      BY <3>4
    <3>6. QED
      BY <3>5 DEF SomeLevel
  <2>2. CASE phase' # "another"
    BY <2>2 DEF SomeLevel
  <2>3. CASE UNCHANGED <<phase, levels>>
    BY <1>2, <2>3 DEF SomeLevel
  <2>4. CompleteLevel \/ phase' # "another" \/ UNCHANGED <<phase, levels>>
    <3>1. CASE Dialogue
      BY <3>1 DEF Dialogue, Next, NameLevel, AddTap, RedoTaps, Crash, AddAnother, CollectSettings, Confirm, built
    <3>2. CASE WriteStation
      BY <3>2 DEF WriteStation, vars
    <3>3. CASE Compile
      BY <3>3 DEF Compile, vars
    <3>4. CASE UNCHANGED <<vars, tools>>
      BY <3>4 DEF vars
    <3>5. QED
      BY <1>2, <3>1, <3>2, <3>3, <3>4 DEF ToolNext
  <2>5. QED
    BY <2>1, <2>2, <2>3, <2>4
<1>3. ASSUME ToolInv, SomeLevel PROVE InterlocksAsDocumented
  <2> SUFFICES ASSUME phase = "another"
               PROVE  LET lv == levels[Len(levels)]
                          pairs == IllustrativeInterlocks(lv)
                          number == IF lv.layout \in {"breaker_and_half", "ring_bus"}
                                    THEN Len(lv.taps) \div 2 ELSE 0
                      IN  /\ Len(pairs) = number
                          /\ \A p, q \in DOMAIN pairs : p # q => Range(pairs[p]) \cap Range(pairs[q]) = {}
                          /\ \A p \in DOMAIN pairs :
                               /\ pairs[p][1].name[2] < pairs[p][2].name[2]
                               /\ \E t \in DOMAIN lv.taps :
                                    IsIsolated(lv, t, {pairs[p][1].name, pairs[p][2].name})
    BY DEF InterlocksAsDocumented
  <2> DEFINE lv == levels[Len(levels)]
  <2>1. lv \in BuiltLevels
    BY <1>3, LastLevel DEF ToolInv
  <2> HIDE DEF lv
  <2>2. QED
    BY <2>1, LevelDocumented DEF lv
<1>4. QED
  BY <1>1, <1>2, <1>3, ToolInvariant, PTL DEF ToolSpec

-----------------------------------------------------------------------------
(* What passes the schema compiles. *)

\* A device with one control block, and one report on its one data set.
IsPlain(ied) ==
    \E ds, rc, gc :
        /\ Len(ied.devices) = 1
        /\ ied.devices[1].inst = "LD0"
        /\ ied.devices[1].ln0.dataSets = <<ds>>
        /\ ied.devices[1].ln0.reports = <<rc>>
        /\ ied.devices[1].ln0.gse = <<gc>>
        /\ ds.name = rc.datSet /\ rc.period = FALSE /\ gc.name = "gcbGoose1"

\* Publishers are such devices.
LEMMA PublishersPlain ==
    ASSUME NEW st, StationOk(st), NEW i \in Publishers(st)
    PROVE  IsPlain(IedAt(st, i))
<1>1. ASSUME NEW b, NEW il, NEW rt PROVE IsPlain(BreakerIed(st, b, il, rt))
  <2> DEFINE ds == [name |-> "dsGoose1", members |-> <<Ref("XCBR1", "Pos")>>]
             rc == Report(CbName("rcbStatus1", NoName), "dsGoose1")
             gc == [name |-> "gcbGoose1", datSet |-> "dsGoose1", appID |-> b.name]
             ied == BreakerIed(st, b, il, rt)
  <2>1. ds.name = rc.datSet /\ rc.period = FALSE /\ gc.name = "gcbGoose1"
    BY DEF Report
  <2>2. /\ Len(ied.devices) = 1 /\ ied.devices[1].inst = "LD0"
        /\ ied.devices[1].ln0.dataSets = <<ds>>
        /\ ied.devices[1].ln0.reports = <<rc>>
        /\ ied.devices[1].ln0.gse = <<gc>>
    <3> HIDE DEF rc
    <3>1. rc = Report(CbName("rcbStatus1", NoName), "dsGoose1")
      BY DEF rc
    <3>2. QED
      BY <3>1 DEF BreakerIed, Ied, Ln0
  <2> HIDE DEF ds, rc, gc, ied
  <2>3. IsPlain(ied)
    BY <2>1, <2>2 DEF IsPlain
  <2>4. QED
    BY <2>3 DEF ied
<1>2. ASSUME NEW x PROVE IsPlain(TransformerIed(st, x))
  <2> DEFINE ds == [name |-> "dsStatus1", members |-> <<Ref("MMXU1", "Amp"), Ref("MMXU2", "Amp")>>]
             rc == Report(CbName("rcb", x.name), "dsStatus1")
             gc == [name |-> "gcbGoose1", datSet |-> "", appID |-> x.name]
             ied == TransformerIed(st, x)
  <2>1. ds.name = rc.datSet /\ rc.period = FALSE /\ gc.name = "gcbGoose1"
    BY DEF Report
  <2>2. /\ Len(ied.devices) = 1 /\ ied.devices[1].inst = "LD0"
        /\ ied.devices[1].ln0.dataSets = <<ds>>
        /\ ied.devices[1].ln0.reports = <<rc>>
        /\ ied.devices[1].ln0.gse = <<gc>>
    <3> HIDE DEF rc
    <3>1. rc = Report(CbName("rcb", x.name), "dsStatus1")
      BY DEF rc
    <3>2. QED
      BY <3>1 DEF TransformerIed, Ied, Ln0
  <2> HIDE DEF ds, rc, gc, ied
  <2>3. IsPlain(ied)
    BY <2>1, <2>2 DEF IsPlain
  <2>4. QED
    BY <2>3 DEF ied
<1>3. ASSUME NEW k \in 1 .. BreakersOf(st) PROVE IsPlain(IedAt(st, k))
  BY <1>1, IedsOfDocument
<1>4. ASSUME NEW k \in 1 .. XfmrsOf(st) PROVE IsPlain(IedAt(st, BreakersOf(st) + k))
  BY <1>2, IedsOfDocument
<1>5. QED
  BY <1>3, <1>4, PublisherPlaces

\* The GOOSE control block of such a device finds its GSE element.
LEMMA GooseFound ==
    ASSUME NEW D, NEW ied, NEW ld, NEW gc, NEW net, NEW ap, NEW g,
           ld.ln0.gse = <<gc>>, FindAp(D, ied.name) = <<[net |-> net, ap |-> ap]>>,
           net.group # <<>>, ap.gse = <<g>>, g.ldInst = ld.inst, g.cbName = gc.name
    PROVE  GooseErrors(D, ied, ld) = {}
<1> DEFINE found == FindAp(D, ied.name)
           gcs == ld.ln0.gse
           hit == \E h \in Range(found[1].ap.gse) : h.ldInst = ld.inst /\ h.cbName = gcs[1].name
<1>1. GooseErrors(D, ied, ld) =
        CASE gcs = <<>> -> {}
          [] Len(gcs) > 1 -> {"several GSEControl"}
          [] found = <<>> -> {"no ConnectedAP"}
          [] found[1].net.group = <<>> -> {"no gooseGroup"}
          [] OTHER -> IF hit THEN {} ELSE {"no GSE"}
  BY DEF GooseErrors
<1>2. gcs # <<>> /\ Len(gcs) = 1 /\ gcs[1] = gc
  OBVIOUS
<1>3. found # <<>> /\ found[1].net = net /\ found[1].ap = ap
  OBVIOUS
<1>4. hit
  BY <1>2, <1>3, OneElement
<1>5. found[1].net.group # <<>>
  BY <1>3
<1> HIDE DEF hit, gcs, found
<1>6. QED
  BY <1>1, <1>2, <1>3, <1>4, <1>5

\* Its report finds its data set.
LEMMA ReportFound ==
    ASSUME NEW ln0, NEW ds, NEW rc, ln0.dataSets = <<ds>>, ln0.reports = <<rc>>,
           ds.name = rc.datSet, rc.period = FALSE
    PROVE  UNION {ReportErrors(ln0, r) : r \in Range(ln0.reports)} = {}
<1>1. Range(ln0.dataSets) = {ds} /\ Range(ln0.reports) = {rc}
  BY OneElement
<1>2. ReportErrors(ln0, rc) = {}
  BY <1>1 DEF ReportErrors
<1>3. QED
  BY <1>1, <1>2

\* All points of a publisher have a type.
LEMMA PointsTyped ==
    ASSUME NEW st, StationOk(st), NEW i \in Publishers(st),
           NEW p \in Range(CollectPoints(Document(st), IedAt(st, i).devices[1]))
    PROVE  p.type # <<>>
<1> DEFINE pts == CollectPoints(Document(st), IedAt(st, i).devices[1])
<1>1. CASE i \in 1 .. BreakersOf(st)
  <2>1. DOMAIN pts = 1 .. 4 /\ \A k \in 1 .. 4 : pts[k].type # <<>>
    BY <1>1, BreakerPoints
  <2> HIDE DEF pts
  <2>2. QED
    BY <2>1 DEF Range, pts
<1>2. ASSUME NEW j \in 1 .. XfmrsOf(st), i = BreakersOf(st) + j PROVE p.type # <<>>
  <2>1. DOMAIN pts = 1 .. 2 /\ \A k \in 1 .. 2 : pts[k].type # <<>>
    BY <1>2, TransformerPoints
  <2> HIDE DEF pts
  <2>2. QED
    BY <2>1 DEF Range, pts
<1>3. QED
  BY <1>1, <1>2, PublisherPlaces

\* So the compiler has nothing to say against a publisher, ...
LEMMA PublisherCompiles ==
    ASSUME NEW st, StationOk(st), SchemaValid(Document(st)), NEW i \in Publishers(st)
    PROVE  IedErrors(Document(st), IedAt(st, i)) = {}
<1> DEFINE D == Document(st)
           ied == IedAt(st, i)
           ld == ied.devices[1]
<1>1. PICK ds, rc, gc :
        /\ Len(ied.devices) = 1 /\ ld.inst = "LD0"
        /\ ld.ln0.dataSets = <<ds>> /\ ld.ln0.reports = <<rc>> /\ ld.ln0.gse = <<gc>>
        /\ ds.name = rc.datSet /\ rc.period = FALSE /\ gc.name = "gcbGoose1"
  <2>1. IsPlain(ied)
    BY PublishersPlain
  <2> HIDE DEF ied
  <2>2. QED
    BY <2>1 DEF IsPlain
<1>2. FindAp(D, ied.name) = <<[net |-> SubNetwork(st), ap |-> ApAt(st, i)]>>
  BY FindApOf, PublisherPlaces
<1>3. ApAt(st, i).gse = <<Gse(st, i)>>
  BY GseOf
<1>4. SubNetwork(st).group # <<>>
  BY DEF SubNetwork
<1>5. Gse(st, i).ldInst = "LD0" /\ Gse(st, i).cbName = "gcbGoose1"
  BY DEF Gse
<1>6. {"no CDC" : p \in {q \in Range(CollectPoints(D, ld)) : q.type = <<>>}} = {}
  BY PointsTyped
<1> HIDE DEF D, ied, ld
<1>7. GooseErrors(D, ied, ld) = {}
  BY <1>1, <1>2, <1>3, <1>4, <1>5, GooseFound
<1>8. UNION {ReportErrors(ld.ln0, r) : r \in Range(ld.ln0.reports)} = {}
  BY <1>1, ReportFound
<1>9. IedErrors(D, ied) = {}
  BY <1>1, <1>6, <1>7, <1>8 DEF IedErrors, ld
<1>10. QED
  BY <1>9 DEF D, ied

\* ... nor against SCADA, ...
LEMMA ScadaCompiles ==
    ASSUME NEW st, StationOk(st), SchemaValid(Document(st))
    PROVE  ScadaErrors(Document(st), IedAt(st, ScadaPlace(st))) = {}
<1> DEFINE D == Document(st)
           ied == IedAt(st, ScadaPlace(st))
           found == FindAp(D, ied.name)
           peers == PeerAps(D, found[1].net, ied.name)
           aps == SubNetwork(st).aps
           P == Publishers(st)
           S == Range(aps)
<1>1. ScadaErrors(D, ied) =
        CASE found = <<>> -> {"no ConnectedAP"}
          [] found[1].net.group = <<>> -> {"no gooseGroup"}
          [] OTHER -> {"no mmsAddress" : ap \in {a \in Range(peers) : a.address = NoAddress}}
  BY DEF ScadaErrors
<1>2. found = <<[net |-> SubNetwork(st), ap |-> ApAt(st, ScadaPlace(st))]>>
  BY FindApOf, PublisherPlaces
<1>3. found # <<>> /\ found[1].net = SubNetwork(st)
  BY <1>2
<1>4. SubNetwork(st).group # <<>>
  BY DEF SubNetwork
<1>5. peers = At(aps, P)
  BY <1>3, PeersAt
<1>6. aps \in Seq(S) /\ P \in SUBSET DOMAIN aps /\ \A i \in P : aps[i] = ApAt(st, i)
  <2>1. DOMAIN aps = 1 .. ScadaPlace(st) /\ \A R : (\A i \in 1 .. ScadaPlace(st) : ApAt(st, i) \in R) => aps \in Seq(R)
    BY ApsOfDocument
  <2>2. \A i \in 1 .. ScadaPlace(st) : ApAt(st, i) \in S
    BY <2>1 DEF ApAt, Range
  <2>3. P \subseteq 1 .. ScadaPlace(st)
    BY PublisherPlaces
  <2> HIDE DEF S
  <2>4. QED
    BY <2>1, <2>2, <2>3 DEF ApAt
<1>7. Range(At(aps, P)) = {aps[k] : k \in P}
  <2> HIDE DEF S, aps, P
  <2>1. QED
    BY <1>6, RangeAt
<1>8. \A i \in P : ApAt(st, i).address # NoAddress
  <2>1. \A k, y : BreakerAp(st, k, y).address # NoAddress /\ TransformerAp(st, k, y).address # NoAddress
    BY DEF BreakerAp, TransformerAp, NoAddress
  <2>2. \A i \in 1 .. BreakersOf(st) : ApAt(st, i) = BreakerAp(st, i, AllBreakers(st)[i])
    BY ApsOfDocument
  <2>3. \A j \in 1 .. XfmrsOf(st) : ApAt(st, BreakersOf(st) + j) = TransformerAp(st, j, st.transformers[j])
    BY ApsOfDocument
  <2>4. \A i \in P : i \in 1 .. BreakersOf(st) \/ \E j \in 1 .. XfmrsOf(st) : i = BreakersOf(st) + j
    BY PublisherPlaces
  <2>5. QED
    BY <2>1, <2>2, <2>3, <2>4
<1> HIDE DEF D, ied, found, peers, aps, P, S
<1>9. \A a \in Range(peers) : a.address # NoAddress
  BY <1>5, <1>6, <1>7, <1>8
<1>10. ScadaErrors(D, ied) = {}
  BY <1>1, <1>3, <1>4, <1>9
<1>11. QED
  BY <1>10 DEF D, ied

\* ... of which there is one.
LEMMA DocumentCompiles ==
    ASSUME NEW st, StationOk(st), SchemaValid(Document(st))
    PROVE  MappingErrors(Document(st)) = {}
<1> DEFINE D == Document(st)
           K == ScadaPlace(st)
           errors(ied) == IF ied.type = "SCADA" THEN ScadaErrors(D, ied) ELSE IedErrors(D, ied)
           several == \E i, j \in DOMAIN D.ieds : i # j /\ D.ieds[i].type = "SCADA" /\ D.ieds[j].type = "SCADA"
<1>1. MappingErrors(D) = (UNION {errors(ied) : ied \in Range(D.ieds)})
                         \cup (IF several THEN {"several SCADA"} ELSE {})
  BY DEF MappingErrors
<1>2. DOMAIN D.ieds = 1 .. K /\ \A i \in 1 .. K : D.ieds[i] = IedAt(st, i)
  BY IedsOfDocument DEF IedAt
<1>3. \A i \in 1 .. K : i = K \/ i \in Publishers(st)
  BY PublisherPlaces
<1>4. \A i \in Publishers(st) : IedAt(st, i).type = "" /\ IedErrors(D, IedAt(st, i)) = {}
  BY NamesOfIeds, PublisherCompiles
<1>5. IedAt(st, K).type = "SCADA" /\ ScadaErrors(D, IedAt(st, K)) = {}
  BY NamesOfIeds, ScadaCompiles
<1> HIDE DEF D, K
<1>6. \A i \in 1 .. K : errors(D.ieds[i]) = {}
  BY <1>2, <1>3, <1>4, <1>5
<1>7. ~ several
  BY <1>2, <1>3, <1>4, <1>5
<1> HIDE DEF errors, several
<1>8. \A ied \in Range(D.ieds) : errors(ied) = {}
  BY <1>2, <1>6 DEF Range
<1>9. MappingErrors(D) = {}
  BY <1>1, <1>7, <1>8
<1>10. QED
  BY <1>9 DEF D

\* The documents the generator writes and the schema accepts are compiled
\* without an error, whatever was answered: half of UsualAnswersCompile.
THEOREM DocumentsCompile == ToolSpec => [](status # "error")
<1> DEFINE NoError == status # "error"
<1>1. ToolInit => NoError
  BY DEF ToolInit
<1>2. ToolInv /\ NoError /\ [ToolNext]_<<vars, tools>> => NoError'
  <2> SUFFICES ASSUME ToolInv, NoError, [ToolNext]_<<vars, tools>> PROVE NoError'
    OBVIOUS
  <2>1. CASE Dialogue
    BY <2>1 DEF Dialogue, tools
  <2>2. CASE WriteStation
    BY <2>2 DEF WriteStation
  <2>3. CASE Compile
    <3>1. status = "valid" /\ doc = Document(Station) /\ SchemaValid(Document(Station)) /\ phase = "accepted"
      BY <2>3 DEF Compile, ToolInv, OutcomeInv
    <3>2. StationOk(Station)
      <4>1. /\ Station.levels = levels /\ Station.transformers = transformers
            /\ Station.network = settings.network /\ Station.scada = settings.scada
        BY DEF Station
      <4>2. settings.network \in NetworkSet /\ settings.scada \in ScadaSet
        BY <3>1 DEF ToolInv, StationInv, SettingsTyped
      <4>3. /\ levels \in Seq(BuiltLevels) /\ transformers \in Seq(TransformerSet)
            /\ \A x \in Range(transformers) : /\ x.level \in DOMAIN levels
                                              /\ x.tap \in DOMAIN levels[x.level].taps
        BY DEF ToolInv, StationInv, LevelsBuilt, TransformersPlaced
      <4>4. QED
        BY <4>1, <4>2, <4>3 DEF StationOk
    <3> DEFINE st == Station
    <3> HIDE DEF st
    <3>3. StationOk(st) /\ SchemaValid(Document(st)) /\ doc = Document(st)
      BY <3>1, <3>2 DEF st
    <3>4. MappingErrors(doc) = {}
      BY <3>3, DocumentCompiles
    <3>5. QED
      BY <2>3, <3>4 DEF Compile
  <2>4. CASE UNCHANGED <<vars, tools>>
    BY <2>4 DEF tools
  <2>5. QED
    BY <2>1, <2>2, <2>3, <2>4 DEF ToolNext
<1>3. QED
  BY <1>1, <1>2, ToolInvariant, PTL DEF ToolSpec
=============================================================================
