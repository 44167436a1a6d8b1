----------------------------- MODULE Switchyard -----------------------------
(***************************************************************************)
(* The topology of a generated switchyard: the builders of                 *)
(* generator/layouts, which turn the taps of a voltage level into nodes    *)
(* and switching devices, and the derivations of generator/derive.py.      *)
(*                                                                         *)
(* A node is <<kind, number>> within its level: the buses, a tap, the two  *)
(* isolating points of a breaker, and the point beyond the exit switch of  *)
(* a tap.  A name is <<stem, number, suffixes>>: "CB3DA" is                *)
(* <<"CB", 3, <<"DA">>>>.  A level keeps its devices bay by bay;           *)
(* ring_bus.py lists all breakers before the disconnects, which no reader  *)
(* of the list can tell, as each of them selects the breakers or counts.   *)
(***************************************************************************)
EXTENDS Naturals, Sequences, FiniteSets, SequencesExt

CONSTANT NaN        \* the voltage that float() makes of "nan"

Layouts == {"breaker_and_half", "single_bus", "main_and_transfer", "ring_bus"}
TapKinds == {"line", "feeder", "transformer"}

Each(f(_), s) == [k \in DOMAIN s |-> f(s[k])]

\* The elements of a sequence at some of its places, and those that pass a test.
At(s, places) == FlattenSeq([k \in DOMAIN s |-> IF k \in places THEN <<s[k]>> ELSE <<>>])
Chosen(s, Test(_)) == At(s, {k \in DOMAIN s : Test(s[k])})

Suffixed(name, suffix) == <<name[1], name[2], Append(name[3], suffix)>>

\* A number at the end of a name, as so many marks.
Tallied(name, n) == <<name[1], name[2], name[3] \o [k \in 1 .. n |-> "1"]>>

Bus(i) == <<"bus", i>>
TapNode(i) == <<"tap", i>>
ExitNode(i) == <<"exit", i>>
SideA(n) == <<"A", n>>
SideB(n) == <<"B", n>>

Cbr(n, a, b) == [name |-> <<"CB", n, <<>>>>, type |-> "CBR", a |-> a, b |-> b]
Dis(name, a, b) == [name |-> name, type |-> "DIS", a |-> a, b |-> b]

\* A bay before its disconnects are added: its breakers, and its taps by number.
Cell(bay, cbs, taps) == [bay |-> bay, cbs |-> cbs, taps |-> taps]

-----------------------------------------------------------------------------
(* Disconnects. *)

\* A breaker between its two isolating points, and the disconnects that join
\* these to the nodes the breaker was built between.
Isolated(cb) == [name |-> cb.name, type |-> cb.type, a |-> SideA(cb.name[2]), b |-> SideB(cb.name[2])]
IsolatingPair(cb) == <<Dis(Suffixed(cb.name, "DA"), cb.a, SideA(cb.name[2])),
                       Dis(Suffixed(cb.name, "DB"), SideB(cb.name[2]), cb.b)>>

HasExit(tap) == tap.kind \in {"line", "feeder"}

ExitDisconnect(taps, i) == Dis(Suffixed(taps[i].name, "D"), TapNode(i), ExitNode(i))

\* The bay of a cell, disconnects included.
Equipped(taps, cell) ==
    LET exits == Chosen(cell.taps, LAMBDA i : HasExit(taps[i]))
    IN  [name |-> cell.bay,
         breakers |-> Each(Isolated, cell.cbs) \o FlattenSeq(Each(IsolatingPair, cell.cbs))
                      \o Each(LAMBDA i : ExitDisconnect(taps, i), exits),
         nodes |-> Each(TapNode, cell.taps)
                   \o FlattenSeq(Each(LAMBDA cb : <<SideA(cb.name[2]), SideB(cb.name[2])>>, cell.cbs))
                   \o Each(ExitNode, exits)]

-----------------------------------------------------------------------------
(* The layouts. *)

\* Taps a builder refuses with a ValueError.
Refuses(layout, taps) ==
    CASE layout = "breaker_and_half" -> Len(taps) = 0 \/ Len(taps) % 2 # 0
      [] layout = "ring_bus" -> Len(taps) < 3
      [] OTHER -> Len(taps) = 0

BreakerAndHalf(taps, start) ==
    [d \in 1 .. Len(taps) \div 2 |->
        LET first == 2 * d - 1
            n == start + 3 * (d - 1)
        IN  Cell(<<"Diameter", d, <<>>>>,
                 <<Cbr(n, Bus(1), TapNode(first)),
                   Cbr(n + 1, TapNode(first), TapNode(first + 1)),
                   Cbr(n + 2, TapNode(first + 1), Bus(2))>>,
                 <<first, first + 1>>)]

SingleBus(taps, start) ==
    [i \in DOMAIN taps |->
        Cell(<<"Bay", i, <<>>>>, <<Cbr(start + i - 1, Bus(1), TapNode(i))>>, <<i>>)]

MainAndTransfer(taps, start) ==
    Append(SingleBus(taps, start),
           Cell(<<"Tie", 0, <<>>>>, <<Cbr(start + Len(taps), Bus(1), Bus(2))>>, <<>>))

RingBus(taps, start) ==
    [i \in DOMAIN taps |->
        Cell(<<"Bay", i, <<>>>>,
             <<Cbr(start + i - 1, TapNode(i), TapNode((i % Len(taps)) + 1))>>, <<i>>)]

Cells(layout, taps, start) ==
    CASE layout = "breaker_and_half" -> BreakerAndHalf(taps, start)
      [] layout = "single_bus" -> SingleBus(taps, start)
      [] layout = "main_and_transfer" -> MainAndTransfer(taps, start)
      [] layout = "ring_bus" -> RingBus(taps, start)

\* The bays of the bare buses, in front of the bays of the taps.
BusBays(layout) ==
    CASE layout = "breaker_and_half" -> <<"BusA", "BusB">>
      [] layout = "single_bus" -> <<"Bus">>
      [] layout = "main_and_transfer" -> <<"MainBus", "TransferBus">>
      [] layout = "ring_bus" -> <<>>

\* A VoltageLevelBuild from its bays.
Level(name, kv, layout, taps, bays) ==
    [name |-> name, kv |-> kv, layout |-> layout, taps |-> taps, bays |-> bays,
     breakers |-> FlattenSeq([k \in DOMAIN bays |-> bays[k].breakers]),
     nodes |-> FlattenSeq([k \in DOMAIN bays |-> bays[k].nodes])]

BusBay(name, i) == [name |-> <<name, 0, <<>>>>, breakers |-> <<>>, nodes |-> <<Bus(i)>>]

Build(name, kv, layout, taps, start) ==
    LET buses == BusBays(layout)
        cells == Cells(layout, taps, start)
    IN  Level(name, kv, layout, taps,
              [i \in DOMAIN buses |-> BusBay(buses[i], i)]
              \o [k \in DOMAIN cells |-> Equipped(taps, cells[k])])

\* The LV side of a transformer: one bus, and one disconnect to each output.
LvLevel(name, kv, outputs) ==
    Level(Suffixed(name, "LV"), kv, "transformer_lv", outputs,
          <<BusBay("LVBus", 1)>>
          \o [i \in DOMAIN outputs |->
                [name |-> <<"Output", i, <<>>>>,
                 breakers |-> <<Dis(Tallied(Suffixed(name, "DIS"), i), Bus(1), TapNode(i))>>,
                 nodes |-> <<TapNode(i)>>]])

NodeName(level, node) ==
    CASE node[1] = "bus" -> <<"Bus", 0, <<>>>>
      [] node[1] = "tap" -> level.taps[node[2]].name
      [] node[1] = "exit" -> Suffixed(level.taps[node[2]].name, "Exit")
      [] OTHER -> <<"CB", node[2], <<node[1]>>>>

IsCbr(b) == b.type = "CBR"
Breakers(level) == Chosen(level.breakers, IsCbr)

-----------------------------------------------------------------------------
(* Derivations. *)

Ends(b) == {b.a, b.b}

\* The nodes that some links, each the pair of its ends, join to a node.
Reached(node, links) ==
    LET nodes == {node} \cup UNION links
        Walk[seen \in SUBSET nodes] ==
            LET next == seen \cup UNION {l \in links : l \cap seen # {}}
            IN  IF next = seen THEN seen ELSE Walk[next]
    IN  Walk[{node}]

\* A mutation of BreakersBounding: disconnects are not walked through.
BreakersAdjacent(node, breakers) ==
    Chosen(breakers, LAMBDA b : IsCbr(b) /\ node \in Ends(b))

\* The breakers met first on every way out of a node: disconnects are walked
\* through, breakers are not.
BreakersBounding(node, breakers) ==
    LET reached == Reached(node, {Ends(b) : b \in {d \in Range(breakers) : ~IsCbr(d)}})
    IN  Chosen(breakers, LAMBDA b : IsCbr(b) /\ Ends(b) \cap reached # {})

RemoteTripsFor(level, tap) == BreakersBounding(TapNode(tap), level.breakers)

\* A mutation of IllustrativeInterlocks: earlier pairs are not looked at.
InterlocksOfEveryTap(level) ==
    SelectSeq([i \in DOMAIN level.taps |-> BreakersBounding(TapNode(i), level.breakers)],
              LAMBDA bounding : Len(bounding) = 2)

\* The pairs of breakers that interlock each other: a tap between exactly two
\* breakers that no earlier pair has used.
IllustrativeInterlocks(level) ==
    LET Names(pair) == {pair[1].name, pair[2].name}
        pairs[i \in 0 .. Len(level.taps)] ==
            IF i = 0 THEN <<>>
            ELSE LET bounding == BreakersBounding(TapNode(i), level.breakers)
                     free == \A p \in Range(pairs[i - 1]) : Names(p) \cap Names(bounding) = {}
                 IN  IF Len(bounding) = 2 /\ free
                     THEN Append(pairs[i - 1], bounding) ELSE pairs[i - 1]
    IN  pairs[Len(level.taps)]
=============================================================================
