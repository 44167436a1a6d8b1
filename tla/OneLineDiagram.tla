--------------------------- MODULE OneLineDiagram ---------------------------
(***************************************************************************)
(* Where generator/diagram puts the symbols of a station: one strip for    *)
(* each voltage level, drawn by the drawer of its layout, and one band     *)
(* below them for the transformers.  Only the places of breakers,          *)
(* disconnects and taps are kept; lines, labels and their texts are not.   *)
(*                                                                         *)
(* Lengths are in sixtieths of a pixel, so that the fractions the drawers  *)
(* take are whole.  A ring is unrolled: x runs along the ring, with 3 for  *)
(* pi, which draws symbols closer together than they are, and y is the     *)
(* distance from the ring.                                                 *)
(***************************************************************************)
EXTENDS Switchyard

Px(n) == 60 * n

StripHeight == Px(340)
StripGap == Px(50)
LeftMargin == Px(160)
TapPitch == Px(140)
DiameterPitch == Px(220)
BreakerSize == Px(16)
TitleHeight == Px(60)
DisconnectSize == Px(7)
DisconnectGap == Px(18)

DiameterX(index) == LeftMargin + (index - 1) * DiameterPitch
TapX(index) == LeftMargin + (index - 1) * TapPitch
StripY0(rank) == TitleHeight + (rank - 1) * (StripHeight + StripGap)
TotalHeight(strips) == StripY0(strips) + StripHeight + Px(20)

StubLength == Px(36)
RingRadius(taps) == IF 18 * taps > 80 THEN Px(18 * taps) ELSE Px(80)

-----------------------------------------------------------------------------
(* Symbols: squares around a point. *)

Symbol(what, name, x, y, half) == [what |-> what, name |-> name, x |-> x, y |-> y, half |-> half]
BreakerSymbol(b, x, y) == Symbol("CBR", b.name, x, y, BreakerSize \div 2)
DisconnectSymbol(name, x, y) == Symbol("DIS", name, x, y, DisconnectSize)
TapSymbol(tap, x, y) == Symbol("tap", tap.name, x, y, Px(3))

\* A breaker of a vertical conductor between its two disconnects.
Flanked(b, x, y) ==
    LET gap == BreakerSize \div 2 + DisconnectGap
    IN  {BreakerSymbol(b, x, y), DisconnectSymbol(Suffixed(b.name, "DA"), x, y - gap),
         DisconnectSymbol(Suffixed(b.name, "DB"), x, y + gap)}

\* draw_tap_with_exit and draw_tap_with_exit_horizontal: a stub in the
\* direction of <<dx, dy>> with the exit switch half way, none for a transformer.
TapWithExit(tap, x, y, dx, dy) ==
    IF tap.kind = "transformer" THEN {TapSymbol(tap, x, y)}
    ELSE {TapSymbol(tap, x + dx, y + dy),
          DisconnectSymbol(Suffixed(tap.name, "D"), x + dx \div 2, y + dy \div 2)}

-----------------------------------------------------------------------------
(* The drawers. *)

DrawBreakerAndHalf(lv, top) ==
    LET topY == top + Px(30)
        seg == (StripHeight - Px(60)) \div 6
        cbs(d) == SubSeq(Breakers(lv), 3 * d - 2, 3 * d)
        Diameter(d) ==
            (UNION {Flanked(cbs(d)[k], DiameterX(d), topY + (2 * k - 1) * seg) : k \in 1 .. 3})
            \cup UNION {TapWithExit(lv.taps[2 * d - 2 + k], DiameterX(d), topY + 2 * k * seg,
                                    Px(30), 0) : k \in 1 .. 2}
    IN  UNION {Diameter(d) : d \in 1 .. Len(lv.taps) \div 2}

\* The columns that single-bus and main-and-transfer levels have in common.
Columns(lv, railY, top) ==
    LET tapY == top + StripHeight - Px(50)
    IN  UNION {Flanked(BreakersBounding(TapNode(i), lv.breakers)[1], TapX(i), (railY + tapY) \div 2)
               \cup TapWithExit(lv.taps[i], TapX(i), tapY, 0, Px(10)) : i \in DOMAIN lv.taps}

DrawSingleBus(lv, top) == Columns(lv, top + Px(60), top)

TransferY(top) == top + Px(50) + 2 * (BreakerSize \div 2 + DisconnectGap) + Px(20)

DrawMainAndTransfer(lv, top) ==
    LET mainY == top + Px(50)
        tie == Breakers(lv)[Len(lv.taps) + 1]
    IN  Columns(lv, mainY, top)
        \cup Flanked(tie, TapX(Len(lv.taps) + 1), (mainY + TransferY(top)) \div 2)

\* Breaker i of n is i nths around the ring, tap i half way before it, and the
\* disconnects three tenths of an nth from their breaker.
DrawRingBus(lv, top) ==
    LET n == Len(lv.taps)
        Around(tenths) == (6 * RingRadius(n) * tenths) \div (10 * n)
    IN  UNION {{BreakerSymbol(Breakers(lv)[i], Around(10 * i), 0),
                DisconnectSymbol(Suffixed(Breakers(lv)[i].name, "DA"), Around(10 * i - 3), 0),
                DisconnectSymbol(Suffixed(Breakers(lv)[i].name, "DB"), Around(10 * i + 3), 0)}
               \cup (IF lv.taps[i].kind = "transformer" THEN {}
                     ELSE {DisconnectSymbol(Suffixed(lv.taps[i].name, "D"), Around(10 * i - 5),
                                            (StubLength * 35) \div 100)})
               \cup {TapSymbol(lv.taps[i], Around(10 * i - 5), StubLength)} : i \in 1 .. n}

Draw(lv, top) ==
    CASE lv.layout = "breaker_and_half" -> DrawBreakerAndHalf(lv, top)
      [] lv.layout = "single_bus" -> DrawSingleBus(lv, top)
      [] lv.layout = "main_and_transfer" -> DrawMainAndTransfer(lv, top)
      [] lv.layout = "ring_bus" -> DrawRingBus(lv, top)

\* Where the connector of a transformer starts: its tap, in a ring the end of
\* its stub, which is at most the radius and the stub right of the centre.
HvX(lv, tap) ==
    CASE lv.layout = "breaker_and_half" -> DiameterX((tap + 1) \div 2)
      [] lv.layout = "ring_bus" -> LeftMargin + 2 * RingRadius(Len(lv.taps)) + StubLength
      [] OTHER -> TapX(tap)

-----------------------------------------------------------------------------
(* Transformers, and the canvas. *)

OutputPitch == Px(60)
BandHeight == Px(60 + 46 + 36 + 40)
BodyX(hvX) == hvX + Px(60)

\* How far the outputs of a transformer stand out to either side.
HalfFan(outputs) == (OutputPitch * (outputs - 1)) \div 2

DrawTransformer(x, hvX, bandTop) ==
    LET symbolY == bandTop + Px(60)
        busY == symbolY + Px(46)
        outputY == busY + Px(36)
        startX == BodyX(hvX) - HalfFan(Len(x.lv.taps))
    IN  {DisconnectSymbol(Suffixed(x.name, "HV"), BodyX(hvX), symbolY - Px(35)),
         Symbol("PTR", x.name, BodyX(hvX), symbolY, Px(24))}
        \cup UNION {{DisconnectSymbol(x.lv.breakers[i].name, startX + (i - 1) * OutputPitch,
                                      (busY + outputY) \div 2),
                     TapSymbol(x.lv.taps[i], startX + (i - 1) * OutputPitch, outputY)} :
                        i \in DOMAIN x.lv.taps}

\* draw_transformer.max_x
MaxX(hvX, outputs) ==
    LET half == HalfFan(outputs)
    IN  BodyX(hvX) + (IF half > Px(20) THEN half ELSE Px(20)) + Px(60)

StripWidth(lv) ==
    LET n == Len(lv.taps)
    IN  LeftMargin + CASE lv.layout = "ring_bus" -> 2 * (RingRadius(n) + Px(70))
                       [] lv.layout = "breaker_and_half" -> DiameterX(n \div 2) + DiameterPitch
                       [] lv.layout = "main_and_transfer" -> TapX(n + 1) + TapPitch
                       [] OTHER -> TapX(n) + TapPitch

\* sorted(..., reverse=True): the rank of level k, equal voltages in the order
\* they were entered.
Rank(lvs, k) ==
    1 + Cardinality({j \in DOMAIN lvs : lvs[j].kv > lvs[k].kv \/ (lvs[j].kv = lvs[k].kv /\ j < k)})

BandTop(lvs) == TotalHeight(Len(lvs)) - Px(20)

\* A mutation of CanvasHeight: the band of the transformers is forgotten.
CanvasHeightOfStrips(st) == TotalHeight(Len(st.levels))
CanvasHeight(st) ==
    BandTop(st.levels) + (IF st.transformers = <<>> THEN 0 ELSE BandHeight) + Px(20)

CanvasWidth(st) ==
    Max({StripWidth(lv) : lv \in Range(st.levels)}
        \cup {MaxX(HvX(st.levels[x.level], x.tap), Len(x.lv.taps)) : x \in Range(st.transformers)})
=============================================================================
