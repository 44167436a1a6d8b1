--------------------------- MODULE MCOutputFiles ---------------------------
(* Values for TLC. *)
EXTENDS OutputFiles

Breaker(lower, rest) == [lower |-> lower, scada |-> FALSE, rest |-> rest]
Scada(rest) == [lower |-> "scada1", scada |-> TRUE, rest |-> rest]
Document(base, raises, valid, mappable, ieds) ==
    [stem |-> base, raises |-> raises, valid |-> valid, mappable |-> mappable, ieds |-> ieds]

Good == Document("east", FALSE, TRUE, TRUE, <<Breaker("cb1", "CB1"), Scada("1")>>)
Other == Document("east", FALSE, TRUE, TRUE, <<Breaker("cb2", "CB2"), Scada("2")>>)
Refused == Document("east", FALSE, FALSE, TRUE, <<Breaker("cb1", "CB1"), Scada("3")>>)
Raising == Document("east", TRUE, FALSE, TRUE, <<Scada("4")>>)
West == Document("west", FALSE, TRUE, TRUE, <<Scada("5")>>)

\* Of hand-edited documents: names that differ in case, and one that the
\* mapping refuses.
TwoCases == Document("east", FALSE, TRUE, TRUE,
                     <<Breaker("cb1", "CB1"), Breaker("cb1", "cb1"), Scada("6")>>)
Unmapped == Document("east", FALSE, TRUE, FALSE, <<Breaker("cb1", "CB1")>>)

StationSet == {Good, Other, Refused, Raising, West}
EditedSet == {TwoCases, Unmapped}
=============================================================================
