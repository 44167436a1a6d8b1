---------------------------- MODULE SclDocument ----------------------------
(***************************************************************************)
(* The document scl_writer.py builds from a Station, and what the          *)
(* vendored schema (scl/validate.py) refuses of it.                        *)
(*                                                                         *)
(* An element is a record of the attributes and children that a reader of  *)
(* the document uses.  A reference to a point, "XCBR1.Pos", is the pair of *)
(* its logical node and data object; a path is the triple of level, bay    *)
(* and node.  Attribute texts that the compiler interprets are names in    *)
(* the sense of Switchyard, words such as "closed" included.               *)
(***************************************************************************)
EXTENDS Switchyard, Integers

CONSTANT WideStems  \* stems of names of 30 characters or more

ASSUME WideAssumption == {"", "XFMR"} \cap WideStems = {}

Word(w) == <<w, 0, <<>>>>
NoAddress == <<>>

\* str.lower on the names of this model.
Lower(name) ==
    LET lower == [CB |-> "cb", XFMR |-> "xfmr", SCADA |-> "scada"]
    IN  IF name[1] \in DOMAIN lower THEN [name EXCEPT ![1] = lower[name[1]]] ELSE name

\* The name of a control block: a prefix, and the name of the device or nothing.
CbName(prefix, name) == <<prefix, name>>
NoName == <<"", 0, <<>>>>

Numbered(f(_, _), s) == [k \in DOMAIN s |-> f(k, s[k])]

AllBreakers(st) == FlattenSeq(Each(Breakers, st.levels))
AllLevels(st) == st.levels \o Each(LAMBDA x : x.lv, st.transformers)

-----------------------------------------------------------------------------
(* Substation. *)

Path(lv, node) ==
    LET bay == CHOOSE b \in Range(lv.bays) : node \in Range(b.nodes)
    IN  <<lv.name, bay.name, NodeName(lv, node)>>

BayElement(lv, bay) ==
    [name |-> bay.name,
     equipment |-> Each(LAMBDA b : [name |-> b.name, type |-> b.type,
                                    terminals |-> <<Path(lv, b.a), Path(lv, b.b)>>], bay.breakers),
     nodes |-> Each(LAMBDA n : [name |-> NodeName(lv, n), path |-> Path(lv, n)], bay.nodes)]

LevelElement(lv) == [name |-> lv.name, kv |-> lv.kv,
                     bays |-> Each(LAMBDA bay : BayElement(lv, bay), lv.bays)]

TransformerElement(st, x) ==
    [name |-> x.name, hv |-> Path(st.levels[x.level], TapNode(x.tap)), lv |-> Path(x.lv, Bus(1))]

SubstationElement(st) ==
    [transformers |-> Each(LAMBDA x : TransformerElement(st, x), st.transformers),
     levels |-> Each(LevelElement, AllLevels(st))]

-----------------------------------------------------------------------------
(* Communication. *)

\* A mutation of MacAppidIndex: breakers and transformers counted apart.
MacAppidIndexByKind(st) ==
    LET Of1(s) == [n \in Range(Each(LAMBDA e : e.name, s)) |->
                     CHOOSE i \in DOMAIN s : s[i].name = n]
    IN  Of1(st.transformers) @@ Of1(AllBreakers(st))

\* One counter over breakers and then transformers; a later name overwrites
\* an equal earlier one.
MacAppidIndex(st) ==
    LET names == Each(LAMBDA b : b.name, AllBreakers(st)) \o Each(LAMBDA x : x.name, st.transformers)
    IN  [n \in Range(names) |-> CHOOSE i \in DOMAIN names :
            names[i] = n /\ \A j \in DOMAIN names : names[j] = n => j <= i]

\* A MAC address is its prefix and the number at its end.
Gse(st, index) == [ldInst |-> "LD0", cbName |-> "gcbGoose1", mac |-> <<st.network.macPrefix, index>>,
                   appid |-> st.network.appidBase + index - 1,
                   minTime |-> st.network.minTime, maxTime |-> st.network.maxTime]

\* The address of the sampled values of a transformer, which nobody is asked for.
SmvMacPrefix == "01-0C-CD-04-00-"
SmvBase == 4000
Smv(i, x) == [ldInst |-> "LD0", cbName |-> CbName("svc", x.name), mac |-> <<SmvMacPrefix, i>>,
              appid |-> SmvBase + i]

BreakerAp(st, i, b) ==
    [ied |-> b.name, address |-> <<st.network.hostBreakers + i - 1>>, gse |-> <<Gse(st, i)>>,
     smv |-> <<>>]

TransformerAp(st, i, x) ==
    [ied |-> x.name, address |-> <<st.network.hostTransformers + i - 1>>,
     gse |-> <<Gse(st, MacAppidIndex(st)[x.name])>>, smv |-> <<Smv(i, x)>>]

ScadaAp(st) ==
    [ied |-> st.scada.iedName,
     address |-> IF st.network.scadaHost < 0 THEN NoAddress ELSE <<st.network.scadaHost>>,
     gse |-> <<>>, smv |-> <<>>]

\* A mutation of SubNetwork: hosts are counted from the start in every level.
SubNetworkByLevel(st) ==
    [group |-> <<"255.10">>, port |-> <<8104>>,
     aps |-> FlattenSeq(Each(LAMBDA lv : Numbered(LAMBDA i, b : BreakerAp(st, i, b), Breakers(lv)),
                             st.levels))
             \o Numbered(LAMBDA i, x : TransformerAp(st, i, x), st.transformers)
             \o <<ScadaAp(st)>>]

SubNetwork(st) ==
    [group |-> <<"255.10">>, port |-> <<8104>>,
     aps |-> Numbered(LAMBDA i, b : BreakerAp(st, i, b), AllBreakers(st))
             \o Numbered(LAMBDA i, x : TransformerAp(st, i, x), st.transformers)
             \o <<ScadaAp(st)>>]

-----------------------------------------------------------------------------
(* Rules derived from the topology, looked up by the name of the breaker. *)

\* A mutation of AllInterlocks: only the first of a pair is interlocked.
AllInterlocksOneWay(st) ==
    FlattenSeq(Each(LAMBDA lv : Each(LAMBDA pair : <<pair[1].name, pair[2].name>>,
                                     IllustrativeInterlocks(lv)), st.levels))

\* All interlocks of a station as <<breaker, peer>>, both ways round.
AllInterlocks(st) ==
    LET Both(pair) == <<<<pair[1].name, pair[2].name>>, <<pair[2].name, pair[1].name>>>>
    IN  FlattenSeq(Each(LAMBDA lv : FlattenSeq(Each(Both, IllustrativeInterlocks(lv))), st.levels))

\* All remote trips as <<breaker, transformer>>.
AllRemoteTrips(st) ==
    FlattenSeq(Each(LAMBDA x : Each(LAMBDA b : <<b.name, x>>,
                                    RemoteTripsFor(st.levels[x.level], x.tap)), st.transformers))

Of(name, pairs) == Each(LAMBDA p : p[2], Chosen(pairs, LAMBDA p : p[1] = name))

-----------------------------------------------------------------------------
(* IEDs. *)

Ref(ln, do) == <<ln, do>>
Point(io, name, role, more) == [io |-> io, address |-> <<Lower(name), role>>, sbo |-> more]
Ln(name, type, dois) == [name |-> name, type |-> type, dois |-> dois]
Doi(name, point) == [name |-> name, point |-> point]
Report(name, dataSet) ==
    [name |-> name, datSet |-> dataSet, dchg |-> TRUE, qchg |-> TRUE, gi |-> TRUE, period |-> FALSE,
     confRev |-> 1]

Interlock(peer) ==
    [localRef |-> Ref("XCBR1", "PosCtl"), blockValue |-> Word("closed"), peerIed |-> peer,
     peerRef |-> Ref("XCBR1", "Pos"), peerValue |-> Word("closed")]

RemoteTrip(x) ==
    [peerIed |-> x.name, peerRef |-> Ref("PDIF1", "Op"), peerValue |-> Word("true"),
     localRef |-> Ref("XCBR1", "PosCtl"), tripValue |-> Word("open")]

Ptoc(p) ==
    [name |-> "PTOC1", input |-> Ref("MMXU1", "Amp"), trip |-> Ref("XCBR1", "PosCtl"),
     curve |-> p.curve,
     definiteTime |-> IF p.curve = "DEFINITE_TIME" THEN <<p.definiteTime>> ELSE <<>>,
     timeMultiplier |-> IF p.curve = "DEFINITE_TIME" THEN <<>> ELSE <<p.timeMultiplier>>]

NoRules == [interlocks |-> <<>>, remoteTrips |-> <<>>, ptoc |-> <<>>, pdif |-> <<>>, pdis |-> <<>>]
Ln0(st, rules, dataSets, reports, gse) ==
    [settings |-> st.ied, rules |-> rules, dataSets |-> dataSets, reports |-> reports, gse |-> gse,
     smv |-> <<>>, alarms |-> <<>>]

Ied(name, type, ln0, lns) ==
    [name |-> name, type |-> type, devices |-> <<[inst |-> "LD0", ln0 |-> ln0, lns |-> lns]>>]

BreakerIed(st, b, interlocks, remoteTrips) ==
    Ied(b.name, "",
        Ln0(st, [NoRules EXCEPT
                    !.interlocks = Each(Interlock, Of(b.name, interlocks)),
                    !.remoteTrips = Each(RemoteTrip, Of(b.name, remoteTrips)),
                    !.ptoc = <<Ptoc(st.protection)>>],
            <<[name |-> "dsGoose1", members |-> <<Ref("XCBR1", "Pos")>>]>>,
            <<Report(CbName("rcbStatus1", NoName), "dsGoose1")>>,
            <<[name |-> "gcbGoose1", datSet |-> "dsGoose1", appID |-> b.name]>>),
        <<Ln("XCBR1", "XCBR_Basic",
             <<Doi("Pos", Point("redstone", b.name, "status", <<>>)),
               Doi("PosCtl", Point("redstone", b.name, "control", <<30>>))>>),
          Ln("MMXU1", "MMXU_Basic",
             <<Doi("Amp", Point("meter", b.name, "ammeter", <<>>)),
               Doi("Vol", Point("meter", b.name, "voltmeter", <<>>))>>)>>)

TransformerIed(st, x) ==
    Ied(x.name, "",
        [Ln0(st, [NoRules EXCEPT
                    !.pdif = <<[name |-> "PDIF1",
                                inputs |-> <<Ref("MMXU1", "Amp"), Ref("MMXU2", "Amp")>>]>>,
                    !.pdis = <<[name |-> "PDIS1"]>>],
            <<[name |-> "dsStatus1", members |-> <<Ref("MMXU1", "Amp"), Ref("MMXU2", "Amp")>>]>>,
            <<Report(CbName("rcb", x.name), "dsStatus1")>>,
            <<[name |-> "gcbGoose1", datSet |-> "", appID |-> x.name]>>)
         EXCEPT !.smv = <<CbName("svc", x.name)>>],
        <<Ln("MMXU1", "MMXU_Basic", <<Doi("Amp", Point("meter", x.name, "hv-ammeter", <<>>))>>),
          Ln("MMXU2", "MMXU_Basic", <<Doi("Amp", Point("meter", x.name, "lv-ammeter", <<>>))>>),
          Ln("RDRE1", "RDRE_Basic", <<>>)>>)

\* An alarm on the first breaker of each level, which has one in every layout,
\* and one on each transformer.
Alarms(st) ==
    LET low(lv) == [id |-> Suffixed(lv.name, "_VOLTAGE_LOW"), ied |-> Breakers(lv)[1].name,
                    ref |-> Ref("MMXU1", "Vol")]
        trip(x) == [id |-> Suffixed(x.name, "_DIFF_TRIP"), ied |-> x.name, ref |-> Ref("PDIF1", "Op")]
    IN  (IF st.scada.undervoltage THEN Each(low, st.levels) ELSE <<>>)
        \o (IF st.scada.trip THEN Each(trip, st.transformers) ELSE <<>>)

ScadaIed(st) ==
    Ied(st.scada.iedName, "SCADA",
        [Ln0(st, NoRules, <<>>, <<>>, <<>>) EXCEPT !.alarms = Alarms(st)], <<>>)

\* The data type templates: of every LN type its data objects and their CDC.
Templates ==
    [LN0_Basic |-> [Mod |-> "ENC"], XCBR_Basic |-> [Pos |-> "DPS", PosCtl |-> "DPC"],
     MMXU_Basic |-> [Amp |-> "MV", Vol |-> "MV"], RDRE_Basic |-> [RcdMade |-> "ACT"]]

-----------------------------------------------------------------------------
(* The document. *)

\* round() of the alarm threshold raises for a voltage that is no number.
WriteRaises(st) == st.scada.undervoltage /\ \E lv \in Range(st.levels) : lv.kv = NaN

Document(st) ==
    LET interlocks == AllInterlocks(st)
        remoteTrips == AllRemoteTrips(st)
    IN  [substation |-> SubstationElement(st), subnets |-> <<SubNetwork(st)>>,
         ieds |-> Each(LAMBDA b : BreakerIed(st, b, interlocks, remoteTrips), AllBreakers(st))
                  \o Each(LAMBDA x : TransformerIed(st, x), st.transformers) \o <<ScadaIed(st)>>,
         templates |-> Templates]

Distinct(s) == \A i, j \in DOMAIN s : s[i] = s[j] => i = j
Names(s) == Each(LAMBDA e : e.name, s)

\* tCBName: 32 characters at most, of which the prefix takes three or more.
FitsCbName(cb) == cb[2][1] \notin WideStems

\* The control blocks of an IED that are named after it, or could be.
CbNames(ied) ==
    UNION {Range(Names(d.ln0.reports)) \cup Range(d.ln0.smv) : d \in Range(ied.devices)}

\* The constraints of the schema that this document can break: uniqueness, the
\* length of the name of a control block, and the decimal voltage: SCL.xsd,
\* SCL_BaseSimpleTypes.xsd, SCL_Communication.xsd, SCL_Substation.xsd.
SchemaValid(doc) ==
    /\ Distinct(Names(doc.ieds))
    /\ \A ied \in Range(doc.ieds) : \A cb \in CbNames(ied) : FitsCbName(cb)
    /\ \A net \in Range(doc.subnets) :
         /\ Distinct(Each(LAMBDA ap : ap.ied, net.aps))
         /\ \A ap \in Range(net.aps) : /\ \E ied \in Range(doc.ieds) : ied.name = ap.ied
                                      /\ \A s \in Range(ap.smv) : FitsCbName(s.cbName)
    /\ Distinct(Names(doc.substation.transformers) \o Names(doc.substation.levels))
    /\ \A lv \in Range(doc.substation.levels) :
         /\ lv.kv # NaN
         /\ Distinct(Names(lv.bays))
         /\ \A bay \in Range(lv.bays) : Distinct(Names(bay.equipment) \o Names(bay.nodes))
=============================================================================
