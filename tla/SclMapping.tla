----------------------------- MODULE SclMapping -----------------------------
(***************************************************************************)
(* The compiler: scl/mapping.py, which joins the parts of a document into  *)
(* one configuration per IED, with the readers of scl/private_ext.py, and  *)
(* the file names of scl_compile.py.  The document has the shape of        *)
(* SclDocument.  A MappingError is the name of what was missing; an        *)
(* optional value is a sequence of length 0 or 1.                          *)
(***************************************************************************)
EXTENDS SclDocument

\* _coerce_bool_or_str: a text that spells a boolean becomes one.
LuaTrue == <<"", 1, <<"true">>>>
LuaFalse == <<"", 1, <<"false">>>>
CoerceBoolOrStr(text) ==
    CASE text \in {Word("true"), Word("True"), Word("TRUE")} -> LuaTrue
      [] text \in {Word("false"), Word("False"), Word("FALSE")} -> LuaFalse
      [] OTHER -> text

\* The first element of a sequence that passes a test, if there is one.
First(s, Test(_)) ==
    LET found == {k \in DOMAIN s : Test(s[k])}
    IN  IF found = {} THEN <<>> ELSE <<s[CHOOSE k \in found : \A j \in found : k <= j]>>

-----------------------------------------------------------------------------
(* Points. *)

CdcToType == {"SPS", "DPS", "SPC", "DPC", "MV"}

\* The type a data object resolves to through the templates, if it does.
ResolveCdc(doc, lnType, do) ==
    IF /\ lnType \in DOMAIN doc.templates /\ do \in DOMAIN doc.templates[lnType]
       /\ doc.templates[lnType][do] \in CdcToType
    THEN <<doc.templates[lnType][do]>> ELSE <<>>

\* What the data sets of the GOOSE control blocks list.
GoosePublishedRefs(ln0) ==
    UNION {Range(ds.members) : ds \in {d \in Range(ln0.dataSets) :
             \E gc \in Range(ln0.gse) : gc.datSet # "" /\ d.name = gc.datSet}}

CollectPoints(doc, ld) ==
    LET published == GoosePublishedRefs(ld.ln0)
        Of1(ln, doi) == [ref |-> Ref(ln.name, doi.name), type |-> ResolveCdc(doc, ln.type, doi.name),
                         goose |-> Ref(ln.name, doi.name) \in published, point |-> doi.point]
    IN  FlattenSeq(Each(LAMBDA ln : Each(LAMBDA doi : Of1(ln, doi), ln.dois), ld.lns))

-----------------------------------------------------------------------------
(* Communication. *)

\* _find_subnetwork_and_ap: the first that matches.
FindAp(doc, name) ==
    First(FlattenSeq(Each(LAMBDA net : Each(LAMBDA ap : [net |-> net, ap |-> ap], net.aps),
                          doc.subnets)),
          LAMBDA found : found.ap.ied = name)

\* round(x, 3) of seconds, for x in eighths of a millisecond, half to even.
RoundToMs(x) ==
    LET q == x \div 8
        r == x % 8
    IN  IF r < 4 \/ (r = 4 /\ q % 2 = 0) THEN q ELSE q + 1

\* A mutation of BurstLadder: it does not stop at MaxTime.
BurstLadderUncut(minTime, maxTime) == Each(RoundToMs, <<8 * minTime, 20 * minTime, 50 * minTime, 125 * minTime>>)

\* The ladder of retransmissions: from MinTime, by 2.5 each, while it stays
\* below MaxTime, four steps at most.
BurstLadder(minTime, maxTime) ==
    LET steps == <<8 * minTime, 20 * minTime, 50 * minTime, 125 * minTime>>
        n == CHOOSE k \in 0 .. 4 : /\ \A i \in 1 .. k : steps[i] < 8 * maxTime
                                   /\ k < 4 => steps[k + 1] >= 8 * maxTime
    IN  IF n = 0 THEN <<minTime>> ELSE [i \in 1 .. n |-> RoundToMs(steps[i])]

GooseErrors(doc, ied, ld) ==
    LET gcs == ld.ln0.gse
        found == FindAp(doc, ied.name)
    IN  CASE gcs = <<>> -> {}
          [] Len(gcs) > 1 -> {"several GSEControl"}
          [] found = <<>> -> {"no ConnectedAP"}
          [] found[1].net.group = <<>> -> {"no gooseGroup"}
          [] OTHER -> IF \E g \in Range(found[1].ap.gse) :
                           g.ldInst = ld.inst /\ g.cbName = gcs[1].name
                      THEN {} ELSE {"no GSE"}

\* _map_goose, for a document without these errors.
MapGoose(doc, ied, ld) ==
    IF ld.ln0.gse = <<>> THEN <<>>
    ELSE LET found == FindAp(doc, ied.name)[1]
             gse == First(found.ap.gse, LAMBDA g : g.ldInst = ld.inst
                                                   /\ g.cbName = ld.ln0.gse[1].name)[1]
         IN  <<[group |-> found.net.group[1], port |-> found.net.port, heartbeat |-> gse.maxTime,
                burst |-> BurstLadder(gse.minTime, gse.maxTime)]>>

ReportErrors(ln0, rc) ==
    (IF rc.datSet = "" \/ \E ds \in Range(ln0.dataSets) : ds.name = rc.datSet
     THEN {} ELSE {"no DataSet"})
    \cup (IF rc.period THEN {"no periodSec"} ELSE {})

MapReportControl(ln0, rc) ==
    [name |-> rc.name, trgOps |-> [dchg |-> rc.dchg, qchg |-> rc.qchg, gi |-> rc.gi],
     dataset |-> IF rc.datSet = "" THEN <<>>
                 ELSE First(ln0.dataSets, LAMBDA ds : ds.name = rc.datSet)[1].members]

-----------------------------------------------------------------------------
(* IEDs. *)

\* ln0_private: the rules, their texts interpreted.
MapRules(rules) ==
    [interlocks |-> Each(LAMBDA il : [il EXCEPT !.peerIed = CoerceBoolOrStr(@),
                                                !.peerValue = CoerceBoolOrStr(@),
                                                !.blockValue = CoerceBoolOrStr(@)],
                         rules.interlocks),
     remoteTrips |-> Each(LAMBDA rt : [rt EXCEPT !.peerIed = CoerceBoolOrStr(@),
                                                 !.peerValue = CoerceBoolOrStr(@),
                                                 !.tripValue = CoerceBoolOrStr(@)],
                          rules.remoteTrips),
     ptoc |-> rules.ptoc, pdif |-> rules.pdif, pdis |-> rules.pdis]

IedErrors(doc, ied) ==
    IF Len(ied.devices) # 1 THEN {"not one LDevice"}
    ELSE LET ld == ied.devices[1]
         IN  GooseErrors(doc, ied, ld)
             \cup (UNION {ReportErrors(ld.ln0, rc) : rc \in Range(ld.ln0.reports)})
             \cup {"no CDC" : p \in {q \in Range(CollectPoints(doc, ld)) : q.type = <<>>}}

\* map_ied, for an IED without errors.
MapIed(doc, ied) ==
    LET ld == ied.devices[1]
    IN  [name |-> ied.name, role |-> "ied", port |-> ld.ln0.settings.mmsPort,
         gooseStaleAfter |-> ld.ln0.settings.gooseStaleAfter,
         goose |-> MapGoose(doc, ied, ld), points |-> CollectPoints(doc, ld),
         rules |-> MapRules(ld.ln0.rules),
         reports |-> Each(LAMBDA rc : MapReportControl(ld.ln0, rc), ld.ln0.reports)]

\* The IEDs of the subnetwork other than SCADA itself, with the address of
\* each; an access point without an IED is passed over.
PeerAps(doc, net, self) ==
    Chosen(net.aps, LAMBDA ap : LET peer == First(doc.ieds, LAMBDA p : p.name = ap.ied)
                                   IN  ap.ied # self /\ peer # <<>> /\ peer[1].type # "SCADA")

ScadaErrors(doc, ied) ==
    LET found == FindAp(doc, ied.name)
    IN  CASE found = <<>> -> {"no ConnectedAP"}
          [] found[1].net.group = <<>> -> {"no gooseGroup"}
          [] OTHER -> {"no mmsAddress" : ap \in {a \in Range(PeerAps(doc, found[1].net, ied.name)) :
                                                   a.address = NoAddress}}

\* map_scada, for a document without these errors.
MapScada(doc, ied) ==
    LET ld == ied.devices[1]
        net == FindAp(doc, ied.name)[1].net
        port(name) == First(doc.ieds, LAMBDA p : p.name = name)[1].devices[1].ln0.settings.mmsPort
    IN  [name |-> ied.name, role |-> "scada", group |-> net.group[1], goosePort |-> net.port,
         gooseStaleAfter |-> ld.ln0.settings.gooseStaleAfter,
         ieds |-> Each(LAMBDA ap : [name |-> ap.ied, ip |-> ap.address[1], port |-> port(ap.ied)],
                       PeerAps(doc, net, ied.name)),
         alarms |-> ld.ln0.alarms]

\* map_document: its errors, and its result, by the name of the IED.
MappingErrors(doc) ==
    (UNION {IF ied.type = "SCADA" THEN ScadaErrors(doc, ied) ELSE IedErrors(doc, ied) :
               ied \in Range(doc.ieds)})
    \cup (IF \E i, j \in DOMAIN doc.ieds : i # j /\ doc.ieds[i].type = "SCADA" /\ doc.ieds[j].type = "SCADA"
          THEN {"several SCADA"} ELSE {})

MapDocument(doc) ==
    [name \in {ied.name : ied \in Range(doc.ieds)} |->
        LET named == {i \in DOMAIN doc.ieds : doc.ieds[i].name = name}
            ied == doc.ieds[CHOOSE i \in named : \A j \in named : j <= i]
        IN  IF ied.type = "SCADA" THEN MapScada(doc, ied) ELSE MapIed(doc, ied)]

OutFilename(cfg) == IF cfg.role = "scada" THEN Word("sas-scada") ELSE Lower(cfg.name)
=============================================================================
