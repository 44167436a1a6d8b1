----------------------------- MODULE Toolchain -----------------------------
(***************************************************************************)
(* From the answers of an engineer to the configurations of the daemons:   *)
(* the dialogue of Wizard, the document of SclDocument, the check against  *)
(* the schema, the compiler of SclMapping, and the one-line diagram.  What *)
(* becomes of the files is in OutputFiles.                                 *)
(***************************************************************************)
EXTENDS Wizard, SclMapping, OneLineDiagram

VARIABLES
    status,     \* what became of the accepted station
    doc,        \* the document written, or NoDocument
    configs     \* the configurations by IED, or NoConfigs

tools == <<status, doc, configs>>

NoDocument == <<>>
NoConfigs == <<>>

ToolInit == Init /\ status = "open" /\ doc = NoDocument /\ configs = NoConfigs

Dialogue == Next /\ UNCHANGED tools

\* write_station: the document is built, and the schema has its say.
WriteStation ==
    /\ phase = "accepted" /\ status = "open"
    /\ IF WriteRaises(Station) THEN status' = "raised" /\ doc' = doc
       ELSE LET written == Document(Station)
            IN  /\ doc' = written
                /\ status' = IF SchemaValid(written) THEN "valid" ELSE "refused"
    /\ UNCHANGED <<vars, configs>>

\* compile_scd
Compile ==
    /\ status = "valid"
    /\ IF MappingErrors(doc) # {} THEN status' = "error" /\ configs' = configs
       ELSE status' = "compiled" /\ configs' = MapDocument(doc)
    /\ UNCHANGED <<vars, doc>>

ToolNext == Dialogue \/ WriteStation \/ Compile

ToolSpec == ToolInit /\ [][ToolNext]_<<vars, tools>>

-----------------------------------------------------------------------------
(* Topology. *)

\* What a node is connected to with some breakers open and all else closed.
Connected(lv, node, open) ==
    Reached(node, {Ends(b) : b \in {d \in Range(lv.breakers) : d.name \notin open}})

\* Nothing that could feed the tap is connected to it: no bus, no other tap.
IsIsolated(lv, tap, open) ==
    \A n \in Connected(lv, TapNode(tap), open) : n[1] \in {"bus", "tap"} => n = TapNode(tap)

\* The pairs that interlock are those derive.py documents: one for each
\* diameter, none where every tap has one breaker, half of a ring, and no
\* breaker in two of them.
InterlocksAsDocumented ==
    phase = "another" =>
        LET lv == levels[Len(levels)]
            pairs == IllustrativeInterlocks(lv)
            number == IF lv.layout \in {"breaker_and_half", "ring_bus"} THEN Len(lv.taps) \div 2 ELSE 0
        IN  /\ Len(pairs) = number
            /\ \A p, q \in DOMAIN pairs : p # q => Range(pairs[p]) \cap Range(pairs[q]) = {}
            /\ \A p \in DOMAIN pairs :
                 /\ pairs[p][1].name[2] < pairs[p][2].name[2]
                 /\ \E t \in DOMAIN lv.taps :
                      IsIsolated(lv, t, {pairs[p][1].name, pairs[p][2].name})

Overlap(p, q) == LET Near(a, b) == a < b + p.half + q.half /\ b < a + p.half + q.half
                 IN  Near(p.x, q.x) /\ Near(p.y, q.y)

Inside(s, width, top, height) ==
    /\ s.half <= s.x /\ s.x + s.half <= width
    /\ top + s.half <= s.y /\ s.y + s.half <= top + height

Count(S, what, name) == Cardinality({s \in S : s.what = what /\ s.name = name})
CountSeq(s, type, name) == Cardinality({i \in DOMAIN s : s[i].type = type /\ s[i].name = name})

Switches(S) == {s \in S : s.what \in {"CBR", "DIS"}}
NoneOverlap(S) == \A p, q \in S : p # q => ~Overlap(p, q)

\* Every device is shown as often as it is listed, and nothing else is.
ShowsDevices(drawn, devices) ==
    /\ \A b \in Range(devices) : Count(drawn, b.type, b.name) = CountSeq(devices, b.type, b.name)
    /\ Cardinality(Switches(drawn)) = Len(devices)

\* A strip is wide and high enough; of a ring only the height is known.
LevelFits(lv, top, width) ==
    LET drawn == Draw(lv, top)
    IN  /\ ShowsDevices(drawn, lv.breakers)
        /\ NoneOverlap(Switches(drawn))
        /\ IF lv.layout = "ring_bus" THEN 2 * (RingRadius(Len(lv.taps)) + StubLength) <= StripHeight
           ELSE \A s \in drawn : Inside(s, width, top, StripHeight)

TransformerFits(x, hvX, bandTop, width, height) ==
    LET drawn == DrawTransformer(x, hvX, bandTop)
    IN  /\ \A b \in Range(x.lv.breakers) : Count(drawn, "DIS", b.name) = 1
        /\ \A s \in drawn : Inside(s, width, bandTop, height)
        /\ NoneOverlap(Switches(drawn))

\* The strips of two levels are different ones, and above the transformers.
StripsApart(lvs) ==
    \A k \in DOMAIN lvs :
        /\ StripY0(Rank(lvs, k)) + StripHeight <= BandTop(lvs)
        /\ \A j \in DOMAIN lvs \ {k} : Rank(lvs, j) # Rank(lvs, k)

\* The fans of two transformers leave each other room.  Where the connector of
\* one starts is known but for a ring.
FansApart(x, y) ==
    LET Known(z) == levels[z.level].layout # "ring_bus"
        hv(z) == HvX(levels[z.level], z.tap)
        room == HalfFan(Len(x.lv.taps)) + HalfFan(Len(y.lv.taps)) + 2 * DisconnectSize
    IN  Known(x) /\ Known(y) /\ (hv(x) + room <= hv(y) \/ hv(y) + room <= hv(x))

\* No switch of one transformer is drawn over one of the other.
DrawnApart(x, y, bandTop) ==
    LET switches(z) == Switches(DrawTransformer(z, HvX(levels[z.level], z.tap), bandTop))
    IN  \A p \in switches(x), q \in switches(y) : ~Overlap(p, q)

\* The diagram of a station shows every breaker and every disconnect of the
\* document once and on the canvas.  In a level, and below a transformer, no
\* two of them are on top of each other, and each strip keeps to itself.
\* Transformers share one band, where the drawer keeps them apart no more than
\* their taps are: they overlap only if their fans reach as far as that.
DiagramFits ==
    phase = "settings" /\ (\A lv \in Range(levels) : lv.kv # NaN) =>
        LET st == [levels |-> levels, transformers |-> transformers]
        IN  /\ \A k \in DOMAIN levels :
                 LevelFits(levels[k], StripY0(Rank(levels, k)), CanvasWidth(st))
            /\ StripsApart(levels)
            /\ \A x \in Range(transformers) :
                 TransformerFits(x, HvX(levels[x.level], x.tap), BandTop(levels), CanvasWidth(st),
                                 CanvasHeight(st) - BandTop(levels))
            /\ \A x, y \in Range(transformers) :
                 FansApart(x, y) => DrawnApart(x, y, BandTop(levels))

-----------------------------------------------------------------------------
(* Documents and configurations. *)

\* A document made of usual answers passes the schema, and one that passes
\* the schema compiles.
UsualAnswersCompile ==
    /\ status # "error"
    /\ odd = 0 => status \notin {"raised", "refused"}

Ieds == {c \in Range(configs) : c.role = "ied"}
Scada == CHOOSE c \in Range(configs) : c.role = "scada"
Has(cfg, ref) == \E p \in Range(cfg.points) : p.ref = ref
HasScheme(cfg, ref) == \E s \in Range(cfg.rules.ptoc \o cfg.rules.pdif \o cfg.rules.pdis) :
                          ref = Ref(s.name, "Op")

\* A name that the compiler does not take for a boolean: what is to come from
\* a transformer called "true" is awaited from the boolean, which is no IED.
Readable(name) == CoerceBoolOrStr(name) \notin {LuaTrue, LuaFalse}

\* The trip of a transformer, taken by every breaker whose configuration
\* listens to it, isolates the transformer, and opens no breaker in vain.
TripsIsolate ==
    status = "compiled" =>
        \A x \in {y \in Range(transformers) : Readable(y.name)} :
            LET opened == {c.name : c \in {d \in Ieds : \E t \in Range(d.rules.remoteTrips) :
                                              t.peerIed = x.name}}
                lv == levels[x.level]
            IN  /\ IsIsolated(lv, x.tap, opened)
                /\ \A b \in opened : ~IsIsolated(lv, x.tap, opened \ {b})

\* What a rule of one IED refers to exists where it is looked for, is said by
\* GOOSE in the same group, and interlocks are mutual.
RulesResolve ==
    status = "compiled" =>
        \A c \in Ieds :
            /\ \A il \in Range(c.rules.interlocks) :
                 /\ Has(c, il.localRef)
                 /\ \E d \in Ieds \ {c} :
                      /\ d.name = il.peerIed /\ d.goose[1].group = c.goose[1].group
                      /\ \E p \in Range(d.points) : p.ref = il.peerRef /\ p.goose
                      /\ \E back \in Range(d.rules.interlocks) : back.peerIed = c.name
            /\ \A rt \in Range(c.rules.remoteTrips) :
                 /\ Has(c, rt.localRef) /\ rt.peerValue = LuaTrue
                 /\ rt.peerIed \notin {LuaTrue, LuaFalse} =>
                      \E d \in Ieds : /\ d.name = rt.peerIed /\ HasScheme(d, rt.peerRef)
                                     /\ d.goose[1].group = c.goose[1].group
            /\ \A s \in Range(c.rules.ptoc) : Has(c, s.input) /\ Has(c, s.trip)
            /\ \A s \in Range(c.rules.pdif) : \A ref \in Range(s.inputs) : Has(c, ref)
            /\ \A r \in Range(c.reports) : \A ref \in Range(r.dataset) : Has(c, ref)

\* The numbers of breakers and transformers do not run into each other.
HostsApart == LET n == Len(AllBreakers(Station)) IN
    \/ settings.network.hostBreakers + n <= settings.network.hostTransformers
    \/ settings.network.hostTransformers + Len(transformers) <= settings.network.hostBreakers

\* The SCADA daemon polls every IED once, each at an address of its own where
\* the ranges allow it, and its alarms are distinct and about what exists.
ScadaSeesAll ==
    status = "compiled" =>
        LET ieds == Scada.ieds
        IN  /\ Distinct(Names(ieds)) /\ Range(Names(ieds)) = {c.name : c \in Ieds}
            /\ HostsApart => Distinct(Each(LAMBDA e : e.ip, ieds))
            /\ \A c \in Ieds : c.goose[1].group = Scada.group
            /\ Distinct(Each(LAMBDA a : a.id, Scada.alarms))
            /\ \A a \in Range(Scada.alarms) : \E c \in Ieds :
                 c.name = a.ied /\ (Has(c, a.ref) \/ HasScheme(c, a.ref))

\* The burst after a change starts at MinTime and slows down.  It keeps below
\* the heartbeat where MinTime is below MaxTime, with every interval rounded;
\* else it is the one interval MinTime, which may outlast the heartbeat.
LadderRises ==
    status = "compiled" =>
        LET minTime == settings.network.minTime
            maxTime == settings.network.maxTime
        IN  \A c \in Ieds :
                LET burst == c.goose[1].burst
                IN  /\ c.goose[1].heartbeat = maxTime
                    /\ burst[1] = minTime
                    /\ \A i \in 1 .. Len(burst) - 1 : burst[i] < burst[i + 1]
                    /\ minTime < maxTime => \A i \in DOMAIN burst : burst[i] <= maxTime
                    /\ minTime >= maxTime => Len(burst) = 1

\* The APPIDs of GOOSE messages and those of sampled values do not run into
\* each other.
AppidsApart ==
    LET base == settings.network.appidBase
    IN  \/ base + Len(AllBreakers(Station)) + Len(transformers) - 1 <= SmvBase
        \/ base > SmvBase + Len(transformers)

\* No two publishers of GOOSE have the same MAC address or APPID, nor have two
\* of sampled values; nor has one of each, where the prefix that was typed is
\* not that of sampled values, and the APPIDs that were typed are not theirs.
\* No two points of the station have the same adapter, unless names differ in
\* case only.
IdentitiesDistinct ==
    status = "compiled" =>
        LET gse == FlattenSeq(Each(LAMBDA ap : ap.gse, doc.subnets[1].aps))
            smv == FlattenSeq(Each(LAMBDA ap : ap.smv, doc.subnets[1].aps))
            Macs(s) == Each(LAMBDA e : e.mac, s)
            Appids(s) == Each(LAMBDA e : e.appid, s)
            points == FlattenSeq(Each(LAMBDA ied : IF ied.type = "SCADA" THEN <<>>
                                                   ELSE CollectPoints(doc, ied.devices[1]), doc.ieds))
        IN  /\ Distinct(Macs(gse)) /\ Distinct(Appids(gse))
            /\ Distinct(Macs(smv)) /\ Distinct(Appids(smv))
            /\ settings.network.macPrefix # SmvMacPrefix => Distinct(Macs(gse) \o Macs(smv))
            /\ AppidsApart => Distinct(Appids(gse) \o Appids(smv))
            /\ Distinct(Each(LAMBDA ied : Lower(ied.name), doc.ieds)) =>
                 Distinct(Each(LAMBDA p : p.point.address, points))
=============================================================================
