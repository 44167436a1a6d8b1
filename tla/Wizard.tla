------------------------------- MODULE Wizard -------------------------------
(***************************************************************************)
(* The dialogue of generator/wizard.py, which collects a Station: levels   *)
(* one after another, each with its taps and transformers, then four       *)
(* sections of settings, then a last question.  One action is one          *)
(* function of the module, or one turn of its loop over taps.  A prompt is *)
(* the set of answers it returns: prompts.py asks again for any other.     *)
(*                                                                         *)
(* Nobody compares names: the dialogue takes the name of a breaker for a   *)
(* transformer, and the same name twice.  A name is <<stem, number,        *)
(* suffixes>>, as in Switchyard.  Settings that are only handed on to the    *)
(* daemons, with no reader in the tools, are left out.                     *)
(***************************************************************************)
EXTENDS Switchyard, Integers

CONSTANTS
    LongStems,     \* names of 63 or 64 characters
    NotIedStems,   \* identifiers that are no tIEDName: "_x", or "Nora"
    NotNameStems,  \* what is no identifier: "a b"
    TypedNames,    \* names typed where the usual one was expected
    Kinds,         \* kinds of tap chosen from the menu
    Voltages,      \* nominal voltages usually typed for a level, and others
    OddVoltages,
    MacPrefixes,   \* MAC address prefixes typed where the usual one was expected
    LvVoltages,    \* voltages typed for the LV side of a transformer
    Numbers,       \* what is typed where the default was expected, for a number
    MaxTaps,       \* bound: taps of a station
    MaxLevels,     \* bound: voltage levels
    MaxOdd         \* bound: answers other than the usual one

ASSUME WizardAssumption ==
    /\ TypedNames \subseteq STRING \X Nat \X Seq(STRING)
    /\ Kinds \subseteq TapKinds
    /\ Numbers \subseteq Nat
    /\ MacPrefixes \subseteq STRING

\* float() makes numbers, which are in an order, and NaN, which is in none.
ASSUME VoltageAssumption == Voltages \cup OddVoltages \cup LvVoltages \subseteq Int \cup {NaN}

VARIABLES
    phase,         \* what is asked next, or how the dialogue ended
    levels,        \* vls
    transformers,  \* all_transformers
    breakerIndex,  \* breaker_index
    xfmrIndex,     \* xfmr_index
    draft,         \* name, voltage and layout of the level under way
    taps,          \* its taps
    specs,         \* lv_specs: for every tap, its transformer or NoSpec
    settings,      \* the four sections of defaults, or NoSettings
    odd            \* history: answers other than the usual one

vars == <<phase, levels, transformers, breakerIndex, xfmrIndex, draft, taps, specs,
          settings, odd>>
built == <<levels, transformers, breakerIndex, xfmrIndex>>
level == <<draft, taps, specs>>

NoSpec == [name |-> <<"", 0, <<>>>>, kv |-> 0, outputs |-> <<>>]
NoLevel == [name |-> <<"", 0, <<>>>>, kv |-> 0, layout |-> ""]
NoSettings == <<>>
NoHost == -1
GooseMacPrefix == "01-0C-CD-01-00-"

-----------------------------------------------------------------------------
(* Names and prompts. *)

ValidIdentifier(name) == /\ name[1] \notin NotNameStems
                         /\ name[1] \in LongStems => name[3] = <<>>

ValidIedName(name) == ValidIdentifier(name) /\ name[1] \notin NotIedStems

\* x <= y for Python floats, which is false of NaN.
AtMost(x, y) == x # NaN /\ y # NaN /\ x <= y

\* Answers with their count of unusual ones.
Answers(usual, others) == (usual \X {0}) \cup ((others \ usual) \X {1})

Identifiers == {n \in TypedNames : ValidIdentifier(n)}
IedNames == {n \in TypedNames : ValidIedName(n)}

AskStr(usual, accepted) == Answers(usual, accepted)
AskInt(min) == {i \in Numbers : i >= min}
AskFloat(typed, min) == {x \in typed : ~AtMost(x, min)}

\* A section of prompts: the defaults, but for at most one field.
Section(usual, others) ==
    Answers({usual}, UNION {{[usual EXCEPT ![f] = v] : v \in others[f]} : f \in DOMAIN others})

\* The answer is taken while unusual ones are left.
Take(answer) == /\ odd + answer[2] <= MaxOdd
                /\ odd' = odd + answer[2]

-----------------------------------------------------------------------------
(* Voltage levels. *)

Init ==
    /\ phase = "level"
    /\ levels = <<>> /\ transformers = <<>> /\ breakerIndex = 1 /\ xfmrIndex = 1
    /\ draft = NoLevel /\ taps = <<>> /\ specs = <<>>
    /\ settings = NoSettings /\ odd = 0

\* _build_voltage_level, before its loop.
NameLevel ==
    /\ phase = "level"
    /\ Len(levels) < MaxLevels
    /\ \E name \in AskStr({<<"V", Len(levels) + 1, <<>>>>}, Identifiers),
          kv \in Answers(AskFloat(Voltages, 0), AskFloat(OddVoltages, 0)), layout \in Layouts :
         /\ Take(<<name, name[2] + kv[2]>>)
         /\ draft' = [name |-> name[1], kv |-> kv[1], layout |-> layout]
    /\ phase' = "taps" /\ taps' = <<>> /\ specs' = <<>>
    /\ UNCHANGED <<built, settings>>

TransformerTaps == {i \in DOMAIN taps : taps[i].kind = "transformer"}
Xfmr(n) == <<"XFMR", n, <<>>>>
XfmrNum == xfmrIndex + Cardinality(TransformerTaps)
Feed(i) == [name |-> <<"Feed", i, <<>>>>, kind |-> "feeder"]

\* _collect_transformer_lv_spec
SpecAnswer(name, kv, outputs) ==
    [spec |-> [name |-> name[1], kv |-> kv, outputs |-> outputs[1]], count |-> name[2] + outputs[2]]
TransformerSpecs ==
    {SpecAnswer(name, kv, outputs) :
        name \in AskStr({Xfmr(XfmrNum)}, IedNames),
        kv \in {v \in AskFloat(LvVoltages, 0) : ~AtMost(draft.kv, v)},
        outputs \in Answers({<<Feed(1)>>}, {<<Feed(1), Feed(2)>>})}

TapsSoFar == Len(taps) + FoldLeft(LAMBDA n, l : n + Len(l.taps), 0, levels)

\* One tap of _collect_taps.
AddTap ==
    /\ phase = "taps"
    /\ TapsSoFar < MaxTaps
    /\ \E name \in AskStr({<<"Tap", Len(taps) + 1, <<>>>>}, Identifiers), kind \in Kinds :
         \E s \in IF kind = "transformer" THEN TransformerSpecs
                  ELSE {[spec |-> NoSpec, count |-> 0]} :
            /\ Take(<<name, name[2] + s.count>>)
            /\ taps' = Append(taps, [name |-> name[1], kind |-> kind])
            /\ specs' = Append(specs, s.spec)
    /\ UNCHANGED <<phase, built, draft, settings>>

\* The builder refuses the taps: they are asked for again.
RedoTaps ==
    /\ phase = "taps"
    /\ Refuses(draft.layout, taps)
    /\ taps' = <<>> /\ specs' = <<>>
    /\ UNCHANGED <<phase, built, draft, settings, odd>>

\* The transformers of the level under way, in the order of their taps.
NewTransformers ==
    LET on == At([i \in DOMAIN taps |-> i], {i \in DOMAIN taps : specs[i] # NoSpec})
    IN  [k \in DOMAIN on |->
            LET spec == specs[on[k]]
            IN  [name |-> spec.name, level |-> Len(levels) + 1, tap |-> on[k],
                 lv |-> LvLevel(spec.name, spec.kv, spec.outputs)]]

\* A mutation of NextBreakerIndex: every level counts from the start.
NextBreakerIndexKept(lv) == breakerIndex
NextBreakerIndex(lv) == breakerIndex + Len(lv.breakers)

\* transformer_lv.build refuses a level name of more than 64 characters, and
\* nobody catches that.
Crash ==
    /\ phase = "taps"
    /\ ~Refuses(draft.layout, taps)
    /\ \E x \in Range(NewTransformers) : ~ValidIdentifier(x.lv.name)
    /\ phase' = "crashed"
    /\ UNCHANGED <<built, level, settings, odd>>

\* The level and its transformers are built: the rest of _build_voltage_level,
\* and _collect_voltage_levels up to its question.
CompleteLevel ==
    /\ phase = "taps"
    /\ ~Refuses(draft.layout, taps)
    /\ \A x \in Range(NewTransformers) : ValidIdentifier(x.lv.name)
    /\ LET lv == Build(draft.name, draft.kv, draft.layout, taps, breakerIndex)
       IN  /\ levels' = Append(levels, lv)
           /\ breakerIndex' = NextBreakerIndex(lv)
    /\ transformers' = transformers \o NewTransformers
    /\ xfmrIndex' = xfmrIndex + Len(NewTransformers)
    /\ draft' = NoLevel /\ taps' = <<>> /\ specs' = <<>>
    /\ phase' = "another"
    /\ UNCHANGED <<settings, odd>>

AddAnother ==
    /\ phase = "another"
    /\ phase' \in {"level", "settings"}
    /\ phase' = "level" => Len(levels) < MaxLevels
    /\ UNCHANGED <<built, level, settings, odd>>

-----------------------------------------------------------------------------
(* Settings, and the last question.  Times are in milliseconds. *)

ProtectionDefaults == [curve |-> "IEC_VERY_INVERSE", timeMultiplier |-> 300, definiteTime |-> 500]

\* _collect_protection_defaults: only the time of the chosen kind of curve is
\* asked for.
ProtectionAnswers ==
    LET Fixed(t) == [ProtectionDefaults EXCEPT !.curve = "DEFINITE_TIME", !.definiteTime = t]
    IN  Section(ProtectionDefaults, [timeMultiplier |-> AskFloat(Numbers, 0)])
        \cup Answers({}, {Fixed(t) : t \in {ProtectionDefaults.definiteTime} \cup AskFloat(Numbers, 0)})

\* _collect_network_defaults
NetworkAnswers ==
    Section([hostBreakers |-> 11, hostTransformers |-> 20, scadaHost |-> NoHost,
             macPrefix |-> GooseMacPrefix, appidBase |-> 1, minTime |-> 100, maxTime |-> 5000],
            [hostBreakers |-> AskInt(0), hostTransformers |-> AskInt(0), scadaHost |-> AskInt(0),
             macPrefix |-> MacPrefixes, appidBase |-> AskInt(0), minTime |-> AskInt(1),
             maxTime |-> AskInt(1)])

\* _collect_ied_settings_defaults
IedSettingsAnswers ==
    Section([mmsPort |-> 8102, gooseStaleAfter |-> 15000],
            [mmsPort |-> AskInt(1), gooseStaleAfter |-> AskInt(1)])

\* _collect_scada_defaults: the question about trip alarms is only asked of a
\* station with transformers.
ScadaAnswers ==
    Section([iedName |-> <<"SCADA", 1, <<>>>>, undervoltage |-> TRUE, trip |-> TRUE],
            [iedName |-> IedNames, undervoltage |-> {FALSE},
             trip |-> IF transformers = <<>> THEN {} ELSE {FALSE}])

\* The four sections, one after the other.
CollectSettings ==
    /\ phase = "settings"
    /\ \E p \in ProtectionAnswers, n \in NetworkAnswers, i \in IedSettingsAnswers, s \in ScadaAnswers :
         /\ Take(<<p, p[2] + n[2] + i[2] + s[2]>>)
         /\ settings' = [protection |-> p[1], network |-> n[1], ied |-> i[1], scada |-> s[1]]
    /\ phase' = "confirm"
    /\ UNCHANGED <<built, level>>

Confirm ==
    /\ phase = "confirm"
    /\ phase' \in {"accepted", "declined"}
    /\ UNCHANGED <<built, level, settings, odd>>

Next == NameLevel \/ AddTap \/ RedoTaps \/ Crash \/ CompleteLevel \/ AddAnother
        \/ CollectSettings \/ Confirm

Spec == Init /\ [][Next]_vars

\* The Station that run_wizard returns.
Station == [levels |-> levels, transformers |-> transformers, protection |-> settings.protection,
            network |-> settings.network, ied |-> settings.ied, scada |-> settings.scada]
=============================================================================
