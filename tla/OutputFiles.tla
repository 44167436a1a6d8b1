---------------------------- MODULE OutputFiles ----------------------------
(***************************************************************************)
(* The files of the tools: what generator/output.py writes for a station,  *)
(* an .scd and the .svg beside it, and what scl_compile.py makes of an     *)
(* .scd in the directory of configurations, or finds there with --check.   *)
(*                                                                         *)
(* One tool runs at a time; it can die at any moment, in the middle of a   *)
(* file too.  Meanwhile people edit the .scd, edit configurations, and     *)
(* delete them.  A document is a record of the stem of its file name,      *)
(* whether writing it raises, whether the schema and the mapping take it,  *)
(* and its IEDs, each with the name in lower case and all the rest; how    *)
(* these come about is in Toolchain.                                       *)
(***************************************************************************)
EXTENDS Naturals, Sequences

CONSTANTS
    Stations,    \* the documents that the dialogue makes
    Edited,      \* the documents that people make of an .scd
    MaxRuns,     \* bound: runs of a tool
    MaxEdits     \* bound: edits by hand

None == [text |-> "none"]
Torn == [text |-> "torn"]
ByHand == [text |-> "by hand"]
NoDocument == [stem |-> "", raises |-> FALSE, valid |-> FALSE, mappable |-> FALSE, ieds |-> <<>>]

Documents == Stations \cup Edited
Stems == {d.stem : d \in Stations}

Ieds == UNION {{d.ieds[k] : k \in DOMAIN d.ieds} : d \in Documents}
FileName(ied) == IF ied.scada THEN "sas-scada" ELSE ied.lower
FileNames == {FileName(ied) : ied \in Ieds}

\* The text of a configuration names the .scd in its header.
Text(base, ied) == [text |-> "compiled", scd |-> base, ied |-> ied]
Texts == {None, Torn, ByHand} \cup {Text(base, ied) : base \in Stems, ied \in Ieds}

\* compile_scd: of two IEDs with one file name the later has the file.
Compiled(base, read, file) ==
    LET last == CHOOSE k \in DOMAIN read.ieds :
                  /\ FileName(read.ieds[k]) = file
                  /\ \A j \in DOMAIN read.ieds : FileName(read.ieds[j]) = file => j <= k
    IN  Text(base, read.ieds[last])

Written(read) == {FileName(read.ieds[k]) : k \in DOMAIN read.ieds}

ASSUME DocumentsAssumption ==
    \A d \in Documents :
       /\ d \in [stem : STRING, raises : BOOLEAN, valid : BOOLEAN, mappable : BOOLEAN,
                ieds : Seq([lower : STRING, scada : BOOLEAN, rest : STRING])]
       /\ d.ieds # <<>>
ASSUME BoundsAssumption == MaxRuns \in Nat /\ MaxEdits \in Nat

VARIABLES
    scds, svgs,  \* the .scd and the .svg of every stem
    cfgs,        \* the configurations in the output directory
    pc,          \* what the running tool does next
    station,     \* the station in the memory of the generator
    stem, mode,  \* the .scd the compiler works on, and how it was called
    doc,         \* the document it has read
    next,        \* the IED whose configuration is written next
    verdict,     \* how the last run ended
    agreed,      \* history: what the engineer agreed to overwrite
    touched,     \* history: files changed by hand since the run began
    spoilt,      \* history: stems whose .scd was edited, or torn from its .svg
    runs, edits  \* counters for the bounds

files == <<scds, svgs, cfgs>>
work == <<station, stem, mode, doc, next>>
vars == <<files, pc, work, verdict, agreed, touched, spoilt, runs, edits>>

Init ==
    /\ scds = [s \in Stems |-> None] /\ svgs = [s \in Stems |-> None]
    /\ cfgs = [f \in FileNames |-> None]
    /\ pc = "idle" /\ verdict = "none"
    /\ station = NoDocument /\ stem = "" /\ mode = "write" /\ doc = NoDocument /\ next = 1
    /\ agreed = {} /\ touched = FALSE /\ spoilt = {}
    /\ runs = 0 /\ edits = 0

Ends(how) == pc' = "idle" /\ verdict' = how
Goes(to) == pc' = to /\ UNCHANGED verdict

Begin(at) ==
    /\ pc = "idle" /\ runs < MaxRuns
    /\ runs' = runs + 1
    /\ pc' = at /\ verdict' = "none" /\ agreed' = {} /\ touched' = FALSE

-----------------------------------------------------------------------------
(* The generator. *)

\* main, with the station that the dialogue returned.
StartGenerator ==
    /\ Begin("ask")
    /\ \E d \in Stations : station' = d /\ stem' = d.stem
    /\ UNCHANGED <<files, mode, doc, next, spoilt, edits>>

Existing == {kind \in {"scd", "svg"} : (IF kind = "scd" THEN scds ELSE svgs)[stem] # None}

\* A mutation of ConfirmOverwrite: only the .scd is asked about.
ConfirmOverwriteOfScd ==
    /\ pc = "ask"
    /\ \/ agreed' = Existing \cap {"scd"} /\ Goes("scd")
       \/ "scd" \in Existing /\ agreed' = {} /\ Ends("aborted")
    /\ UNCHANGED <<files, work, touched, spoilt, runs, edits>>

\* _confirm_overwrite of both files, before either is written; the first no
\* ends it.
ConfirmOverwrite ==
    /\ pc = "ask"
    /\ \/ agreed' = Existing /\ Goes("scd")
       \/ Existing # {} /\ agreed' = {} /\ Ends("aborted")
    /\ UNCHANGED <<files, work, touched, spoilt, runs, edits>>

\* A mutation of WriteScd: a station the schema refuses is not drawn.
WriteScdDrawingValid ==
    /\ pc = "scd"
    /\ IF station.raises THEN Ends("raised") /\ UNCHANGED <<scds, spoilt>>
       ELSE /\ scds' = [scds EXCEPT ![stem] = station]
            /\ spoilt' = spoilt \ {stem}
            /\ Goes(IF station.valid THEN "svg" ELSE "validate")
    /\ UNCHANGED <<svgs, cfgs, work, agreed, touched, runs, edits>>

\* scl_writer.write may raise, and then nothing has been written.
WriteScd ==
    /\ pc = "scd"
    /\ IF station.raises THEN Ends("raised") /\ UNCHANGED <<scds, spoilt>>
       ELSE /\ scds' = [scds EXCEPT ![stem] = station]
            /\ spoilt' = spoilt \ {stem}
            /\ Goes("svg")
    /\ UNCHANGED <<svgs, cfgs, work, agreed, touched, runs, edits>>

WriteSvg ==
    /\ pc = "svg"
    /\ svgs' = [svgs EXCEPT ![stem] = station]
    /\ Goes("validate")
    /\ UNCHANGED <<scds, cfgs, work, agreed, touched, spoilt, runs, edits>>

\* The tree in memory is validated, when both files have been written.
ValidateXsd ==
    /\ pc = "validate"
    /\ IF station.valid THEN Goes("prompt") ELSE Ends("failed")
    /\ UNCHANGED <<files, work, agreed, touched, spoilt, runs, edits>>

\* "Compile now?"
AskCompile ==
    /\ pc = "prompt"
    /\ \/ Goes("compile") /\ mode' = "validate"
       \/ Ends("generated") /\ UNCHANGED mode
    /\ UNCHANGED <<files, station, stem, doc, next, agreed, touched, spoilt, runs, edits>>

-----------------------------------------------------------------------------
(* The compiler. *)

\* main, with --check, with --validate-xsd, or with neither.
StartCompiler ==
    /\ Begin("compile")
    /\ \E s \in Stems : scds[s] # None /\ stem' = s
    /\ mode' \in {"write", "validate", "check"}
    /\ UNCHANGED <<files, station, doc, next, spoilt, edits>>

\* compile_scd reads the file from disk.  Whatever it does not take ends the
\* run: main reports what the schema or the mapping refuses, and lets out the
\* exception of a file that is no XML; the generator lets all of them out.
Compile ==
    /\ pc = "compile"
    /\ LET read == scds[stem]
       IN  IF /\ read \in Documents
              /\ mode = "validate" => read.valid
              /\ read.mappable
           THEN /\ doc' = read /\ next' = 1
                /\ Goes(IF mode = "check" THEN "check" ELSE "write")
           ELSE Ends("failed") /\ UNCHANGED <<doc, next>>
    /\ UNCHANGED <<files, station, stem, mode, agreed, touched, spoilt, runs, edits>>

\* A mutation of WriteCfg: a configuration that exists is kept.
WriteCfgIfMissing ==
    /\ pc = "write"
    /\ LET file == FileName(doc.ieds[next])
       IN  cfgs' = [cfgs EXCEPT ![file] = IF @ = None THEN Compiled(stem, doc, file) ELSE @]
    /\ IF next < Len(doc.ieds) THEN next' = next + 1 /\ Goes("write")
       ELSE Ends("compiled") /\ UNCHANGED next
    /\ UNCHANGED <<scds, svgs, station, stem, mode, doc, agreed, touched, spoilt, runs, edits>>

\* One file is written after another; two IEDs with one file name have it
\* written twice here, with the same text.
WriteCfg ==
    /\ pc = "write"
    /\ LET file == FileName(doc.ieds[next])
       IN  cfgs' = [cfgs EXCEPT ![file] = Compiled(stem, doc, file)]
    /\ IF next < Len(doc.ieds) THEN next' = next + 1 /\ Goes("write")
       ELSE Ends("compiled") /\ UNCHANGED next
    /\ UNCHANGED <<scds, svgs, station, stem, mode, doc, agreed, touched, spoilt, runs, edits>>

\* A mutation of IsCurrent: files that are no output are not looked for.
IsCurrentButStale == \A f \in Written(doc) : cfgs[f] = Compiled(stem, doc, f)

\* --check: every output is compared with its file, then files that are not
\* an output are looked for.
IsCurrent ==
    /\ \A f \in Written(doc) : cfgs[f] = Compiled(stem, doc, f)
    /\ \A f \in FileNames \ Written(doc) : cfgs[f] = None

Check ==
    /\ pc = "check"
    /\ Ends(IF IsCurrent THEN "current" ELSE "outdated")
    /\ UNCHANGED <<files, work, agreed, touched, spoilt, runs, edits>>

-----------------------------------------------------------------------------
(* What happens to the tools and to the files. *)

\* The tool is killed; the file it is about to write may be left torn.
Crash ==
    /\ pc # "idle"
    /\ Ends("crashed")
    /\ \/ UNCHANGED files
       \/ pc = "scd" /\ scds' = [scds EXCEPT ![stem] = Torn] /\ UNCHANGED <<svgs, cfgs>>
       \/ pc = "svg" /\ svgs' = [svgs EXCEPT ![stem] = Torn] /\ UNCHANGED <<scds, cfgs>>
       \/ /\ pc = "write"
          /\ cfgs' = [cfgs EXCEPT ![FileName(doc.ieds[next])] = Torn]
          /\ UNCHANGED <<scds, svgs>>
    /\ spoilt' = IF pc \in {"scd", "svg"} THEN spoilt \cup {stem} ELSE spoilt
    /\ UNCHANGED <<work, agreed, touched, runs, edits>>

\* A verdict is about the files as they were: it ends with the next edit.
ByHandAt(more) ==
    /\ edits < MaxEdits
    /\ edits' = edits + 1
    /\ touched' = TRUE
    /\ verdict' = "none" /\ spoilt' = spoilt \cup more
    /\ UNCHANGED <<svgs, pc, work, agreed, runs>>

EditScd ==
    \E s \in Stems, d \in Edited :
       /\ scds[s] # None
       /\ scds' = [scds EXCEPT ![s] = d]
       /\ ByHandAt({s}) /\ UNCHANGED cfgs

EditCfg ==
    \E f \in FileNames, text \in {ByHand, None} :
       /\ cfgs[f] # None
       /\ cfgs' = [cfgs EXCEPT ![f] = text]
       /\ ByHandAt({}) /\ UNCHANGED scds

Next == \/ StartGenerator \/ ConfirmOverwrite \/ WriteScd \/ WriteSvg \/ ValidateXsd
        \/ AskCompile \/ StartCompiler \/ Compile \/ WriteCfg \/ Check
        \/ Crash \/ EditScd \/ EditCfg

Spec == Init /\ [][Next]_vars

-----------------------------------------------------------------------------
(* Properties. *)

TypeOK ==
    /\ scds \in [Stems -> Documents \cup {None, Torn}]
    /\ svgs \in [Stems -> Stations \cup {None, Torn}]
    /\ cfgs \in [FileNames -> Texts]
    /\ pc \in {"idle", "ask", "scd", "svg", "validate", "prompt", "compile", "write", "check"}
    /\ station \in Stations \cup {NoDocument} /\ stem \in Stems \cup {""}
    /\ mode \in {"write", "validate", "check"}
    /\ doc \in Documents \cup {NoDocument} /\ next \in Nat \ {0}
    /\ verdict \in {"none", "aborted", "raised", "failed", "generated", "compiled", "current",
                    "outdated", "crashed"}
    /\ agreed \in SUBSET {"scd", "svg"} /\ touched \in BOOLEAN /\ spoilt \in SUBSET Stems
    /\ runs \in 0 .. MaxRuns /\ edits \in 0 .. MaxEdits

\* What a generator run overwrites existed with the consent of the engineer,
\* and nothing of it changes where only one of two files was agreed to.
NothingLostUnasked ==
    [][\A s \in Stems :
         /\ scds[s] # None /\ scds'[s] # scds[s] => edits' # edits \/ agreed = Existing
         /\ svgs[s] # None /\ svgs'[s] # svgs[s] => "svg" \in agreed]_vars

\* A drawing and its .scd are of the same station, unless the .scd was edited
\* or a run died between the two; also where the schema refused it.
DrawingMatches ==
    \A s \in Stems : scds[s] = svgs[s] \/ s \in spoilt \/ (pc = "svg" /\ s = stem)

HasOwnFile(d) == \A j, k \in DOMAIN d.ieds : FileName(d.ieds[j]) = FileName(d.ieds[k]) => j = k

UpToDate(s, d) ==
    \A k \in DOMAIN d.ieds : cfgs[FileName(d.ieds[k])] = Text(s, d.ieds[k])

Leftover(d) == \E f \in FileNames : cfgs[f] # None /\ \A k \in DOMAIN d.ieds : f # FileName(d.ieds[k])

\* --check passes if and only if every IED of the .scd has its own text in the
\* directory and no file there is of no IED, provided that no two IEDs have
\* names that differ in case only.
CheckTellsTruth ==
    ~touched /\ verdict \in {"current", "outdated"} /\ HasOwnFile(scds[stem]) =>
        (verdict = "current" <=> UpToDate(stem, scds[stem]) /\ ~Leftover(scds[stem]))

\* A run that compiled to the end left every IED of the .scd its own text,
\* whatever earlier runs that died had left, under the same proviso.
CompiledIsUpToDate ==
    ~touched /\ verdict = "compiled" /\ HasOwnFile(scds[stem]) => UpToDate(stem, scds[stem])
=============================================================================
