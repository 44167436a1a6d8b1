------------------------- MODULE OutputFiles_proof -------------------------
(***************************************************************************)
(* Proofs about OutputFiles for all stations, all edits, and any number of *)
(* runs.                                                                   *)
(***************************************************************************)
EXTENDS OutputFiles, WellFoundedInduction, TLAPS

\* A run works on a stem, and its verdict is about that stem.
Busy == /\ pc # "idle" => verdict = "none"
        /\ pc # "idle" \/ verdict # "none" => stem \in Stems

\* The generator works on its own stem, with consent to overwrite both files.
Making == /\ pc \in {"ask", "scd", "svg", "validate", "prompt"} => station \in Stations /\ station.stem = stem
          /\ pc = "scd" => agreed = Existing
          /\ pc = "svg" /\ svgs[stem] # None => "svg" \in agreed
          /\ pc = "svg" => scds[stem] = station \/ stem \in spoilt

\* The compiler works on what it has read, and has written what comes before.
Compiling ==
    /\ pc \in {"write", "check"} => doc \in Documents /\ next \in DOMAIN doc.ieds
    /\ pc \in {"write", "check"} /\ ~touched => doc = scds[stem]
    /\ pc = "write" /\ ~touched =>
         \A k \in 1 .. next - 1 :
            cfgs[FileName(doc.ieds[k])] = Compiled(stem, doc, FileName(doc.ieds[k]))

IInv == TypeOK /\ Busy /\ Making /\ Compiling /\ DrawingMatches /\ CheckTellsTruth /\ CompiledIsUpToDate

-----------------------------------------------------------------------------
(* Documents. *)

LEMMA DocumentParts ==
    ASSUME NEW d \in Documents
    PROVE  /\ d # None /\ d # Torn
           /\ Len(d.ieds) \in Nat \ {0} /\ DOMAIN d.ieds = 1 .. Len(d.ieds)
           /\ \A k \in DOMAIN d.ieds : d.ieds[k] \in Ieds /\ FileName(d.ieds[k]) \in FileNames
<1>1. d \in [stem : STRING, raises : BOOLEAN, valid : BOOLEAN, mappable : BOOLEAN,
             ieds : Seq([lower : STRING, scada : BOOLEAN, rest : STRING])]
  BY DocumentsAssumption
<1>2. d # None /\ d # Torn
  <2>1. "ieds" \in DOMAIN d
    BY <1>1
  <2>2. "ieds" \notin DOMAIN None /\ "ieds" \notin DOMAIN Torn
    BY DEF None, Torn
  <2>3. QED
    BY <2>1, <2>2
<1>3. Len(d.ieds) \in Nat \ {0} /\ DOMAIN d.ieds = 1 .. Len(d.ieds)
  <2>1. d.ieds \in Seq([lower : STRING, scada : BOOLEAN, rest : STRING]) /\ d.ieds # <<>>
    BY <1>1, DocumentsAssumption
  <2>2. QED
    BY <2>1
<1>4. \A k \in DOMAIN d.ieds : d.ieds[k] \in Ieds /\ FileName(d.ieds[k]) \in FileNames
  BY DEF Ieds, FileNames
<1>5. QED
  BY <1>2, <1>3, <1>4

\* An IED whose file name no other has gets its own text.
LEMMA OwnText ==
    ASSUME NEW base, NEW d \in Documents, HasOwnFile(d), NEW k \in DOMAIN d.ieds
    PROVE  Compiled(base, d, FileName(d.ieds[k])) = Text(base, d.ieds[k])
<1> DEFINE Last(i) == /\ FileName(d.ieds[i]) = FileName(d.ieds[k])
                      /\ \A j \in DOMAIN d.ieds : FileName(d.ieds[j]) = FileName(d.ieds[k]) => j <= i
<1>1. Last(k)
  BY DocumentParts DEF HasOwnFile
<1>2. \A i \in DOMAIN d.ieds : Last(i) => i = k
  BY DEF HasOwnFile
<1>3. (CHOOSE i \in DOMAIN d.ieds : Last(i)) = k
  BY <1>1, <1>2
<1>4. QED
  BY <1>3 DEF Compiled

LEMMA LessIsRelated == \A a, b \in Nat : b < a => <<b, a>> \in OpToRel(<, Nat)
BY DEF OpToRel

\* Some IED is the last of those that share a file name.
LEMMA LastExists ==
    ASSUME NEW d \in Documents, NEW k \in DOMAIN d.ieds
    PROVE  \E i \in DOMAIN d.ieds :
              /\ FileName(d.ieds[i]) = FileName(d.ieds[k])
              /\ \A j \in DOMAIN d.ieds : FileName(d.ieds[j]) = FileName(d.ieds[k]) => j <= i
<1> DEFINE n == Len(d.ieds)
           Shares(i) == FileName(d.ieds[i]) = FileName(d.ieds[k])
           After == {a \in 0 .. n - 1 : Shares(n - a)}
<1>1. n \in Nat \ {0} /\ DOMAIN d.ieds = 1 .. n
  BY DocumentParts
<1>2. Shares(k)
  OBVIOUS
<1> HIDE DEF n, Shares
<1>3. After \subseteq Nat
  BY <1>1
<1>4. n - k \in After
  <2>1. k \in 1 .. n /\ n - (n - k) = k /\ n - k \in 0 .. n - 1
    BY <1>1
  <2>2. QED
    BY <2>1, <1>2
<1>5. PICK a \in After : \A b \in After : ~ <<b, a>> \in OpToRel(<, Nat)
  <2>1. After # {}
    BY <1>4
  <2> HIDE DEF After
  <2>2. QED
    BY <1>3, <2>1, WFMin, NatLessThanWellFounded
<1>6. \A b \in After : a <= b
  <2> SUFFICES ASSUME NEW b \in After PROVE a <= b
    OBVIOUS
  <2>1. ~ <<b, a>> \in OpToRel(<, Nat)
    BY <1>5
  <2>2. a \in Nat /\ b \in Nat
    BY <1>3
  <2> HIDE DEF After
  <2>3. ~ b < a
    BY <2>1, <2>2, LessIsRelated
  <2>4. QED
    BY <2>2, <2>3
<1>7. n - a \in DOMAIN d.ieds /\ Shares(n - a)
  BY <1>1
<1>8. ASSUME NEW j \in DOMAIN d.ieds, Shares(j) PROVE j <= n - a
  <2>1. j \in 1 .. n /\ n - (n - j) = j /\ n - j \in 0 .. n - 1
    BY <1>1, <1>8
  <2>2. n - j \in After
    BY <2>1, <1>8
  <2>3. QED
    BY <2>1, <2>2, <1>1, <1>6
<1>9. QED
  BY <1>7, <1>8 DEF Shares

\* A text that is written is a compiled text.
LEMMA CompiledText ==
    ASSUME NEW base \in Stems, NEW d \in Documents, NEW k \in DOMAIN d.ieds
    PROVE  /\ Compiled(base, d, FileName(d.ieds[k])) \in Texts
           /\ Compiled(base, d, FileName(d.ieds[k])) # None
<1> DEFINE Last(i) == /\ FileName(d.ieds[i]) = FileName(d.ieds[k])
                      /\ \A j \in DOMAIN d.ieds : FileName(d.ieds[j]) = FileName(d.ieds[k]) => j <= i
           last == CHOOSE i \in DOMAIN d.ieds : Last(i)
<1>1. \E i \in DOMAIN d.ieds : Last(i)
  BY LastExists
<1> HIDE DEF Last
<1>2. last \in DOMAIN d.ieds
  BY <1>1
<1>3. Compiled(base, d, FileName(d.ieds[k])) = Text(base, d.ieds[last])
  BY DEF Compiled, Last
<1>4. d.ieds[last] \in Ieds
  BY <1>2, DocumentParts
<1> HIDE DEF last
<1>5. Text(base, d.ieds[last]) \in Texts
  BY <1>4 DEF Texts
<1>6. Text(base, d.ieds[last]) # None
  BY DEF Text, None
<1>7. QED
  BY <1>3, <1>5, <1>6
-----------------------------------------------------------------------------
(* The invariant. *)

LEMMA CountUp == \A most \in Nat : 0 \in 0 .. most /\ \A n \in 0 .. most : n < most => n + 1 \in 0 .. most
OBVIOUS
LEMMA OneIsPositive == 1 \in Nat \ {0}
OBVIOUS

LEMMA InitIInv == Init => IInv
<1> SUFFICES ASSUME Init PROVE IInv
  OBVIOUS
<1>1. TypeOK
  <2>0. None \in Texts
    BY DEF Texts
  <2>1. /\ scds \in [Stems -> Documents \cup {None, Torn}]
        /\ svgs \in [Stems -> Stations \cup {None, Torn}]
        /\ cfgs \in [FileNames -> Texts]
    BY <2>0 DEF Init
  <2>2. runs \in 0 .. MaxRuns /\ edits \in 0 .. MaxEdits
    BY CountUp, BoundsAssumption, Zenon DEF Init
  <2>3. next \in Nat \ {0}
    BY OneIsPositive, Zenon DEF Init
  <2>4. QED
    BY <2>1, <2>2, <2>3 DEF Init, TypeOK
<1>2. Busy /\ Making /\ Compiling /\ CheckTellsTruth /\ CompiledIsUpToDate
  BY DEF Init, Busy, Making, Compiling, CheckTellsTruth, CompiledIsUpToDate
<1>3. DrawingMatches
  BY DEF Init, DrawingMatches
<1>4. QED
  BY <1>1, <1>2, <1>3 DEF IInv

LEMMA StartGeneratorIInv ==
    ASSUME IInv, StartGenerator
    PROVE  IInv'
<1> USE DEF IInv, StartGenerator, Begin, files, work
<1>0. ASSUME NEW d \in Stations PROVE d.stem \in Stems
  BY DEF Stems
<1>1. TypeOK'
  <2>1. runs' \in 0 .. MaxRuns
    BY CountUp, BoundsAssumption, Zenon DEF TypeOK
  <2>2. station' \in Stations /\ stem' \in Stems
    BY <1>0
  <2>3. QED
    BY <2>1, <2>2 DEF TypeOK
<1>2. Busy'
  BY <1>0 DEF Busy, TypeOK
<1>3. Making'
  BY DocumentParts DEF Making, TypeOK, Busy, Existing
<1>4. Compiling'
  BY DocumentParts DEF Compiling, TypeOK, Busy
<1>5. DrawingMatches'
  BY DocumentParts DEF DrawingMatches, TypeOK, Busy
<1>6. CheckTellsTruth'
  BY DocumentParts DEF CheckTellsTruth, TypeOK, Busy, UpToDate, Leftover, HasOwnFile
<1>7. CompiledIsUpToDate'
  BY DocumentParts DEF CompiledIsUpToDate, TypeOK, Busy, UpToDate, HasOwnFile
<1>8. QED
  BY <1>1, <1>2, <1>3, <1>4, <1>5, <1>6, <1>7

LEMMA ConfirmOverwriteIInv ==
    ASSUME IInv, ConfirmOverwrite
    PROVE  IInv'
<1> USE DEF IInv, ConfirmOverwrite, Ends, Goes, Existing, files, work
<1>1. TypeOK'
  BY DocumentParts DEF TypeOK, Busy
<1>2. Busy'
  BY DocumentParts DEF Busy, TypeOK
<1>3. Making'
  BY DocumentParts DEF Making, TypeOK, Busy, Existing
<1>4. Compiling'
  BY DocumentParts DEF Compiling, TypeOK, Busy
<1>5. DrawingMatches'
  BY DocumentParts DEF DrawingMatches, TypeOK, Busy
<1>6. CheckTellsTruth'
  BY DocumentParts DEF CheckTellsTruth, TypeOK, Busy, UpToDate, Leftover, HasOwnFile
<1>7. CompiledIsUpToDate'
  BY DocumentParts DEF CompiledIsUpToDate, TypeOK, Busy, UpToDate, HasOwnFile
<1>8. QED
  BY <1>1, <1>2, <1>3, <1>4, <1>5, <1>6, <1>7

LEMMA WriteScdIInv ==
    ASSUME IInv, WriteScd
    PROVE  IInv'
<1> USE DEF IInv, WriteScd, Ends, Goes, files, work
<1>0. station \in Stations /\ stem \in Stems
  BY DEF Making, Busy
<1>1. TypeOK'
  <2>1. CASE station.raises
    BY <2>1 DEF TypeOK
  <2>2. CASE ~ station.raises
    BY <1>0, <2>2 DEF TypeOK, Documents
  <2>3. QED
    BY <2>1, <2>2
<1>2. Busy'
  BY DocumentParts DEF Busy, TypeOK
<1>3. Making'
  BY DocumentParts DEF Making, TypeOK, Busy, Existing
<1>4. Compiling'
  BY DocumentParts DEF Compiling, TypeOK, Busy
<1>5. DrawingMatches'
  BY DocumentParts DEF DrawingMatches, TypeOK, Busy
<1>6. CheckTellsTruth'
  BY DocumentParts DEF CheckTellsTruth, TypeOK, Busy, UpToDate, Leftover, HasOwnFile
<1>7. CompiledIsUpToDate'
  BY DocumentParts DEF CompiledIsUpToDate, TypeOK, Busy, UpToDate, HasOwnFile
<1>8. QED
  BY <1>1, <1>2, <1>3, <1>4, <1>5, <1>6, <1>7

LEMMA WriteSvgIInv ==
    ASSUME IInv, WriteSvg
    PROVE  IInv'
<1> USE DEF IInv, WriteSvg, Goes, files, work
<1>0. station \in Stations /\ stem \in Stems
  BY DEF Making, Busy
<1>1. TypeOK'
  BY <1>0 DEF TypeOK
<1>2. Busy'
  BY DocumentParts DEF Busy, TypeOK
<1>3. Making'
  BY DocumentParts DEF Making, TypeOK, Busy, Existing
<1>4. Compiling'
  BY DocumentParts DEF Compiling, TypeOK, Busy
<1>5. DrawingMatches'
  <2> SUFFICES ASSUME NEW s \in Stems, s \notin spoilt'
               PROVE  scds'[s] = svgs'[s]
    BY DEF DrawingMatches
  <2>1. CASE s = stem
    BY <1>0, <2>1 DEF Making, TypeOK
  <2>2. CASE s # stem
    BY <2>2 DEF DrawingMatches, TypeOK
  <2>3. QED
    BY <2>1, <2>2
<1>6. CheckTellsTruth'
  BY DocumentParts DEF CheckTellsTruth, TypeOK, Busy, UpToDate, Leftover, HasOwnFile
<1>7. CompiledIsUpToDate'
  BY DocumentParts DEF CompiledIsUpToDate, TypeOK, Busy, UpToDate, HasOwnFile
<1>8. QED
  BY <1>1, <1>2, <1>3, <1>4, <1>5, <1>6, <1>7

LEMMA ValidateXsdIInv ==
    ASSUME IInv, ValidateXsd
    PROVE  IInv'
<1> USE DEF IInv, ValidateXsd, Ends, Goes, files, work
<1>1. TypeOK'
  BY DocumentParts DEF TypeOK, Busy
<1>2. Busy'
  BY DocumentParts DEF Busy, TypeOK
<1>3. Making'
  BY DocumentParts DEF Making, TypeOK, Busy, Existing
<1>4. Compiling'
  BY DocumentParts DEF Compiling, TypeOK, Busy
<1>5. DrawingMatches'
  BY DocumentParts DEF DrawingMatches, TypeOK, Busy
<1>6. CheckTellsTruth'
  BY DocumentParts DEF CheckTellsTruth, TypeOK, Busy, UpToDate, Leftover, HasOwnFile
<1>7. CompiledIsUpToDate'
  BY DocumentParts DEF CompiledIsUpToDate, TypeOK, Busy, UpToDate, HasOwnFile
<1>8. QED
  BY <1>1, <1>2, <1>3, <1>4, <1>5, <1>6, <1>7

LEMMA AskCompileIInv ==
    ASSUME IInv, AskCompile
    PROVE  IInv'
<1> USE DEF IInv, AskCompile, Ends, Goes, files, work
<1>1. TypeOK'
  BY DocumentParts DEF TypeOK, Busy
<1>2. Busy'
  BY DocumentParts DEF Busy, TypeOK
<1>3. Making'
  BY DocumentParts DEF Making, TypeOK, Busy, Existing
<1>4. Compiling'
  BY DocumentParts DEF Compiling, TypeOK, Busy
<1>5. DrawingMatches'
  BY DocumentParts DEF DrawingMatches, TypeOK, Busy
<1>6. CheckTellsTruth'
  BY DocumentParts DEF CheckTellsTruth, TypeOK, Busy, UpToDate, Leftover, HasOwnFile
<1>7. CompiledIsUpToDate'
  BY DocumentParts DEF CompiledIsUpToDate, TypeOK, Busy, UpToDate, HasOwnFile
<1>8. QED
  BY <1>1, <1>2, <1>3, <1>4, <1>5, <1>6, <1>7

LEMMA StartCompilerIInv ==
    ASSUME IInv, StartCompiler
    PROVE  IInv'
<1> USE DEF IInv, StartCompiler, Begin, files, work
<1>1. TypeOK'
  <2>1. runs' \in 0 .. MaxRuns
    BY CountUp, BoundsAssumption, Zenon DEF TypeOK
  <2>2. stem' \in Stems
    OBVIOUS
  <2>3. QED
    BY <2>1, <2>2 DEF TypeOK
<1>2. Busy'
  BY DocumentParts DEF Busy, TypeOK
<1>3. Making'
  BY DocumentParts DEF Making, TypeOK, Busy, Existing
<1>4. Compiling'
  BY DocumentParts DEF Compiling, TypeOK, Busy
<1>5. DrawingMatches'
  BY DocumentParts DEF DrawingMatches, TypeOK, Busy
<1>6. CheckTellsTruth'
  BY DocumentParts DEF CheckTellsTruth, TypeOK, Busy, UpToDate, Leftover, HasOwnFile
<1>7. CompiledIsUpToDate'
  BY DocumentParts DEF CompiledIsUpToDate, TypeOK, Busy, UpToDate, HasOwnFile
<1>8. QED
  BY <1>1, <1>2, <1>3, <1>4, <1>5, <1>6, <1>7

LEMMA CompileIInv ==
    ASSUME IInv, Compile
    PROVE  IInv'
<1> USE DEF IInv, Compile, Ends, Goes, files, work
<1> DEFINE Takes == /\ scds[stem] \in Documents
                    /\ mode = "validate" => scds[stem].valid
                    /\ scds[stem].mappable
<1>0. /\ Takes => /\ doc' = scds[stem] /\ next' = 1
                   /\ pc' = (IF mode = "check" THEN "check" ELSE "write") /\ verdict' = verdict
      /\ ~Takes => pc' = "idle" /\ verdict' = "failed" /\ UNCHANGED <<doc, next>>
  OBVIOUS
<1>1. TypeOK'
  <2>1. CASE Takes
    <3>1. doc' \in Documents /\ next' \in Nat \ {0}
      BY <1>0, <2>1
    <3>2. pc' \in {"check", "write"}
      BY <1>0, <2>1
    <3>3. QED
      BY <1>0, <2>1, <3>1, <3>2 DEF TypeOK
  <2>2. CASE ~ Takes
    BY <1>0, <2>2 DEF TypeOK
  <2>3. QED
    BY <2>1, <2>2
<1>2. Busy'
  BY DocumentParts DEF Busy, TypeOK
<1>3. Making'
  BY DocumentParts DEF Making, TypeOK, Busy, Existing
<1>4. Compiling'
  <2>1. CASE Takes
    <3>1. 1 \in DOMAIN scds[stem].ieds
      BY <2>1, DocumentParts
    <3>2. QED
      BY <1>0, <2>1, <3>1 DEF Compiling
  <2>2. CASE ~ Takes
    BY <1>0, <2>2 DEF Compiling
  <2>3. QED
    BY <2>1, <2>2
<1>5. DrawingMatches'
  BY DocumentParts DEF DrawingMatches, TypeOK, Busy
<1>6. CheckTellsTruth'
  BY DocumentParts DEF CheckTellsTruth, TypeOK, Busy, UpToDate, Leftover, HasOwnFile
<1>7. CompiledIsUpToDate'
  BY DocumentParts DEF CompiledIsUpToDate, TypeOK, Busy, UpToDate, HasOwnFile
<1>8. QED
  BY <1>1, <1>2, <1>3, <1>4, <1>5, <1>6, <1>7

LEMMA WriteCfgIInv ==
    ASSUME IInv, WriteCfg
    PROVE  IInv'
<1> USE DEF IInv, WriteCfg, Ends, Goes, files, work
<1> DEFINE file == FileName(doc.ieds[next])
<1>a. /\ stem \in Stems /\ doc \in Documents /\ next \in DOMAIN doc.ieds /\ next \in 1 .. Len(doc.ieds)
      /\ Len(doc.ieds) \in Nat
  BY DocumentParts DEF Busy, Compiling
<1>b. file \in FileNames /\ Compiled(stem, doc, file) \in Texts
  BY <1>a, DocumentParts, CompiledText
<1>c. cfgs' = [cfgs EXCEPT ![file] = Compiled(stem, doc, file)]
  OBVIOUS
<1>d. /\ next < Len(doc.ieds) => next' = next + 1 /\ pc' = "write" /\ verdict' = verdict
      /\ ~(next < Len(doc.ieds)) => next' = next /\ next = Len(doc.ieds) /\ pc' = "idle"
                                     /\ verdict' = "compiled"
  BY <1>a
<1>e. touched' = touched /\ doc' = doc /\ scds' = scds /\ stem' = stem
  OBVIOUS
<1> HIDE DEF file
\* Every file up to this one is as it should be.
<1>f. ~ touched => \A k \in 1 .. next :
         cfgs'[FileName(doc.ieds[k])] = Compiled(stem, doc, FileName(doc.ieds[k]))
  <2> SUFFICES ASSUME ~ touched, NEW k \in 1 .. next
               PROVE  cfgs'[FileName(doc.ieds[k])] = Compiled(stem, doc, FileName(doc.ieds[k]))
    OBVIOUS
  <2>1. FileName(doc.ieds[k]) \in FileNames /\ cfgs \in [FileNames -> Texts]
    <3>1. k \in DOMAIN doc.ieds
      BY <1>a, DocumentParts
    <3>2. QED
      BY <1>a, <3>1, DocumentParts DEF TypeOK
  <2>2. CASE FileName(doc.ieds[k]) = file
    BY <1>c, <2>1, <2>2
  <2>3. CASE FileName(doc.ieds[k]) # file
    <3>1. k \in 1 .. next - 1
      BY <1>a, <2>3 DEF file
    <3>2. cfgs[FileName(doc.ieds[k])] = Compiled(stem, doc, FileName(doc.ieds[k]))
      BY <3>1 DEF Compiling
    <3>3. QED
      BY <1>c, <2>1, <2>3, <3>2
  <2>4. QED
    BY <2>2, <2>3
<1>1. TypeOK'
  <2>1. cfgs' \in [FileNames -> Texts]
    BY <1>b, <1>c DEF TypeOK
  <2>2. next' \in Nat \ {0}
    BY <1>a, <1>d
  <2>3. QED
    BY <2>1, <2>2, <1>d DEF TypeOK
<1>2. Busy'
  BY DocumentParts DEF Busy, TypeOK
<1>3. Making'
  BY DocumentParts DEF Making, TypeOK, Busy, Existing
<1>4. Compiling'
  <2>1. CASE next < Len(doc.ieds)
    <3>1. next' \in DOMAIN doc.ieds /\ next' - 1 = next
      BY <1>a, <1>d, <2>1, DocumentParts
    <3>2. ~ touched => doc = scds[stem]
      BY DEF Compiling
    <3>3. QED
      BY <1>a, <1>d, <1>e, <1>f, <2>1, <3>1, <3>2 DEF Compiling
  <2>2. CASE ~(next < Len(doc.ieds))
    BY <1>d, <2>2 DEF Compiling
  <2>3. QED
    BY <2>1, <2>2
<1>5. DrawingMatches'
  BY DocumentParts DEF DrawingMatches, TypeOK, Busy
<1>6. CheckTellsTruth'
  BY DocumentParts DEF CheckTellsTruth, TypeOK, Busy, UpToDate, Leftover, HasOwnFile
<1>7. CompiledIsUpToDate'
  <2> SUFFICES ASSUME ~ touched', verdict' = "compiled", HasOwnFile(scds'[stem']),
                      NEW k \in DOMAIN scds'[stem'].ieds
               PROVE  cfgs'[FileName(scds'[stem'].ieds[k])] = Text(stem', scds'[stem'].ieds[k])
    BY DEF CompiledIsUpToDate, UpToDate
  <2>1. scds'[stem'] = doc
    BY <1>e DEF Compiling
  <2>2. next = Len(doc.ieds)
    BY <1>d DEF Busy
  <2>3. k \in 1 .. next /\ k \in DOMAIN doc.ieds
    BY <1>a, <2>1, <2>2, DocumentParts
  <2>4. cfgs'[FileName(doc.ieds[k])] = Compiled(stem, doc, FileName(doc.ieds[k]))
    BY <1>e, <1>f, <2>3
  <2>5. Compiled(stem, doc, FileName(doc.ieds[k])) = Text(stem, doc.ieds[k])
    BY <1>a, <2>1, <2>3, OwnText
  <2>6. QED
    BY <1>e, <2>1, <2>4, <2>5
<1>8. QED
  BY <1>1, <1>2, <1>3, <1>4, <1>5, <1>6, <1>7

LEMMA CheckIInv ==
    ASSUME IInv, Check
    PROVE  IInv'
<1> USE DEF IInv, Check, Ends, files, work
<1>1. TypeOK'
  BY DocumentParts DEF TypeOK, Busy
<1>2. Busy'
  BY DocumentParts DEF Busy, TypeOK
<1>3. Making'
  BY DocumentParts DEF Making, TypeOK, Busy, Existing
<1>4. Compiling'
  BY DocumentParts DEF Compiling, TypeOK, Busy
<1>5. DrawingMatches'
  BY DocumentParts DEF DrawingMatches, TypeOK, Busy
<1>6. CheckTellsTruth'
  <2> SUFFICES ASSUME ~ touched, HasOwnFile(scds[stem])
               PROVE  IsCurrent <=> UpToDate(stem, scds[stem]) /\ ~Leftover(scds[stem])
    BY DEF CheckTellsTruth, UpToDate, Leftover
  <2>1. doc \in Documents /\ scds[stem] = doc
    BY DEF Compiling
  <2>2. (\A f \in Written(doc) : cfgs[f] = Compiled(stem, doc, f)) <=> UpToDate(stem, doc)
    <3>1. \A k \in DOMAIN doc.ieds : Compiled(stem, doc, FileName(doc.ieds[k])) = Text(stem, doc.ieds[k])
      BY <2>1, OwnText
    <3>2. QED
      BY <3>1 DEF Written, UpToDate
  <2>3. (\A f \in FileNames \ Written(doc) : cfgs[f] = None) <=> ~Leftover(doc)
    BY DEF Written, Leftover
  <2>4. QED
    BY <2>1, <2>2, <2>3 DEF IsCurrent
<1>7. CompiledIsUpToDate'
  BY DocumentParts DEF CompiledIsUpToDate, TypeOK, Busy, UpToDate, HasOwnFile
<1>8. QED
  BY <1>1, <1>2, <1>3, <1>4, <1>5, <1>6, <1>7

LEMMA CrashIInv ==
    ASSUME IInv, Crash
    PROVE  IInv'
<1> USE DEF IInv, Crash, Ends, files, work
<1>0. stem \in Stems /\ (pc = "write" => FileName(doc.ieds[next]) \in FileNames) /\ Torn \in Texts
  BY DocumentParts DEF Busy, Compiling, Texts
<1>1. TypeOK'
  <2>1. /\ scds' \in [Stems -> Documents \cup {None, Torn}]
        /\ svgs' \in [Stems -> Stations \cup {None, Torn}]
        /\ cfgs' \in [FileNames -> Texts]
    BY <1>0 DEF TypeOK
  <2>2. spoilt' \in SUBSET Stems
    BY <1>0 DEF TypeOK
  <2>3. QED
    BY <2>1, <2>2 DEF TypeOK
<1>2. Busy'
  BY DocumentParts DEF Busy, TypeOK
<1>3. Making'
  BY DocumentParts DEF Making, TypeOK, Busy, Existing
<1>4. Compiling'
  BY DocumentParts DEF Compiling, TypeOK, Busy
<1>5. DrawingMatches'
  BY DocumentParts DEF DrawingMatches, TypeOK, Busy
<1>6. CheckTellsTruth'
  BY DocumentParts DEF CheckTellsTruth, TypeOK, Busy, UpToDate, Leftover, HasOwnFile
<1>7. CompiledIsUpToDate'
  BY DocumentParts DEF CompiledIsUpToDate, TypeOK, Busy, UpToDate, HasOwnFile
<1>8. QED
  BY <1>1, <1>2, <1>3, <1>4, <1>5, <1>6, <1>7

LEMMA EditScdIInv ==
    ASSUME IInv, EditScd
    PROVE  IInv'
<1> USE DEF IInv, EditScd, ByHandAt, files, work
<1>0. PICK s \in Stems, d \in Edited :
        /\ scds[s] # None /\ scds' = [scds EXCEPT ![s] = d] /\ ByHandAt({s}) /\ cfgs' = cfgs
  OBVIOUS
<1>1. TypeOK'
  <2>1. edits' \in 0 .. MaxEdits
    BY <1>0, CountUp, BoundsAssumption, Zenon DEF TypeOK
  <2>2. scds' \in [Stems -> Documents \cup {None, Torn}]
    BY <1>0 DEF TypeOK, Documents
  <2>3. QED
    BY <1>0, <2>1, <2>2 DEF TypeOK
<1>2. Busy'
  BY DocumentParts DEF Busy, TypeOK
<1>3. Making'
  <2>1. d # None
    BY DocumentParts DEF Documents
  <2>2. pc = "scd" => agreed' = Existing'
    <3>1. \A t \in Stems : scds'[t] = None <=> scds[t] = None
      BY <1>0, <2>1 DEF TypeOK
    <3>2. pc = "scd" => stem \in Stems
      BY DEF Busy
    <3>3. QED
      BY <1>0, <3>1, <3>2 DEF Making, Existing
  <2>3. QED
    BY <1>0, <2>2 DEF Making, TypeOK, Busy
<1>4. Compiling'
  BY DocumentParts DEF Compiling, TypeOK, Busy
<1>5. DrawingMatches'
  BY DocumentParts DEF DrawingMatches, TypeOK, Busy
<1>6. CheckTellsTruth'
  BY DocumentParts DEF CheckTellsTruth, TypeOK, Busy, UpToDate, Leftover, HasOwnFile
<1>7. CompiledIsUpToDate'
  BY DocumentParts DEF CompiledIsUpToDate, TypeOK, Busy, UpToDate, HasOwnFile
<1>8. QED
  BY <1>1, <1>2, <1>3, <1>4, <1>5, <1>6, <1>7

LEMMA EditCfgIInv ==
    ASSUME IInv, EditCfg
    PROVE  IInv'
<1> USE DEF IInv, EditCfg, ByHandAt, files, work
<1>0. PICK f \in FileNames, text \in {ByHand, None} :
        cfgs' = [cfgs EXCEPT ![f] = text] /\ ByHandAt({}) /\ scds' = scds
  OBVIOUS
<1>1. TypeOK'
  <2>1. ByHand \in Texts /\ None \in Texts
    BY DEF Texts
  <2>2. cfgs' \in [FileNames -> Texts]
    BY <1>0, <2>1 DEF TypeOK
  <2>3. edits' \in 0 .. MaxEdits
    BY <1>0, CountUp, BoundsAssumption, Zenon DEF TypeOK
  <2>4. QED
    BY <1>0, <2>2, <2>3 DEF TypeOK
<1>2. Busy'
  BY DocumentParts DEF Busy, TypeOK
<1>3. Making'
  BY DocumentParts DEF Making, TypeOK, Busy, Existing
<1>4. Compiling'
  BY DocumentParts DEF Compiling, TypeOK, Busy
<1>5. DrawingMatches'
  BY DocumentParts DEF DrawingMatches, TypeOK, Busy
<1>6. CheckTellsTruth'
  BY DocumentParts DEF CheckTellsTruth, TypeOK, Busy, UpToDate, Leftover, HasOwnFile
<1>7. CompiledIsUpToDate'
  BY DocumentParts DEF CompiledIsUpToDate, TypeOK, Busy, UpToDate, HasOwnFile
<1>8. QED
  BY <1>1, <1>2, <1>3, <1>4, <1>5, <1>6, <1>7

LEMMA IdleIInv ==
    ASSUME IInv, UNCHANGED vars
    PROVE  IInv'
<1> USE DEF IInv, vars, files, work
<1>1. TypeOK'
  <2>1. /\ scds' = scds /\ svgs' = svgs /\ cfgs' = cfgs /\ pc' = pc /\ station' = station /\ stem' = stem
        /\ mode' = mode /\ doc' = doc /\ next' = next /\ verdict' = verdict /\ agreed' = agreed
        /\ touched' = touched /\ spoilt' = spoilt /\ runs' = runs /\ edits' = edits
    OBVIOUS
  <2>2. TypeOK
    BY Zenon
  <2> HIDE DEF IInv, vars
  <2>3. /\ next' \in Nat \ {0} /\ runs' \in 0 .. MaxRuns /\ edits' \in 0 .. MaxEdits
        /\ touched' \in BOOLEAN
    BY <2>1, <2>2, Zenon DEF TypeOK
  <2>4. /\ scds' \in [Stems -> Documents \cup {None, Torn}]
        /\ svgs' \in [Stems -> Stations \cup {None, Torn}]
        /\ cfgs' \in [FileNames -> Texts]
        /\ station' \in Stations \cup {NoDocument} /\ stem' \in Stems \cup {""}
        /\ doc' \in Documents \cup {NoDocument} /\ spoilt' \in SUBSET Stems
    BY <2>1, <2>2, Zenon DEF TypeOK
  <2>5. /\ pc' \in {"idle", "ask", "scd", "svg", "validate", "prompt", "compile", "write", "check"}
        /\ mode' \in {"write", "validate", "check"} /\ agreed' \in SUBSET {"scd", "svg"}
        /\ verdict' \in {"none", "aborted", "raised", "failed", "generated", "compiled", "current",
                         "outdated", "crashed"}
    BY <2>1, <2>2, Zenon DEF TypeOK
  <2>6. QED
    BY <2>3, <2>4, <2>5, Zenon DEF TypeOK
<1>2. Busy' /\ Compiling'
  BY DEF Busy, Compiling
<1>3. Making'
  BY DEF Making, Existing
<1>4. DrawingMatches'
  BY DEF DrawingMatches
<1>5. CheckTellsTruth' /\ CompiledIsUpToDate'
  BY DEF CheckTellsTruth, CompiledIsUpToDate, UpToDate, Leftover
<1>6. QED
  BY <1>1, <1>2, <1>3, <1>4, <1>5

LEMMA NextIInv == IInv /\ [Next]_vars => IInv'
<1> SUFFICES ASSUME IInv, [Next]_vars PROVE IInv'
  OBVIOUS
<1>1. CASE StartGenerator
  BY <1>1, StartGeneratorIInv
<1>2. CASE ConfirmOverwrite
  BY <1>2, ConfirmOverwriteIInv
<1>3. CASE WriteScd
  BY <1>3, WriteScdIInv
<1>4. CASE WriteSvg
  BY <1>4, WriteSvgIInv
<1>5. CASE ValidateXsd
  BY <1>5, ValidateXsdIInv
<1>6. CASE AskCompile
  BY <1>6, AskCompileIInv
<1>7. CASE StartCompiler
  BY <1>7, StartCompilerIInv
<1>8. CASE Compile
  BY <1>8, CompileIInv
<1>9. CASE WriteCfg
  BY <1>9, WriteCfgIInv
<1>10. CASE Check
  BY <1>10, CheckIInv
<1>11. CASE Crash
  BY <1>11, CrashIInv
<1>12. CASE EditScd
  BY <1>12, EditScdIInv
<1>13. CASE EditCfg
  BY <1>13, EditCfgIInv
<1>14. CASE UNCHANGED vars
  BY <1>14, IdleIInv
<1>15. QED
  BY <1>1, <1>2, <1>3, <1>4, <1>5, <1>6, <1>7, <1>8, <1>9, <1>10, <1>11, <1>12, <1>13, <1>14 DEF Next

THEOREM Invariant == Spec => []IInv
<1>1. QED
  BY InitIInv, NextIInv, PTL DEF Spec

-----------------------------------------------------------------------------
(* The properties. *)

\* Every variable keeps its type, whatever is edited and however often.
THEOREM TypeCorrect == Spec => []TypeOK
<1>1. IInv => TypeOK
  BY DEF IInv
<1>2. QED
  BY <1>1, Invariant, PTL

\* A drawing that is not of its .scd is owed to an edit or to a run that died:
\* the order of write_station, drawing before validation.
THEOREM DrawingsMatch == Spec => []DrawingMatches
<1>1. IInv => DrawingMatches
  BY DEF IInv
<1>2. QED
  BY <1>1, Invariant, PTL

\* The verdict of --check is right for any document whose IEDs have files of
\* their own, torn, stale and hand-edited files included.
THEOREM CheckIsTrue == Spec => []CheckTellsTruth
<1>1. IInv => CheckTellsTruth
  BY DEF IInv
<1>2. QED
  BY <1>1, Invariant, PTL

\* A compilation that ends leaves every IED its own text, in any order of the
\* IEDs and after any earlier runs.
THEOREM CompilationComplete == Spec => []CompiledIsUpToDate
<1>1. IInv => CompiledIsUpToDate
  BY DEF IInv
<1>2. QED
  BY <1>1, Invariant, PTL

AskedBefore ==
    \A s \in Stems :
       /\ scds[s] # None /\ scds'[s] # scds[s] => edits' # edits \/ agreed = Existing
       /\ svgs[s] # None /\ svgs'[s] # svgs[s] => "svg" \in agreed

LEMMA StepAsks == IInv /\ [Next]_vars => [AskedBefore]_vars
<1> SUFFICES ASSUME IInv, Next, NEW s \in Stems
             PROVE  /\ scds'[s] # scds[s] => edits' # edits \/ agreed = Existing
                    /\ svgs[s] # None /\ svgs'[s] # svgs[s] => "svg" \in agreed
  BY DEF AskedBefore
<1> USE DEF IInv
<1>1. CASE WriteScd \/ WriteSvg
  BY <1>1 DEF WriteScd, WriteSvg, TypeOK, Making, files
<1>2. CASE Crash
  BY <1>2 DEF Crash, TypeOK, Making, Existing, files
<1>3. CASE EditScd \/ EditCfg
  <2>1. edits' = edits + 1 /\ svgs' = svgs
    BY <1>3 DEF EditScd, EditCfg, ByHandAt
  <2>2. edits' # edits
    <3>1. edits \in 0 .. MaxEdits
      BY Zenon DEF TypeOK
    <3>2. \A n \in 0 .. MaxEdits : n + 1 # n
      OBVIOUS
    <3>3. QED
      BY <2>1, <3>1, <3>2, Zenon
  <2>3. QED
    BY <2>1, <2>2
<1>4. CASE ~(WriteScd \/ WriteSvg \/ Crash \/ EditScd \/ EditCfg)
  <2>1. scds' = scds /\ svgs' = svgs
    BY <1>4 DEF Next, StartGenerator, ConfirmOverwrite, ValidateXsd, AskCompile, StartCompiler, Compile,
       WriteCfg, Check, files
  <2>2. QED
    BY <2>1
<1>5. QED
  BY <1>1, <1>2, <1>3, <1>4

\* No run overwrites what the engineer was not asked about, or refused.
THEOREM ConsentKept == Spec => NothingLostUnasked
<1>1. QED
  BY Invariant, StepAsks, PTL DEF Spec, NothingLostUnasked, AskedBefore
=============================================================================
