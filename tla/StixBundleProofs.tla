--------------------------- MODULE StixBundleProofs ---------------------------
(***************************************************************************)
(* Proofs about the packager: for every number of runs, every log, every   *)
(* set of addresses and spellings and every bound.                         *)
(***************************************************************************)
EXTENDS StixBundle, FiniteSetTheorems, SequenceTheorems, TLAPS

-----------------------------------------------------------------------------
(* The times of a line.                                                    *)
LEMMA TimeOfLine ==
  ASSUME NEW line \in Lines
  PROVE  /\ StixTime(line.time) \in Time
         /\ StixTime(line.time) = Never <=> line.time = Never
<1>1. line.time \in Nat \cup {Never} /\ PerMilli \in Nat /\ PerMilli > 0
  BY PackagerAssumption
<1>2. CASE line.time = Never
  BY <1>2 DEF StixTime, Time
<1>3. CASE line.time \in Nat /\ line.time # Never
  <2>1. line.time \div PerMilli \in Nat
    BY <1>1, <1>3
  <2> QED
    BY <1>3, <2>1 DEF StixTime, Time, Never
<1> QED
  BY <1>1, <1>2, <1>3

(* What a Source becomes when it observes a line.                          *)
LEMMA ObservedType ==
  ASSUME NEW source \in Sources, NEW line \in Lines
  PROVE  Observed(source, line) \in Sources
<1> DEFINE t == StixTime(line.time)
<1>1. t \in Time
  BY TimeOfLine
<1>2. /\ source.count \in Nat /\ source.first \in Time /\ source.last \in Time
      /\ source.codes \in SUBSET Nat /\ source.wrote \in BOOLEAN
  BY DEF Sources
<1> HIDE DEF t
<1>3. Earlier(source.first, t) \in Time /\ Later(source.last, t) \in Time
  BY <1>1, <1>2 DEF Earlier, Later, Time, Never
<1>4. source.codes \cup ({line.code} \ {NoCode}) \in SUBSET Nat
  BY <1>2, PackagerAssumption
<1>5. (source.wrote \/ line.write) \in BOOLEAN
  OBVIOUS
<1>6. source.count + 1 \in Nat
  BY <1>2
<1> QED
  BY <1>3, <1>4, <1>5, <1>6 DEF Observed, Sources, t

LEMMA LineType ==
  ASSUME TypeOK, NEW r \in Runs, HasLine(r)
  PROVE  /\ Line(r) \in Lines
         /\ position[r] \in Nat /\ position[r] + 1 \in 1..Len(log) /\ Len(log) \in Nat
<1>1. log \in Seq(Lines) /\ Len(log) \in Nat /\ position[r] \in Nat
  BY LenProperties DEF TypeOK
<1>2. position[r] + 1 \in 1..Len(log)
  BY <1>1 DEF HasLine
<1> QED
  BY <1>1, <1>2, ElementOfSeq DEF Line

LEMMA KeyType ==
  ASSUME TypeOK, NEW r \in Runs, Packaged(r, Line(r))
  PROVE  Key(r) \in Addresses
BY DEF Packaged, Key, Addresses

LEMMA BundleType ==
  ASSUME TypeOK, NEW r \in Runs
  PROVE  Bundle(r) \in Bundles
<1>1. now[r] \in Nat /\ now[r] \in Stamps
  BY PackagerAssumption DEF TypeOK, Stamps
<1>2. ASSUME NEW a \in Found(r) PROVE Object(r, a) \in Objects
  <2>1. a \in Addresses /\ sources[r][a] \in Sources
    BY <1>2 DEF Found, TypeOK
  <2>2. /\ sources[r][a].count \in Nat /\ sources[r][a].first \in Time
        /\ sources[r][a].last \in Time /\ sources[r][a].codes \in SUBSET Nat
        /\ sources[r][a].wrote \in BOOLEAN
    BY <2>1 DEF Sources
  <2>3. FirstOf(r, a) \in Nat /\ LastOf(r, a) \in Nat
    BY <1>1, <2>2 DEF FirstOf, LastOf, Time
  <2>4. ObservedDataId(r, a) \in Addresses \X Nat \X Nat
    BY <2>1, <2>3 DEF ObservedDataId
  <2>5. IndicatorId(r, a) \in Addresses \X Nat
    BY <2>1, <2>3 DEF IndicatorId
  <2>6. (IF sources[r][a].count < MaxNumber THEN sources[r][a].count ELSE MaxNumber) \in Nat
    BY <2>2, PackagerAssumption
  <2> QED
    BY <2>2, <2>4, <2>5, <2>6 DEF Object, Objects
<1> QED
  BY <1>1, <1>2 DEF Bundle, Bundles

-----------------------------------------------------------------------------
(* The type invariant in two parts: what runs read, and what they write.   *)
ReadTypes ==
  /\ log \in Seq(Lines) /\ clock \in Stamps
  /\ now \in [Runs -> Stamps]
  /\ position \in [Runs -> Nat] /\ \A r \in Runs : position[r] <= Len(log)
  /\ seen \in [Runs -> 0..MaxEvents]
  /\ sources \in [Runs -> [Addresses -> Sources]]
  /\ \A r \in Runs : Cardinality(Found(r)) <= MaxSources
StageTypes ==
  stage \in [Runs -> {"idle", "reading", "built", "open", "written", "moved",
                      "done", "failed"}]
FileTypes ==
  /\ fd \in [Runs -> Runs \cup {None}]
  /\ partial \in [Stamps -> Runs \cup {None}]
  /\ published \in [Stamps -> Runs \cup {None}]
  /\ content \in [Runs -> {Half} \cup Bundles]

LEMMA TypeParts == TypeOK <=> ReadTypes /\ StageTypes /\ FileTypes
BY DEF TypeOK, ReadTypes, StageTypes, FileTypes

LEMMA UnseenType == Unseen \in Sources
BY DEF Unseen, Sources, Time, Never

LEMMA FoundNone ==
  ASSUME NEW r \in Runs, sources[r] = [a \in Addresses |-> Unseen]
  PROVE  Cardinality(Found(r)) = 0
<1>1. Found(r) = {}
  BY DEF Found, Unseen
<1> QED
  BY <1>1, FS_EmptySet

LEMMA TypeInit == Init => TypeOK
<1> SUFFICES ASSUME Init PROVE TypeOK
  OBVIOUS
<1>1. 0 \in Stamps /\ 0 \in 0..MaxEvents /\ MaxSources \in Nat
  BY PackagerAssumption DEF Stamps
<1>2. log \in Seq(Lines) /\ Len(log) = 0
  BY DEF Init
<1>3. \A r \in Runs : Cardinality(Found(r)) <= MaxSources
  BY <1>1, FoundNone DEF Init
<1> QED
  BY <1>1, <1>2, <1>3, UnseenType DEF Init, TypeOK

LEMMA FoundFrame ==
  ASSUME NEW r \in Runs, sources'[r] = sources[r]
  PROVE  Found(r)' = Found(r)
BY DEF Found

LEMMA FileTypesFrame ==
  ASSUME TypeOK, UNCHANGED files
  PROVE  FileTypes'
BY DEF TypeOK, FileTypes, files

LEMMA ReadTypesFrame ==
  ASSUME TypeOK, UNCHANGED <<world, reading>>
  PROVE  ReadTypes'
<1>1. \A r \in Runs : Found(r)' = Found(r)
  BY FoundFrame DEF reading
<1> QED
  BY <1>1 DEF TypeOK, ReadTypes, world, reading

-----------------------------------------------------------------------------
(* The steps that read.                                                    *)
LEMMA TypeAbandon ==
  ASSUME TypeOK, NEW r \in Runs, Abandon(r)
  PROVE  TypeOK'
<1>1. StageTypes'
  BY DEF Abandon, Goto, TypeOK, StageTypes
<1>2. FileTypes'
  BY FileTypesFrame DEF Abandon
<1>3. ReadTypes'
  <2>1. log' = log /\ clock' = clock /\ now' = now
    BY DEF Abandon, world
  <2>2. Len(log) \in Nat /\ 0 \in 0..MaxEvents /\ MaxSources \in Nat
    BY LenProperties, PackagerAssumption DEF TypeOK
  <2>3. position' \in [Runs -> Nat] /\ \A q \in Runs : position'[q] <= Len(log)
    BY <2>2 DEF Abandon, TypeOK
  <2>4. seen' \in [Runs -> 0..MaxEvents]
    BY <2>2 DEF Abandon, TypeOK
  <2>5. sources' \in [Runs -> [Addresses -> Sources]]
    BY UnseenType DEF Abandon, TypeOK
  <2>6. ASSUME NEW q \in Runs PROVE Cardinality(Found(q)') <= MaxSources
    <3>1. CASE q = r
      <4>1. sources'[r] = [a \in Addresses |-> Unseen]
        BY DEF Abandon, TypeOK
      <4>2. Found(r)' = {}
        BY <4>1 DEF Found, Unseen
      <4> QED
        BY <2>2, <3>1, <4>2, FS_EmptySet
    <3>2. CASE q # r
      <4>1. sources'[q] = sources[q]
        BY <3>2 DEF Abandon, TypeOK
      <4> QED
        BY <4>1, FoundFrame DEF TypeOK
    <3> QED
      BY <3>1, <3>2
  <2> QED
    BY <2>1, <2>3, <2>4, <2>5, <2>6 DEF ReadTypes, TypeOK
<1> QED
  BY <1>1, <1>2, <1>3 DEF TypeOK, ReadTypes, StageTypes, FileTypes

(* Where the line that is read leaves the counters.                        *)
LEMMA ReadLineTypes ==
  ASSUME TypeOK, NEW r \in Runs, HasLine(r), ~TooManyEvents(r), ReadLine(r)
  PROVE  /\ position' \in [Runs -> Nat] /\ \A q \in Runs : position'[q] <= Len(log)
         /\ seen' \in [Runs -> 0..MaxEvents]
         /\ log' = log /\ clock' = clock /\ now' = now /\ stage' = stage
         /\ UNCHANGED files
<1>1. position[r] \in Nat /\ position[r] + 1 <= Len(log) /\ Len(log) \in Nat
  BY LineType
<1>2. position' = [position EXCEPT ![r] = @ + 1]
  BY DEF ReadLine
<1>3. position' \in [Runs -> Nat] /\ \A q \in Runs : position'[q] <= Len(log)
  BY <1>1, <1>2 DEF TypeOK
<1>4. seen[r] \in 0..MaxEvents /\ MaxEvents \in Nat
  BY PackagerAssumption DEF TypeOK
<1>5. (IF Line(r).event THEN seen[r] + 1 ELSE seen[r]) \in 0..MaxEvents
  BY <1>4 DEF TooManyEvents
<1>6. seen' \in [Runs -> 0..MaxEvents]
  BY <1>5 DEF ReadLine, TypeOK
<1> QED
  BY <1>3, <1>6 DEF ReadLine, world

LEMMA TypeSkip ==
  ASSUME TypeOK, NEW r \in Runs, SkipLine(r)
  PROVE  TypeOK'
<1>1. HasLine(r) /\ ~TooManyEvents(r) /\ ReadLine(r) /\ sources' = sources
  BY DEF SkipLine
<1>2. \A q \in Runs : Found(q)' = Found(q)
  BY <1>1, FoundFrame
<1>3. ReadTypes'
  BY <1>1, <1>2, ReadLineTypes DEF ReadTypes, TypeOK
<1>4. StageTypes' /\ FileTypes'
  BY <1>1, ReadLineTypes, FileTypesFrame DEF StageTypes, TypeOK
<1> QED
  BY <1>3, <1>4 DEF TypeOK, ReadTypes, StageTypes, FileTypes

LEMMA ObservedSources ==
  ASSUME TypeOK, NEW r \in Runs, ObserveLine(r)
  PROVE  /\ sources' \in [Runs -> [Addresses -> Sources]]
         /\ \A q \in Runs : q # r => sources'[q] = sources[q]
         /\ \A a \in Addresses :
              sources'[r][a] = IF a = Key(r) THEN Observed(sources[r][a], Line(r))
                               ELSE sources[r][a]
<1>1. Key(r) \in Addresses /\ Line(r) \in Lines
  BY KeyType, LineType DEF ObserveLine
<1>2. sources \in [Runs -> [Addresses -> Sources]]
  BY DEF TypeOK
<1>3. Observed(sources[r][Key(r)], Line(r)) \in Sources
  BY <1>1, <1>2, ObservedType
<1>4. sources' = [sources EXCEPT ![r][Key(r)] = Observed(@, Line(r))]
  BY DEF ObserveLine
<1> QED
  BY <1>1, <1>2, <1>3, <1>4

LEMMA FoundFinite ==
  ASSUME TypeOK, NEW r \in Runs
  PROVE  IsFiniteSet(Found(r)) /\ Cardinality(Found(r)) \in Nat
<1>1. Found(r) \subseteq Addresses
  BY DEF Found
<1> QED
  BY <1>1, PackagerAssumption, FS_Subset, FS_CardinalityType

LEMMA TypeObserve ==
  ASSUME TypeOK, NEW r \in Runs, ObserveLine(r)
  PROVE  TypeOK'
<1>1. HasLine(r) /\ ~TooManyEvents(r) /\ ReadLine(r) /\ ~TooManySources(r)
  BY DEF ObserveLine
<1>2. ASSUME NEW q \in Runs PROVE Cardinality(Found(q)') <= MaxSources
  <2>1. CASE q # r
    BY <2>1, ObservedSources, FoundFrame DEF TypeOK
  <2>2. CASE q = r
    <3>1. Found(r)' \subseteq Found(r) \cup {Key(r)}
      BY ObservedSources DEF Found
    <3>2. IsFiniteSet(Found(r)) /\ Cardinality(Found(r)) \in Nat /\ MaxSources \in Nat
      BY FoundFinite, PackagerAssumption
    <3>3. IsFiniteSet(Found(r) \cup {Key(r)})
          /\ Cardinality(Found(r) \cup {Key(r)}) <= MaxSources
      <4>1. CASE Key(r) \in Found(r)
        <5>1. Found(r) \cup {Key(r)} = Found(r)
          BY <4>1
        <5> QED
          BY <3>2, <5>1 DEF TypeOK
      <4>2. CASE Key(r) \notin Found(r)
        <5>1. Cardinality(Found(r)) < MaxSources
          BY <1>1, <3>2, <4>2 DEF TooManySources
        <5> QED
          BY <3>2, <4>2, <5>1, FS_AddElement
      <4> QED
        BY <4>1, <4>2
    <3>4. /\ Cardinality(Found(r)') <= Cardinality(Found(r) \cup {Key(r)})
          /\ Cardinality(Found(r)') \in Nat
          /\ Cardinality(Found(r) \cup {Key(r)}) \in Nat
      BY <3>1, <3>3, FS_Subset, FS_CardinalityType
    <3> QED
      BY <2>2, <3>2, <3>3, <3>4
  <2> QED
    BY <2>1, <2>2
<1>3. ReadTypes'
  BY <1>1, <1>2, ReadLineTypes, ObservedSources DEF ReadTypes, TypeOK
<1>4. StageTypes' /\ FileTypes'
  BY <1>1, ReadLineTypes, FileTypesFrame DEF StageTypes, TypeOK
<1> QED
  BY <1>3, <1>4 DEF TypeOK, ReadTypes, StageTypes, FileTypes

LEMMA TypeWorld ==
  ASSUME TypeOK, LogLine \/ Advance
  PROVE  TypeOK'
<1>1. StageTypes' /\ FileTypes'
  BY FileTypesFrame DEF LogLine, Advance, StageTypes, TypeOK
<1>2. \A r \in Runs : Found(r)' = Found(r)
  BY FoundFrame DEF LogLine, Advance, reading
<1>3. clock' \in Stamps
  BY PackagerAssumption DEF LogLine, Advance, TypeOK, Stamps
<1>4. /\ log' \in Seq(Lines)
      /\ \A r \in Runs : position[r] <= Len(log')
  <2>1. CASE Advance
    BY <2>1 DEF Advance, TypeOK
  <2>2. CASE LogLine
    <3>1. PICK line \in Lines : log' = Append(log, line)
      BY <2>2 DEF LogLine
    <3>2. log' \in Seq(Lines) /\ Len(log') = Len(log) + 1 /\ Len(log) \in Nat
      BY <3>1, AppendProperties, LenProperties DEF TypeOK
    <3> QED
      BY <3>2 DEF TypeOK
  <2> QED
    BY <2>1, <2>2
<1>5. ReadTypes'
  BY <1>2, <1>3, <1>4 DEF LogLine, Advance, reading, ReadTypes, TypeOK
<1> QED
  BY <1>1, <1>5 DEF TypeOK, ReadTypes, StageTypes, FileTypes

LEMMA TypeStart ==
  ASSUME TypeOK, NEW r \in Runs, Start(r) \/ EndOfInput(r)
  PROVE  TypeOK'
<1>1. StageTypes' /\ FileTypes'
  BY FileTypesFrame DEF Start, EndOfInput, Goto, StageTypes, TypeOK
<1>2. \A q \in Runs : Found(q)' = Found(q)
  BY FoundFrame DEF Start, EndOfInput, reading
<1>3. now' \in [Runs -> Stamps]
  BY DEF Start, EndOfInput, reading, TypeOK
<1>4. ReadTypes'
  BY <1>2, <1>3 DEF Start, EndOfInput, reading, world, ReadTypes, TypeOK
<1> QED
  BY <1>1, <1>4 DEF TypeOK, ReadTypes, StageTypes, FileTypes

(* The steps that write.                                                   *)
Writes(r) ==
  \/ WriteStdout(r) \/ OpenPartial(r) \/ WriteText(r)
  \/ Replace(r) \/ ReplaceFails(r) \/ Chmod(r)

LEMMA TypeWrite ==
  ASSUME TypeOK, NEW r \in Runs, Writes(r)
  PROVE  TypeOK' /\ UNCHANGED <<world, reading>>
<1>1. UNCHANGED <<world, reading>>
  BY DEF Writes, WriteStdout, OpenPartial, WriteText, Replace, ReplaceFails, Chmod
<1>2. StageTypes'
  BY DEF Writes, WriteStdout, OpenPartial, WriteText, Replace, ReplaceFails, Chmod, Goto,
         StageTypes, TypeOK
<1>3. FileTypes'
  <2>1. now[r] \in Stamps /\ Bundle(r) \in Bundles
    BY BundleType DEF TypeOK
  <2>2. CASE WriteStdout(r) \/ ReplaceFails(r) \/ Chmod(r)
    BY <2>2, FileTypesFrame DEF WriteStdout, ReplaceFails, Chmod
  <2>3. CASE OpenPartial(r)
    BY <2>1, <2>3 DEF OpenPartial, FileTypes, TypeOK
  <2>4. CASE WriteText(r)
    <3>1. PICK v \in {Half} \cup Bundles : content' = [content EXCEPT ![fd[r]] = v]
      BY <2>1, <2>4 DEF WriteText
    <3>2. content' \in [Runs -> {Half} \cup Bundles]
      <4> DEFINE C == {Half} \cup Bundles
      <4>1. content \in [Runs -> C] /\ v \in C
        BY DEF TypeOK
      <4> HIDE DEF C
      <4>2. content' \in [Runs -> C]
        BY <3>1, <4>1
      <4> QED
        BY <4>2 DEF C
    <3> QED
      BY <2>4, <3>2 DEF WriteText, FileTypes, TypeOK
  <2>5. CASE Replace(r)
    BY <2>1, <2>5 DEF Replace, FileTypes, TypeOK
  <2> QED
    BY <2>2, <2>3, <2>4, <2>5 DEF Writes
<1> QED
  BY <1>1, <1>2, <1>3, ReadTypesFrame DEF TypeOK, ReadTypes, StageTypes, FileTypes

LEMMA TypeRest ==
  ASSUME TypeOK,
         \/ \E r \in Runs : Crash(r) /\ ~Abandon(r)
         \/ \E t \in Stamps : Collect(t)
         \/ UNCHANGED vars
  PROVE  TypeOK' /\ UNCHANGED <<world, reading>>
<1>1. UNCHANGED <<world, reading>>
  BY DEF Crash, Collect, vars
<1>2. StageTypes'
  BY DEF Crash, Collect, vars, StageTypes, TypeOK
<1>3. FileTypes'
  BY DEF Crash, Collect, vars, files, FileTypes, TypeOK
<1> QED
  BY <1>1, <1>2, <1>3, ReadTypesFrame DEF TypeOK, ReadTypes, StageTypes, FileTypes

(* The cases of a step, as the proofs below take them.                     *)
LEMMA Cases ==
  ASSUME [Next]_vars
  PROVE  \/ LogLine \/ Advance
         \/ \E r \in Runs :
              \/ Start(r) \/ EndOfInput(r)
              \/ SkipLine(r) \/ ObserveLine(r) \/ Abandon(r)
              \/ Writes(r)
         \/ \E r \in Runs : Crash(r) /\ ~Abandon(r)
         \/ \E t \in Stamps : Collect(t)
         \/ UNCHANGED vars
<1>1. \A r \in Runs : Raise(r) => Abandon(r)
  BY DEF Raise
<1> QED
  BY <1>1 DEF Next, Step, Writes

LEMMA TypeStep == TypeOK /\ [Next]_vars => TypeOK'
BY Cases, TypeWorld, TypeStart, TypeSkip, TypeObserve, TypeAbandon, TypeWrite, TypeRest

(* Every variable keeps its type, and a run never holds more events or     *)
(* sources than the packaging bounds.                                      *)
THEOREM TypeCorrect == Spec => []TypeOK
BY TypeInit, TypeStep, PTL DEF Spec

-----------------------------------------------------------------------------
(* What the lines numbered 1..n of a log say of an address, as a relation  *)
(* between values.                                                         *)
MineIn(r, lines, n, a) ==
  {i \in 1..n : Packaged(r, lines[i]) /\ Compressed[lines[i].source] = a}
TimesIn(r, lines, n, a) == {StixTime(lines[i].time) : i \in MineIn(r, lines, n, a)} \ {Never}
Summary(r, lines, n, source, a) ==
  /\ source.count = Cardinality(MineIn(r, lines, n, a))
  /\ source.codes = {lines[i].code : i \in MineIn(r, lines, n, a)} \ {NoCode}
  /\ source.wrote = (\E i \in MineIn(r, lines, n, a) : lines[i].write)
  /\ {source.first, source.last} \ {Never} \subseteq TimesIn(r, lines, n, a)
  /\ \A t \in TimesIn(r, lines, n, a) : source.first <= t /\ t <= source.last
  /\ TimesIn(r, lines, n, a) # {} => source.first # Never

AllSummaries ==
  \A r \in Runs, a \in Addresses : Summary(r, log, position[r], sources[r][a], a)

LEMMA SummariesSame == CollectedIsSummary <=> AllSummaries
BY DEF CollectedIsSummary, AllSummaries, Summary, Mine, Times, MineIn, TimesIn

(* Only the lines that were read matter.                                   *)
LEMMA SummaryFrame ==
  ASSUME NEW r \in Runs, NEW a \in Addresses, NEW n \in Nat, NEW lines, NEW longer,
         NEW source, \A i \in 1..n : longer[i] = lines[i],
         Summary(r, lines, n, source, a)
  PROVE  Summary(r, longer, n, source, a)
<1>1. MineIn(r, longer, n, a) = MineIn(r, lines, n, a)
  BY DEF MineIn
<1>2. \A i \in MineIn(r, lines, n, a) : longer[i] = lines[i]
  BY DEF MineIn
<1>3. TimesIn(r, longer, n, a) = TimesIn(r, lines, n, a)
  BY <1>1, <1>2 DEF TimesIn
<1>4. {longer[i].code : i \in MineIn(r, lines, n, a)} = {lines[i].code : i \in MineIn(r, lines, n, a)}
  BY <1>2
<1>5. (\E i \in MineIn(r, lines, n, a) : longer[i].write) <=> (\E i \in MineIn(r, lines, n, a) : lines[i].write)
  BY <1>2
<1> QED
  BY <1>1, <1>3, <1>4, <1>5 DEF Summary

(* Nothing is known before the first line.                                 *)
LEMMA SummaryOfNone ==
  ASSUME NEW r \in Runs, NEW a \in Addresses, NEW lines
  PROVE  Summary(r, lines, 0, Unseen, a)
<1>1. MineIn(r, lines, 0, a) = {}
  BY DEF MineIn
<1>2. TimesIn(r, lines, 0, a) = {}
  BY <1>1 DEF TimesIn
<1>3. Cardinality(MineIn(r, lines, 0, a)) = 0
  BY <1>1, FS_EmptySet
<1> QED
  BY <1>1, <1>2, <1>3 DEF Summary, Unseen

(* A line that is not about the address adds nothing.                      *)
LEMMA SummarySkips ==
  ASSUME NEW r \in Runs, NEW a \in Addresses, NEW n \in Nat, NEW lines, NEW source,
         ~(Packaged(r, lines[n + 1]) /\ Compressed[lines[n + 1].source] = a),
         Summary(r, lines, n, source, a)
  PROVE  Summary(r, lines, n + 1, source, a)
<1>1. 1..n + 1 = 1..n \cup {n + 1}
  OBVIOUS
<1>2. MineIn(r, lines, n + 1, a) = MineIn(r, lines, n, a)
  BY <1>1 DEF MineIn
<1>3. TimesIn(r, lines, n + 1, a) = TimesIn(r, lines, n, a)
  BY <1>2 DEF TimesIn
<1> QED
  BY <1>2, <1>3 DEF Summary

(* A line about the address adds what Source.observe adds.                 *)
LEMMA SummaryObserves ==
  ASSUME NEW r \in Runs, NEW a \in Addresses, NEW n \in Nat, NEW lines,
         NEW source \in Sources, lines[n + 1] \in Lines,
         \A i \in 1..n : lines[i] \in Lines,
         Packaged(r, lines[n + 1]), Compressed[lines[n + 1].source] = a,
         Summary(r, lines, n, source, a)
  PROVE  Summary(r, lines, n + 1, Observed(source, lines[n + 1]), a)
<1> DEFINE old == MineIn(r, lines, n, a)
           new == MineIn(r, lines, n + 1, a)
           times == TimesIn(r, lines, n, a)
           line == lines[n + 1]
           t == StixTime(line.time)
           after == Observed(source, line)
<1>1. new = old \cup {n + 1} /\ n + 1 \notin old
  <2>1. 1..n + 1 = 1..n \cup {n + 1} /\ n + 1 \notin 1..n
    OBVIOUS
  <2> QED
    BY <2>1 DEF MineIn
<1>2. Cardinality(new) = Cardinality(old) + 1
  <2>1. old \subseteq 1..n
    BY DEF MineIn
  <2> HIDE DEF old, new
  <2>2. IsFiniteSet(old)
    <3>1. IsFiniteSet(1..n)
      BY FS_Interval
    <3> QED
      BY <2>1, <3>1, FS_Subset
  <2> QED
    BY <1>1, <2>2, FS_AddElement
<1>3. TimesIn(r, lines, n + 1, a) = (times \cup {t}) \ {Never}
  BY <1>1 DEF TimesIn
<1>4. {lines[i].code : i \in new} = {lines[i].code : i \in old} \cup {line.code}
  BY <1>1
<1>5. (\E i \in new : lines[i].write) <=> (\E i \in old : lines[i].write) \/ line.write
  BY <1>1
<1>6. /\ after.count = source.count + 1
      /\ after.first = Earlier(source.first, t) /\ after.last = Later(source.last, t)
      /\ after.codes = source.codes \cup ({line.code} \ {NoCode})
      /\ after.wrote = (source.wrote \/ line.write)
  BY DEF Observed
<1>7. t \in Time /\ source.first \in Time /\ source.last \in Time /\ times \subseteq Nat
  <2>1. times \subseteq Nat
    BY TimeOfLine DEF TimesIn, MineIn, Time
  <2> QED
    BY <2>1, TimeOfLine DEF Sources
<1>8. /\ {source.first, source.last} \ {Never} \subseteq times
      /\ \A u \in times : source.first <= u /\ u <= source.last
      /\ times # {} => source.first # Never
      /\ source.count = Cardinality(old)
      /\ source.codes = {lines[i].code : i \in old} \ {NoCode}
      /\ source.wrote = (\E i \in old : lines[i].write)
  BY DEF Summary
<1>9. /\ {after.first, after.last} \ {Never} \subseteq (times \cup {t}) \ {Never}
      /\ \A u \in (times \cup {t}) \ {Never} : after.first <= u /\ u <= after.last
      /\ (times \cup {t}) \ {Never} # {} => after.first # Never
  <2> DEFINE first == source.first
             last == source.last
             first2 == after.first
             last2 == after.last
  <2>1. /\ t \in Time /\ first \in Time /\ last \in Time /\ times \subseteq Nat
        /\ first2 = Earlier(first, t) /\ last2 = Later(last, t)
        /\ first # Never => first \in times
        /\ last # Never => last \in times
        /\ \A u \in times : first <= u /\ u <= last
        /\ times # {} => first # Never
    BY <1>6, <1>7, <1>8
  <2> HIDE DEF first, last, first2, last2, times, t
  <2>2. first = Never => times = {} /\ last = Never
    BY <2>1
  <2>3. \/ first2 = first /\ first # Never /\ (t = Never \/ first <= t)
        \/ first2 = t /\ (first = Never \/ (t # Never /\ t < first))
    BY <2>1 DEF Earlier, Time, Never
  <2>4. \/ last2 = last /\ t <= last
        \/ last2 = t /\ last < t
    BY <2>1 DEF Later, Time, Never
  <2>5. {first2, last2} \ {Never} \subseteq (times \cup {t}) \ {Never}
    BY <2>1, <2>3, <2>4
  <2>6. \A u \in (times \cup {t}) \ {Never} : first2 <= u
    BY <2>1, <2>2, <2>3 DEF Time, Never
  <2>7. \A u \in (times \cup {t}) \ {Never} : u <= last2
    BY <2>1, <2>4 DEF Time, Never
  <2>8. (times \cup {t}) \ {Never} # {} => first2 # Never
    BY <2>1, <2>2, <2>3 DEF Time, Never
  <2> QED
    BY <2>5, <2>6, <2>7, <2>8 DEF first2, last2
<1> HIDE DEF old, new, times, line, t, after
<1>10. after.codes = {lines[i].code : i \in new} \ {NoCode}
  BY <1>4, <1>6, <1>8
<1>11. after.wrote = (\E i \in new : lines[i].write)
  BY <1>5, <1>6, <1>8
<1> QED
  BY <1>2, <1>3, <1>6, <1>8, <1>9, <1>10, <1>11 DEF Summary, new, line, after

(* A run whose reading a step leaves alone, with a log that only grows.    *)
LEMMA SummariesFrame ==
  ASSUME TypeOK, AllSummaries, NEW r \in Runs, NEW a \in Addresses,
         sources'[r][a] = sources[r][a], position'[r] = position[r],
         \A i \in 1..Len(log) : log'[i] = log[i]
  PROVE  Summary(r, log', position'[r], sources'[r][a], a)
<1>1. position[r] \in Nat /\ position[r] <= Len(log) /\ Len(log) \in Nat
  BY LenProperties DEF TypeOK
<1>2. \A i \in 1..position[r] : log'[i] = log[i]
  BY <1>1
<1>3. Summary(r, log, position[r], sources[r][a], a)
  BY DEF AllSummaries
<1> QED
  BY <1>1, <1>2, <1>3, SummaryFrame

LEMMA CollectStep == TypeOK /\ AllSummaries /\ [Next]_vars => AllSummaries'
<1> SUFFICES ASSUME TypeOK, AllSummaries, [Next]_vars, NEW q \in Runs, NEW a \in Addresses
             PROVE  Summary(q, log', position'[q], sources'[q][a], a)
  BY DEF AllSummaries
<1>1. CASE LogLine
  <2>1. PICK line \in Lines : log' = Append(log, line)
    BY <1>1 DEF LogLine
  <2>2. \A i \in 1..Len(log) : log'[i] = log[i]
    BY <2>1, AppendProperties DEF TypeOK
  <2> QED
    BY <1>1, <2>2, SummariesFrame DEF LogLine, reading
<1>2. CASE Advance
  BY <1>2, SummariesFrame DEF Advance, reading
<1>3. ASSUME NEW r \in Runs, Start(r) \/ EndOfInput(r)
      PROVE  Summary(q, log', position'[q], sources'[q][a], a)
  BY <1>3, SummariesFrame DEF Start, EndOfInput, reading, world
<1>4. ASSUME NEW r \in Runs, SkipLine(r) \/ ObserveLine(r)
      PROVE  Summary(q, log', position'[q], sources'[q][a], a)
  <2>1. log' = log /\ position' = [position EXCEPT ![r] = @ + 1]
    BY <1>4 DEF SkipLine, ObserveLine, ReadLine, world
  <2>2. CASE q # r
    <3>1. position'[q] = position[q] /\ sources'[q] = sources[q]
      BY <1>4, <2>1, <2>2, ObservedSources DEF SkipLine, TypeOK
    <3> QED
      BY <2>1, <3>1, SummariesFrame
  <2>3. CASE q = r
    <3>1. /\ position'[r] = position[r] + 1 /\ position[r] \in Nat
          /\ Line(r) = log[position[r] + 1] /\ Line(r) \in Lines
      BY <1>4, <2>1, LineType DEF SkipLine, ObserveLine, Line, TypeOK
    <3>2. Summary(r, log, position[r], sources[r][a], a)
      BY DEF AllSummaries
    <3>3. CASE SkipLine(r)
      <4>1. ~Packaged(r, log[position[r] + 1]) /\ sources' = sources
        BY <3>1, <3>3 DEF SkipLine
      <4> QED
        BY <2>1, <2>3, <3>1, <3>2, <4>1, SummarySkips
    <3>4. CASE ObserveLine(r) /\ a # Key(r)
      <4>1. Compressed[log[position[r] + 1].source] # a /\ sources'[r][a] = sources[r][a]
        BY <3>1, <3>4, ObservedSources DEF Key
      <4> QED
        BY <2>1, <2>3, <3>1, <3>2, <4>1, SummarySkips
    <3>5. CASE ObserveLine(r) /\ a = Key(r)
      <4>1. /\ Packaged(r, log[position[r] + 1])
            /\ Compressed[log[position[r] + 1].source] = a
            /\ sources'[r][a] = Observed(sources[r][a], log[position[r] + 1])
        BY <3>1, <3>5, ObservedSources DEF Key, ObserveLine
      <4>2. \A i \in 1..position[r] : log[i] \in Lines
        <5>1. position[r] <= Len(log) /\ Len(log) \in Nat /\ log \in Seq(Lines)
          BY LenProperties DEF TypeOK
        <5> QED
          BY <3>1, <5>1, ElementOfSeq
      <4>3. sources[r][a] \in Sources
        BY DEF TypeOK
      <4> QED
        BY <2>1, <2>3, <3>1, <3>2, <4>1, <4>2, <4>3, SummaryObserves
    <3> QED
      BY <1>4, <3>3, <3>4, <3>5
  <2> QED
    BY <2>2, <2>3
<1>5. ASSUME NEW r \in Runs, Abandon(r)
      PROVE  Summary(q, log', position'[q], sources'[q][a], a)
  <2>1. log' = log
    BY <1>5 DEF Abandon, world
  <2>2. CASE q # r
    <3>1. position'[q] = position[q] /\ sources'[q] = sources[q]
      BY <1>5, <2>2 DEF Abandon, TypeOK
    <3> QED
      BY <2>1, <3>1, SummariesFrame
  <2>3. CASE q = r
    <3>1. position'[q] = 0 /\ sources'[q][a] = Unseen
      BY <1>5, <2>3 DEF Abandon, TypeOK
    <3> QED
      BY <3>1, SummaryOfNone
  <2> QED
    BY <2>2, <2>3
<1>6. CASE UNCHANGED <<world, reading>>
  BY <1>6, SummariesFrame DEF world, reading
<1> QED
  BY <1>1, <1>2, <1>3, <1>4, <1>5, <1>6, Cases, TypeWrite, TypeRest

(* What a run knows of an address is what the lines it has read say.       *)
THEOREM CollectsSummary == Spec => []CollectedIsSummary
<1>1. Init => AllSummaries
  BY SummaryOfNone DEF Init, AllSummaries
<1> QED
  BY <1>1, CollectStep, TypeCorrect, SummariesSame, PTL DEF Spec

-----------------------------------------------------------------------------
(* Two runs that both found an address agree on which lines are about it,  *)
(* also when only one of them takes addresses that are not global.         *)
LEMMA SameLines ==
  ASSUME TypeOK, AllSummaries, NEW r \in Runs, NEW q \in Runs, NEW a \in Addresses,
         a \in Found(r), a \in Found(q), NEW i \in Nat
  PROVE  (Packaged(r, log[i]) /\ Compressed[log[i].source] = a) <=>
         (Packaged(q, log[i]) /\ Compressed[log[i].source] = a)
<1>1. ASSUME NEW p \in Runs, a \in Found(p)
      PROVE  p \in Lab \/ a \in Global
  <2>1. MineIn(p, log, position[p], a) # {}
    <3>1. /\ sources[p][a].count > 0
          /\ sources[p][a].count = Cardinality(MineIn(p, log, position[p], a))
      BY <1>1 DEF Found, AllSummaries, Summary
    <3> QED
      BY <3>1, FS_EmptySet
  <2> QED
    BY <2>1 DEF MineIn, Packaged
<1> QED
  BY <1>1 DEF Packaged

LEMMA LogTypes ==
  ASSUME TypeOK, NEW r \in Runs
  PROVE  /\ position[r] \in Nat
         /\ \A i \in 1..position[r] : log[i] \in Lines
         /\ \A a \in Addresses : TimesIn(r, log, position[r], a) \subseteq Nat
<1>1. position[r] \in Nat /\ position[r] <= Len(log) /\ Len(log) \in Nat /\ log \in Seq(Lines)
  BY LenProperties DEF TypeOK
<1>2. \A i \in 1..position[r] : log[i] \in Lines
  BY <1>1, ElementOfSeq
<1>3. \A a \in Addresses : TimesIn(r, log, position[r], a) \subseteq Nat
  BY <1>2, TimeOfLine DEF TimesIn, MineIn, Time
<1> QED
  BY <1>1, <1>2, <1>3

(* Of a source with a valid time, first and last are valid times.          *)
LEMMA FirstAndLast ==
  ASSUME TypeOK, AllSummaries, NEW r \in Runs, NEW a \in Addresses,
         TimesIn(r, log, position[r], a) # {} \/ sources[r][a].first # Never
  PROVE  LET times == TimesIn(r, log, position[r], a)
             first == sources[r][a].first
             last == sources[r][a].last
         IN  /\ first \in times /\ last \in times
             /\ first # Never /\ last # Never /\ times \subseteq Nat
             /\ \A t \in times : first <= t /\ t <= last
<1> DEFINE times == TimesIn(r, log, position[r], a)
           first == sources[r][a].first
           last == sources[r][a].last
<1>1. /\ {first, last} \ {Never} \subseteq times
      /\ \A t \in times : first <= t /\ t <= last
      /\ times # {} => first # Never
      /\ times \subseteq Nat
      /\ first \in Time /\ last \in Time
      /\ times # {} \/ first # Never
  <2>1. /\ {first, last} \ {Never} \subseteq times
        /\ \A t \in times : first <= t /\ t <= last
        /\ times # {} => first # Never
    BY Zenon DEF AllSummaries, Summary
  <2>2. sources[r][a] \in Sources
    BY DEF TypeOK
  <2>3. first \in Time /\ last \in Time
    BY <2>2 DEF Sources
  <2> QED
    BY <2>1, <2>3, LogTypes
<1> HIDE DEF times, first, last
<1>2. first # Never /\ first \in times
  BY <1>1
<1>3. last # Never
  BY <1>1, <1>2 DEF Never
<1>4. last \in times
  BY <1>1, <1>3
<1> QED
  BY <1>1, <1>2, <1>3, <1>4 DEF times, first, last

LEMMA Repackaged == TypeOK /\ AllSummaries => RepackagingStable
<1> SUFFICES ASSUME TypeOK, AllSummaries, NEW r \in Runs, NEW q \in Runs, NEW a \in Addresses,
                    Both(r, q, a), position[r] = position[q]
             PROVE  /\ ObservedDataId(r, a) = ObservedDataId(q, a)
                    /\ IndicatorId(r, a) = IndicatorId(q, a)
  BY DEF RepackagingStable
<1> DEFINE times == TimesIn(r, log, position[r], a)
<1>1. MineIn(r, log, position[r], a) = MineIn(q, log, position[q], a)
  BY SameLines DEF MineIn, Both
<1>2. TimesIn(q, log, position[q], a) = times
  BY <1>1 DEF TimesIn
<1>3. /\ sources[r][a].first \in times /\ sources[r][a].last \in times
      /\ sources[r][a].first # Never /\ sources[r][a].last # Never /\ times \subseteq Nat
      /\ \A t \in times : sources[r][a].first <= t /\ t <= sources[r][a].last
  BY FirstAndLast DEF Both
<1> HIDE DEF times
<1>4. times # {}
  BY <1>3
<1>5. /\ sources[q][a].first \in times /\ sources[q][a].last \in times
      /\ sources[q][a].first # Never /\ sources[q][a].last # Never
      /\ \A t \in times : sources[q][a].first <= t /\ t <= sources[q][a].last
  BY <1>2, <1>4, FirstAndLast
<1>6. sources[r][a].first = sources[q][a].first /\ sources[r][a].last = sources[q][a].last
  <2> DEFINE first == sources[r][a].first
             first2 == sources[q][a].first
             last == sources[r][a].last
             last2 == sources[q][a].last
  <2>1. /\ first \in Nat /\ first2 \in Nat /\ last \in Nat /\ last2 \in Nat
        /\ first <= first2 /\ first2 <= first /\ last <= last2 /\ last2 <= last
    BY <1>3, <1>5
  <2> HIDE DEF first, first2, last, last2
  <2>2. first = first2 /\ last = last2
    BY <2>1
  <2> QED
    BY <2>2 DEF first, first2, last, last2
<1> QED
  BY <1>3, <1>5, <1>6 DEF ObservedDataId, IndicatorId, FirstOf, LastOf

(* To package a window again gives every source with a valid time the ids  *)
(* it had.                                                                 *)
THEOREM RepackagingKeepsIds == Spec => []RepackagingStable
<1>1. Init => AllSummaries
  BY SummaryOfNone DEF Init, AllSummaries
<1> QED
  BY <1>1, CollectStep, TypeCorrect, Repackaged, PTL DEF Spec

LEMMA Kept == TypeOK /\ AllSummaries => IndicatorKept
<1> SUFFICES ASSUME TypeOK, AllSummaries, NEW r \in Runs, NEW q \in Runs, NEW a \in Addresses,
                    Both(r, q, a), position[r] <= position[q], InTimeOrder(position[q])
             PROVE  IndicatorId(r, a) = IndicatorId(q, a)
  BY DEF IndicatorKept
<1> DEFINE n == position[r]
           m == position[q]
           old == TimesIn(r, log, n, a)
           all == TimesIn(q, log, m, a)
<1>1. n \in Nat /\ m \in Nat /\ n <= m
  BY LogTypes
<1>2. \A i \in 1..n : i \in MineIn(r, log, n, a) <=> i \in MineIn(q, log, m, a)
  BY <1>1, SameLines DEF MineIn, Both
<1>3. /\ sources[r][a].first \in old /\ sources[r][a].first # Never /\ old \subseteq Nat
      /\ \A t \in old : sources[r][a].first <= t
  BY FirstAndLast DEF Both
<1>4. old \subseteq all
  BY <1>1, <1>2 DEF TimesIn, MineIn
<1>5. all # {}
  BY <1>3, <1>4
<1>6. /\ sources[q][a].first \in all /\ sources[q][a].first # Never /\ all \subseteq Nat
      /\ \A t \in all : sources[q][a].first <= t
  BY <1>5, FirstAndLast
<1>7. sources[r][a].first <= sources[q][a].first
  <2>1. PICK j \in MineIn(q, log, m, a) :
          sources[q][a].first = StixTime(log[j].time)
    BY <1>6 DEF TimesIn
  <2>2. PICK i \in MineIn(r, log, n, a) :
          sources[r][a].first = StixTime(log[i].time)
    BY <1>3 DEF TimesIn
  <2>3. j \in 1..m /\ i \in 1..n
    BY DEF MineIn
  <2>4. CASE j \in 1..n
    <3>1. sources[q][a].first \in old
      BY <1>2, <1>6, <2>1, <2>4 DEF TimesIn
    <3> QED
      BY <1>3, <3>1
  <2>5. CASE j \notin 1..n
    <3>1. i < j /\ i \in 1..m
      BY <1>1, <2>3, <2>5
    <3>2. log[j].time # Never
      <4>1. log[j] \in Lines
        BY <2>3, LogTypes
      <4> QED
        BY <1>6, <2>1, <4>1, TimeOfLine
    <3> QED
      BY <2>1, <2>2, <2>3, <3>1, <3>2 DEF InTimeOrder
  <2> QED
    BY <2>4, <2>5
<1>8. sources[r][a].first = sources[q][a].first
  <2>1. sources[q][a].first <= sources[r][a].first
    BY <1>3, <1>4, <1>6
  <2>2. sources[r][a].first \in Nat /\ sources[q][a].first \in Nat
    BY <1>3, <1>6
  <2> QED
    BY <1>7, <2>1, <2>2
<1> QED
  BY <1>3, <1>8 DEF IndicatorId, FirstOf

(* A source that was seen at a valid time keeps its indicator while the    *)
(* log grows in the order of time.                                         *)
THEOREM IndicatorsKept == Spec => []IndicatorKept
<1>1. Init => AllSummaries
  BY SummaryOfNone DEF Init, AllSummaries
<1> QED
  BY <1>1, CollectStep, TypeCorrect, Kept, PTL DEF Spec

-----------------------------------------------------------------------------
(* Whose files are where: a file has the stamp of the run that created it, *)
(* under either name and for every run that has it open.                   *)
After == {"open", "written", "moved", "done", "failed"}
Owned(f, t) == f \in Runs /\ now[f] = t /\ stage[f] \in After

FilesOwned ==
  /\ \A t \in Stamps : partial[t] # None => Owned(partial[t], t)
  /\ \A t \in Stamps : published[t] # None => Owned(published[t], t)
  /\ \A r \in Runs : fd[r] # None => Owned(fd[r], now[r]) /\ stage[r] \in After
  /\ \A r \in Runs : stage[r] \in {"open", "written"} => fd[r] # None

(* How far a run with a stamp of its own has come with its file.           *)
WholeAt(r) ==
  Started(r) /\ Alone(r) =>
    /\ stage[r] = "open" => partial[now[r]] = r /\ published[now[r]] = None
    /\ stage[r] = "written" =>
         partial[now[r]] = r /\ published[now[r]] = None /\ content[r] = Bundle(r)
    /\ stage[r] \in {"moved", "done", "failed"} /\ published[now[r]] # None =>
         content[r] = Bundle(r)

Publishing == FilesOwned /\ \A r \in Runs : WholeAt(r)

(* The only file with the stamp of a lone run is its own.                  *)
LEMMA LoneFile ==
  ASSUME TypeOK, FilesOwned, NEW r \in Runs, Started(r), Alone(r),
         NEW f \in Runs, NEW t, t = now[r], Owned(f, t)
  PROVE  f = r
BY DEF Owned, Alone, Started, After

LEMMA PublishedFollows == TypeOK /\ Publishing => PublishedWhole
<1> SUFFICES ASSUME TypeOK, Publishing, NEW r \in Runs, Started(r), Alone(r),
                    published[now[r]] # None
             PROVE  /\ content[published[now[r]]] = Bundle(r)
                    /\ stage[r] \in {"moved", "done", "failed"}
  BY DEF PublishedWhole
<1>1. now[r] \in Stamps /\ Owned(published[now[r]], now[r])
  BY DEF Publishing, FilesOwned, TypeOK
<1>2. published[now[r]] = r /\ stage[r] \in After
  BY <1>1, LoneFile DEF Publishing, Owned
<1>3. stage[r] \in {"moved", "done", "failed"}
  BY <1>2 DEF Publishing, WholeAt, After
<1> QED
  BY <1>2, <1>3 DEF Publishing, WholeAt

-----------------------------------------------------------------------------
(* A run goes forward, and keeps its stamp from its start.                 *)
LEMMA Onward ==
  ASSUME TypeOK, [Next]_vars, NEW r \in Runs
  PROVE  /\ stage[r] \in After => stage'[r] \in After
         /\ Started(r) => stage'[r] # "idle" /\ now'[r] = now[r]
<1>1. CASE LogLine \/ Advance
  BY <1>1 DEF LogLine, Advance, reading, Started
<1>2. ASSUME NEW q \in Runs,
             \/ Start(q) \/ EndOfInput(q) \/ SkipLine(q) \/ ObserveLine(q) \/ Abandon(q)
      PROVE  /\ stage[r] \in After => stage'[r] \in After
             /\ Started(r) => stage'[r] # "idle" /\ now'[r] = now[r]
  BY <1>2 DEF Start, EndOfInput, SkipLine, ObserveLine, ReadLine, Abandon, Goto, reading,
              Started, After, TypeOK
<1>3. ASSUME NEW q \in Runs, Writes(q) \/ (Crash(q) /\ ~Abandon(q))
      PROVE  /\ stage[r] \in After => stage'[r] \in After
             /\ Started(r) => stage'[r] # "idle" /\ now'[r] = now[r]
  BY <1>3 DEF Writes, WriteStdout, OpenPartial, WriteText, Replace, ReplaceFails, Chmod, Crash,
              Goto, reading, Started, After, TypeOK
<1>4. CASE (\E t \in Stamps : Collect(t)) \/ UNCHANGED vars
  BY <1>4 DEF Collect, vars, reading, Started
<1> QED
  BY <1>1, <1>2, <1>3, <1>4, Cases

\* Ownership in the next state, of values of this one.
OwnedNext(f, t) == f \in Runs /\ now'[f] = t /\ stage'[f] \in After

LEMMA OwnedOnward ==
  ASSUME TypeOK, [Next]_vars, NEW f, NEW t, Owned(f, t)
  PROVE  OwnedNext(f, t)
BY Onward DEF Owned, OwnedNext, Started, After

(* Loneliness is only ever lost.                                           *)
LEMMA AloneBefore ==
  ASSUME TypeOK, [Next]_vars, NEW r \in Runs, Started(r), Alone(r)'
  PROVE  Alone(r)
<1> SUFFICES ASSUME NEW q \in Runs \ {r}, Started(q) PROVE now[q] # now[r]
  BY DEF Alone
<1>1. Started(q)' /\ now'[q] = now[q] /\ now'[r] = now[r]
  BY Onward DEF Started
<1> QED
  BY <1>1 DEF Alone

(* The bundle of a run that has read its input is settled.                 *)
LEMMA BundleFrame ==
  ASSUME NEW r \in Runs, sources'[r] = sources[r], now'[r] = now[r]
  PROVE  Bundle(r)' = Bundle(r)
<1>1. Found(r)' = Found(r)
  BY FoundFrame
<1>2. \A a \in Addresses : Object(r, a)' = Object(r, a)
  BY DEF Object, ObservedDataId, IndicatorId, FirstOf, LastOf
<1> QED
  BY <1>1, <1>2 DEF Bundle, Found

LEMMA BundleSettled ==
  ASSUME TypeOK, [Next]_vars, NEW r \in Runs, stage[r] \in After
  PROVE  Bundle(r)' = Bundle(r)
<1>1. now'[r] = now[r]
  BY Onward DEF Started, After
<1>2. sources'[r] = sources[r]
  <2>1. CASE LogLine \/ Advance
    BY <2>1 DEF LogLine, Advance, reading
  <2>2. ASSUME NEW q \in Runs, Start(q) \/ EndOfInput(q) \/ SkipLine(q)
        PROVE  sources'[r] = sources[r]
    BY <2>2 DEF Start, EndOfInput, SkipLine, reading
  <2>3. ASSUME NEW q \in Runs, ObserveLine(q) \/ Abandon(q)
        PROVE  sources'[r] = sources[r]
    <3>1. q # r
      BY <2>3 DEF ObserveLine, HasLine, Abandon, Goto, After
    <3> QED
      BY <2>3, <3>1, ObservedSources DEF Abandon, TypeOK
  <2>4. CASE UNCHANGED <<world, reading>>
    BY <2>4 DEF reading
  <2> QED
    BY <2>1, <2>2, <2>3, <2>4, Cases, TypeWrite, TypeRest
<1> QED
  BY <1>1, <1>2, BundleFrame

-----------------------------------------------------------------------------
(* A step keeps the ownership of files if every name it sets is owned.     *)
LEMMA FilesOwnedFrom ==
  ASSUME TypeOK, FilesOwned, [Next]_vars,
         \A t \in Stamps :
           partial'[t] # None => partial'[t] = partial[t] \/ OwnedNext(partial'[t], t),
         \A t \in Stamps :
           published'[t] # None => published'[t] = published[t] \/ OwnedNext(published'[t], t),
         \A r \in Runs : fd'[r] # None =>
           fd'[r] = fd[r] \/ (OwnedNext(fd'[r], now'[r]) /\ stage'[r] \in After),
         \A r \in Runs : stage'[r] \in {"open", "written"} => fd'[r] # None
  PROVE  FilesOwned'
<1>1. \A t \in Stamps : partial'[t] # None => OwnedNext(partial'[t], t)
  BY OwnedOnward DEF FilesOwned
<1>2. \A t \in Stamps : published'[t] # None => OwnedNext(published'[t], t)
  BY OwnedOnward DEF FilesOwned
<1>3. ASSUME NEW r \in Runs, fd'[r] # None
      PROVE  OwnedNext(fd'[r], now'[r]) /\ stage'[r] \in After
  <2>1. CASE fd'[r] = fd[r]
    <3>1. Owned(fd[r], now[r]) /\ stage[r] \in After
      BY <1>3, <2>1 DEF FilesOwned
    <3>2. now'[r] = now[r] /\ stage'[r] \in After
      BY <3>1, Onward DEF Started, After
    <3> QED
      BY <2>1, <3>1, <3>2, OwnedOnward
  <2> QED
    BY <1>3, <2>1
<1> QED
  BY <1>1, <1>2, <1>3 DEF FilesOwned, OwnedNext, Owned

LEMMA FilesOwnedStep == TypeOK /\ FilesOwned /\ [Next]_vars => FilesOwned'
<1> SUFFICES ASSUME TypeOK, FilesOwned, [Next]_vars PROVE FilesOwned'
  OBVIOUS
<1>1. ASSUME UNCHANGED files,
             \A r \in Runs : stage'[r] \in {"open", "written"} => stage'[r] = stage[r]
      PROVE  FilesOwned'
  BY <1>1, FilesOwnedFrom DEF files, FilesOwned
<1>2. CASE LogLine \/ Advance \/ UNCHANGED vars
  BY <1>1, <1>2 DEF LogLine, Advance, vars
<1>3. ASSUME NEW q \in Runs,
             \/ Start(q) \/ EndOfInput(q) \/ SkipLine(q) \/ ObserveLine(q) \/ Abandon(q)
             \/ WriteStdout(q) \/ ReplaceFails(q) \/ Chmod(q) \/ (Crash(q) /\ ~Abandon(q))
      PROVE  FilesOwned'
  BY <1>1, <1>3 DEF Start, EndOfInput, SkipLine, ObserveLine, ReadLine, Abandon, WriteStdout,
                    ReplaceFails, Chmod, Crash, Goto, TypeOK
<1>4. ASSUME NEW q \in Runs, OpenPartial(q)
      PROVE  FilesOwned'
  <2> DEFINE file == IF partial[now[q]] = None THEN q ELSE partial[now[q]]
  <2>1. /\ stage[q] = "built" /\ stage' = [stage EXCEPT ![q] = "open"]
        /\ fd' = [fd EXCEPT ![q] = file]
        /\ partial' = [partial EXCEPT ![now[q]] = file]
        /\ published' = published /\ now' = now /\ now[q] \in Stamps
    BY <1>4 DEF OpenPartial, Goto, reading, TypeOK
  <2>2. OwnedNext(q, now[q]) /\ stage'[q] \in After
    BY <2>1 DEF OwnedNext, After, TypeOK
  <2>3. partial[now[q]] # None => Owned(partial[now[q]], now[q])
    BY <2>1 DEF FilesOwned
  <2>4. OwnedNext(file, now[q]) /\ file \in Runs /\ file # None
    BY <2>1, <2>2, <2>3, OwnedOnward, PackagerAssumption DEF OwnedNext
  <2> HIDE DEF file
  <2>5. \A t \in Stamps :
          partial'[t] # None => partial'[t] = partial[t] \/ OwnedNext(partial'[t], t)
    BY <2>1, <2>4 DEF TypeOK
  <2>6. \A r \in Runs : fd'[r] # None =>
          fd'[r] = fd[r] \/ (OwnedNext(fd'[r], now'[r]) /\ stage'[r] \in After)
    BY <2>1, <2>2, <2>4 DEF TypeOK
  <2>7. \A r \in Runs : stage'[r] \in {"open", "written"} => fd'[r] # None
    BY <2>1, <2>4 DEF TypeOK, FilesOwned
  <2> QED
    BY <2>1, <2>5, <2>6, <2>7, FilesOwnedFrom
<1>5. ASSUME NEW q \in Runs, WriteText(q)
      PROVE  FilesOwned'
  <2>1. partial' = partial /\ published' = published /\ fd' = fd
    BY <1>5 DEF WriteText
  <2>2. \A r \in Runs : stage'[r] \in {"open", "written"} => fd'[r] # None
    BY <1>5, <2>1 DEF WriteText, Goto, TypeOK, FilesOwned
  <2> QED
    BY <2>1, <2>2, FilesOwnedFrom
<1>6. ASSUME NEW q \in Runs, Replace(q)
      PROVE  FilesOwned'
  <2>1. /\ partial[now[q]] # None /\ stage' = [stage EXCEPT ![q] = "moved"]
        /\ published' = [published EXCEPT ![now[q]] = partial[now[q]]]
        /\ partial' = [partial EXCEPT ![now[q]] = None]
        /\ fd' = fd /\ now' = now /\ now[q] \in Stamps
    BY <1>6 DEF Replace, Goto, reading, TypeOK
  <2>2. Owned(partial[now[q]], now[q])
    BY <2>1 DEF FilesOwned
  <2>3. \A t \in Stamps :
          published'[t] # None => published'[t] = published[t] \/ OwnedNext(published'[t], t)
    BY <2>1, <2>2, OwnedOnward DEF TypeOK
  <2>4. \A t \in Stamps :
          partial'[t] # None => partial'[t] = partial[t] \/ OwnedNext(partial'[t], t)
    BY <2>1 DEF TypeOK
  <2>5. \A r \in Runs : stage'[r] \in {"open", "written"} => fd'[r] # None
    BY <2>1 DEF TypeOK, FilesOwned
  <2> QED
    BY <2>1, <2>3, <2>4, <2>5, FilesOwnedFrom
<1>7. ASSUME NEW t \in Stamps, Collect(t)
      PROVE  FilesOwned'
  <2>1. /\ partial' = partial /\ fd' = fd /\ stage' = stage
        /\ published' = [published EXCEPT ![t] = None]
    BY <1>7 DEF Collect
  <2>2. \A u \in Stamps : published'[u] # None => published'[u] = published[u]
    BY <2>1 DEF TypeOK
  <2> QED
    BY <2>1, <2>2, FilesOwnedFrom DEF FilesOwned
<1> QED
  BY <1>2, <1>3, <1>4, <1>5, <1>6, <1>7, Cases DEF Writes

(* What the steps of others leave alone of a lone run and its file.        *)
Untouched(r) ==
  /\ stage'[r] = stage[r] /\ content'[r] = content[r]
  /\ partial'[now[r]] = partial[now[r]]
  /\ published'[now[r]] \in {published[now[r]], None}

LEMMA WholeUntouched ==
  ASSUME TypeOK, [Next]_vars, NEW r \in Runs, Started(r), Alone(r), WholeAt(r), Untouched(r)
  PROVE  WholeAt(r)'
<1>1. now'[r] = now[r]
  BY Onward
<1>2. stage[r] \in After => Bundle(r)' = Bundle(r)
  BY BundleSettled
<1> QED
  BY <1>1, <1>2 DEF WholeAt, Untouched, After

LEMMA OthersLeaveAlone ==
  ASSUME TypeOK, FilesOwned, NEW r \in Runs, Started(r), Alone(r),
         NEW q \in Runs, q # r,
         \/ Start(q) \/ EndOfInput(q) \/ SkipLine(q) \/ ObserveLine(q) \/ Abandon(q)
         \/ Writes(q) \/ (Crash(q) /\ ~Abandon(q))
  PROVE  Untouched(r)
<1>1. stage'[r] = stage[r]
  BY DEF Start, EndOfInput, SkipLine, ObserveLine, ReadLine, Abandon, Writes, WriteStdout,
         OpenPartial, WriteText, Replace, ReplaceFails, Chmod, Crash, Goto, TypeOK
<1>2. ASSUME Started(q) PROVE now[q] # now[r]
  BY <1>2 DEF Alone
<1>3. ASSUME NEW f, Owned(f, now[q]), Started(q) PROVE f # r
  BY <1>2, <1>3 DEF Owned
<1>4. now[q] \in Stamps /\ now[r] \in Stamps
  BY DEF TypeOK
<1>5. CASE UNCHANGED files
  BY <1>1, <1>5 DEF files, Untouched
<1>6. CASE OpenPartial(q)
  <2> DEFINE file == IF partial[now[q]] = None THEN q ELSE partial[now[q]]
  <2>1. /\ partial' = [partial EXCEPT ![now[q]] = file]
        /\ content' = [content EXCEPT ![file] = Half]
        /\ published' = published /\ Started(q)
    BY <1>6 DEF OpenPartial, Goto, Started
  <2>2. file # r
    BY <1>3, <1>4, <2>1 DEF FilesOwned
  <2> HIDE DEF file
  <2> QED
    BY <1>1, <1>2, <1>4, <2>1, <2>2 DEF Untouched, TypeOK
<1>7. CASE WriteText(q)
  <2>1. stage[q] = "open" /\ Started(q) /\ partial' = partial /\ published' = published
    BY <1>7 DEF WriteText, Goto, Started
  <2>2. fd[q] # r
    BY <1>3, <2>1 DEF FilesOwned
  <2>3. content'[r] = content[r]
    BY <1>7, <2>2 DEF WriteText, TypeOK
  <2> QED
    BY <1>1, <2>1, <2>3 DEF Untouched
<1>8. CASE Replace(q)
  <2>1. Started(q)
    BY <1>8 DEF Replace, Goto, Started
  <2> QED
    BY <1>1, <1>2, <1>4, <1>8, <2>1 DEF Replace, Untouched, TypeOK
<1> QED
  BY <1>5, <1>6, <1>7, <1>8 DEF Start, EndOfInput, SkipLine, ObserveLine, ReadLine,
     Abandon, Writes, WriteStdout, ReplaceFails, Chmod, Crash

(* Before it opens a file, no file with the stamp of a lone run exists.    *)
LEMMA NoFileYet ==
  ASSUME TypeOK, FilesOwned, NEW r \in Runs, Started(r), Alone(r), stage[r] \notin After
  PROVE  partial[now[r]] = None /\ published[now[r]] = None
<1>1. now[r] \in Stamps
  BY DEF TypeOK
<1>2. \A f \in Runs : ~Owned(f, now[r])
  BY LoneFile DEF Owned
<1> QED
  BY <1>1, <1>2 DEF FilesOwned, Owned

LEMMA WholeOwnStep ==
  ASSUME TypeOK, FilesOwned, [Next]_vars, NEW r \in Runs, Started(r), Alone(r), WholeAt(r),
         \/ EndOfInput(r) \/ SkipLine(r) \/ ObserveLine(r) \/ Abandon(r)
         \/ Writes(r) \/ (Crash(r) /\ ~Abandon(r))
  PROVE  WholeAt(r)'
<1>1. now'[r] = now[r] /\ now[r] \in Stamps
  BY Onward DEF TypeOK
<1>2. stage[r] \in After => Bundle(r)' = Bundle(r)
  BY BundleSettled
<1>3. CASE EndOfInput(r) \/ SkipLine(r) \/ ObserveLine(r)
  <2>1. stage'[r] \in {"reading", "built"}
    BY <1>3 DEF EndOfInput, SkipLine, ObserveLine, ReadLine, HasLine, Goto, TypeOK
  <2> QED
    BY <2>1 DEF WholeAt
<1>4. CASE Abandon(r) \/ WriteStdout(r)
  <2>1. /\ stage[r] \notin After /\ stage'[r] \in {"failed", "done"}
        /\ published' = published
    BY <1>4 DEF Abandon, WriteStdout, Goto, After, files, TypeOK
  <2>2. published[now[r]] = None
    BY <2>1, NoFileYet
  <2> QED
    BY <1>1, <2>1, <2>2 DEF WholeAt
<1>5. CASE OpenPartial(r)
  <2>1. stage[r] = "built" /\ stage'[r] = "open" /\ published' = published
    BY <1>5 DEF OpenPartial, Goto, TypeOK
  <2>2. partial[now[r]] = None /\ published[now[r]] = None
    BY <2>1, NoFileYet DEF After
  <2>3. partial'[now[r]] = r
    BY <1>1, <1>5, <2>2 DEF OpenPartial, TypeOK
  <2> QED
    BY <1>1, <2>1, <2>2, <2>3 DEF WholeAt
<1>6. CASE WriteText(r)
  <2>1. /\ stage[r] = "open" /\ stage'[r] = "written"
        /\ partial' = partial /\ published' = published
    BY <1>6 DEF WriteText, Goto, TypeOK
  <2>2. fd[r] # None /\ Owned(fd[r], now[r])
    BY <2>1 DEF FilesOwned
  <2>3. fd[r] = r
    BY <2>2, LoneFile DEF Owned
  <2>4. \A q \in Runs \ {r} : fd[q] # fd[r]
    BY <2>2, <2>3 DEF FilesOwned, Owned, Alone, Started, After
  <2>5. content'[r] = Bundle(r)
    BY <1>6, <2>3, <2>4 DEF WriteText, TypeOK
  <2> QED
    BY <1>1, <1>2, <2>1, <2>5 DEF WholeAt, After
<1>7. CASE Replace(r)
  <2>1. /\ stage[r] = "written" /\ stage'[r] = "moved" /\ content' = content
    BY <1>7 DEF Replace, Goto, TypeOK
  <2> QED
    BY <1>1, <1>2, <2>1 DEF WholeAt, After
<1>8. CASE ReplaceFails(r)
  <2>1. partial[now[r]] = None /\ stage[r] = "written"
    BY <1>8 DEF ReplaceFails, Goto
  <2> QED
    BY <2>1, PackagerAssumption DEF WholeAt
<1>9. CASE Chmod(r)
  <2>1. /\ stage[r] = "moved" /\ stage'[r] \in {"failed", "done"}
        /\ content' = content /\ published' = published
    BY <1>9 DEF Chmod, Goto, files, TypeOK
  <2> QED
    BY <1>1, <1>2, <2>1 DEF WholeAt, After
<1>10. CASE Crash(r) /\ ~Abandon(r)
  <2>1. /\ stage[r] \in {"built", "open", "written", "moved"} /\ stage'[r] = "failed"
        /\ content' = content /\ published' = published
    BY <1>10 DEF Crash, files, TypeOK
  <2>2. CASE stage[r] = "built"
    <3>1. published[now[r]] = None
      BY <2>2, NoFileYet DEF After
    <3> QED
      BY <1>1, <2>1, <3>1 DEF WholeAt
  <2>3. CASE stage[r] # "built"
    BY <1>1, <1>2, <2>1, <2>3 DEF WholeAt, After
  <2> QED
    BY <2>2, <2>3
<1> QED
  BY <1>3, <1>4, <1>5, <1>6, <1>7, <1>8, <1>9, <1>10 DEF Writes

LEMMA PublishingStep == TypeOK /\ Publishing /\ [Next]_vars => Publishing'
<1> SUFFICES ASSUME TypeOK, Publishing, [Next]_vars, NEW r \in Runs,
                    Started(r)', Alone(r)'
             PROVE  WholeAt(r)'
  BY FilesOwnedStep DEF Publishing, WholeAt
<1>1. FilesOwned /\ WholeAt(r)
  BY DEF Publishing
<1>2. CASE ~Started(r)
  <2>1. stage[r] = "idle" /\ stage'[r] # "idle"
    BY <1>2 DEF Started
  <2>2. stage'[r] = "reading"
    BY <2>1, Cases DEF LogLine, Advance, Start, EndOfInput, SkipLine, ObserveLine,
       ReadLine, Abandon, Writes, WriteStdout, OpenPartial, WriteText, Replace, ReplaceFails,
       Chmod, Crash, Collect, Goto, vars, TypeOK
  <2> QED
    BY <2>2 DEF WholeAt
<1>3. CASE Started(r)
  <2>1. Alone(r)
    BY <1>3, AloneBefore
  <2>2. CASE LogLine \/ Advance \/ UNCHANGED vars \/ \E t \in Stamps : Collect(t)
    <3>1. Untouched(r)
      BY <2>2 DEF LogLine, Advance, vars, files, Collect, Untouched, TypeOK
    <3> QED
      BY <1>1, <1>3, <2>1, <3>1, WholeUntouched
  <2>3. ASSUME NEW q \in Runs, q # r,
               \/ Start(q) \/ EndOfInput(q) \/ SkipLine(q) \/ ObserveLine(q) \/ Abandon(q)
               \/ Writes(q) \/ (Crash(q) /\ ~Abandon(q))
        PROVE  WholeAt(r)'
    <3>1. Untouched(r)
      BY <1>1, <1>3, <2>1, <2>3, OthersLeaveAlone
    <3> QED
      BY <1>1, <1>3, <2>1, <3>1, WholeUntouched
  <2>4. ~Start(r)
    BY <1>3 DEF Start, Goto, Started
  <2> QED
    BY <1>1, <1>3, <2>1, <2>2, <2>3, <2>4, WholeOwnStep, Cases
<1> QED
  BY <1>2, <1>3

(* Wherever runs are killed, a collector sees only whole bundles, each     *)
(* under the stamp of the run that built it.                               *)
THEOREM PublishesWhole == Spec => []PublishedWhole
<1>1. Init => Publishing
  BY DEF Init, Publishing, FilesOwned, WholeAt, Started
<1> QED
  BY <1>1, PublishingStep, PublishedFollows, TypeCorrect, PTL DEF Spec
=============================================================================
