------------------------------ MODULE StixBundle ------------------------------
(***************************************************************************)
(* tools/build_stix_bundle.py: runs of the packager, each of which reads   *)
(* the event log line by line (collect, Source.observe), builds a bundle   *)
(* (build_bundle) and drops it into a directory (write_bundle).  The log   *)
(* grows while runs read it, a run may be killed between any two of its    *)
(* steps, and a collector may take a bundle away as soon as it is there.   *)
(*                                                                         *)
(* Times are integers, the clock's in milliseconds.  An id derived from a  *)
(* seed is the seed.  The directory maps names to files, so that a file    *)
(* stays open under a run that is writing it when it is renamed; a name is *)
(* the time stamp in it.                                                   *)
(***************************************************************************)
EXTENDS Integers, Sequences, FiniteSets

CONSTANTS
  Runs,              \* runs of the packager
  Lab,               \* those with --include-non-global
  Lines,             \* the lines a log may hold
  Compressed,        \* address.compressed of every spelling that parses
  Global,            \* the addresses that are is_global
  PerMilli,          \* parts of a millisecond in an event's time
  MaxEvents, MaxSources,   \* MAX_EVENTS, MAX_SOURCES
  MaxNumber,         \* the largest number_observed
  None,
  MaxLines, MaxClock \* bounds of the model: the log and the clock

Never == -1          \* no valid observed_at
NoCode == -1         \* no integer function_code
Half == None         \* a file that does not hold one whole bundle

Addresses == {Compressed[s] : s \in DOMAIN Compressed}
Stamps == 0..MaxClock

ASSUME PackagerAssumption ==
  /\ IsFiniteSet(Runs) /\ Lab \subseteq Runs /\ None \notin Runs
  /\ IsFiniteSet(Addresses) /\ Global \subseteq Addresses
  /\ PerMilli \in Nat \ {0} /\ MaxNumber \in Nat
  /\ MaxEvents \in Nat /\ MaxSources \in Nat
  /\ MaxLines \in Nat /\ MaxClock \in Nat
  /\ \A line \in Lines :
       /\ line.event \in BOOLEAN  \* short enough, and parse_event takes it
       /\ line.time \in Nat \cup {Never} /\ line.code \in Nat \cup {NoCode}
       /\ line.write \in BOOLEAN

VARIABLES
  log, clock,
  stage,             \* where a run is
  now,               \* the time a run took before it read anything
  position, seen,    \* lines read, seen_events
  sources,           \* of every address its Source; count 0 stands for none
  fd,                \* the file a run writes to
  partial, published,\* the directory: *.stix.partial and *.stix.json
  content            \* what a file holds; files have the names of their creators

world == <<log, clock>>
reading == <<now, position, seen, sources>>
files == <<fd, partial, published, content>>
vars == <<world, stage, reading, files>>

Unseen == [count |-> 0, first |-> Never, last |-> Never, codes |-> {}, wrote |-> FALSE]

Init ==
  /\ log = <<>> /\ clock = 0
  /\ stage = [r \in Runs |-> "idle"]
  /\ now = [r \in Runs |-> 0]
  /\ position = [r \in Runs |-> 0]
  /\ seen = [r \in Runs |-> 0]
  /\ sources = [r \in Runs |-> [a \in Addresses |-> Unseen]]
  /\ fd = [r \in Runs |-> None]
  /\ partial = [t \in Stamps |-> None]
  /\ published = [t \in Stamps |-> None]
  /\ content = [r \in Runs |-> Half]

(* The pot, and whatever else writes to the stream that is packaged; every *)
(* event has an id of its own.  Lines that no run will read are left out.  *)
LogLine ==
  /\ Len(log) < MaxLines
  /\ \E r \in Runs : stage[r] \in {"idle", "reading"}
  /\ \E line \in Lines \ {log[i] : i \in DOMAIN log} : log' = Append(log, line)
  /\ UNCHANGED <<clock, stage, reading, files>>

Advance ==
  /\ clock < MaxClock
  /\ \E r \in Runs : stage[r] = "idle"
  /\ clock' = clock + 1
  /\ UNCHANGED <<log, stage, reading, files>>

Goto(r, from, to) == stage[r] = from /\ stage' = [stage EXCEPT ![r] = to]

-----------------------------------------------------------------------------
(* _stix_time, to the millisecond, and first and last of what was seen.    *)
StixTime(time) == IF time = Never THEN Never ELSE time \div PerMilli
Earlier(first, t) == IF first = Never \/ (t # Never /\ t < first) THEN t ELSE first
LaterLast(last, t) == IF t = Never THEN last ELSE t  \* faulty variant: no max
Later(last, t) == IF t > last THEN t ELSE last

(* Source.observe.                                                         *)
Observed(source, line) ==
  [count |-> source.count + 1,
   first |-> Earlier(source.first, StixTime(line.time)),
   last |-> Later(source.last, StixTime(line.time)),
   codes |-> source.codes \cup ({line.code} \ {NoCode}),
   wrote |-> source.wrote \/ line.write]

(* main takes the time, then reads the input.                              *)
Start(r) ==
  /\ Goto(r, "idle", "reading")
  /\ now' = [now EXCEPT ![r] = clock]
  /\ UNCHANGED <<world, position, seen, sources, files>>

HasLine(r) == stage[r] = "reading" /\ position[r] < Len(log)
Line(r) == log[position[r] + 1]
TooManyEvents(r) == Line(r).event /\ seen[r] >= MaxEvents

(* A source_ip that parses, and that is global unless the lab asked.       *)
Packaged(r, line) ==
  /\ line.event
  /\ line.source \in DOMAIN Compressed
  /\ r \in Lab \/ Compressed[line.source] \in Global
Found(r) == {a \in Addresses : sources[r][a].count > 0}
Key(r) == Compressed[Line(r).source]
TooManySourcesOffByOne(r) ==  \* faulty variant: more than the bound
  Key(r) \notin Found(r) /\ Cardinality(Found(r)) > MaxSources
TooManySources(r) == Key(r) \notin Found(r) /\ Cardinality(Found(r)) >= MaxSources

ReadLine(r) ==
  /\ position' = [position EXCEPT ![r] = @ + 1]
  /\ seen' = [seen EXCEPT ![r] = IF Line(r).event THEN @ + 1 ELSE @]
  /\ UNCHANGED <<world, stage, now, files>>

SkipLine(r) ==
  /\ HasLine(r)
  /\ ~TooManyEvents(r)
  /\ ~Packaged(r, Line(r))
  /\ ReadLine(r)
  /\ UNCHANGED sources

ObserveLine(r) ==
  /\ HasLine(r)
  /\ ~TooManyEvents(r)
  /\ Packaged(r, Line(r)) /\ ~TooManySources(r)
  /\ ReadLine(r)
  /\ sources' = [sources EXCEPT ![r][Key(r)] = Observed(@, Line(r))]

(* A run that ends while it reads leaves nothing behind.                   *)
Abandon(r) ==
  /\ Goto(r, "reading", "failed")
  /\ position' = [position EXCEPT ![r] = 0]
  /\ seen' = [seen EXCEPT ![r] = 0]
  /\ sources' = [sources EXCEPT ![r] = [a \in Addresses |-> Unseen]]
  /\ UNCHANGED <<world, now, files>>

(* A bound that is exceeded raises: there will be no bundle.               *)
Raise(r) ==
  /\ HasLine(r)
  /\ TooManyEvents(r) \/ (Packaged(r, Line(r)) /\ TooManySources(r))
  /\ Abandon(r)

EndOfInput(r) ==
  /\ position[r] = Len(log)
  /\ Goto(r, "reading", "built")
  /\ UNCHANGED <<world, reading, files>>

-----------------------------------------------------------------------------
(* build_bundle: the objects of a source, with their ids.                  *)
FirstOfAlwaysNow(r, a) == now[r]  \* faulty variant: the time of packaging
FirstOf(r, a) ==
  IF sources[r][a].first = Never THEN now[r] ELSE sources[r][a].first
LastOf(r, a) ==
  IF sources[r][a].last = Never THEN FirstOf(r, a) ELSE sources[r][a].last
ObservedDataId(r, a) == <<a, FirstOf(r, a), LastOf(r, a)>>
IndicatorIdOfLast(r, a) == <<a, LastOf(r, a)>>  \* faulty variant: the wrong end
IndicatorId(r, a) == <<a, FirstOf(r, a)>>

Object(r, a) ==
  [observed_data |-> ObservedDataId(r, a), indicator |-> IndicatorId(r, a),
   number_observed |->
     IF sources[r][a].count < MaxNumber THEN sources[r][a].count ELSE MaxNumber,
   codes |-> sources[r][a].codes, attempted_write |-> sources[r][a].wrote]
Bundle(r) == [id |-> now[r], objects |-> {Object(r, a) : a \in Found(r)}]

(* Without --output-dir the bundle goes to stdout.                         *)
WriteStdout(r) ==
  /\ Goto(r, "built", "done")
  /\ UNCHANGED <<world, reading, files>>

\* Faulty variant: the bundle is written under its final name.
OpenInPlace(r) ==
  /\ Goto(r, "built", "open")
  /\ fd' = [fd EXCEPT ![r] = r]
  /\ published' = [published EXCEPT ![now[r]] = r]
  /\ content' = [content EXCEPT ![r] = Half]
  /\ UNCHANGED <<world, reading, partial>>

(* write_text opens the temporary file, and empties one that is there.     *)
OpenPartial(r) ==
  LET file == IF partial[now[r]] = None THEN r ELSE partial[now[r]]
  IN  /\ Goto(r, "built", "open")
      /\ fd' = [fd EXCEPT ![r] = file]
      /\ partial' = [partial EXCEPT ![now[r]] = file]
      /\ content' = [content EXCEPT ![file] = Half]
      /\ UNCHANGED <<world, reading, published>>

(* Two runs that write to one file may leave a mixture.                    *)
WriteText(r) ==
  /\ Goto(r, "open", "written")
  /\ \/ content' = [content EXCEPT ![fd[r]] = Bundle(r)]
     \/ /\ \E q \in Runs \ {r} : fd[q] = fd[r]
        /\ content' = [content EXCEPT ![fd[r]] = Half]
  /\ UNCHANGED <<world, reading, fd, partial, published>>

(* os.replace, which raises when another run has moved the file away.      *)
Replace(r) ==
  /\ partial[now[r]] # None
  /\ Goto(r, "written", "moved")
  /\ published' = [published EXCEPT ![now[r]] = partial[now[r]]]
  /\ partial' = [partial EXCEPT ![now[r]] = None]
  /\ UNCHANGED <<world, reading, fd, content>>

ReplaceFails(r) ==
  /\ partial[now[r]] = None
  /\ Goto(r, "written", "failed")
  /\ UNCHANGED <<world, reading, files>>

(* chmod, which raises when the collector has taken the file already.      *)
Chmod(r) ==
  /\ Goto(r, "moved", IF published[now[r]] = None THEN "failed" ELSE "done")
  /\ UNCHANGED <<world, reading, files>>

(* A run is killed, or its disk is full: what it wrote stays.              *)
Crash(r) ==
  \/ Abandon(r)
  \/ /\ stage[r] \in {"built", "open", "written", "moved"}
     /\ stage' = [stage EXCEPT ![r] = "failed"]
     /\ UNCHANGED <<world, reading, files>>

Collect(t) ==
  /\ published[t] # None
  /\ published' = [published EXCEPT ![t] = None]
  /\ UNCHANGED <<world, stage, reading, fd, partial, content>>

Step(r) ==
  \/ Start(r)
  \/ SkipLine(r) \/ ObserveLine(r) \/ Raise(r) \/ EndOfInput(r)
  \/ WriteStdout(r) \/ OpenPartial(r) \/ WriteText(r)
  \/ Replace(r) \/ ReplaceFails(r) \/ Chmod(r)
  \/ Crash(r)

Next ==
  \/ LogLine \/ Advance
  \/ \E r \in Runs : Step(r)
  \/ \E t \in Stamps : Collect(t)

Spec == Init /\ [][Next]_vars

-----------------------------------------------------------------------------
Time == Nat \cup {Never}
Sources == [count : Nat, first : Time, last : Time, codes : SUBSET Nat, wrote : BOOLEAN]
Objects ==
  [observed_data : Addresses \X Nat \X Nat, indicator : Addresses \X Nat,
   number_observed : Nat, codes : SUBSET Nat, attempted_write : BOOLEAN]
Bundles == [id : Stamps, objects : SUBSET Objects]

(* The type invariant; what a run holds keeps the packaging bounds         *)
(* (collect).                                                              *)
TypeOK ==
  /\ log \in Seq(Lines) /\ clock \in Stamps
  /\ stage \in [Runs -> {"idle", "reading", "built", "open", "written", "moved",
                         "done", "failed"}]
  /\ now \in [Runs -> Stamps]
  /\ position \in [Runs -> Nat] /\ \A r \in Runs : position[r] <= Len(log)
  /\ seen \in [Runs -> 0..MaxEvents]
  /\ sources \in [Runs -> [Addresses -> Sources]]
  /\ \A r \in Runs : Cardinality(Found(r)) <= MaxSources
  /\ fd \in [Runs -> Runs \cup {None}]
  /\ partial \in [Stamps -> Runs \cup {None}]
  /\ published \in [Stamps -> Runs \cup {None}]
  /\ content \in [Runs -> {Half} \cup Bundles]

\* The lines among the first n that are about an address, and their times.
Mine(r, n, a) ==
  {i \in 1..n : Packaged(r, log[i]) /\ Compressed[log[i].source] = a}
Times(r, n, a) == {StixTime(log[i].time) : i \in Mine(r, n, a)} \ {Never}

(* What a run knows of an address is what the lines it has read say,       *)
(* whatever their order and however the address is spelled: none counted   *)
(* twice or left out, first the earliest and last the latest valid time    *)
(* (collect, Source.observe).                                              *)
CollectedIsSummary ==
  \A r \in Runs, a \in Addresses :
    LET mine == Mine(r, position[r], a)
        times == Times(r, position[r], a)
        source == sources[r][a]
    IN  /\ source.count = Cardinality(mine)
        /\ source.codes = {log[i].code : i \in mine} \ {NoCode}
        /\ source.wrote = (\E i \in mine : log[i].write)
        /\ {source.first, source.last} \ {Never} \subseteq times
        /\ \A t \in times : source.first <= t /\ t <= source.last
        /\ times # {} => source.first # Never

Started(r) == stage[r] # "idle"
Alone(r) == \A q \in Runs \ {r} : ~Started(q) \/ now[q] # now[r]

(* A file a collector can see holds one whole bundle, the one of the run   *)
(* that has its stamp, wherever runs are killed; only runs that start in   *)
(* the same millisecond may spoil each other's (write_bundle).             *)
PublishedWhole ==
  \A r \in Runs : Started(r) /\ Alone(r) /\ published[now[r]] # None =>
    /\ content[published[now[r]]] = Bundle(r)
    /\ stage[r] \in {"moved", "done", "failed"}

\* r and q have read all of their input.
Built(r) == stage[r] \in {"built", "open", "written", "moved", "done"}
Both(r, q, a) ==
  /\ Built(r) /\ Built(q)
  /\ a \in Found(r) /\ a \in Found(q) /\ sources[r][a].first # Never

(* To package the same window again gives every source that has a valid    *)
(* time the ids it had, whenever the second run is made (_sdo_id).         *)
RepackagingStable ==
  \A r, q \in Runs, a \in Addresses :
    Both(r, q, a) /\ position[r] = position[q] =>
      /\ ObservedDataId(r, a) = ObservedDataId(q, a)
      /\ IndicatorId(r, a) = IndicatorId(q, a)

InTimeOrder(n) ==
  \A i, j \in 1..n :
    i < j /\ log[j].time # Never => StixTime(log[i].time) <= StixTime(log[j].time)

(* A source that was seen at a valid time keeps its indicator in every     *)
(* bundle of a longer log, as long as the log is in the order of time, so  *)
(* that a consumer that drops known ids sees it once (build_bundle).       *)
IndicatorKept ==
  \A r, q \in Runs, a \in Addresses :
    Both(r, q, a) /\ position[r] <= position[q] /\ InTimeOrder(position[q]) =>
      IndicatorId(r, a) = IndicatorId(q, a)
=============================================================================
