------------------------ MODULE ProtocolAdapterProofs ------------------------
(***************************************************************************)
(* Proofs about ProtocolAdapter, for every register map that RegisterMap   *)
(* accepts, every set of sessions and of requests.                         *)
(***************************************************************************)
EXTENDS ProtocolAdapter, SequenceTheorems, TLAPS

(* The link between a task and its request that the invariants rest on: a  *)
(* session executes a request of its own, and its context names it.        *)
TasksBound ==
  \A s \in Sessions :
    stage[s] # "idle" =>
      /\ current[s] \in 1..Len(issued)
      /\ issued[current[s]].session = s
      /\ context[s] = Identity(s, current[s])

(* auto_control_active says what control_mode is, in every state.          *)
ModeShown ==
  raw["auto_control_active"] = IF raw["control_mode"] = 1 THEN 1 ELSE 0

IInv == TypeOK /\ TasksBound /\ ModeShown

-----------------------------------------------------------------------------
(* register_map.py: the lookups find what they are asked for.              *)
LEMMA ByKeyFinds ==
  /\ \A d \in Map : d.key \in Keys /\ ByKey(d.key) = d
  /\ \A k \in Keys : ByKey(k) \in Map /\ ByKey(k).key = k
<1>1. \A d \in Map : d.key \in Keys
  BY DEF Keys
<1>2. \A k \in Keys : ByKey(k) \in Map /\ ByKey(k).key = k
  <2> TAKE k \in Keys
  <2>1. \E d \in Map : d.key = k
    BY DEF Keys
  <2> QED  BY <2>1 DEF ByKey
<1>3. \A d \in Map : ByKey(d.key) = d
  BY <1>1, <1>2, MapAssumption
<1> QED  BY <1>1, <1>2, <1>3

LEMMA DefinitionFinds ==
  ASSUME NEW r, NEW i, DefinedAt(r, i)
  PROVE  /\ DefinitionAt(r, i) \in Map
         /\ DefinitionAt(r, i).address = r.address + i - 1
BY DEF DefinedAt, Defined, DefinitionAt, Definition

(* What reaches the process passed every check (action).                   *)
LEMMA AppliedChecked ==
  ASSUME NEW r \in Requests, NEW i \in Applied(r)
  PROVE  /\ i \in Offsets(r)
         /\ DefinedAt(r, i)
         /\ DefinitionAt(r, i) \in Map
         /\ DefinitionAt(r, i).writable
         /\ Accepted(DefinitionAt(r, i), r.values[i])
<1>1. i \in Offsets(r) /\ WriteResult(r) \notin {"ILLEGAL_ADDRESS", "ILLEGAL_VALUE"}
  BY DEF Applied
<1>2. DefinedAt(r, i) /\ DefinitionAt(r, i).writable
  BY <1>1 DEF WriteResult
<1>3. Accepted(DefinitionAt(r, i), r.values[i])
  BY <1>1 DEF WriteResult
<1> QED  BY <1>1, <1>2, <1>3, DefinitionFinds

LEMMA EncodeTyped == \A v \in Int : Encode(v) \in 0..Word - 1
BY DEF Encode, Word

LEMMA SyncedTyped ==
  ASSUME NEW area, NEW snapshot \in [Keys -> Int], memory \in [Keys -> 0..Word - 1]
  PROVE  Synced(area, snapshot) \in [Keys -> 0..Word - 1]
BY EncodeTyped DEF Synced

(* What a snapshot makes of the values it is taken of.                     *)
LEMMA SnapshotShows ==
  ASSUME NEW values, DOMAIN values = Keys
  PROVE  /\ DOMAIN Snapshot(values) = Keys
         /\ \A k \in Keys \ {"auto_control_active"} : Snapshot(values)[k] = values[k]
         /\ Snapshot(values)["auto_control_active"]
              = IF Snapshot(values)["control_mode"] = 1 THEN 1 ELSE 0
         /\ Snapshot(values) = [k \in Keys |-> Snapshot(values)[k]]
BY MapAssumption DEF Snapshot

(* The values of a register are integers; 0 and 1 those of a truth value.  *)
LEMMA ValuesTyped ==
  /\ \A k \in Keys : Values(ByKey(k)) \subseteq Int
  /\ Values(ByKey("auto_control_active")) = {0, 1}
  /\ \A k \in Observed : Shown[k] \subseteq Values(ByKey(k))
<1>1. \A k \in Keys : /\ ByKey(k).key = k /\ ByKey(k).default \in Int
                      /\ ByKey(k).minimum \in Int /\ ByKey(k).maximum \in Int
  BY ByKeyFinds, MapAssumption
<1>2. \A k \in Keys : k \in TRUTHS \/ k \in WRITE_HANDLERS \/ k \in Observed
  BY DEF Observed, TRUTHS
<1>3. ASSUME NEW k \in Keys PROVE Values(ByKey(k)) \subseteq Int
  BY <1>1, <1>2, MapAssumption DEF Values
<1>4. ASSUME NEW k \in Observed PROVE Shown[k] \subseteq Values(ByKey(k))
  <2>1. k \in Keys /\ k \notin WRITE_HANDLERS
    BY DEF Observed
  <2> QED  BY <1>1, <2>1, MapAssumption DEF Values
<1>5. Values(ByKey("auto_control_active")) = {0, 1}
  BY <1>1, MapAssumption DEF Values, TRUTHS
<1> QED  BY <1>3, <1>4, <1>5

LEMMA TruthTyped ==
  /\ \A k \in TRUTHS, v \in Int : Truth(k, v) \in {0, 1}
  /\ \A k, v : k \notin TRUTHS => Truth(k, v) = v
BY DEF Truth

(* A snapshot of values that registers may have is one.                    *)
LEMMA SnapshotTyped ==
  ASSUME NEW values, DOMAIN values = Keys,
         \A k \in Keys \ {"auto_control_active"} : values[k] \in Values(ByKey(k))
  PROVE  /\ Snapshot(values) \in [Keys -> Int]
         /\ \A k \in Keys : Snapshot(values)[k] \in Values(ByKey(k))
<1>1. \A k \in Keys : Snapshot(values)[k] \in Values(ByKey(k))
  BY SnapshotShows, ValuesTyped
<1>2. \A k \in Keys : Snapshot(values)[k] \in Int
  BY <1>1, ValuesTyped
<1>3. Snapshot(values) = [k \in Keys |-> Snapshot(values)[k]]
  BY SnapshotShows
<1> QED  BY <1>1, <1>2, <1>3

(* A write gives every register a value it may have, keeps those it does   *)
(* not address, and shows the mode that results.                           *)
LEMMA RawAfterTyped ==
  ASSUME IInv, NEW r \in Requests
  PROVE  /\ RawAfter(r) \in [Keys -> Int]
         /\ \A k \in Keys : RawAfter(r)[k] \in Values(ByKey(k))
         /\ \A k \in Keys \ (Commands \cup {"auto_control_active"}) :
              RawAfter(r)[k] = raw[k]
         /\ RawAfter(r)["auto_control_active"]
              = IF RawAfter(r)["control_mode"] = 1 THEN 1 ELSE 0
         /\ Applied(r) = {} => RawAfter(r) = raw
<1> DEFINE Hits(k) == \E i \in Applied(r) : DefinitionAt(r, i).key = k
           values == [k \in Keys |->
             IF \E i \in Applied(r) : DefinitionAt(r, i).key = k
             THEN Stored(k, r.values[CHOOSE i \in Applied(r) : DefinitionAt(r, i).key = k])
             ELSE raw[k]]
<1>1. RawAfter(r) = Snapshot(values) /\ DOMAIN values = Keys
  BY DEF RawAfter
<1>2. ASSUME NEW k \in Keys, Hits(k)
      PROVE  values[k] \in Values(ByKey(k)) /\ k \in Commands
  <2> DEFINE i == CHOOSE j \in Applied(r) : DefinitionAt(r, j).key = k
  <2>1. i \in Applied(r) /\ DefinitionAt(r, i).key = k
    BY <1>2
  <2>2. /\ i \in Offsets(r) /\ DefinitionAt(r, i) \in Map
        /\ r.values[i] \in DefinitionAt(r, i).minimum..DefinitionAt(r, i).maximum
    BY <2>1, AppliedChecked DEF Accepted
  <2>3. ByKey(k) = DefinitionAt(r, i)
    BY <2>1, <2>2, ByKeyFinds
  <2>4. values[k] = Stored(k, r.values[i])
    BY <1>2
  <2>5. HasEffect(DefinitionAt(r, i))
    <3>1. i \in Nat /\ i >= 1
      BY <2>2, RequestAssumption DEF Offsets
    <3> QED  BY <2>1, <3>1 DEF Applied
  <2>6. k \in Commands
    BY <2>1, <2>5 DEF HasEffect, Commands
  <2>7. DefinitionAt(r, i).minimum \in Int /\ DefinitionAt(r, i).maximum \in Int
    BY <2>2, MapAssumption
  <2>8. r.values[i] \in Int
    BY <2>2, <2>7
  <2>9. Stored(k, r.values[i]) \in Values(ByKey(k))
    <3>1. CASE k \in TRUTHS
      BY <2>1, <2>3, <2>8, <3>1, TruthTyped DEF Stored, Values
    <3>2. CASE k \notin TRUTHS
      <4>1. Stored(k, r.values[i]) = r.values[i]
        BY <3>2, TruthTyped DEF Stored, TRUTHS
      <4> QED  BY <2>1, <2>2, <2>3, <2>6, <3>2, <4>1 DEF Values, Commands
    <3> QED  BY <3>1, <3>2
  <2> QED  BY <2>4, <2>6, <2>9
<1>3. \A k \in Keys : ~Hits(k) => values[k] = raw[k]
  OBVIOUS
<1>4. \A k \in Keys : raw[k] \in Values(ByKey(k))
  BY DEF IInv, TypeOK
<1>5. \A k \in Keys : values[k] \in Values(ByKey(k))
  BY <1>2, <1>3, <1>4
<1>6. Applied(r) = {} => RawAfter(r) = raw
  <2> SUFFICES ASSUME Applied(r) = {} PROVE RawAfter(r) = raw
    OBVIOUS
  <2>1. raw \in [Keys -> Int] /\ ModeShown
    BY DEF IInv, TypeOK
  <2>2. values = raw
    BY <2>1
  <2> HIDE DEF values
  <2>3. Snapshot(raw) = raw
    BY <2>1, MapAssumption DEF Snapshot, ModeShown
  <2> QED  BY <1>1, <2>2, <2>3
<1>7. \A k \in Keys \ Commands : values[k] = raw[k]
  BY <1>2, <1>3
<1> HIDE DEF values, Hits
<1>8. /\ Snapshot(values) \in [Keys -> Int]
      /\ \A k \in Keys : Snapshot(values)[k] \in Values(ByKey(k))
  BY <1>1, <1>5, SnapshotTyped
<1> QED  BY <1>1, <1>6, <1>7, <1>8, SnapshotShows

(* An accepted write gives each of its registers the value asked for: no   *)
(* two of its values go to the same register.                              *)
LEMMA AcceptedWriteStores ==
  ASSUME NEW r \in Requests, WriteResult(r) = "ok", NEW i \in Offsets(r)
  PROVE  LET key == DefinitionAt(r, i).key
         IN  key \in Keys /\ RawAfter(r)[key] = Stored(key, r.values[i])
<1> DEFINE key == DefinitionAt(r, i).key
<1>1. \A j \in Offsets(r) : j \in Applied(r)
  BY DEF Applied, WriteResult, Offsets
<1>2. \A j \in Offsets(r) :
        DefinitionAt(r, j) \in Map /\ DefinitionAt(r, j).address = r.address + j - 1
  BY <1>1, AppliedChecked, DefinitionFinds
<1>3. key \in Keys
  BY <1>2, ByKeyFinds
<1>4. \A j \in Applied(r) : DefinitionAt(r, j).key = key => j = i
  <2> SUFFICES ASSUME NEW j \in Applied(r), DefinitionAt(r, j).key = key PROVE j = i
    OBVIOUS
  <2>1. j \in Offsets(r)
    BY AppliedChecked
  <2>2. DefinitionAt(r, j) = DefinitionAt(r, i)
    BY <1>2, <2>1, ByKeyFinds
  <2>3. r.address + j - 1 = r.address + i - 1
    BY <1>2, <2>1, <2>2
  <2> QED  BY <2>1, <2>3, RequestAssumption DEF Offsets
<1>5. (CHOOSE j \in Applied(r) : DefinitionAt(r, j).key = key) = i
  BY <1>1, <1>4
<1>6. key # "auto_control_active"
  <2>1. HasEffect(DefinitionAt(r, i))
    BY DEF WriteResult
  <2> QED  BY <2>1 DEF HasEffect, WRITE_HANDLERS
<1> DEFINE values == [k \in Keys |->
             IF \E j \in Applied(r) : DefinitionAt(r, j).key = k
             THEN Stored(k, r.values[CHOOSE j \in Applied(r) : DefinitionAt(r, j).key = k])
             ELSE raw[k]]
<1>7. RawAfter(r) = Snapshot(values) /\ DOMAIN values = Keys
  BY DEF RawAfter
<1>8. values[key] = Stored(key, r.values[i])
  BY <1>1, <1>3, <1>5
<1> HIDE DEF values
<1> QED  BY <1>3, <1>6, <1>7, <1>8, SnapshotShows
-----------------------------------------------------------------------------
(* Types of what a step appends.                                           *)
LEMMA PartialTyped ==
  /\ Nothing \in Partial(Int) /\ Nothing \in Partial(0..Word - 1)
  /\ \A ks : \A f \in [Keys -> Int] : Of(ks, f) \in Partial(Int)
  /\ \A ks : \A f \in [Keys -> 0..Word - 1] : Of(ks, f) \in Partial(0..Word - 1)
BY DEF Nothing, Partial, Of

LEMMA ExceptTyped ==
  ASSUME NEW S, NEW q \in Seq(S), NEW i, NEW x \in S
  PROVE  [q EXCEPT ![i] = x] \in Seq(S)
<1>1. q \in [1..Len(q) -> S] /\ Len(q) \in Nat
  OBVIOUS
<1>2. [q EXCEPT ![i] = x] \in [1..Len(q) -> S]
  BY <1>1
<1> QED  BY <1>1, <1>2, SeqDef

LEMMA AnswerTyped ==
  ASSUME TypeOK, NEW s \in Sessions, NEW result \in Results,
         NEW words \in Partial(0..Word - 1), Answer(s, result, words)
  PROVE  answers' \in Seq(Answers)
<1>1. [result |-> result, words |-> words] \in Answers
  BY DEF Answers
<1>2. answers \in Seq(Answers)
  BY DEF TypeOK
<1>3. answers' = [answers EXCEPT ![current[s]] = [result |-> result, words |-> words]]
  BY DEF Answer
<1> QED  BY <1>1, <1>2, <1>3, ExceptTyped

LEMMA IssueTyped ==
  ASSUME TypeOK, NEW s \in Sessions, NEW r \in Requests,
         NEW answer \in Answers, Issue(s, r, answer)
  PROVE  /\ answers' \in Seq(Answers)
         /\ issued' \in Seq([session : Sessions, request : Requests])
         /\ Len(issued') = Len(issued) + 1
         /\ \A n \in 1..Len(issued) : issued'[n] = issued[n]
         /\ issued'[Len(issued')].session = s
BY DEF TypeOK, Issue

LEMMA EventTyped ==
  ASSUME TypeOK, NEW s \in Sessions,
         NEW operation \in {"read", "write", "unknown"}, NEW result \in Results,
         NEW response \in Partial(Int), NEW before \in Partial(Int),
         NEW after \in Partial(Int)
  PROVE  Event(s, operation, result, response, before, after) \in Events
BY DEF TypeOK, Event, Events, CurrentContext

LEMMA EmitTyped ==
  ASSUME TypeOK, NEW e \in Events, Emit(e)
  PROVE  sequence' \in Nat /\ lost' \in Nat /\ emitted' \in Seq(Events)
<1>1. sequence \in Nat /\ lost \in Nat /\ emitted \in Seq(Events)
  BY DEF TypeOK
<1>2. Append(emitted, e) \in Seq(Events)
  BY <1>1
<1> QED  BY <1>1, <1>2 DEF Emit

LEMMA RequestKnown ==
  ASSUME IInv, NEW s \in Sessions, stage[s] # "idle"
  PROVE  Request(s) \in Requests /\ current[s] \in 1..Len(issued)
<1>1. current[s] \in 1..Len(issued)
  BY DEF IInv, TasksBound
<1> DEFINE T == [session : Sessions, request : Requests]
<1>2. issued[current[s]] \in T
  <2>1. issued \in Seq(T)
    BY DEF IInv, TypeOK
  <2> HIDE DEF T
  <2> QED  BY <1>1, <2>1
<1> QED  BY <1>1, <1>2 DEF Request

LEMMA ResultKnown == \A r : WriteResult(r) \in Results
BY DEF WriteResult, Results

(* A step of a session that only moves its stage, inside a request.        *)
LEMMA StageTyped ==
  ASSUME IInv, NEW s \in Sessions, stage[s] # "idle",
         NEW to \in {"bound", "written", "done"},
         stage' = [stage EXCEPT ![s] = to],
         UNCHANGED <<context, current, issued>>
  PROVE  /\ stage' \in [Sessions -> {"idle", "bound", "written", "done"}]
         /\ context' \in [Sessions -> Identities]
         /\ current' \in [Sessions -> Nat]
         /\ issued' \in Seq([session : Sessions, request : Requests])
         /\ TasksBound'
BY DEF IInv, TypeOK, TasksBound, Identity

(* _execute_request binds a request that has just been issued.             *)
LEMMA ExecuteSafe ==
  ASSUME IInv, NEW s \in Sessions, NEW r \in Requests, Execute(s, r)
  PROVE  IInv'
<1>1. Unanswered \in Answers
  BY PartialTyped DEF Unanswered, Answers, Results
<1>2. /\ answers' \in Seq(Answers)
      /\ issued' \in Seq([session : Sessions, request : Requests])
      /\ Len(issued') = Len(issued) + 1
      /\ \A n \in 1..Len(issued) : issued'[n] = issued[n]
      /\ issued'[Len(issued')].session = s
  BY <1>1, IssueTyped DEF Execute, IInv
<1>3. Len(issued) \in Nat
  BY DEF IInv, TypeOK
<1>4. Identity(s, Len(issued')) \in Identities
  BY <1>2, <1>3 DEF Identity, Identities
<1>5. TypeOK'
  BY <1>2, <1>3, <1>4 DEF Execute, IInv, TypeOK, process, telemetry
<1>6. TasksBound'
  <2> SUFFICES ASSUME NEW t \in Sessions, stage'[t] # "idle"
               PROVE  /\ current'[t] \in 1..Len(issued')
                      /\ issued'[current'[t]].session = t
                      /\ context'[t] = Identity(t, current'[t])
    BY DEF TasksBound, Identity
  <2>1. CASE t = s
    BY <1>2, <1>3, <2>1 DEF Execute, IInv, TypeOK
  <2>2. CASE t # s
    BY <1>2, <1>3, <2>2 DEF Execute, IInv, TypeOK, TasksBound
  <2> QED  BY <2>1, <2>2
<1>7. ModeShown'
  BY DEF Execute, IInv, ModeShown, process
<1> QED  BY <1>5, <1>6, <1>7 DEF IInv

LEMMA RefuseCoilSafe ==
  ASSUME IInv, NEW s \in Sessions, NEW r \in Requests, RefuseCoil(s, r)
  PROVE  IInv'
<1>1. [result |-> "ILLEGAL_VALUE", words |-> Nothing] \in Answers
  BY PartialTyped DEF Answers, Results
<1>2. /\ answers' \in Seq(Answers)
      /\ issued' \in Seq([session : Sessions, request : Requests])
      /\ Len(issued') = Len(issued) + 1
      /\ \A n \in 1..Len(issued) : issued'[n] = issued[n]
  BY <1>1, IssueTyped DEF RefuseCoil, IInv
<1>3. Len(issued) \in Nat
  BY DEF IInv, TypeOK
<1>4. TypeOK'
  BY <1>2 DEF RefuseCoil, IInv, TypeOK, process, telemetry, tasks
<1>5. TasksBound'
  <2> SUFFICES ASSUME NEW t \in Sessions, stage'[t] # "idle"
               PROVE  /\ current'[t] \in 1..Len(issued')
                      /\ issued'[current'[t]].session = t
                      /\ context'[t] = Identity(t, current'[t])
    BY DEF TasksBound, Identity
  <2>1. UNCHANGED <<stage, current, context>>
    BY DEF RefuseCoil, tasks
  <2>2. /\ current[t] \in 1..Len(issued)
        /\ issued[current[t]].session = t
        /\ context[t] = Identity(t, current[t])
    BY <2>1 DEF IInv, TasksBound
  <2> QED  BY <1>2, <1>3, <2>1, <2>2
<1>6. ModeShown'
  BY DEF RefuseCoil, IInv, ModeShown, process
<1> QED  BY <1>4, <1>5, <1>6 DEF IInv

(* Steps that answer without the process (IgnoreUnit, Fail).               *)
LEMMA AnswerOnlySafe ==
  ASSUME IInv, NEW s \in Sessions, IgnoreUnit(s) \/ Fail(s)
  PROVE  IInv'
<1>1. answers' \in Seq(Answers)
  BY AnswerTyped, PartialTyped DEF IgnoreUnit, Fail, IInv, Results, Silent
<1>2. /\ stage' \in [Sessions -> {"idle", "bound", "written", "done"}]
      /\ context' \in [Sessions -> Identities]
      /\ current' \in [Sessions -> Nat]
      /\ issued' \in Seq([session : Sessions, request : Requests])
      /\ TasksBound'
  BY StageTyped DEF IgnoreUnit, Fail
<1>3. UNCHANGED <<process, telemetry>>
  BY DEF IgnoreUnit, Fail
<1> QED  BY <1>1, <1>2, <1>3 DEF IInv, TypeOK, ModeShown, process, telemetry

LEMMA UnknownFunctionSafe ==
  ASSUME IInv, NEW s \in Sessions, UnknownFunction(s)
  PROVE  IInv'
<1>1. answers' \in Seq(Answers)
  BY AnswerTyped, PartialTyped DEF UnknownFunction, IInv, Results
<1>2. Event(s, "unknown", "ILLEGAL_FUNCTION", Nothing, Nothing, Nothing) \in Events
  BY EventTyped, PartialTyped DEF IInv, Results
<1>3. sequence' \in Nat /\ lost' \in Nat /\ emitted' \in Seq(Events)
  BY <1>2, EmitTyped DEF UnknownFunction, IInv
<1>4. /\ stage' \in [Sessions -> {"idle", "bound", "written", "done"}]
      /\ context' \in [Sessions -> Identities]
      /\ current' \in [Sessions -> Nat]
      /\ issued' \in Seq([session : Sessions, request : Requests])
      /\ TasksBound'
  BY StageTyped DEF UnknownFunction, Called
<1>5. UNCHANGED process
  BY DEF UnknownFunction
<1> QED  BY <1>1, <1>3, <1>4, <1>5 DEF IInv, TypeOK, ModeShown, process

LEMMA ReadSafe ==
  ASSUME IInv, NEW s \in Sessions, Read(s)
  PROVE  IInv'
<1> DEFINE keys == ReadKeys(Request(s))
           served == ServedKeys(Request(s))
<1>1. raw \in [Keys -> Int] /\ memory \in [Keys -> 0..Word - 1]
  BY DEF IInv, TypeOK
<1>2. memory' \in [Keys -> 0..Word - 1]
  BY <1>1, SyncedTyped DEF Read
<1>3. Of(served, memory') \in Partial(0..Word - 1) /\ Of(keys, raw) \in Partial(Int)
  BY <1>1, <1>2, PartialTyped
<1>4. answers' \in Seq(Answers)
  BY <1>3, AnswerTyped DEF Read, IInv, Results
<1>5. Event(s, "read", "ok", Of(keys, raw), Nothing, Nothing) \in Events
  BY <1>3, EventTyped, PartialTyped DEF IInv, Results
<1>6. sequence' \in Nat /\ lost' \in Nat /\ emitted' \in Seq(Events)
  BY <1>5, EmitTyped DEF Read, IInv
<1>7. /\ stage' \in [Sessions -> {"idle", "bound", "written", "done"}]
      /\ context' \in [Sessions -> Identities]
      /\ current' \in [Sessions -> Nat]
      /\ issued' \in Seq([session : Sessions, request : Requests])
      /\ TasksBound'
  BY StageTyped DEF Read, Called
<1>8. UNCHANGED raw
  BY DEF Read
<1> QED  BY <1>2, <1>4, <1>6, <1>7, <1>8 DEF IInv, TypeOK, ModeShown

(* The two ways a write is not accepted.                                   *)
LEMMA RejectedWriteSafe ==
  ASSUME IInv, NEW s \in Sessions, RefuseWrite(s) \/ BreakWrite(s)
  PROVE  IInv'
<1> DEFINE r == Request(s)
<1>1. stage[s] # "idle" /\ r \in Requests
  BY RequestKnown DEF RefuseWrite, BreakWrite, Called
<1>2. /\ raw' \in [Keys -> Int]
      /\ \A k \in Keys : raw'[k] \in Values(ByKey(k))
      /\ ModeShown'
  BY <1>1, RawAfterTyped DEF RefuseWrite, BreakWrite, ModeShown
<1>3. memory' \in [Keys -> 0..Word - 1]
  <2>1. raw \in [Keys -> Int] /\ memory \in [Keys -> 0..Word - 1]
    BY DEF IInv, TypeOK
  <2>2. memory' = Synced(Area(s), raw)
    BY DEF RefuseWrite, BreakWrite
  <2> QED  BY <2>1, <2>2, SyncedTyped
<1>4. answers' \in Seq(Answers)
  BY AnswerTyped, PartialTyped, ResultKnown DEF RefuseWrite, BreakWrite, IInv, Results
<1>5. Event(s, "write", WriteResult(r), Nothing, Nothing, Nothing) \in Events
  BY EventTyped, PartialTyped, ResultKnown DEF IInv
<1>6. sequence' \in Nat /\ lost' \in Nat /\ emitted' \in Seq(Events)
  <2>1. CASE RefuseWrite(s)
    BY <1>5, <2>1, EmitTyped DEF RefuseWrite, IInv
  <2>2. CASE BreakWrite(s)
    BY <2>2 DEF BreakWrite, telemetry, IInv, TypeOK
  <2> QED  BY <2>1, <2>2
<1>7. /\ stage' \in [Sessions -> {"idle", "bound", "written", "done"}]
      /\ context' \in [Sessions -> Identities]
      /\ current' \in [Sessions -> Nat]
      /\ issued' \in Seq([session : Sessions, request : Requests])
      /\ TasksBound'
  BY <1>1, StageTyped DEF RefuseWrite, BreakWrite
<1> QED  BY <1>2, <1>3, <1>4, <1>6, <1>7 DEF IInv, TypeOK, ByKey, Values

LEMMA AcceptWriteSafe ==
  ASSUME IInv, NEW s \in Sessions, AcceptWrite(s)
  PROVE  IInv'
<1> DEFINE r == Request(s)
<1>1. stage[s] # "idle" /\ r \in Requests /\ WriteResult(r) = "ok"
  BY RequestKnown DEF AcceptWrite, Called
<1>2. /\ raw' = RawAfter(r)
      /\ raw' \in [Keys -> Int]
      /\ \A k \in Keys : raw'[k] \in Values(ByKey(k))
      /\ ModeShown'
  BY <1>1, RawAfterTyped DEF AcceptWrite, ModeShown
<1>3. memory' \in [Keys -> 0..Word - 1]
  <2>1. Synced(Area(s), raw') \in [Keys -> 0..Word - 1]
    <3>1. memory \in [Keys -> 0..Word - 1]
      BY DEF IInv, TypeOK
    <3> QED  BY <1>2, <3>1, SyncedTyped
  <2>2. ASSUME NEW k \in WrittenKeys(r)
        PROVE  Encode(r.values[CHOOSE i \in Offsets(r) : DefinitionAt(r, i).key = k])
                 \in 0..Word - 1
    <3> DEFINE n == CHOOSE i \in Offsets(r) : DefinitionAt(r, i).key = k
    <3>1. n \in Offsets(r)
      BY DEF WrittenKeys
    <3>2. r.values \in Seq(Int)
      BY <1>1, RequestAssumption
    <3>3. r.values[n] \in Int
      <4> HIDE DEF n, r
      <4> QED  BY <3>1, <3>2 DEF Offsets
    <3> QED  BY <3>3, EncodeTyped
  <2>3. memory' \in LeftInMemory(r, Synced(Area(s), raw'))
    BY DEF AcceptWrite
  <2> HIDE DEF r
  <2> QED  BY <2>1, <2>2, <2>3 DEF LeftInMemory
<1>4. BeforeWrite(r) \in Partial(Int) /\ AfterWrite(r) \in Partial(Int)
  <2>1. raw \in [Keys -> Int] /\ RawAfter(r) \in [Keys -> Int]
    BY <1>2 DEF IInv, TypeOK
  <2> QED  BY <2>1, PartialTyped DEF BeforeWrite, AfterWrite
<1>5. Event(s, "write", "ok", Nothing, BeforeWrite(r), AfterWrite(r)) \in Events
  BY <1>4, EventTyped, PartialTyped DEF IInv, Results
<1>6. sequence' \in Nat /\ lost' \in Nat /\ emitted' \in Seq(Events)
  BY <1>5, EmitTyped DEF AcceptWrite, IInv
<1>7. /\ stage' \in [Sessions -> {"idle", "bound", "written", "done"}]
      /\ context' \in [Sessions -> Identities]
      /\ current' \in [Sessions -> Nat]
      /\ issued' \in Seq([session : Sessions, request : Requests])
      /\ TasksBound'
  BY <1>1, StageTyped DEF AcceptWrite, clients
<1>8. UNCHANGED answers
  BY DEF AcceptWrite, clients
<1> QED  BY <1>2, <1>3, <1>6, <1>7, <1>8 DEF IInv, TypeOK, ByKey, Values

LEMMA ReadbackSafe ==
  ASSUME IInv, NEW s \in Sessions, Readback(s)
  PROVE  IInv'
<1> DEFINE keys == WrittenKeys(Request(s))
<1>1. raw \in [Keys -> Int] /\ memory \in [Keys -> 0..Word - 1]
  BY DEF IInv, TypeOK
<1>2. memory' \in [Keys -> 0..Word - 1]
  BY <1>1, SyncedTyped DEF Readback
<1>3. Of(keys, memory') \in Partial(0..Word - 1)
  BY <1>2, PartialTyped
<1>4. answers' \in Seq(Answers)
  BY <1>3, AnswerTyped DEF Readback, IInv, Results
<1>5. /\ stage' \in [Sessions -> {"idle", "bound", "written", "done"}]
      /\ context' \in [Sessions -> Identities]
      /\ current' \in [Sessions -> Nat]
      /\ issued' \in Seq([session : Sessions, request : Requests])
      /\ TasksBound'
  BY StageTyped DEF Readback
<1>6. UNCHANGED <<raw, telemetry>>
  BY DEF Readback
<1> QED  BY <1>2, <1>4, <1>5, <1>6 DEF IInv, TypeOK, ModeShown, telemetry

LEMMA FinishSafe ==
  ASSUME IInv, NEW s \in Sessions, Finish(s)
  PROVE  IInv'
<1>1. TypeOK'
  BY DEF Finish, IInv, TypeOK, process, telemetry, clients, Identities
<1>2. TasksBound'
  BY DEF Finish, IInv, TypeOK, TasksBound, Identity, clients
<1>3. ModeShown'
  BY DEF Finish, IInv, ModeShown, process
<1> QED  BY <1>1, <1>2, <1>3 DEF IInv

LEMMA TickSafe ==
  ASSUME IInv, Tick
  PROVE  IInv' /\ \A k \in Commands : raw'[k] = raw[k]
<1> PICK shown \in [Observed -> UNION {Shown[k] : k \in Observed}] :
      /\ \A k \in Observed : shown[k] \in Shown[k]
      /\ raw' = [k \in Keys |-> IF k \in Observed THEN shown[k] ELSE raw[k]]
  BY DEF Tick
<1>1. \A k \in Keys : raw'[k] \in Values(ByKey(k))
  BY ValuesTyped DEF IInv, TypeOK
<1>2. raw' \in [Keys -> Int]
  BY <1>1, ValuesTyped
<1>3. \A k \in Keys \ Observed : raw'[k] = raw[k]
  OBVIOUS
<1>4. /\ Commands \subseteq Keys \ Observed
      /\ {"control_mode", "auto_control_active"} \subseteq Keys \ Observed
  BY MapAssumption DEF Commands, Observed, WRITE_HANDLERS
<1>5. UNCHANGED <<memory, telemetry, tasks, clients>>
  BY DEF Tick
<1>6. TypeOK'
  BY <1>1, <1>2, <1>5 DEF IInv, TypeOK, telemetry, tasks, clients, ByKey, Values
<1>7. TasksBound'
  BY <1>5 DEF IInv, TasksBound, tasks, clients, Identity
<1>8. ModeShown'
  BY <1>3, <1>4 DEF IInv, ModeShown
<1> QED  BY <1>3, <1>4, <1>6, <1>7, <1>8 DEF IInv

LEMMA InitSafe == Init => IInv
<1> SUFFICES ASSUME Init PROVE IInv
  OBVIOUS
<1> DEFINE values == [k \in Keys |-> First(k)]
<1>1. ASSUME NEW k \in Keys PROVE First(k) \in Values(ByKey(k))
  <2>1. ByKey(k).key = k /\ ByKey(k).default \in Int
    BY ByKeyFinds, MapAssumption
  <2>2. CASE k \in TRUTHS
    BY <2>1, <2>2, TruthTyped DEF First, Values
  <2>3. CASE k \notin TRUTHS
    <3>1. First(k) = ByKey(k).default
      BY <2>3, TruthTyped DEF First, TRUTHS
    <3> QED  BY <2>1, <2>3, <3>1 DEF Values
  <2> QED  BY <2>2, <2>3
<1>2. raw = Snapshot(values) /\ DOMAIN values = Keys
  BY DEF Init
<1>3. \A k \in Keys : values[k] \in Values(ByKey(k))
  BY <1>1
<1> HIDE DEF values
<1>4. raw \in [Keys -> Int] /\ \A k \in Keys : raw[k] \in Values(ByKey(k))
  BY <1>2, <1>3, SnapshotTyped
<1>5. ModeShown
  BY <1>2, SnapshotShows DEF ModeShown
<1>6. memory \in [Keys -> 0..Word - 1]
  BY <1>4, EncodeTyped DEF Init
<1>7. TypeOK
  BY <1>4, <1>6 DEF Init, TypeOK, Identities
<1>8. TasksBound
  BY DEF Init, TasksBound
<1> QED  BY <1>5, <1>7, <1>8 DEF IInv

LEMMA NextSafe == IInv /\ [Next]_vars => IInv'
<1> SUFFICES ASSUME IInv, [Next]_vars PROVE IInv'
  OBVIOUS
<1>1. CASE Tick
  BY <1>1, TickSafe
<1>2. ASSUME NEW s \in Sessions, Step(s) PROVE IInv'
  BY <1>2, ExecuteSafe, RefuseCoilSafe, AnswerOnlySafe, UnknownFunctionSafe, ReadSafe,
     RejectedWriteSafe, AcceptWriteSafe, ReadbackSafe, FinishSafe DEF Step
<1>3. CASE UNCHANGED vars
  BY <1>3 DEF IInv, TypeOK, TasksBound, ModeShown, Identity, ByKey, Values, vars,
     process, telemetry, tasks, clients
<1> QED  BY <1>1, <1>2, <1>3 DEF Next

(* Commands and setpoints keep the ranges of the map, truth values stay 0  *)
(* or 1, and the words served fit in 16 bits, whatever any number of       *)
(* clients send.                                                           *)
THEOREM TypeCorrect == Spec => []TypeOK
<1>1. Spec => []IInv
  BY InitSafe, NextSafe, PTL DEF Spec
<1>2. IInv => TypeOK
  BY DEF IInv
<1> QED  BY <1>1, <1>2, PTL

-----------------------------------------------------------------------------
(* Every step emits nothing, or one event about the request of a session   *)
(* that executes one.                                                      *)
EmitsFor(s) ==
  /\ stage[s] # "idle"
  /\ UNCHANGED issued
  /\ \E e \in Events :
       /\ e.number = sequence + 1
       /\ e.request = current[s]
       /\ e.identity = context[s]
       /\ Emit(e)

KeepsIssued ==
  /\ Len(issued') >= Len(issued)
  /\ \A n \in 1..Len(issued) : issued'[n] = issued[n]

LEMMA EventFields ==
  ASSUME NEW s, NEW operation, NEW result, NEW response, NEW before, NEW after
  PROVE  LET e == Event(s, operation, result, response, before, after)
         IN  /\ e.number = sequence + 1
             /\ e.request = current[s]
             /\ e.identity = context[s]
BY DEF Event, CurrentContext

LEMMA StepsEmit ==
  ASSUME IInv, [Next]_vars
  PROVE  (UNCHANGED telemetry /\ KeepsIssued) \/ \E s \in Sessions : EmitsFor(s)
<1>1. Len(issued) \in Nat
  BY DEF IInv, TypeOK
<1>2. CASE Tick \/ UNCHANGED vars
  BY <1>1, <1>2 DEF Tick, clients, vars, KeepsIssued
<1>3. ASSUME NEW s \in Sessions, Step(s)
      PROVE  (UNCHANGED telemetry /\ KeepsIssued) \/ EmitsFor(s)
  <2>1. CASE \E r \in Requests : Execute(s, r) \/ RefuseCoil(s, r)
    <3>1. PICK r \in Requests : Execute(s, r) \/ RefuseCoil(s, r)
      BY <2>1
    <3>2. Unanswered \in Answers /\ [result |-> "ILLEGAL_VALUE", words |-> Nothing] \in Answers
      BY PartialTyped DEF Unanswered, Answers, Results
    <3>3. KeepsIssued
      BY <1>1, <3>1, <3>2, IssueTyped DEF Execute, RefuseCoil, KeepsIssued, IInv
    <3> QED  BY <3>1, <3>3 DEF Execute, RefuseCoil
  <2>2. CASE IgnoreUnit(s) \/ Fail(s) \/ BreakWrite(s) \/ Readback(s) \/ Finish(s)
    BY <1>1, <2>2 DEF IgnoreUnit, Fail, BreakWrite, Readback, Finish, clients, KeepsIssued
  <2>3. CASE UnknownFunction(s)
    <3>1. Event(s, "unknown", "ILLEGAL_FUNCTION", Nothing, Nothing, Nothing) \in Events
      BY EventTyped, PartialTyped DEF IInv, Results
    <3> QED  BY <2>3, <3>1, EventFields DEF UnknownFunction, Called, EmitsFor
  <2>4. CASE Read(s)
    <3> DEFINE shown == Of(ReadKeys(Request(s)), raw)
    <3>1. shown \in Partial(Int)
      BY PartialTyped DEF IInv, TypeOK
    <3>2. Event(s, "read", "ok", shown, Nothing, Nothing) \in Events
      BY <3>1, EventTyped, PartialTyped DEF IInv, Results
    <3> QED  BY <2>4, <3>2, EventFields DEF Read, Called, EmitsFor
  <2>5. CASE RefuseWrite(s)
    <3>1. Event(s, "write", WriteResult(Request(s)), Nothing, Nothing, Nothing) \in Events
      BY EventTyped, PartialTyped, ResultKnown DEF IInv
    <3> QED  BY <2>5, <3>1, EventFields DEF RefuseWrite, Called, EmitsFor
  <2>6. CASE AcceptWrite(s)
    <3> DEFINE r == Request(s)
    <3>1. r \in Requests
      BY <2>6, RequestKnown DEF AcceptWrite, Called
    <3>2. raw \in [Keys -> Int] /\ RawAfter(r) \in [Keys -> Int]
      BY <3>1, RawAfterTyped DEF IInv, TypeOK
    <3>3. BeforeWrite(r) \in Partial(Int) /\ AfterWrite(r) \in Partial(Int)
      BY <3>2, PartialTyped DEF BeforeWrite, AfterWrite
    <3>4. Event(s, "write", "ok", Nothing, BeforeWrite(r), AfterWrite(r)) \in Events
      BY <3>3, EventTyped, PartialTyped DEF IInv, Results
    <3> QED  BY <2>6, <3>4, EventFields DEF AcceptWrite, Called, EmitsFor, clients
  <2> QED  BY <1>3, <2>1, <2>2, <2>3, <2>4, <2>5, <2>6 DEF Step
<1> QED  BY <1>2, <1>3 DEF Next

(* Events name the connection and transaction they are about, for every    *)
(* interleaving of any number of sessions: the context of a task is bound  *)
(* to the request it executes until the request is finished.               *)
THEOREM EventsAreAttributed == Spec => []EventsAttributed
<1>1. Init => EventsAttributed
  BY DEF Init, EventsAttributed
<1>2. IInv /\ EventsAttributed /\ [Next]_vars => EventsAttributed'
  <2> SUFFICES ASSUME IInv, EventsAttributed, [Next]_vars PROVE EventsAttributed'
    OBVIOUS
  <2>1. /\ emitted \in Seq(Events) /\ Len(issued) \in Nat
        /\ DOMAIN issued = 1..Len(issued)
    BY DEF IInv, TypeOK
  <2>2. DOMAIN issued' = 1..Len(issued') /\ Len(issued') \in Nat
    BY NextSafe DEF IInv, TypeOK
  <2>3. CASE UNCHANGED telemetry /\ KeepsIssued
    <3> SUFFICES ASSUME NEW i \in DOMAIN emitted', NEW n, n = emitted'[i].request
                 PROVE  /\ n \in DOMAIN issued'
                        /\ emitted'[i].identity = Identity(issued'[n].session, n)
      BY DEF EventsAttributed, Identity
    <3>1. emitted' = emitted
      BY <2>3 DEF telemetry
    <3>2. n \in 1..Len(issued) /\ emitted[i].identity = Identity(issued[n].session, n)
      BY <2>1, <3>1 DEF EventsAttributed
    <3>3. issued'[n] = issued[n] /\ Len(issued') >= Len(issued)
      BY <2>3, <3>2 DEF KeepsIssued
    <3> QED  BY <2>1, <2>2, <3>1, <3>2, <3>3
  <2>4. CASE \E s \in Sessions : EmitsFor(s)
    <3>1. PICK s \in Sessions : EmitsFor(s)
      BY <2>4
    <3>2. PICK e \in Events : e.request = current[s] /\ e.identity = context[s] /\ Emit(e)
      BY <3>1 DEF EmitsFor
    <3>3. e.request \in DOMAIN issued /\ e.identity = Identity(issued[e.request].session, e.request)
      BY <2>1, <3>1, <3>2 DEF EmitsFor, IInv, TasksBound
    <3>4. UNCHANGED issued
      BY <3>1 DEF EmitsFor
    <3>5. CASE emitted' = emitted
      BY <3>4, <3>5 DEF EventsAttributed, Identity
    <3>6. CASE emitted' = Append(emitted, e)
      <4>1. \A i \in DOMAIN emitted' :
              IF i \in DOMAIN emitted THEN emitted'[i] = emitted[i] ELSE emitted'[i] = e
        BY <2>1, <3>6
      <4> QED  BY <3>3, <3>4, <4>1 DEF EventsAttributed, Identity
    <3> QED  BY <3>2, <3>5, <3>6 DEF Emit
  <2> QED  BY <2>3, <2>4, StepsEmit
<1> QED  BY <1>1, <1>2, InitSafe, NextSafe, PTL DEF Spec

(* A gap in the numbers of the events is an event the sink failed on, and  *)
(* every such event leaves a gap.                                          *)
THEOREM GapsAreLosses == Spec => []SequenceTellsLoss
<1>1. Init => SequenceTellsLoss
  BY DEF Init, SequenceTellsLoss
<1>2. IInv /\ SequenceTellsLoss /\ [Next]_vars => SequenceTellsLoss'
  <2> SUFFICES ASSUME IInv, SequenceTellsLoss, [Next]_vars PROVE SequenceTellsLoss'
    OBVIOUS
  <2>1. emitted \in Seq(Events) /\ sequence \in Nat /\ lost \in Nat
    BY DEF IInv, TypeOK
  <2>2. CASE UNCHANGED telemetry
    BY <2>2 DEF telemetry, SequenceTellsLoss
  <2>3. CASE \E s \in Sessions : EmitsFor(s)
    <3>1. PICK e \in Events : e.number = sequence + 1 /\ Emit(e)
      BY <2>3 DEF EmitsFor
    <3>2. \A i \in DOMAIN emitted : emitted[i].number \in Nat
      <4>1. \A i \in DOMAIN emitted : emitted[i] \in Events
        BY <2>1
      <4> QED  BY <4>1 DEF Events
    <3>3. DOMAIN emitted = 1..Len(emitted) /\ Len(emitted) \in Nat
      BY <2>1
    <3>4. CASE emitted' = emitted /\ lost' = lost + 1 /\ sequence' = sequence + 1
      BY <2>1, <3>2, <3>3, <3>4 DEF SequenceTellsLoss
    <3>5. CASE emitted' = Append(emitted, e) /\ lost' = lost /\ sequence' = sequence + 1
      <4>1. /\ Len(emitted') = Len(emitted) + 1
            /\ DOMAIN emitted' = 1..Len(emitted) + 1
            /\ \A i \in 1..Len(emitted) : emitted'[i] = emitted[i]
            /\ emitted'[Len(emitted) + 1] = e
        BY <2>1, <3>5
      <4> QED  BY <2>1, <3>1, <3>2, <3>3, <3>5, <4>1 DEF SequenceTellsLoss
    <3> QED  BY <3>1, <3>4, <3>5 DEF Emit
  <2> QED  BY <2>2, <2>3, StepsEmit
<1> QED  BY <1>1, <1>2, InitSafe, NextSafe, PTL DEF Spec

(* A write of any length changes all of its registers or none, and nothing *)
(* else changes a command or setpoint, but for a write that reaches a      *)
(* register without an effect or a handler.                                *)
THEOREM WritesAreAtomic == Spec => AtomicWrites
<1>1. ASSUME IInv, [Next]_vars, NEW k \in Commands, raw'[k] # raw[k]
      PROVE  \E s \in Sessions : AtomicWrite(s) \/ BrokenWrite(s)
  <2>1. ~Tick /\ ~UNCHANGED vars
    BY <1>1, TickSafe DEF vars, process
  <2>2. PICK s \in Sessions : Step(s)
    BY <1>1, <2>1 DEF Next
  <2>3. ~UNCHANGED raw
    BY <1>1
  <2>4. RefuseWrite(s) \/ BreakWrite(s) \/ AcceptWrite(s)
    BY <2>2, <2>3 DEF Step, Execute, RefuseCoil, IgnoreUnit, Fail, UnknownFunction,
       Read, Readback, Finish, process
  <2> DEFINE r == Request(s)
  <2>5. stage[s] = "bound" /\ r \in Requests /\ raw' = RawAfter(r)
    BY <1>1, <2>4, RequestKnown DEF RefuseWrite, BreakWrite, AcceptWrite, Called
  <2>6. WriteResult(r) \notin {"ILLEGAL_ADDRESS", "ILLEGAL_VALUE"}
    <3> SUFFICES ASSUME WriteResult(r) \in {"ILLEGAL_ADDRESS", "ILLEGAL_VALUE"} PROVE FALSE
      OBVIOUS
    <3>1. Applied(r) = {}
      BY DEF Applied
    <3> QED  BY <1>1, <2>5, <3>1, RawAfterTyped
  <2>7. CASE WriteResult(r) = "SERVER_FAILURE"
    <3>1. BreakWrite(s)
      BY <2>4, <2>7 DEF RefuseWrite, AcceptWrite
    <3>2. stage'[s] = "done"
      BY <1>1, <3>1 DEF BreakWrite, IInv, TypeOK
    <3>3. \E i \in Offsets(r) : ~HasEffect(DefinitionAt(r, i))
      BY <2>7 DEF WriteResult
    <3> QED  BY <2>5, <3>2, <3>3 DEF BrokenWrite
  <2>8. CASE WriteResult(r) # "SERVER_FAILURE"
    <3>1. AcceptWrite(s)
      BY <2>4, <2>6, <2>8 DEF RefuseWrite, BreakWrite
    <3>2. stage'[s] = "written" /\ WriteResult(r) = "ok"
      BY <1>1, <3>1 DEF AcceptWrite, IInv, TypeOK
    <3>3. \A i \in Offsets(r) :
            LET key == DefinitionAt(r, i).key
            IN  raw'[key] = Stored(key, r.values[i])
      BY <2>5, <3>2, AcceptedWriteStores
    <3> QED  BY <2>5, <3>2, <3>3 DEF AtomicWrite
  <2> QED  BY <2>7, <2>8
<1>2. IInv /\ [Next]_vars =>
        [\A k \in Commands : raw'[k] # raw[k] =>
           \E s \in Sessions : AtomicWrite(s) \/ BrokenWrite(s)]_vars
  BY <1>1
<1> QED  BY <1>2, InitSafe, NextSafe, PTL DEF Spec, AtomicWrites

\* No write breaks half way.
NeverBreaks == [][\A s \in Sessions : ~BreakWrite(s)]_vars

(* Only a map with a writable register without an effect or a handler lets *)
(* a write break.                                                          *)
LEMMA BreakNeedsGap ==
  ASSUME IInv, NEW s \in Sessions, BreakWrite(s)
  PROVE  ~Sound
<1> DEFINE r == Request(s)
<1>1. r \in Requests /\ WriteResult(r) = "SERVER_FAILURE"
  BY RequestKnown DEF BreakWrite, Called
<1>2. \A i \in Offsets(r) : DefinedAt(r, i) /\ DefinitionAt(r, i).writable
  BY <1>1 DEF WriteResult
<1>3. Sound => \A i \in Offsets(r) : HasEffect(DefinitionAt(r, i))
  BY <1>1, <1>2, DefinitionFinds DEF Sound
<1> QED  BY <1>1, <1>3 DEF WriteResult

(* A map whose writable registers are among those write_raw handles, with  *)
(* a write_effect as the validator asks: no request is ever answered with  *)
(* the adapter's SERVER_FAILURE (write_raw never raises after the checks   *)
(* of action).                                                             *)
THEOREM SoundMapsNeverBreak == ASSUME Sound PROVE Spec => NeverBreaks
<1>1. ASSUME IInv, NEW s \in Sessions, BreakWrite(s) PROVE FALSE
  BY <1>1, BreakNeedsGap
<1>2. IInv /\ [Next]_vars => [\A s \in Sessions : ~BreakWrite(s)]_vars
  BY <1>1
<1> QED  BY <1>2, InitSafe, NextSafe, PTL DEF Spec, NeverBreaks
=============================================================================
