--------------------------- MODULE EventLogProofs ---------------------------
(***************************************************************************)
(* The event log agrees with the answers: one event for every request that *)
(* the adapter handles, with the result and the values it was answered     *)
(* with, however the tasks of the sessions are interleaved.                *)
(***************************************************************************)
EXTENDS DeviceProofs

(* An event agrees with the answer to its request.  Only an accepted write *)
(* is reported before it is answered, and the dependency may still fail    *)
(* before it is.                                                           *)
Agrees(e, a) ==
  /\ IF a.result = "executing" THEN e.result = "ok"
                               ELSE a.result \in {e.result, "DEVICE_FAILURE"}
  /\ e.operation = "read" => a.result # "executing"

(* The handled requests that action() reports: it was called for them, and *)
(* neither it nor its dependency raised.                                   *)
Owed(n) ==
  /\ answers[n].result \notin {Silent, "DEVICE_FAILURE", "SERVER_FAILURE"}
  /\ ~UndefinedCoil(issued[n].request)

Reported(n) == \E i \in DOMAIN emitted : emitted[i].request = n

Accounted ==
  /\ \A i \in DOMAIN emitted :
       /\ emitted[i].request \in Handled
       /\ Agrees(emitted[i], answers[emitted[i].request])
  /\ \A i, j \in DOMAIN emitted : emitted[i].request = emitted[j].request => i = j
  /\ lost = 0 => \A n \in Handled : Owed(n) => Reported(n)

(* A request that has taken effect keeps its answer; one that has none yet *)
(* is an accepted write, which is answered or fails.                       *)
Completes(n) ==
  \/ answers'[n] = answers[n]
  \/ /\ answers[n].result = "executing"
     /\ answers'[n].result \in {"ok", "DEVICE_FAILURE"}

Settles ==
  /\ KeepsIssued
  /\ Handled \subseteq Handled'
  /\ \A n \in Handled : Completes(n)

(* A step emits nothing, and owes nothing for what it handles; or it emits *)
(* the event of the one request it handles.                                *)
Quietly ==
  /\ UNCHANGED <<emitted, lost>>
  /\ \A n \in Handled' \ Handled : ~Owed(n)'

Reports(e) ==
  /\ Emit(e)
  /\ e.request \notin Handled /\ Handled' = Handled \cup {e.request}
  /\ Agrees(e, answers'[e.request])

-----------------------------------------------------------------------------
(* Such steps keep the account.                                            *)
LEMMA QuietAccounts ==
  ASSUME Refining, Accounted, Settles, Quietly
  PROVE  Accounted'
<1>1. Handled \subseteq 1..Len(issued)
  BY Counted DEF Handled
<1>2. emitted' = emitted /\ lost' = lost
  BY DEF Quietly
<1>3. ASSUME NEW i \in DOMAIN emitted
      PROVE  /\ emitted[i].request \in Handled'
             /\ Agrees(emitted[i], answers'[emitted[i].request])
  <2>1. /\ emitted[i].request \in Handled
        /\ Agrees(emitted[i], answers[emitted[i].request])
        /\ Completes(emitted[i].request)
    BY DEF Accounted, Settles
  <2> QED  BY <2>1 DEF Completes, Agrees, Settles
<1>4. ASSUME lost = 0, NEW n \in Handled', Owed(n)'
      PROVE  Reported(n)
  <2>1. n \in Handled /\ Completes(n)
    BY <1>4 DEF Quietly, Settles
  <2>2. issued'[n] = issued[n]
    BY <1>1, <2>1 DEF Settles, KeepsIssued
  <2>3. Owed(n)
    BY <1>4, <2>1, <2>2 DEF Owed, Completes, Silent, UndefinedCoil
  <2> QED  BY <1>4, <2>1, <2>3 DEF Accounted
<1> QED  BY <1>2, <1>3, <1>4 DEF Accounted, Reported

LEMMA ReportAccounts ==
  ASSUME Refining, Accounted, Settles, NEW e \in Events, Reports(e)
  PROVE  Accounted'
<1>1. Handled \subseteq 1..Len(issued)
  BY Counted DEF Handled
<1>2. emitted \in Seq(Events) /\ lost \in Nat /\ DOMAIN emitted = 1..Len(emitted)
      /\ Len(emitted) \in Nat
  BY DEF Refining, IInv, TypeOK
<1>3. ASSUME NEW i \in DOMAIN emitted
      PROVE  /\ emitted[i].request \in Handled' /\ emitted[i].request # e.request
             /\ Agrees(emitted[i], answers'[emitted[i].request])
  <2>1. /\ emitted[i].request \in Handled
        /\ Agrees(emitted[i], answers[emitted[i].request])
        /\ Completes(emitted[i].request)
    BY DEF Accounted, Settles
  <2> QED  BY <2>1 DEF Completes, Agrees, Settles, Reports
<1>4. ASSUME NEW n \in Handled, Owed(n)', lost = 0
      PROVE  Reported(n)
  <2>1. Completes(n) /\ issued'[n] = issued[n]
    BY <1>1, <1>4 DEF Settles, KeepsIssued
  <2>2. Owed(n)
    BY <1>4, <2>1 DEF Owed, Completes, Silent, UndefinedCoil
  <2> QED  BY <1>4, <2>2 DEF Accounted
<1>5. CASE emitted' = emitted /\ lost' = lost + 1
  <2>1. lost' # 0
    BY <1>2, <1>5
  <2> QED  BY <1>3, <1>5, <2>1 DEF Accounted
<1>6. CASE emitted' = Append(emitted, e) /\ lost' = lost
  <2> DEFINE last == Len(emitted) + 1
  <2>1. /\ DOMAIN emitted' = 1..last /\ emitted'[last] = e
        /\ \A i \in DOMAIN emitted : emitted'[i] = emitted[i]
        /\ \A i \in DOMAIN emitted' : i \in DOMAIN emitted \/ i = last
        /\ last \in DOMAIN emitted' /\ DOMAIN emitted \subseteq DOMAIN emitted'
    BY <1>2, <1>6
  <2> HIDE DEF last
  <2>2. e.request \in Handled' /\ Agrees(e, answers'[e.request])
    BY DEF Reports
  <2>3. \A i \in DOMAIN emitted' :
          /\ emitted'[i].request \in Handled'
          /\ Agrees(emitted'[i], answers'[emitted'[i].request])
    BY <1>3, <2>1, <2>2
  <2>4. \A i, j \in DOMAIN emitted' : emitted'[i].request = emitted'[j].request => i = j
    BY <1>3, <2>1 DEF Accounted
  <2>5. ASSUME lost' = 0, NEW n \in Handled', Owed(n)'
        PROVE  Reported(n)'
    <3>1. CASE n = e.request
      BY <2>1, <3>1 DEF Reported
    <3>2. CASE n # e.request
      <4>1. n \in Handled
        BY <3>2 DEF Reports
      <4>2. Reported(n)
        BY <1>4, <1>6, <2>5, <4>1
      <4> QED  BY <2>1, <4>2 DEF Reported
    <3> QED  BY <3>1, <3>2
  <2> QED  BY <2>3, <2>4, <2>5 DEF Accounted
<1> QED  BY <1>5, <1>6 DEF Reports, Emit

-----------------------------------------------------------------------------
Half == Word \div 2

(* Every value a register may show fits the 16-bit word that carries it.   *)
WordsFit ==
  \A d \in Map :
    Values(d) \subseteq IF d.data_type = "int16"
                       THEN 0 - Half..Half - 1
                       ELSE 0..Word - 1

(* A client decodes what was encoded.                                      *)
LEMMA DecodeEncode ==
  ASSUME WordsFit, NEW d \in Map, NEW v \in Values(d)
  PROVE  Decode(d, Encode(v)) = v
<1>1. Word = 65536 /\ Half = 32768
  BY DEF Word, Half
<1>2. CASE d.data_type = "int16"
  <2>0. v \in 0 - Half..Half - 1
    BY <1>2 DEF WordsFit
  <2> DEFINE low == 0 - Half
             high == Half - 1
  <2>a. low \in Int /\ high \in Int /\ low + 32768 = 0 /\ high = 32767
    BY <1>1
  <2> HIDE DEF low, high
  <2>1. v \in Int /\ 0 <= v + 32768 /\ v < 32768
    <3>1. v \in low..high
      BY <2>0 DEF low, high
    <3>2. v \in Int /\ low <= v /\ v <= high
      BY <2>a, <3>1 DEF low
    <3> QED  BY <2>a, <3>2
  <2>2. v % 65536 = IF v < 0 THEN v + 65536 ELSE v
    BY <2>1, SMT
  <2> QED  BY <1>1, <1>2, <2>1, <2>2 DEF Decode, Encode, Half
<1>3. CASE d.data_type # "int16"
  <2>0. v \in 0..Word - 1
    BY <1>3 DEF WordsFit
  <2>1. v \in Int /\ 0 <= v /\ v < 65536
    BY <1>1, <2>0
  <2>2. v % 65536 = v
    BY <2>1, SMT
  <2> QED  BY <1>1, <1>3, <2>2 DEF Decode, Encode, Half
<1> QED  BY <1>2, <1>3

(* Of a read no point is reported that is not served: 16 bits make one     *)
(* register.                                                               *)
LEMMA ReportedIsServed ==
  ASSUME NEW r \in Requests
  PROVE  ReadKeys(r) \subseteq ServedKeys(r) /\ ServedKeys(r) \subseteq Keys
<1>1. r.count \in Nat /\ r.address \in Nat
  BY RequestAssumption
<1>2. HookCount(r) \in Nat /\ HookCount(r) <= r.count
  BY <1>1 DEF HookCount
<1>3. r.address..r.address + HookCount(r) - 1 \subseteq r.address..r.address + r.count - 1
  BY <1>1, <1>2
<1> QED  BY <1>3 DEF ReadKeys, ServedKeys, Points, Keys, ForArea

-----------------------------------------------------------------------------
(* The values of a read event are those of the answer, decoded.            *)
Serves(e, a) ==
  e.operation = "read" =>
    /\ a.result # "executing"
    /\ \A k \in Keys :
         e.response_values[k] # None => e.response_values[k] = Decode(ByKey(k), a.words[k])

-----------------------------------------------------------------------------
(* Every step is one of these, action by action.                           *)
StepAccounts ==
  /\ Settles
  /\ Quietly \/ \E e \in Events :
                  Reports(e) /\ (WordsFit => Serves(e, answers'[e.request]))

(* What answering does to the account of the other requests.               *)
LEMMA AnswerSettles ==
  ASSUME Refining, NEW s \in Sessions, NEW result, AnswersNow(s, result),
         stage[s] = "written" => result \in {"ok", "DEVICE_FAILURE"}
  PROVE  /\ Settles
         /\ current[s] \in 1..Len(issued) /\ answers'[current[s]].result = result
<1> DEFINE n == current[s]
<1>1. PICK words : answers' = [answers EXCEPT ![n] = [result |-> result, words |-> words]]
  BY DEF AnswersNow, Answer
<1>2. n \in 1..Len(issued) /\ answers[n].result = "executing"
  BY DEF AnswersNow, Refining, IInv, TasksBound, InProgress
<1>3. /\ answers'[n].result = result
      /\ \A m \in 1..Len(issued) : m # n => answers'[m] = answers[m]
  BY <1>1, <1>2, Counted
<1>4. KeepsIssued /\ Handled \subseteq Handled'
  <2>1. KeepsIssued
    BY Counted DEF AnswersNow, KeepsIssued
  <2> QED  BY <2>1, AnswerHandles
<1>5. ASSUME NEW m \in Handled PROVE Completes(m)
  <2>1. m \in 1..Len(issued)
    BY Counted DEF Handled
  <2>2. CASE m = n
    <3>1. stage[s] = "written"
      BY <2>2, BoundUnhandled DEF AnswersNow
    <3> QED  BY <1>2, <1>3, <2>2, <3>1 DEF Completes
  <2>3. CASE m # n
    BY <1>3, <2>1, <2>3 DEF Completes
  <2> QED  BY <2>2, <2>3
<1> QED  BY <1>2, <1>3, <1>4, <1>5 DEF Settles

(* The answers without an event: nothing was handled, the write broke, or  *)
(* it was reported already.                                                *)
LEMMA SilentAnswers ==
  ASSUME Refining, NEW s \in Sessions,
         IgnoreUnit(s) \/ Fail(s) \/ BreakWrite(s) \/ Readback(s)
  PROVE  StepAccounts
<1>1. PICK result :
        /\ AnswersNow(s, result)
        /\ stage[s] = "written" => result \in {"ok", "DEVICE_FAILURE"}
        /\ stage[s] = "bound" => result \in {Silent, "DEVICE_FAILURE", "SERVER_FAILURE"}
  <2>1. CASE IgnoreUnit(s)
    BY <2>1, AnswersAre DEF IgnoreUnit
  <2>2. CASE Fail(s)
    BY <2>2, AnswersAre
  <2>3. CASE BreakWrite(s)
    BY <2>3, AnswersAre DEF BreakWrite, Called
  <2>4. CASE Readback(s)
    BY <2>4, AnswersAre DEF Readback
  <2> QED  BY <2>1, <2>2, <2>3, <2>4
<1>2. Settles /\ answers'[current[s]].result = result
  BY <1>1, AnswerSettles
<1>3. Handled' = Handled \cup {current[s]}
  BY <1>1, AnswerHandles
<1>4. emitted' = emitted /\ lost' = lost
  BY DEF IgnoreUnit, Fail, BreakWrite, Readback, telemetry
<1>5. ASSUME NEW m \in Handled' \ Handled PROVE ~Owed(m)'
  <2>1. m = current[s]
    BY <1>3
  <2>2. stage[s] = "bound"
    <3>1. current[s] \notin Handled
      BY <2>1
    <3>2. stage[s] = "written" => current[s] \in Handled
      BY Counted DEF Handled, Refining, IInv, TasksBound
    <3> QED  BY <1>1, <3>1, <3>2 DEF AnswersNow
  <2> QED  BY <1>1, <1>2, <2>1, <2>2 DEF Owed
<1> QED  BY <1>2, <1>4, <1>5 DEF StepAccounts, Quietly

(* The answers with an event.                                              *)
LEMMA ToldAnswers ==
  ASSUME Refining, NEW s \in Sessions, UnknownFunction(s) \/ Read(s) \/ RefuseWrite(s)
  PROVE  StepAccounts
<1> DEFINE n == current[s]
           r == Request(s)
<1>1. stage[s] = "bound" /\ r \in Requests
  BY RequestKnown DEF UnknownFunction, Read, RefuseWrite, Called, Refining
<1>2. n \in 1..Len(issued) /\ n \notin Handled
  BY <1>1, BoundUnhandled
<1>3. ASSUME NEW e \in Events, Emit(e), e.request = n, e.result # "executing",
             AnswersNow(s, e.result), WordsFit => Serves(e, answers'[n])
      PROVE  StepAccounts
  <2>1. Settles /\ answers'[n].result = e.result
    BY <1>1, <1>3, AnswerSettles
  <2>2. Handled' = Handled \cup {n}
    BY <1>3, AnswerHandles
  <2>3. Reports(e)
    BY <1>2, <1>3, <2>1, <2>2 DEF Reports, Agrees
  <2> QED  BY <1>3, <2>1, <2>3 DEF StepAccounts
<1>4. raw \in [Keys -> Int] /\ memory \in [Keys -> 0..Word - 1]
  BY DEF Refining, IInv, TypeOK
<1>5. CASE UnknownFunction(s)
  <2> DEFINE e == Event(s, "unknown", "ILLEGAL_FUNCTION", Nothing, Nothing, Nothing)
  <2>1. e \in Events /\ Emit(e)
    BY <1>5, EventTyped, PartialTyped DEF UnknownFunction, Refining, IInv, Results
  <2>2. e.request = n /\ e.result = "ILLEGAL_FUNCTION" /\ e.operation = "unknown"
    BY DEF Event
  <2>3. AnswersNow(s, "ILLEGAL_FUNCTION")
    BY <1>5, AnswersAre
  <2> HIDE DEF e
  <2> QED  BY <1>3, <2>1, <2>2, <2>3 DEF Serves
<1>6. CASE RefuseWrite(s)
  <2> DEFINE e == Event(s, "write", WriteResult(r), Nothing, Nothing, Nothing)
  <2>1. e \in Events /\ Emit(e)
    BY <1>6, EventTyped, PartialTyped, ResultKnown DEF RefuseWrite, Refining, IInv
  <2>2. e.request = n /\ e.result = WriteResult(r) /\ e.operation = "write"
    BY DEF Event
  <2>3. AnswersNow(s, WriteResult(r)) /\ WriteResult(r) # "executing"
    BY <1>6, AnswersAre DEF RefuseWrite
  <2> HIDE DEF e
  <2> QED  BY <1>3, <2>1, <2>2, <2>3 DEF Serves
<1>7. CASE Read(s)
  <2> DEFINE keys == ReadKeys(r)
             served == ServedKeys(r)
             e == Event(s, "read", "ok", Of(keys, raw), Nothing, Nothing)
  <2>1. e \in Events /\ Emit(e)
    BY <1>4, <1>7, EventTyped, PartialTyped DEF Read, Refining, IInv, Results
  <2>2. /\ e.request = n /\ e.result = "ok" /\ e.operation = "read"
        /\ e.response_values = Of(keys, raw)
    BY DEF Event
  <2>3. /\ AnswersNow(s, "ok") /\ Answer(s, "ok", Of(served, memory'))
        /\ memory' = Synced(Area(s), raw)
    BY <1>7, AnswersAre DEF Read
  <2>4. answers'[n] = [result |-> "ok", words |-> Of(served, memory')]
    BY <1>2, <2>3, Counted DEF Answer
  <2>5. ASSUME WordsFit, NEW k \in keys
        PROVE  k \in served /\ k \in Keys /\ raw[k] = Decode(ByKey(k), memory'[k])
    <3>1. PICK d \in Map : d.area = Area(s) /\ d.key = k
      BY DEF ReadKeys, Points, ForArea, Area
    <3>2. k \in Keys /\ ByKey(k) = d
      BY <3>1, ByKeyFinds
    <3>3. memory'[k] = Encode(raw[k])
      BY <2>3, <3>1, <3>2 DEF Synced, ForArea
    <3>4. raw[k] \in Values(d)
      BY <3>2 DEF Refining, IInv, TypeOK
    <3>5. k \in served
      BY <1>1, ReportedIsServed
    <3> QED  BY <2>5, <3>2, <3>3, <3>4, <3>5, DecodeEncode
  <2> HIDE DEF e, keys, served
  <2>6. WordsFit => Serves(e, answers'[n])
    BY <2>2, <2>4, <2>5 DEF Serves, Of
  <2> QED  BY <1>3, <2>1, <2>2, <2>3, <2>6
<1> QED  BY <1>5, <1>6, <1>7

(* An accepted write is reported before it is answered.                    *)
LEMMA AcceptAccounts ==
  ASSUME Refining, NEW s \in Sessions, AcceptWrite(s)
  PROVE  StepAccounts
<1> DEFINE n == current[s]
           r == Request(s)
           e == Event(s, "write", "ok", Nothing, BeforeWrite(r), AfterWrite(r))
<1>1. /\ stage[s] = "bound" /\ r \in Requests /\ TypeOK
      /\ Emit(e) /\ UNCHANGED <<issued, answers>>
  BY RequestKnown DEF AcceptWrite, Called, Refining, IInv, clients
<1>2. n \in 1..Len(issued) /\ n \notin Handled /\ answers[n].result = "executing"
  BY <1>1, BoundUnhandled DEF Refining, InProgress
<1>3. e \in Events
  <2>1. raw \in [Keys -> Int] /\ RawAfter(r) \in [Keys -> Int]
    BY <1>1, RawAfterTyped DEF Refining, TypeOK
  <2> QED  BY <1>1, <2>1, EventTyped, PartialTyped DEF Results, BeforeWrite, AfterWrite
<1>4. e.request = n /\ e.result = "ok" /\ e.operation = "write"
  BY DEF Event
<1>5. Handled' = Handled \cup {n}
  BY AcceptHandles
<1> HIDE DEF e
<1>6. Settles
  BY <1>1, <1>5, Counted DEF Settles, KeepsIssued, Completes
<1>7. Reports(e) /\ Serves(e, answers'[e.request])
  BY <1>1, <1>2, <1>4, <1>5 DEF Reports, Agrees, Serves
<1> QED  BY <1>3, <1>6, <1>7 DEF StepAccounts

(* A request that is only issued has not been handled; the coil that       *)
(* callback_data refuses itself is owed no event.                          *)
LEMMA IssueAccounts ==
  ASSUME Refining, NEW s \in Sessions, NEW r \in Requests, Execute(s, r) \/ RefuseCoil(s, r)
  PROVE  StepAccounts
<1> DEFINE n == Len(issued) + 1
<1>1. PICK a : Issue(s, r, a) /\ a \in Answers
  BY PartialTyped DEF Execute, RefuseCoil, Unanswered, Answers, Results
<1>2. issued \in Seq([session : Sessions, request : Requests])
  BY DEF Refining, IInv, TypeOK
<1>3. /\ Len(issued') = n /\ issued'[n].request = r
      /\ \A m \in 1..Len(issued) : issued'[m] = issued[m] /\ answers'[m] = answers[m]
  BY <1>1, <1>2, Counted DEF Issue
<1>4. Handled \subseteq 1..Len(issued) /\ Handled' \in {Handled, Handled \cup {n}}
  BY Counted, IssueHandles DEF Handled
<1>5. Settles
  <2>1. KeepsIssued
    BY <1>3, Counted DEF KeepsIssued
  <2>2. \A m \in Handled : answers'[m] = answers[m]
    BY <1>3, <1>4
  <2> QED  BY <1>4, <2>1, <2>2 DEF Settles, Completes
<1>6. emitted' = emitted /\ lost' = lost
  BY DEF Execute, RefuseCoil, telemetry
<1>7. CASE RefuseCoil(s, r)
  <2>1. UndefinedCoil(issued'[n].request)
    BY <1>3, <1>7 DEF RefuseCoil
  <2> QED  BY <1>4, <1>5, <1>6, <2>1 DEF StepAccounts, Quietly, Owed, UndefinedCoil
<1>8. CASE Execute(s, r)
  <2>1. Issue(s, r, Unanswered) /\ Unanswered \in Answers
    BY <1>8, PartialTyped DEF Execute, Unanswered, Answers, Results
  <2>2. answers'[n].result = "executing"
    BY <2>1, Counted DEF Issue, Unanswered
  <2>3. /\ stage'[s] = "bound"
        /\ \A t \in Sessions \ {s} : stage'[t] = stage[t] /\ current'[t] = current[t]
    BY <1>8, Counted DEF Execute
  <2>4. \A t \in Sessions : stage'[t] = "written" => current'[t] # n
    BY <2>3, Counted DEF Refining, IInv, TasksBound
  <2>5. n \notin Handled'
    BY <2>2, <2>4 DEF Handled
  <2> QED  BY <1>4, <1>5, <1>6, <2>5 DEF StepAccounts, Quietly
<1> QED  BY <1>7, <1>8

LEMMA NextAccounts ==
  ASSUME Refining, [Next]_vars
  PROVE  StepAccounts
<1>1. CASE Tick \/ UNCHANGED vars \/ \E s \in Sessions : Finish(s)
  <2>1. /\ Handled' = Handled /\ lost' = lost /\ issued' = issued
        /\ answers' = answers /\ emitted' = emitted
    BY <1>1, OthersHandleNothing DEF Tick, vars, Finish, telemetry, clients
  <2> QED  BY <2>1, Counted DEF StepAccounts, Settles, KeepsIssued, Completes, Quietly
<1>2. ASSUME NEW s \in Sessions, Step(s), ~Finish(s) PROVE StepAccounts
  BY <1>2, IssueAccounts, SilentAnswers, ToldAnswers, AcceptAccounts DEF Step
<1> QED  BY <1>1, <1>2 DEF Next

-----------------------------------------------------------------------------
(* Accounted is inductive, relative to Refining.                           *)
LEMMA AccountedStep == Refining /\ Accounted /\ [Next]_vars => Accounted'
BY NextAccounts, QuietAccounts, ReportAccounts DEF StepAccounts

(***************************************************************************)
(* action() calls _emit_event exactly once for every request it handles: a *)
(* read, a write and a refusal each leave one event with the result they   *)
(* are answered with, and the call that reads a write back leaves none,    *)
(* whatever other sessions do in between. Left out are events the sink     *)
(* lost, and requests that action() never saw or that raised.              *)
(***************************************************************************)
THEOREM EveryRequestReportedOnce == Spec => []OneEventPerRequest
<1>1. Init => Accounted
  BY DEF Init, Accounted, Handled
<1>2. Refining /\ Accounted => OneEventPerRequest
  <2> SUFFICES ASSUME Refining, Accounted PROVE OneEventPerRequest
    OBVIOUS
  <2>1. ASSUME NEW n \in DOMAIN issued, lost = 0, ~UndefinedCoil(issued[n].request),
               answers[n].result \in Results \
                 {"executing", Silent, "DEVICE_FAILURE", "SERVER_FAILURE"}
        PROVE  \E i \in DOMAIN emitted : emitted[i].request = n
    <3>1. n \in Handled /\ Owed(n)
      BY <2>1 DEF Handled, Owed
    <3> QED  BY <2>1, <3>1 DEF Accounted, Reported
  <2>2. \A i \in DOMAIN emitted :
          answers[emitted[i].request].result
            \in {emitted[i].result, "executing", "DEVICE_FAILURE"}
    BY DEF Accounted, Agrees
  <2> QED  BY <2>1, <2>2 DEF OneEventPerRequest, Accounted
<1> QED  BY <1>1, <1>2, RefiningInit, RefiningStep, AccountedStep, PTL DEF Spec

(* Every read event still agrees with its answer.                          *)
Served ==
  \A i \in DOMAIN emitted :
    emitted[i].request \in Handled /\ Serves(emitted[i], answers[emitted[i].request])

(* Served is inductive, relative to Refining.                              *)
LEMMA ServedStep ==
  ASSUME WordsFit, Refining, Served, [Next]_vars
  PROVE  Served'
<1>1. Settles
  BY NextAccounts DEF StepAccounts
<1>2. ASSUME NEW i \in DOMAIN emitted
      PROVE  /\ emitted[i].request \in Handled'
             /\ Serves(emitted[i], answers'[emitted[i].request])
  <2>1. /\ emitted[i].request \in Handled
        /\ Serves(emitted[i], answers[emitted[i].request])
        /\ Completes(emitted[i].request)
    BY <1>1 DEF Served, Settles
  <2> QED  BY <1>1, <2>1 DEF Completes, Serves, Settles
<1>3. CASE emitted' = emitted
  BY <1>2, <1>3 DEF Served, Serves
<1>4. ASSUME NEW e \in Events, Reports(e), Serves(e, answers'[e.request]),
             emitted' = Append(emitted, e)
      PROVE  Served'
  <2>1. emitted \in Seq(Events)
    BY DEF Refining, IInv, TypeOK
  <2>2. \A i \in DOMAIN emitted' :
          \/ i \in DOMAIN emitted /\ emitted'[i] = emitted[i]
          \/ emitted'[i] = e
    BY <1>4, <2>1
  <2>3. e.request \in Handled'
    BY <1>4 DEF Reports
  <2> QED  BY <1>2, <1>4, <2>2, <2>3 DEF Served, Serves
<1> QED  BY <1>3, <1>4, NextAccounts DEF StepAccounts, Quietly, Reports, Emit

(***************************************************************************)
(* The response_values of a read event are what the client decodes from    *)
(* the words that sync_area and _encode_register put into PyModbus's       *)
(* memory for it. That every range fits the word is needed: nothing in     *)
(* RegisterMap asks for it.                                                *)
(***************************************************************************)
THEOREM ReadsAreReported ==
  ASSUME WordsFit
  PROVE  Spec => []ServedIsReported
<1>1. Init => Served
  BY DEF Init, Served
<1>2. Served => ServedIsReported
  BY DEF Served, Serves, ServedIsReported
<1>3. Refining /\ Served /\ [Next]_vars => Served'
  BY ServedStep
<1> QED  BY <1>1, <1>2, <1>3, RefiningInit, RefiningStep, PTL DEF Spec
=============================================================================
