---------------------------- MODULE DeviceProofs ----------------------------
(***************************************************************************)
(* The protocol adapter implements Device: every step of any number of     *)
(* sessions, and of the process, is a step of the device or a stutter.     *)
(***************************************************************************)
EXTENDS ProtocolAdapterProofs

(* A request that is in progress has no answer yet.                        *)
InProgress ==
  /\ DOMAIN answers = 1..Len(issued)
  /\ \A s \in Sessions :
       stage[s] \in {"bound", "written"} => answers[current[s]].result = "executing"

Refining == IInv /\ InProgress

-----------------------------------------------------------------------------
(* The log as the device sees it.                                          *)
Entry(e) ==
  [request |-> e.request, shown |-> e.response_values,
   before |-> e.before, after |-> e.after]

LEMMA TrailAppended ==
  ASSUME emitted \in Seq(Events), NEW e \in Events, emitted' = Append(emitted, e)
  PROVE  Trail' = Append(Trail, Entry(e))
<1> DEFINE S == {Entry(x) : x \in Events}
<1>1. /\ Len(emitted) \in Nat /\ DOMAIN emitted = 1..Len(emitted)
      /\ \A i \in 1..Len(emitted) : emitted[i] \in Events
  OBVIOUS
<1>2. /\ Len(emitted') = Len(emitted) + 1 /\ DOMAIN emitted' = 1..Len(emitted) + 1
      /\ \A i \in 1..Len(emitted) : emitted'[i] = emitted[i]
      /\ emitted'[Len(emitted) + 1] = e
  BY <1>1
<1>3. Trail = [i \in 1..Len(emitted) |-> Entry(emitted[i])]
  BY <1>1 DEF Trail, Entry
<1>4. Trail' = [i \in 1..Len(emitted) + 1 |-> Entry(emitted'[i])]
  BY <1>2 DEF Trail, Entry
<1>5. Entry(e) \in S /\ \A i \in 1..Len(emitted) : Entry(emitted[i]) \in S
  BY <1>1
<1> DEFINE n == Len(emitted)
           x == Entry(e)
<1> HIDE DEF S
<1>6. Trail \in Seq(S) /\ Len(Trail) = n
  <2>1. Trail \in [1..n -> S] /\ n \in Nat
    BY <1>1, <1>3, <1>5
  <2> HIDE DEF n
  <2> QED  BY <2>1, SeqDef
<1>7. \A i \in 1..n + 1 : Trail'[i] = IF i = n + 1 THEN x ELSE Trail[i]
  BY <1>1, <1>2, <1>3, <1>4
<1>8. Trail' \in Seq(S) /\ Len(Trail') = n + 1
  <2>1. Trail' \in [1..n + 1 -> S] /\ n + 1 \in Nat
    BY <1>1, <1>2, <1>4, <1>5
  <2> HIDE DEF n
  <2> QED  BY <2>1, SeqDef
<1>9. /\ Append(Trail, x) \in Seq(S) /\ Len(Append(Trail, x)) = n + 1
      /\ \A i \in 1..n + 1 : Append(Trail, x)[i] = IF i = n + 1 THEN x ELSE Trail[i]
  <2> HIDE DEF n, x
  <2>1. x \in S /\ n \in Nat
    BY <1>1, <1>5 DEF n, x
  <2> QED  BY <1>6, <2>1, AppendProperties
<1> HIDE DEF n, x
<1>10. \A i \in 1..Len(Trail') : Trail'[i] = Append(Trail, x)[i]
  BY <1>7, <1>8, <1>9
<1> QED  BY <1>8, <1>9, <1>10, SeqEqual DEF x

LEMMA TrailSame == emitted' = emitted => Trail' = Trail
BY DEF Trail

(* Emitting an event is entering it in the device's log.                   *)
LEMMA EmitEnters ==
  ASSUME TypeOK, NEW e \in Events, Emit(e)
  PROVE  \/ Trail' = Append(Trail, Entry(e)) /\ UNCHANGED lost
         \/ lost' = lost + 1 /\ Trail' = Trail
<1>1. emitted \in Seq(Events)
  BY DEF TypeOK
<1> QED  BY <1>1, TrailAppended, TrailSame DEF Emit
-----------------------------------------------------------------------------
(* Facts about the requests of a state that the steps share.               *)
LEMMA Counted ==
  ASSUME Refining
  PROVE  /\ Len(issued) \in Nat /\ DOMAIN issued = 1..Len(issued)
         /\ answers \in Seq(Answers) /\ Len(answers) = Len(issued)
         /\ DOMAIN answers = 1..Len(issued)
         /\ stage \in [Sessions -> {"idle", "bound", "written", "done"}]
         /\ current \in [Sessions -> Nat]
<1>1. answers \in Seq(Answers) /\ DOMAIN answers = 1..Len(issued)
  BY DEF Refining, IInv, TypeOK, InProgress
<1>2. Len(issued) \in Nat /\ DOMAIN issued = 1..Len(issued)
  BY DEF Refining, IInv, TypeOK
<1>3. Len(answers) = Len(issued)
  BY <1>1, <1>2
<1> QED  BY <1>1, <1>2, <1>3 DEF Refining, IInv, TypeOK

(* No two sessions execute the same request.                               *)
LEMMA OwnRequest ==
  ASSUME Refining, NEW s \in Sessions, stage[s] # "idle",
         NEW t \in Sessions, stage[t] # "idle", current[t] = current[s]
  PROVE  t = s
BY DEF Refining, IInv, TasksBound

LEMMA BoundUnhandled ==
  ASSUME Refining, NEW s \in Sessions, stage[s] = "bound"
  PROVE  current[s] \in 1..Len(issued) /\ current[s] \notin Handled
<1>1. current[s] \in 1..Len(issued) /\ answers[current[s]].result = "executing"
  BY DEF Refining, IInv, TasksBound, InProgress
<1>2. ~\E t \in Sessions : stage[t] = "written" /\ current[t] = current[s]
  BY OwnRequest
<1> QED  BY <1>1, <1>2 DEF Handled

(* The session's request is answered now, and its task is done.            *)
AnswersNow(s, result) ==
  /\ stage[s] \in {"bound", "written"}
  /\ result # "executing"
  /\ \E words : Answer(s, result, words)
  /\ stage' = [stage EXCEPT ![s] = "done"]
  /\ UNCHANGED <<current, issued>>

LEMMA AnswersAre ==
  ASSUME NEW s \in Sessions
  PROVE  /\ IgnoreUnit(s) => AnswersNow(s, Silent)
         /\ Fail(s) => AnswersNow(s, "DEVICE_FAILURE")
         /\ UnknownFunction(s) => AnswersNow(s, "ILLEGAL_FUNCTION")
         /\ Read(s) => AnswersNow(s, "ok")
         /\ RefuseWrite(s) => AnswersNow(s, WriteResult(Request(s)))
         /\ BreakWrite(s) => AnswersNow(s, "SERVER_FAILURE")
         /\ Readback(s) => AnswersNow(s, "ok")
<1>1. /\ IgnoreUnit(s) => AnswersNow(s, Silent)
      /\ Fail(s) => AnswersNow(s, "DEVICE_FAILURE")
  BY DEF IgnoreUnit, Fail, AnswersNow, Silent
<1>2. /\ UnknownFunction(s) => AnswersNow(s, "ILLEGAL_FUNCTION")
      /\ Read(s) => AnswersNow(s, "ok")
  BY DEF UnknownFunction, Read, Called, AnswersNow
<1>3. RefuseWrite(s) => AnswersNow(s, WriteResult(Request(s)))
  BY DEF RefuseWrite, Called, AnswersNow
<1>4. BreakWrite(s) => AnswersNow(s, "SERVER_FAILURE")
  BY DEF BreakWrite, Called, AnswersNow
<1>5. Readback(s) => AnswersNow(s, "ok")
  BY DEF Readback, AnswersNow
<1> QED  BY <1>1, <1>2, <1>3, <1>4, <1>5

LEMMA AnswerHandles ==
  ASSUME Refining, NEW s \in Sessions, NEW result, AnswersNow(s, result)
  PROVE  InProgress' /\ Handled' = Handled \cup {current[s]}
<1> DEFINE n == current[s]
<1>1. PICK words : answers' = [answers EXCEPT ![n] = [result |-> result, words |-> words]]
  BY DEF AnswersNow, Answer
<1>2. n \in 1..Len(issued) /\ stage[s] # "idle"
  BY DEF AnswersNow, Refining, IInv, TasksBound
<1>3. /\ DOMAIN answers' = 1..Len(issued')
      /\ answers'[n].result = result
      /\ \A m \in 1..Len(issued) : m # n => answers'[m] = answers[m]
  BY <1>1, <1>2, Counted DEF AnswersNow
<1>4. stage'[s] = "done" /\ \A t \in Sessions \ {s} : stage'[t] = stage[t]
  BY Counted DEF AnswersNow
<1>5. \A t \in Sessions : stage'[t] \in {"bound", "written"} => t # s /\ current[t] # n
  BY <1>2, <1>4, OwnRequest
<1>6. InProgress'
  <2> SUFFICES ASSUME NEW t \in Sessions, stage'[t] \in {"bound", "written"}
               PROVE  answers'[current'[t]].result = "executing"
    BY <1>3 DEF InProgress
  <2>1. /\ current'[t] = current[t] /\ current[t] # n /\ stage[t] = stage'[t]
    BY <1>4, <1>5 DEF AnswersNow
  <2>2. current[t] \in 1..Len(issued) /\ answers[current[t]].result = "executing"
    BY <2>1 DEF Refining, IInv, TasksBound, InProgress
  <2> QED  BY <1>3, <2>1, <2>2
<1>7. ASSUME NEW m \in 1..Len(issued)
      PROVE  m \in Handled' <=> m \in Handled \/ m = n
  <2>1. m \in Handled' <=> \/ answers'[m].result # "executing"
                          \/ \E t \in Sessions : stage'[t] = "written" /\ current[t] = m
    BY Counted DEF Handled, AnswersNow
  <2>2. m \in Handled <=> \/ answers[m].result # "executing"
                         \/ \E t \in Sessions : stage[t] = "written" /\ current[t] = m
    BY Counted DEF Handled
  <2>3. CASE m = n
    BY <1>3, <2>1, <2>3 DEF AnswersNow
  <2>4. CASE m # n
    <3>1. \A t \in Sessions : current[t] = m => (stage'[t] = "written" <=> stage[t] = "written")
      BY <1>4, <2>4
    <3> QED  BY <1>3, <2>1, <2>2, <2>4, <3>1
  <2> QED  BY <2>3, <2>4
<1>8. Handled \subseteq 1..Len(issued) /\ Handled' \subseteq 1..Len(issued)
  BY Counted DEF Handled, AnswersNow
<1> QED  BY <1>2, <1>6, <1>7, <1>8

(* A request that is issued: refused at once, or left to its session.      *)
LEMMA IssueHandles ==
  ASSUME Refining, NEW s \in Sessions, NEW r \in Requests, Execute(s, r) \/ RefuseCoil(s, r)
  PROVE  /\ InProgress'
         /\ Len(issued') = Len(issued) + 1
         /\ Handled' \in {Handled, Handled \cup {Len(issued) + 1}}
<1> DEFINE n == Len(issued) + 1
<1>1. PICK a : Issue(s, r, a) /\ a = IF Execute(s, r) THEN Unanswered
                                    ELSE [result |-> "ILLEGAL_VALUE", words |-> Nothing]
  BY DEF Execute, RefuseCoil
<1>2. a \in Answers
  BY <1>1, PartialTyped DEF Unanswered, Answers, Results
<1>3. issued \in Seq([session : Sessions, request : Requests])
  BY DEF Refining, IInv, TypeOK
<1>4. /\ Len(issued') = n /\ DOMAIN issued' = 1..n
      /\ DOMAIN answers' = 1..n
      /\ \A m \in 1..Len(issued) : answers'[m] = answers[m]
      /\ answers'[n] = a
  BY <1>1, <1>2, <1>3, Counted DEF Issue
<1>5. ASSUME NEW t \in Sessions, stage[t] # "idle"
      PROVE  current[t] \in 1..Len(issued)
  BY <1>5 DEF Refining, IInv, TasksBound
<1>6. CASE Execute(s, r)
  <2>1. /\ stage[s] = "idle" /\ stage' = [stage EXCEPT ![s] = "bound"]
        /\ current' = [current EXCEPT ![s] = n]
    BY <1>4, <1>6 DEF Execute
  <2>2. /\ stage'[s] = "bound" /\ current'[s] = n
        /\ \A t \in Sessions \ {s} : stage'[t] = stage[t] /\ current'[t] = current[t]
    BY <2>1, Counted
  <2>3. a.result = "executing"
    BY <1>1, <1>6 DEF Unanswered
  <2>4. InProgress'
    <3> SUFFICES ASSUME NEW t \in Sessions, stage'[t] \in {"bound", "written"}
                 PROVE  answers'[current'[t]].result = "executing"
      BY <1>4 DEF InProgress
    <3>1. CASE t = s
      BY <1>4, <2>2, <2>3, <3>1
    <3>2. CASE t # s
      BY <1>4, <1>5, <2>2, <3>2 DEF Refining, InProgress
    <3> QED  BY <3>1, <3>2
  <2>5. ASSUME NEW m \in 1..n PROVE m \in Handled' <=> m \in Handled
    <3>1. m \in Handled' <=> \/ answers'[m].result # "executing"
                            \/ \E t \in Sessions : stage'[t] = "written" /\ current'[t] = m
      BY <1>4 DEF Handled
    <3>2. (\E t \in Sessions : stage'[t] = "written" /\ current'[t] = m)
            <=> \E t \in Sessions : stage[t] = "written" /\ current[t] = m
      BY <2>1, <2>2
    <3>3. CASE m = n
      <4>1. n \notin 1..Len(issued)
        BY Counted
      <4>2. ~\E t \in Sessions : stage[t] = "written" /\ current[t] = n
        BY <1>5, <4>1
      <4> QED  BY <1>4, <2>3, <3>1, <3>2, <3>3, <4>1, <4>2, Counted DEF Handled
    <3>4. CASE m # n
      <4>1. m \in 1..Len(issued)
        BY <3>4, Counted
      <4> QED  BY <1>4, <3>1, <3>2, <4>1, Counted DEF Handled
    <3> QED  BY <3>3, <3>4
  <2>6. Handled' \subseteq 1..n /\ Handled \subseteq 1..n
    BY <1>4, Counted DEF Handled
  <2> QED  BY <1>4, <2>4, <2>5, <2>6
<1>7. CASE ~Execute(s, r)
  <2>1. UNCHANGED <<stage, context, current>>
    BY <1>7 DEF RefuseCoil, tasks
  <2>2. a.result # "executing"
    BY <1>1, <1>7
  <2>3. InProgress'
    BY <1>4, <1>5, <2>1 DEF Refining, InProgress
  <2>4. ASSUME NEW m \in 1..n PROVE m \in Handled' <=> m \in Handled \/ m = n
    <3>1. m \in Handled' <=> \/ answers'[m].result # "executing"
                            \/ \E t \in Sessions : stage[t] = "written" /\ current[t] = m
      BY <1>4, <2>1 DEF Handled
    <3>2. CASE m = n
      BY <1>4, <2>2, <3>1, <3>2
    <3>3. CASE m # n
      <4>1. m \in 1..Len(issued)
        BY <3>3, Counted
      <4> QED  BY <1>4, <3>1, <3>3, <4>1, Counted DEF Handled
    <3> QED  BY <3>2, <3>3
  <2>5. Handled' \subseteq 1..n /\ Handled \subseteq 1..n /\ n \in 1..n
    BY <1>4, Counted DEF Handled
  <2> QED  BY <1>4, <2>3, <2>4, <2>5
<1> QED  BY <1>6, <1>7

(* A write that is accepted has taken effect before it is answered.        *)
LEMMA AcceptHandles ==
  ASSUME Refining, NEW s \in Sessions, AcceptWrite(s)
  PROVE  InProgress' /\ Handled' = Handled \cup {current[s]}
<1>1. /\ stage[s] = "bound" /\ stage' = [stage EXCEPT ![s] = "written"]
      /\ UNCHANGED <<current, issued, answers>>
  BY DEF AcceptWrite, Called, clients
<1>2. stage'[s] = "written" /\ \A t \in Sessions \ {s} : stage'[t] = stage[t]
  BY <1>1, Counted
<1>3. InProgress'
  BY <1>1, <1>2 DEF Refining, InProgress
<1>4. current[s] \in 1..Len(issued)
  BY <1>1, BoundUnhandled
<1>5. ASSUME NEW m PROVE m \in Handled' <=> m \in Handled \/ m = current[s]
  <2>1. (\E t \in Sessions : stage'[t] = "written" /\ current[t] = m)
          <=> (\E t \in Sessions : stage[t] = "written" /\ current[t] = m) \/ m = current[s]
    BY <1>1, <1>2
  <2> QED  BY <1>1, <1>4, <2>1, Counted DEF Handled
<1> QED  BY <1>3, <1>5

(* What leaves requests alone.                                             *)
LEMMA OthersHandleNothing ==
  ASSUME Refining, Tick \/ UNCHANGED vars \/ \E s \in Sessions : Finish(s)
  PROVE  /\ InProgress' /\ Handled' = Handled /\ Trail' = Trail
         /\ UNCHANGED <<lost, issued>>
<1>1. CASE Tick \/ UNCHANGED vars
  BY <1>1 DEF Tick, vars, tasks, clients, telemetry, Refining, InProgress, Handled, Trail
<1>2. ASSUME NEW s \in Sessions, Finish(s)
      PROVE  /\ InProgress' /\ Handled' = Handled /\ Trail' = Trail
             /\ UNCHANGED <<lost, issued>>
  <2>1. /\ stage[s] = "done" /\ stage' = [stage EXCEPT ![s] = "idle"]
        /\ UNCHANGED <<current, issued, answers, emitted, lost>>
    BY <1>2 DEF Finish, telemetry, clients
  <2>2. \A t \in Sessions :
          \/ stage'[t] = stage[t]
          \/ stage[t] = "done" /\ stage'[t] = "idle"
    BY <2>1, Counted
  <2>3. InProgress'
    BY <2>1, <2>2 DEF Refining, InProgress
  <2>4. \A t \in Sessions : stage'[t] = "written" <=> stage[t] = "written"
    BY <2>2
  <2>5. Handled' = Handled
    BY <2>1, <2>4 DEF Handled
  <2> QED  BY <2>1, <2>3, <2>5, TrailSame
<1> QED  BY <1>1, <1>2

LEMMA RefiningStep == Refining /\ [Next]_vars => Refining'
<1> SUFFICES ASSUME Refining, [Next]_vars PROVE Refining'
  OBVIOUS
<1>1. IInv'
  BY NextSafe DEF Refining
<1>2. CASE Tick \/ UNCHANGED vars \/ \E s \in Sessions : Finish(s)
  BY <1>1, <1>2, OthersHandleNothing DEF Refining
<1>3. ASSUME NEW s \in Sessions, Step(s), ~Finish(s) PROVE InProgress'
  <2>1. CASE \E r \in Requests : Execute(s, r) \/ RefuseCoil(s, r)
    BY <2>1, IssueHandles
  <2>2. CASE AcceptWrite(s)
    BY <2>2, AcceptHandles
  <2>3. CASE IgnoreUnit(s) \/ Fail(s) \/ UnknownFunction(s) \/ Read(s) \/ RefuseWrite(s)
             \/ BreakWrite(s) \/ Readback(s)
    <3>1. \E result : AnswersNow(s, result)
      BY <2>3, AnswersAre
    <3> QED  BY <3>1, AnswerHandles
  <2> QED  BY <1>3, <2>1, <2>2, <2>3 DEF Step
<1> QED  BY <1>1, <1>2, <1>3 DEF Next, Refining

LEMMA RefiningInit == Init => Refining
BY InitSafe DEF Init, Refining, InProgress

-----------------------------------------------------------------------------
(* Action by action, the step of the device.                               *)
LEMMA Shows ==
  ASSUME Refining, NEW s \in Sessions, stage[s] = "bound",
         Handled' = Handled \cup {current[s]}, UNCHANGED <<raw, issued>>,
         NEW ks \in SUBSET Keys, NEW operation \in {"read", "write", "unknown"},
         NEW result \in Results,
         Emit(Event(s, operation, result, Of(ks, raw), Nothing, Nothing))
  PROVE  D!Show(current[s])
<1> DEFINE e == Event(s, operation, result, Of(ks, raw), Nothing, Nothing)
<1>1. raw \in [Keys -> Int] /\ TypeOK
  BY DEF Refining, IInv, TypeOK
<1>2. e \in Events
  BY <1>1, PartialTyped, EventTyped
<1>3. Entry(e) = [request |-> current[s], shown |-> D!Of(ks, raw),
                  before |-> D!Of({}, raw), after |-> D!Of({}, raw)]
  BY DEF Entry, Event, Of, D!Of, Nothing
<1>4. \/ Trail' = Append(Trail, Entry(e)) /\ UNCHANGED lost
      \/ lost' = lost + 1 /\ Trail' = Trail
  BY <1>1, <1>2, EmitEnters
<1>5. D!Handle(current[s])
  BY BoundUnhandled DEF D!Handle
<1>6. D!Enter(Entry(e))
  BY <1>4 DEF D!Enter
<1> HIDE DEF e
<1> QED  BY <1>3, <1>5, <1>6 DEF D!Show

(* What is declined, and what only answers a request that was handled.     *)
LEMMA AnswersSilently ==
  ASSUME Refining, NEW s \in Sessions, NEW result, AnswersNow(s, result),
         UNCHANGED <<raw, telemetry>>
  PROVE  [D!Next]_(D!vars)
<1>1. /\ Handled' = Handled \cup {current[s]} /\ Trail' = Trail
      /\ UNCHANGED <<raw, lost, issued>>
  BY AnswerHandles, TrailSame DEF AnswersNow, telemetry
<1>2. CASE stage[s] = "bound"
  <2>1. current[s] \in 1..Len(issued) /\ D!Decline(current[s])
    BY <1>1, <1>2, BoundUnhandled DEF D!Decline, D!Handle
  <2> QED  BY <2>1 DEF D!Next
<1>3. CASE stage[s] = "written"
  <2>1. current[s] \in 1..Len(issued)
    BY <1>3 DEF Refining, IInv, TasksBound
  <2>2. current[s] \in Handled
    BY <1>3, <2>1, Counted DEF Handled
  <2> QED  BY <1>1, <2>2 DEF D!vars
<1> QED  BY <1>2, <1>3 DEF AnswersNow

LEMMA ShowsOrRefuses ==
  ASSUME Refining, NEW s \in Sessions, UnknownFunction(s) \/ Read(s) \/ RefuseWrite(s)
  PROVE  D!Show(current[s]) /\ current[s] \in 1..Len(issued)
<1> DEFINE r == Request(s)
<1>1. stage[s] = "bound" /\ r \in Requests
  BY RequestKnown DEF UnknownFunction, Read, RefuseWrite, Called, Refining
<1>2. UNCHANGED issued /\ Handled' = Handled \cup {current[s]}
  BY AnswersAre, AnswerHandles DEF AnswersNow
<1>3. Nothing = Of({}, raw) /\ {} \in SUBSET Keys
  BY DEF Nothing, Of
<1>4. CASE UnknownFunction(s)
  <2>1. /\ UNCHANGED raw
        /\ Emit(Event(s, "unknown", "ILLEGAL_FUNCTION", Of({}, raw), Nothing, Nothing))
    BY <1>3, <1>4 DEF UnknownFunction, process
  <2> QED  BY <1>1, <1>2, <1>3, <2>1, Shows, BoundUnhandled DEF Results
<1>5. CASE Read(s)
  <2>1. /\ UNCHANGED raw
        /\ Emit(Event(s, "read", "ok", Of(ReadKeys(r), raw), Nothing, Nothing))
    BY <1>5 DEF Read
  <2>2. ReadKeys(r) \in SUBSET Keys
    BY DEF ReadKeys, Points, Keys, ForArea
  <2> QED  BY <1>1, <1>2, <2>1, <2>2, Shows, BoundUnhandled DEF Results
<1>6. CASE RefuseWrite(s)
  <2>1. /\ raw' = RawAfter(r) /\ Applied(r) = {}
        /\ Emit(Event(s, "write", WriteResult(r), Of({}, raw), Nothing, Nothing))
    BY <1>3, <1>6 DEF RefuseWrite, Applied
  <2>2. RawAfter(r) = raw
    BY <1>1, <2>1, RawAfterTyped DEF Refining
  <2> QED  BY <1>1, <1>2, <1>3, <2>1, <2>2, Shows, BoundUnhandled, ResultKnown
<1> QED  BY <1>4, <1>5, <1>6

LEMMA Breaks ==
  ASSUME Refining, NEW s \in Sessions, BreakWrite(s)
  PROVE  D!Break(current[s]) /\ current[s] \in 1..Len(issued)
<1> DEFINE r == Request(s)
<1>1. stage[s] = "bound" /\ r \in Requests /\ IInv
  BY RequestKnown DEF BreakWrite, Called, Refining
<1>2. ~Sound
  BY BreakNeedsGap DEF Refining
<1>3. UNCHANGED issued /\ Handled' = Handled \cup {current[s]}
  BY AnswersAre, AnswerHandles DEF AnswersNow
<1>4. raw' = RawAfter(r) /\ UNCHANGED lost /\ Trail' = Trail
  BY TrailSame DEF BreakWrite, telemetry
<1>5. D!Touches(Commands)
  BY <1>1, <1>4, RawAfterTyped DEF D!Touches, D!Agree
<1> QED  BY <1>1, <1>2, <1>3, <1>4, <1>5, BoundUnhandled DEF D!Break, D!Handle

LEMMA Changes ==
  ASSUME Refining, NEW s \in Sessions, AcceptWrite(s)
  PROVE  D!Change(current[s]) /\ current[s] \in 1..Len(issued)
<1> DEFINE r == Request(s)
           ks == WrittenKeys(r)
           e == Event(s, "write", "ok", Nothing, BeforeWrite(r), AfterWrite(r))
<1>1. /\ stage[s] = "bound" /\ r \in Requests /\ IInv /\ TypeOK
      /\ WriteResult(r) = "ok"
  BY RequestKnown DEF AcceptWrite, Called, Refining, IInv
<1>2. UNCHANGED issued /\ Handled' = Handled \cup {current[s]}
  BY AcceptHandles DEF AcceptWrite, clients
<1>3. raw' = RawAfter(r) /\ Emit(e)
  BY DEF AcceptWrite
<1>4. raw \in [Keys -> Int] /\ RawAfter(r) \in [Keys -> Int]
  BY <1>1, RawAfterTyped DEF TypeOK
<1>5. \A i \in Applied(r) : i \in Offsets(r)
  BY DEF Applied
<1>6. D!Touches(ks)
  <2>1. ASSUME NEW k \in Keys \ (ks \cup {"auto_control_active"}) PROVE raw'[k] = raw[k]
    <3>1. ~\E i \in Applied(r) : DefinitionAt(r, i).key = k
      BY <1>5, <2>1 DEF WrittenKeys
    <3> DEFINE values == [l \in Keys |->
                 IF \E i \in Applied(r) : DefinitionAt(r, i).key = l
                 THEN Stored(l, r.values[CHOOSE i \in Applied(r) : DefinitionAt(r, i).key = l])
                 ELSE raw[l]]
    <3>2. RawAfter(r) = Snapshot(values) /\ DOMAIN values = Keys
      BY DEF RawAfter
    <3> HIDE DEF r
    <3>3. values[k] = raw[k]
      BY <2>1, <3>1
    <3> HIDE DEF values
    <3> QED  BY <1>3, <2>1, <3>2, <3>3, SnapshotShows
  <2>2. D!Agree(raw')
    BY <1>1, <1>3, RawAfterTyped DEF D!Agree
  <2> QED  BY <2>1, <2>2 DEF D!Touches
<1>7. ks \in SUBSET Commands
  <2> SUFFICES ASSUME NEW i \in Offsets(r) PROVE DefinitionAt(r, i).key \in Commands
    BY DEF WrittenKeys
  <2>1. DefinedAt(r, i) /\ HasEffect(DefinitionAt(r, i))
    BY <1>1 DEF WriteResult
  <2>2. DefinitionAt(r, i) \in Map
    BY <1>1, <2>1, DefinitionFinds
  <2> QED  BY <2>1, <2>2 DEF Keys, Commands, HasEffect
<1>8. e \in Events
  BY <1>1, <1>4, EventTyped, PartialTyped DEF Results, BeforeWrite, AfterWrite
<1>9. Entry(e) = [request |-> current[s], shown |-> D!Of({}, raw),
                  before |-> D!Of(ks, raw), after |-> D!Of(ks, raw')]
  BY <1>3 DEF Entry, Event, BeforeWrite, AfterWrite, Of, D!Of, Nothing
<1>10. D!Enter(Entry(e))
  BY <1>1, <1>3, <1>8, EmitEnters DEF D!Enter
<1>11. D!Handle(current[s])
  BY <1>1, <1>2, BoundUnhandled DEF D!Handle
<1> HIDE DEF e, ks
<1> QED  BY <1>1, <1>6, <1>7, <1>9, <1>10, <1>11, BoundUnhandled DEF D!Change

-----------------------------------------------------------------------------
LEMMA DeviceInit == Init => D!Init
<1> SUFFICES ASSUME Init PROVE D!Init
  OBVIOUS
<1>1. raw \in [Keys -> Int] /\ lost = 0 /\ D!Agree(raw)
  BY InitSafe DEF IInv, TypeOK, ModeShown, Init, D!Agree
<1>2. Len(issued) = 0 /\ Handled = {}
  BY DEF Init, Handled
<1>3. Trail = <<>>
  BY DEF Init, Trail
<1> QED  BY <1>1, <1>2, <1>3 DEF D!Init

LEMMA DeviceStep == Refining /\ [Next]_vars => [D!Next]_(D!vars)
<1> SUFFICES ASSUME Refining, [Next]_vars PROVE [D!Next]_(D!vars)
  OBVIOUS
<1>1. CASE Tick
  <2>1. /\ \A k \in Commands : raw'[k] = raw[k]
        /\ ModeShown'
    BY <1>1, TickSafe DEF Refining, IInv
  <2>2. D!Touches(Keys \ Commands)
    BY <2>1 DEF D!Touches, D!Agree, ModeShown
  <2>3. D!Move
    BY <1>1, <2>2, OthersHandleNothing DEF D!Move
  <2> QED  BY <2>3 DEF D!Next
<1>2. CASE UNCHANGED vars
  BY <1>2, OthersHandleNothing DEF D!vars, vars, process
<1>3. ASSUME NEW s \in Sessions, Step(s) PROVE [D!Next]_(D!vars)
  <2>1. CASE \E r \in Requests : Execute(s, r) \/ RefuseCoil(s, r)
    <3>1. PICK r \in Requests : Execute(s, r) \/ RefuseCoil(s, r)
      BY <2>1
    <3>2. UNCHANGED <<raw, lost>> /\ Trail' = Trail
      BY <3>1, TrailSame DEF Execute, RefuseCoil, process, telemetry
    <3>3. D!Arrive
      BY <3>1, <3>2, IssueHandles DEF D!Arrive
    <3> QED  BY <3>3 DEF D!Next
  <2>2. CASE IgnoreUnit(s) \/ Fail(s) \/ Readback(s)
    <3>1. UNCHANGED <<raw, telemetry>>
      BY <2>2 DEF IgnoreUnit, Fail, Readback, process
    <3> QED  BY <2>2, <3>1, AnswersAre, AnswersSilently
  <2>3. CASE UnknownFunction(s) \/ Read(s) \/ RefuseWrite(s)
    BY <2>3, ShowsOrRefuses DEF D!Next
  <2>4. CASE BreakWrite(s)
    BY <2>4, Breaks DEF D!Next
  <2>5. CASE AcceptWrite(s)
    BY <2>5, Changes DEF D!Next
  <2>6. CASE Finish(s)
    BY <2>6, OthersHandleNothing DEF D!vars, Finish, process
  <2> QED  BY <1>3, <2>1, <2>2, <2>3, <2>4, <2>5, <2>6 DEF Step
<1> QED  BY <1>1, <1>2, <1>3 DEF Next

(* Whatever the map, the sessions and their requests, the adapter          *)
(* implements the device: every request takes effect once, in the step     *)
(* that logs it, however _execute_request and action are interleaved.      *)
THEOREM AdapterImplementsDevice == Spec => ImplementsDevice
<1>1. Init => Refining /\ D!Init
  BY RefiningInit, DeviceInit
<1>2. Refining /\ [Next]_vars => Refining' /\ [D!Next]_(D!vars)
  BY RefiningStep, DeviceStep
<1> QED  BY <1>1, <1>2, PTL DEF Spec, ImplementsDevice, D!Spec
=============================================================================
