--------------------------- MODULE ProtocolAdapter ---------------------------
(***************************************************************************)
(* The way of a request from a session's drain task to the process and to  *)
(* the event log: _execute_request and the transport context it binds      *)
(* (server.py, transport_context.py), StrictSimContext and                 *)
(* ProcessProtocolAdapter.action (protocol.py), EventFactory               *)
(* (telemetry.py), over the lookups of register_map.py.                    *)
(*                                                                         *)
(* action() has no await, so one call of it is one step.  PyModbus may     *)
(* suspend before it calls action, between the call that writes and the    *)
(* call that reads back, and after it: other sessions and the process loop *)
(* then run.  The process is abstracted to its registers: WetWell says     *)
(* what a tick does to the read-only ones.                                 *)
(***************************************************************************)
EXTENDS Integers, Sequences, FiniteSets

CONSTANTS
  Sessions,          \* TCP sessions, each with at most one request executing
  Anonymous,         \* the sessions whose transport has no peer address
  Map,               \* RegisterMap.definitions
  Requests,          \* the requests clients send
  Shown,             \* the values a register of the process's own may show
  None,              \* Python's None
  MaxRequests        \* bound of the model: requests of all sessions

FUNCTION_AREA ==
  [fc \in {1, 2, 3, 4, 5, 6, 15, 16} |->
     CASE fc \in {1, 5, 15} -> "coil"
       [] fc = 2            -> "discrete_input"
       [] fc \in {3, 6, 16} -> "holding_register"
       [] fc = 4            -> "input_register"]
WRITE_FUNCTIONS == {5, 6, 15, 16}

\* The keys write_raw has a handler for, and those snapshot_raw shows as
\* truth values, whatever the map says of them.
WRITE_HANDLERS == {"level_setpoint", "control_mode", "pump_speed_setpoint",
                   "pump_command", "inlet_valve_command", "alarm_acknowledge"}
TRUTHS == {"pump_command", "inlet_valve_command", "alarm_acknowledge",
           "pump_feedback", "inlet_valve_feedback", "pump_fault",
           "high_level_alarm", "low_level_alarm", "auto_control_active"}

Word == 65536
Keys == {d.key : d \in Map}
Commands == Keys \cap WRITE_HANDLERS

\* The registers the process moves by itself.
Observed == Keys \ (WRITE_HANDLERS \cup {"auto_control_active"})

ASSUME MapAssumption ==
  \* RegisterMap.__init__ refuses a key or a location that occurs twice.
  /\ \A d, e \in Map :
       \/ d = e
       \/ d.key # e.key /\ (d.area # e.area \/ d.address # e.address)
  \* snapshot_raw refuses a map without one of its keys.
  /\ {"control_mode", "auto_control_active"} \subseteq Keys
  /\ \A d \in Map :
       /\ d.area \in {FUNCTION_AREA[fc] : fc \in DOMAIN FUNCTION_AREA}
       /\ d.address \in Nat
       /\ d.writable \in BOOLEAN /\ d.write_effect \in BOOLEAN
       /\ d.minimum \in Int /\ d.maximum \in Int /\ d.default \in Int
  /\ \A k \in Observed : Shown[k] \subseteq IF k \in TRUTHS THEN {0, 1} ELSE Int

ASSUME RequestAssumption ==
  /\ Anonymous \subseteq Sessions
  /\ None \notin Sessions
  /\ MaxRequests \in Nat
  /\ \A r \in Requests :
       /\ r.known_unit \in BOOLEAN  \* the Unit ID is the device's
       /\ r.function_code \in Nat /\ r.address \in Nat /\ r.count \in Nat
       /\ r.values \in Seq(Int)     \* empty in a read

\* What write_raw asks for besides writable, and a map none of whose writable
\* registers lacks it.  The validator asks for the write_effect only.
HasEffect(d) == d.write_effect /\ d.key \in WRITE_HANDLERS
Sound == \A d \in Map : d.writable => HasEffect(d)

VARIABLES
  raw,               \* the process's registers, as snapshot_raw shows them
  memory,            \* the SimDevice registers PyModbus answers from
  sequence,          \* EventFactory._sequence
  emitted,           \* events the sink took
  lost,              \* history: events the sink failed on
  stage,             \* where the drain task of a session is
  context,           \* the ContextVar in the session's task
  current,           \* the request the session's task executes
  issued,            \* history: every request, with its session; its place
                     \* stands for its transaction id
  answers            \* history: the answer to every request

process == <<raw, memory>>
telemetry == <<sequence, emitted, lost>>
tasks == <<stage, context, current>>
clients == <<issued, answers>>
vars == <<process, telemetry, tasks, clients>>

-----------------------------------------------------------------------------
(* register_map.py: by_location and require_location, for_area.            *)
Defined(area, address) == \E d \in Map : d.area = area /\ d.address = address
Definition(area, address) ==
  CHOOSE d \in Map : d.area = area /\ d.address = address
ForArea(area) == {d \in Map : d.area = area}
ByKey(key) == CHOOSE d \in Map : d.key = key

(* _encode_register, and what a client makes of the word.                  *)
Encode(value) == value % Word
Decode(d, word) ==
  IF d.data_type = "int16" /\ word >= Word \div 2 THEN word - Word ELSE word

-----------------------------------------------------------------------------
\* Faulty variant: auto_control_active is a field that write_raw forgets.
SnapshotStale(values) == values

(* What snapshot_raw makes of the process's fields: auto_control_active is *)
(* no field, it is what control_mode says.                                 *)
Snapshot(values) ==
  [values EXCEPT !["auto_control_active"] =
     IF values["control_mode"] = 1 THEN 1 ELSE 0]

Truth(key, value) == IF key \in TRUTHS /\ value # 0 THEN 1 ELSE value

(* reset: alarms start low, alarm_acknowledge reads 0, the others start at *)
(* their defaults.                                                         *)
First(key) ==
  IF key \in {"alarm_acknowledge", "high_level_alarm", "low_level_alarm"} THEN 0
  ELSE Truth(key, ByKey(key).default)

(* build_device takes the first values from the snapshot.                  *)
Init ==
  /\ raw = Snapshot([k \in Keys |-> First(k)])
  /\ memory = [k \in Keys |-> Encode(raw[k])]
  /\ sequence = 0
  /\ emitted = <<>>
  /\ lost = 0
  /\ stage = [s \in Sessions |-> "idle"]
  /\ context = [s \in Sessions |-> None]
  /\ current = [s \in Sessions |-> 0]
  /\ issued = <<>>
  /\ answers = <<>>

-----------------------------------------------------------------------------
Silent == "no answer"

\* What an answer or an event shows of the keys ks, and of no key.
Of(ks, values) == [k \in Keys |-> IF k \in ks THEN values[k] ELSE None]
Nothing == [k \in Keys |-> None]
Unanswered == [result |-> "executing", words |-> Nothing]

Request(s) == issued[current[s]].request
Area(s) == FUNCTION_AREA[Request(s).function_code]

Issue(s, r, answer) ==
  /\ Len(issued) < MaxRequests
  /\ issued' = Append(issued, [session |-> s, request |-> r])
  /\ answers' = Append(answers, answer)

Answer(s, result, words) ==
  answers' = [answers EXCEPT ![current[s]] = [result |-> result, words |-> words]]

(* callback_data answers a single-coil write of an undefined value when it *)
(* decodes it: the request never reaches the adapter.                      *)
UndefinedCoil(r) == r.function_code = 5 /\ r.values \notin {<<0>>, <<1>>}

RefuseCoil(s, r) ==
  /\ UndefinedCoil(r)
  /\ Issue(s, r, [result |-> "ILLEGAL_VALUE", words |-> Nothing])
  /\ UNCHANGED <<process, telemetry, tasks>>

(* _execute_request binds the identity of the connection and of the        *)
(* request, if the peer is known, and awaits the datastore.                *)
Identity(s, n) ==
  IF s \in Anonymous THEN None ELSE [session |-> s, transaction |-> n]

Execute(s, r) ==
  /\ stage[s] = "idle"
  /\ ~UndefinedCoil(r)
  /\ Issue(s, r, Unanswered)
  /\ stage' = [stage EXCEPT ![s] = "bound"]
  /\ current' = [current EXCEPT ![s] = Len(issued')]
  /\ context' = [context EXCEPT ![s] = Identity(s, Len(issued'))]
  /\ UNCHANGED <<process, telemetry>>

(* StrictSimContext raises NoSuchIdException for an unknown Unit ID, which *)
(* ignore_missing_devices turns into no answer.                            *)
IgnoreUnit(s) ==
  /\ stage[s] = "bound"
  /\ ~Request(s).known_unit
  /\ stage' = [stage EXCEPT ![s] = "done"]
  /\ Answer(s, Silent, Nothing)
  /\ UNCHANGED <<process, telemetry, context, current, issued>>

(* The dependency raises at one of its awaits: DEVICE_FAILURE.             *)
Fail(s) ==
  /\ stage[s] \in {"bound", "written"}
  /\ Request(s).known_unit
  /\ stage' = [stage EXCEPT ![s] = "done"]
  /\ Answer(s, "DEVICE_FAILURE", Nothing)
  /\ UNCHANGED <<process, telemetry, context, current, issued>>

-----------------------------------------------------------------------------
(* sync_area: every register of the area takes the snapshot's value.       *)
SyncedNever(area, snapshot) == memory  \* faulty variant: built once, never synced
Synced(area, snapshot) ==
  [k \in Keys |-> IF ByKey(k) \in ForArea(area) THEN Encode(snapshot[k])
                  ELSE memory[k]]

\* Faulty variant: one variable for all tasks, as it was bound last.
CurrentContextShared(s) == Identity(issued[Len(issued)].session, Len(issued))

(* current_transport_context reads the variable of the executing task.     *)
CurrentContext(s) == context[s]

Event(s, operation, result, response_values, before, after) ==
  [number |-> sequence + 1, identity |-> CurrentContext(s),
   request |-> current[s],  \* history: what the event is really about
   operation |-> operation, result |-> result,
   response_values |-> response_values, before |-> before, after |-> after]

\* Faulty variant: a number is taken only when the sink accepts the event.
EmitUnnumbered(event) ==
  \/ sequence' = sequence + 1 /\ emitted' = Append(emitted, event) /\ UNCHANGED lost
  \/ lost' = lost + 1 /\ UNCHANGED <<sequence, emitted>>

(* _emit_event: create takes the number; a sink that raises is ignored.    *)
Emit(event) ==
  /\ sequence' = sequence + 1
  /\ \/ emitted' = Append(emitted, event) /\ UNCHANGED lost
     \/ lost' = lost + 1 /\ UNCHANGED emitted

-----------------------------------------------------------------------------
(* action: PyModbus calls it for a request to the known unit.              *)
Called(s) == stage[s] = "bound" /\ Request(s).known_unit

UnknownFunction(s) ==
  /\ Called(s)
  /\ Request(s).function_code \notin DOMAIN FUNCTION_AREA
  /\ Emit(Event(s, "unknown", "ILLEGAL_FUNCTION", Nothing, Nothing, Nothing))
  /\ Answer(s, "ILLEGAL_FUNCTION", Nothing)
  /\ stage' = [stage EXCEPT ![s] = "done"]
  /\ UNCHANGED <<process, context, current, issued>>

(* The points of the map among the first n of the range that is read.      *)
Points(r, n) ==
  {d.key : d \in {e \in ForArea(FUNCTION_AREA[r.function_code]) :
                    e.address \in r.address..r.address + n - 1}}

(* An answer carries all of them; the hook is told a number of 16-bit      *)
(* registers, so that of coils and discrete inputs it reports the first.   *)
HookCount(r) ==
  IF FUNCTION_AREA[r.function_code] \in {"coil", "discrete_input"}
  THEN (r.count + 15) \div 16
  ELSE r.count
ServedKeys(r) == Points(r, r.count)
ReadKeys(r) == Points(r, HookCount(r))

Read(s) ==
  /\ Called(s)
  /\ Request(s).function_code \in DOMAIN FUNCTION_AREA \ WRITE_FUNCTIONS
  /\ memory' = Synced(Area(s), raw)
  /\ Emit(Event(s, "read", "ok", Of(ReadKeys(Request(s)), raw), Nothing, Nothing))
  /\ Answer(s, "ok", Of(ServedKeys(Request(s)), memory'))
  /\ stage' = [stage EXCEPT ![s] = "done"]
  /\ UNCHANGED <<raw, context, current, issued>>

-----------------------------------------------------------------------------
(* The registers a write addresses, in the order of its values.            *)
Offsets(r) == 1..Len(r.values)
DefinedAt(r, i) == Defined(FUNCTION_AREA[r.function_code], r.address + i - 1)
DefinitionAt(r, i) == Definition(FUNCTION_AREA[r.function_code], r.address + i - 1)
WrittenKeys(r) == {DefinitionAt(r, i).key : i \in Offsets(r)}

AcceptedUnchecked(d, value) == TRUE  \* faulty variant: no range check

(* _coerce_write.                                                          *)
Accepted(d, value) ==
  value \in d.minimum..d.maximum /\ (d.data_type = "bool" => value \in {0, 1})

(* All locations, then all values are checked before anything is written.  *)
WriteResult(r) ==
  IF \E i \in Offsets(r) : ~DefinedAt(r, i) \/ ~DefinitionAt(r, i).writable
  THEN "ILLEGAL_ADDRESS"
  ELSE IF \E i \in Offsets(r) : ~Accepted(DefinitionAt(r, i), r.values[i])
  THEN "ILLEGAL_VALUE"
  ELSE IF \E i \in Offsets(r) : ~HasEffect(DefinitionAt(r, i))
  THEN "SERVER_FAILURE"
  ELSE "ok"

\* Faulty variant: the loop over the values ends after the first.
AppliedFirst(r) ==
  IF WriteResult(r) \in {"ILLEGAL_ADDRESS", "ILLEGAL_VALUE"} THEN {} ELSE {1}

(* The values that reach the process: none of a write that a check         *)
(* refuses, and those before the one that write_raw itself refuses.        *)
Applied(r) ==
  IF WriteResult(r) \in {"ILLEGAL_ADDRESS", "ILLEGAL_VALUE"}
  THEN {}
  ELSE {i \in Offsets(r) : \A j \in 1..i : HasEffect(DefinitionAt(r, j))}

(* write_raw stores the value; alarm_acknowledge is a pulse and reads 0.   *)
Stored(key, value) == IF key = "alarm_acknowledge" THEN 0 ELSE Truth(key, value)

RawAfter(r) ==
  Snapshot([k \in Keys |->
     IF \E i \in Applied(r) : DefinitionAt(r, i).key = k
     THEN Stored(k, r.values[CHOOSE i \in Applied(r) : DefinitionAt(r, i).key = k])
     ELSE raw[k]])

(* The before and after an event shows of the written keys.                *)
BeforeWrite(r) == Of(WrittenKeys(r), raw)
AfterWrite(r) == Of(WrittenKeys(r), RawAfter(r))

RefuseWrite(s) ==
  /\ Called(s)
  /\ Request(s).function_code \in WRITE_FUNCTIONS
  /\ WriteResult(Request(s)) \in {"ILLEGAL_ADDRESS", "ILLEGAL_VALUE"}
  /\ memory' = Synced(Area(s), raw)
  /\ raw' = RawAfter(Request(s))
  /\ Emit(Event(s, "write", WriteResult(Request(s)), Nothing, Nothing, Nothing))
  /\ Answer(s, WriteResult(Request(s)), Nothing)
  /\ stage' = [stage EXCEPT ![s] = "done"]
  /\ UNCHANGED <<context, current, issued>>

(* write_raw refuses a register without an effect or a handler: no event,  *)
(* no second synchronisation, and what was written before it stays.        *)
BreakWrite(s) ==
  /\ Called(s)
  /\ Request(s).function_code \in WRITE_FUNCTIONS
  /\ WriteResult(Request(s)) = "SERVER_FAILURE"
  /\ memory' = Synced(Area(s), raw)
  /\ raw' = RawAfter(Request(s))
  /\ Answer(s, "SERVER_FAILURE", Nothing)
  /\ stage' = [stage EXCEPT ![s] = "done"]
  /\ UNCHANGED <<telemetry, context, current, issued>>

(* What PyModbus leaves in its memory once the hook accepted a write: the  *)
(* hook's values, or the client's.                                         *)
LeftInMemory(r, synced) ==
  {synced,
   [k \in Keys |->
      IF k \in WrittenKeys(r)
      THEN Encode(r.values[CHOOSE i \in Offsets(r) : DefinitionAt(r, i).key = k])
      ELSE synced[k]]}

AcceptWrite(s) ==
  /\ Called(s)
  /\ Request(s).function_code \in WRITE_FUNCTIONS
  /\ WriteResult(Request(s)) = "ok"
  /\ raw' = RawAfter(Request(s))
  /\ memory' \in LeftInMemory(Request(s), Synced(Area(s), raw'))
  /\ Emit(Event(s, "write", "ok", Nothing,
                BeforeWrite(Request(s)), AfterWrite(Request(s))))
  /\ stage' = [stage EXCEPT ![s] = "written"]
  /\ UNCHANGED <<context, current, clients>>

\* Faulty variant: the read back is reported like a read.
ReadbackReported(s) ==
  /\ stage[s] = "written"
  /\ memory' = Synced(Area(s), raw)
  /\ Emit(Event(s, "read", "ok", Of(WrittenKeys(Request(s)), raw), Nothing, Nothing))
  /\ Answer(s, "ok", Of(WrittenKeys(Request(s)), memory'))
  /\ stage' = [stage EXCEPT ![s] = "done"]
  /\ UNCHANGED <<raw, context, current, issued>>

(* action again, with no values, for the answer to the write.              *)
Readback(s) ==
  /\ stage[s] = "written"
  /\ memory' = Synced(Area(s), raw)
  /\ Answer(s, "ok", Of(WrittenKeys(Request(s)), memory'))
  /\ stage' = [stage EXCEPT ![s] = "done"]
  /\ UNCHANGED <<raw, telemetry, context, current, issued>>

(* _execute_request resets the context and hands the answer over.          *)
Finish(s) ==
  /\ stage[s] = "done"
  /\ stage' = [stage EXCEPT ![s] = "idle"]
  /\ context' = [context EXCEPT ![s] = None]
  /\ UNCHANGED <<process, telemetry, current, clients>>

(* _process_loop calls tick, which moves the process's own registers.      *)
Tick ==
  /\ \E shown \in [Observed -> UNION {Shown[k] : k \in Observed}] :
       /\ \A k \in Observed : shown[k] \in Shown[k]
       /\ raw' = [k \in Keys |-> IF k \in Observed THEN shown[k] ELSE raw[k]]
  /\ UNCHANGED <<memory, telemetry, tasks, clients>>

-----------------------------------------------------------------------------
Step(s) ==
  \/ \E r \in Requests : Execute(s, r) \/ RefuseCoil(s, r)
  \/ IgnoreUnit(s) \/ Fail(s)
  \/ UnknownFunction(s) \/ Read(s)
  \/ RefuseWrite(s) \/ BreakWrite(s) \/ AcceptWrite(s) \/ Readback(s)
  \/ Finish(s)

Next == Tick \/ \E s \in Sessions : Step(s)

Spec == Init /\ [][Next]_vars

-----------------------------------------------------------------------------
Results == {"executing", Silent, "ok", "ILLEGAL_FUNCTION", "ILLEGAL_ADDRESS",
            "ILLEGAL_VALUE", "SERVER_FAILURE", "DEVICE_FAILURE"}

\* What a register shows: a command its default or a value of its range.
Values(d) ==
  IF d.key \in TRUTHS THEN {0, 1}
  ELSE {d.default} \cup (IF d.key \in WRITE_HANDLERS THEN d.minimum..d.maximum
                         ELSE Shown[d.key])

Partial(range) == [Keys -> {None} \cup range]
Identities == {None} \cup [session : Sessions, transaction : Nat]
Answers == [result : Results, words : Partial(0..Word - 1)]
Events ==
  [number : Nat, identity : Identities, request : Nat,
   operation : {"read", "write", "unknown"}, result : Results,
   response_values : Partial(Int), before : Partial(Int), after : Partial(Int)]

(* The type invariant; a command keeps its declared range, whatever        *)
(* clients write (_coerce_write), and a truth value stays one.             *)
TypeOK ==
  /\ raw \in [Keys -> Int]
  /\ \A k \in Keys : raw[k] \in Values(ByKey(k))
  /\ memory \in [Keys -> 0..Word - 1]
  /\ sequence \in Nat /\ lost \in Nat
  /\ emitted \in Seq(Events)
  /\ stage \in [Sessions -> {"idle", "bound", "written", "done"}]
  /\ context \in [Sessions -> Identities]
  /\ current \in [Sessions -> Nat]
  /\ issued \in Seq([session : Sessions, request : Requests])
  /\ answers \in Seq(Answers)

(* An event names the connection and the transaction it is about, and an   *)
(* unknown peer is not given a name, however the tasks of several sessions *)
(* are interleaved (bind_transport_context, current_transport_context).    *)
EventsAttributed ==
  \A i \in DOMAIN emitted :
    LET n == emitted[i].request
    IN  /\ n \in DOMAIN issued
        /\ emitted[i].identity = Identity(issued[n].session, n)

(* A collector can tell how many events it missed: the numbers ascend, and *)
(* the numbers that are missing are exactly the events the sink failed on  *)
(* (EventFactory.create, _emit_event).                                     *)
SequenceTellsLoss ==
  /\ sequence = Len(emitted) + lost
  /\ \A i \in DOMAIN emitted : emitted[i].number \in i..i + lost
  /\ \A i, j \in DOMAIN emitted : i < j => emitted[i].number < emitted[j].number

(* A request the adapter handles is reported once and as it is answered:   *)
(* the read back of a write is not a second event, a refusal is one too    *)
(* (action).                                                               *)
OneEventPerRequest ==
  /\ \A i, j \in DOMAIN emitted : emitted[i].request = emitted[j].request => i = j
  /\ \A i \in DOMAIN emitted :
       answers[emitted[i].request].result
         \in {emitted[i].result, "executing", "DEVICE_FAILURE"}
  /\ lost = 0 =>
       \A n \in DOMAIN issued :
         /\ answers[n].result \in Results \
              {"executing", Silent, "DEVICE_FAILURE", "SERVER_FAILURE"}
         /\ ~UndefinedCoil(issued[n].request)
         => \E i \in DOMAIN emitted : emitted[i].request = n

AtomicWrite(s) ==
  /\ stage[s] = "bound" /\ stage'[s] = "written"
  /\ \A i \in Offsets(Request(s)) :
       LET key == DefinitionAt(Request(s), i).key
       IN  raw'[key] = Stored(key, Request(s).values[i])
BrokenWrite(s) ==
  /\ stage[s] = "bound" /\ stage'[s] = "done"
  /\ \E i \in Offsets(Request(s)) : ~HasEffect(DefinitionAt(Request(s), i))

(* A multi-write is all or nothing: a command or setpoint changes only in  *)
(* the step that accepts the whole write, and then every register of that  *)
(* write holds what was asked of it; the exception is a write that reaches *)
(* a writable register without an effect or a handler (action).            *)
AtomicWrites ==
  [][\A k \in Commands : raw'[k] # raw[k] =>
       \E s \in Sessions : AtomicWrite(s) \/ BrokenWrite(s)]_vars

(* What a read event says was served is what the client decodes from the   *)
(* words it was sent, also when the process moved since the last request   *)
(* (sync_area, _encode_register).                                          *)
ServedIsReported ==
  \A i \in DOMAIN emitted, k \in Keys :
    emitted[i].operation = "read" /\ emitted[i].response_values[k] # None =>
      emitted[i].response_values[k]
        = Decode(ByKey(k), answers[emitted[i].request].words[k])

-----------------------------------------------------------------------------
\* The requests that have taken effect: answered, or written and read back next.
Handled ==
  {n \in DOMAIN issued :
     \/ answers[n].result # "executing"
     \/ \E s \in Sessions : stage[s] = "written" /\ current[s] = n}
Trail ==
  [i \in DOMAIN emitted |->
     [request |-> emitted[i].request, shown |-> emitted[i].response_values,
      before |-> emitted[i].before, after |-> emitted[i].after]]

D == INSTANCE Device WITH
       Writable <- Commands, registers <- raw,
       trail <- Trail, arrived <- Len(issued), handled <- Handled

(* Seen from outside, sessions that interleave at every await, a hook that *)
(* is called twice and a copied memory are one atomic device: every        *)
(* request takes effect once, in the step that logs it, and the log is the *)
(* order of the effects (action, _execute_request; see Device).            *)
ImplementsDevice == D!Spec
=============================================================================
