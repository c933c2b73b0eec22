------------------------------- MODULE Runtime -------------------------------
(***************************************************************************)
(* runtime.py: main parses its arguments and runs run_server, which builds *)
(* the device from the register map, starts the task of the process loop,  *)
(* serves until it is interrupted or the server fails, then cancels the    *)
(* task, awaits it and shuts the server down.                              *)
(*                                                                         *)
(* Of the process this module keeps what makes a tick raise (see           *)
(* _assert_invariants): the mode and the pump speed a client may write,    *)
(* and the feedback of a pump that may be faulted.  WetWell says when the  *)
(* feedback moves.  Times are differences to the present, so that the loop *)
(* can run for ever.                                                       *)
(***************************************************************************)
EXTENDS MapRules

CONSTANTS
  Documents,         \* register map documents
  Arguments,         \* command lines
  Written,           \* the values clients write, signed words included
  Interval,          \* interval of _process_loop
  MaxBehind          \* bound of the model: how far a busy event loop lets
                     \* the process loop fall behind

ASSUME RuntimeAssumption ==
  /\ Interval \in Nat \ {0}
  /\ MaxBehind \in Nat
  /\ Written \subseteq Int
  /\ Infinity \in Int /\ Infinity > 65535
  /\ {"control_mode", "pump_speed_setpoint", "pump_feedback", "pump_fault"}
       \subseteq ModelKeys
  /\ \A d \in Documents :
       /\ d.registers \in Seq(Registers(d))
       /\ \A i \in DOMAIN d.registers :
            /\ d.registers[i].default \in Int
            /\ d.registers[i].minimum \in Int /\ d.registers[i].maximum \in Int

VARIABLES
  arguments, document,   \* the command line and the map, fixed
  stage,                 \* where run_server is
  leaving,               \* why it leaves serve_forever
  outcome,               \* how the program ended
  listening,             \* the port is open
  task,                  \* the task of the process loop
  control_mode, pump_speed_setpoint, pump_feedback,
  until,                 \* next_tick - loop.time()
  wake,                  \* time left of the loop's sleep
  behind                 \* history: the time since the first sleep, minus the
                         \* time that was simulated

inputs == <<arguments, document>>
main == <<stage, leaving, outcome, listening>>
process == <<control_mode, pump_speed_setpoint, pump_feedback>>
pace == <<until, wake, behind>>
vars == <<inputs, main, task, process, pace>>

Register(key) == CHOOSE d \in Registers(document) : d.key = key
Default(key) == Register(key).default
Faulted == Default("pump_fault") # 0

Init ==
  /\ arguments \in Arguments /\ document \in Documents
  /\ stage = "starting" /\ leaving = "" /\ outcome = "" /\ listening = FALSE
  /\ task = "none"
  /\ control_mode = 0 /\ pump_speed_setpoint = 0 /\ pump_feedback = FALSE
  /\ until = 0 /\ wake = 0 /\ behind = 0

Exit(how) ==
  /\ stage' = "exited" /\ outcome' = how /\ listening' = FALSE
  /\ UNCHANGED <<inputs, leaving, process, pace>>

-----------------------------------------------------------------------------
(* parse_args: another address than a loopback one has to be asked for.    *)
BindAllowed(a) == a.loopback \/ a.allow_non_loopback
Ports == 1..65535
Acceptable(a) == a.port \in Ports /\ BindAllowed(a)

Refuse ==
  /\ stage = "starting" /\ ~Acceptable(arguments)
  /\ Exit("refused") /\ UNCHANGED task

FailStart ==
  /\ stage = "starting" /\ Acceptable(arguments) /\ ~Starts(document)
  /\ Exit("error") /\ UNCHANGED task

(* The process takes the defaults (reset); the loop's first sleep begins.  *)
Start ==
  /\ stage = "starting" /\ Acceptable(arguments) /\ Starts(document)
  /\ stage' = "serving"
  /\ task' = "sleeping"
  /\ control_mode' = Default("control_mode")
  /\ pump_speed_setpoint' = Default("pump_speed_setpoint")
  /\ pump_feedback' = (Default("pump_feedback") # 0)
  /\ until' = Interval /\ wake' = Interval
  /\ UNCHANGED <<inputs, leaving, outcome, listening, behind>>

(* serve_forever binds the port, or fails to.                              *)
Listen ==
  /\ stage = "serving" /\ ~listening
  /\ listening' = TRUE
  /\ UNCHANGED <<inputs, stage, leaving, outcome, task, process, pace>>

-----------------------------------------------------------------------------
(* What a client may write: a value within the range of the map.           *)
Accepted(key, value) ==
  LET d == Register(key)
  IN  /\ d.writable /\ d.write_effect
      /\ value \in d.minimum..d.maximum
      /\ d.data_type = "bool" => value \in {0, 1}

WriteMode ==
  /\ stage = "serving" /\ listening
  /\ \E value \in Written :
       Accepted("control_mode", value) /\ control_mode' = value
  /\ UNCHANGED <<inputs, main, task, pump_speed_setpoint, pump_feedback, pace>>

WriteSpeed ==
  /\ stage = "serving" /\ listening
  /\ \E value \in Written :
       Accepted("pump_speed_setpoint", value) /\ pump_speed_setpoint' = value
  /\ UNCHANGED <<inputs, main, task, control_mode, pump_feedback, pace>>

Ready == task = "sleeping" /\ wake = 0

(* What may become of the feedback in a tick: a faulted pump never starts. *)
FeedbacksDespiteFault == BOOLEAN  \* faulty variant: the fault is not looked at
Feedbacks == {pump_feedback, FALSE} \cup (IF Faulted THEN {} ELSE {TRUE})

(* _assert_invariants.  A pump that runs backwards breaks it too, unless   *)
(* its flow is so small that it rounds to none; and with a quantity out of *)
(* bounds more may go wrong.                                               *)
InBounds == \A q \in QUANTITIES : document.process[q] = "within"
Breaks(feedback) == control_mode \notin {0, 1} \/ (Faulted /\ feedback)
MayBreak(feedback) ==
  Breaks(feedback) \/ (feedback /\ pump_speed_setpoint < 0) \/ ~InBounds

NextTickFromNow == Interval  \* faulty variant: loop.time() + interval
NextTick == until + Interval

(* _process_loop: the tick, and how long to sleep for the next one; if     *)
(* that is overdue it comes as soon as the event loop allows.              *)
Tick ==
  /\ Ready
  /\ pump_feedback' \in Feedbacks
  /\ ~Breaks(pump_feedback')
  /\ until' = NextTick
  /\ wake' = IF until' > 0 THEN until' ELSE 0
  /\ behind' = behind - Interval
  /\ UNCHANGED <<inputs, main, task, control_mode, pump_speed_setpoint>>

(* An exception in tick ends the task, and nothing else.                   *)
TickRaises ==
  /\ Ready
  /\ pump_feedback' \in Feedbacks
  /\ MayBreak(pump_feedback')
  /\ task' = "raised"
  /\ UNCHANGED <<inputs, main, control_mode, pump_speed_setpoint, pace>>

(* Time passes for a sleeping task, and for a ready one while the event    *)
(* loop is busy with others.                                               *)
Advance ==
  /\ task = "sleeping"
  /\ behind < MaxBehind
  /\ wake' = IF wake = 0 THEN 0 ELSE wake - 1
  /\ until' = until - 1
  /\ behind' = behind + 1
  /\ UNCHANGED <<inputs, main, task, process>>

-----------------------------------------------------------------------------
CancelNot == UNCHANGED task  \* faulty variant: the task is not cancelled
Cancel == task' = IF task = "sleeping" THEN "cancelling" ELSE task

(* Leaving serve_forever: a Ctrl-C cancels it, or it raises.               *)
Leave(why) ==
  /\ stage = "serving"
  /\ stage' = "stopping" /\ leaving' = why
  /\ Cancel
  /\ UNCHANGED <<inputs, outcome, listening, process, pace>>

Interrupt == Leave("interrupt")
ServeFails == ~listening /\ Leave("error")

(* The cancelled task wakes up in its sleep; no tick comes in between.     *)
TaskCancelled ==
  /\ task = "cancelling"
  /\ task' = "cancelled"
  /\ UNCHANGED <<inputs, main, process, pace>>

(* await process_task: a cancellation is suppressed, the exception of an   *)
(* earlier tick is not, and skips the shutdown.                            *)
Awaited ==
  /\ stage = "stopping" /\ task = "cancelled"
  /\ stage' = "closing"
  /\ UNCHANGED <<inputs, leaving, outcome, listening, task, process, pace>>

AwaitRaises ==
  /\ stage = "stopping" /\ task = "raised"
  /\ Exit("error") /\ UNCHANGED task

Shutdown ==
  /\ stage = "closing"
  /\ Exit(IF leaving = "interrupt" THEN "stopped" ELSE "error")
  /\ UNCHANGED task

(* SIGTERM and SIGKILL end the program where it is.                        *)
Kill ==
  /\ stage # "exited"
  /\ Exit("killed") /\ task' = "none"

Next ==
  \/ Refuse \/ FailStart \/ Start \/ Listen
  \/ WriteMode \/ WriteSpeed \/ Tick \/ TickRaises \/ Advance
  \/ Interrupt \/ ServeFails \/ TaskCancelled
  \/ Awaited \/ AwaitRaises \/ Shutdown \/ Kill

Spec == Init /\ [][Next]_vars

(* The event loop runs what is ready, and server.shutdown returns.         *)
FairSpec ==
  /\ Spec
  /\ WF_vars(Tick \/ TickRaises) /\ WF_vars(Advance)
  /\ WF_vars(TaskCancelled) /\ WF_vars(Awaited \/ AwaitRaises) /\ WF_vars(Shutdown)

-----------------------------------------------------------------------------
(* The type invariant.                                                     *)
TypeOK ==
  /\ arguments \in Arguments /\ document \in Documents
  /\ stage \in {"starting", "serving", "stopping", "closing", "exited"}
  /\ leaving \in {"", "interrupt", "error"}
  /\ outcome \in {"", "refused", "error", "stopped", "killed"}
  /\ listening \in BOOLEAN
  /\ task \in {"none", "sleeping", "raised", "cancelling", "cancelled"}
  /\ control_mode \in Int /\ pump_speed_setpoint \in Int
  /\ pump_feedback \in BOOLEAN
  /\ until \in Int /\ wake \in 0..Interval /\ behind \in Int

(* The port is open only on an address that was meant and with a map that  *)
(* the model and the adapter can serve: the model's keys, each once, at    *)
(* places of their own (parse_args, RegisterMap, snapshot_raw).            *)
FailsClosed ==
  listening =>
    /\ BindAllowed(arguments)
    /\ Keys(document) = ModelKeys
    /\ \A i, j \in DOMAIN document.registers :
         \/ i = j
         \/ /\ KeysDiffer(document.registers[i], document.registers[j])
            /\ LocationsDiffer(document.registers[i], document.registers[j])

(* A map that the validator accepts and that keeps the model's keys is one *)
(* the program starts with, but for what the validator does not look at: a *)
(* reference that is no integer, a scale that is no float, an area without *)
(* a register, and a default that is not finite or does not fit its        *)
(* register's data type (validate_map against the constructors).           *)
ValidatedStarts ==
  /\ ValidateMap(document) /\ Keys(document) = ModelKeys
  /\ IntegerReferences(document) /\ FiniteScales(document)
  /\ AreasUsed(document) /\ DefaultsFit(document)
  => ~(outcome = "error" /\ task = "none")

\* What the checked-in map guarantees and the validator does not ask for.
Coherent(doc) ==
  /\ \A d \in Registers(doc) :
       /\ d.key = "control_mode" =>
            /\ d.default \in {0, 1}
            /\ d.writable => d.minimum..d.maximum \subseteq {0, 1}
       /\ d.key = "pump_speed_setpoint" =>
            /\ d.default >= 0
            /\ d.writable => d.minimum >= 0
  /\ \A d, e \in Registers(doc) :
       d.key = "pump_fault" /\ e.key = "pump_feedback" => d.default = 0 \/ e.default = 0
  /\ \A q \in QUANTITIES : doc.process[q] = "within"

(* With a coherent map the process moves for as long as the server serves, *)
(* whatever clients write (run_server, tick).                              *)
ProcessAlive == stage = "serving" /\ Coherent(document) => task = "sleeping"

(* As the documents have it, a map may be changed within what the          *)
(* validator accepts: the process goes on.                                 *)
ValidatedStaysAlive == ValidateMap(document) => task # "raised"

(* Simulated time never runs ahead of the clock, and the loop sleeps only  *)
(* while less than one interval of it is missing: however far a busy event *)
(* loop let it fall behind, the ticks that are due follow one another      *)
(* until it has caught up (_process_loop).                                 *)
KeepsPace ==
  task = "sleeping" => 0 <= behind /\ (wake > 0 <=> behind < Interval)

(* Once run_server leaves serve_forever the program ends, and an           *)
(* interrupt ends it in order, with the server shut down, if the map is    *)
(* coherent (run_server's finally).                                        *)
StopsInOrder ==
  /\ stage = "stopping" ~> stage = "exited"
  /\ stage = "stopping" /\ leaving = "interrupt" /\ Coherent(document)
       ~> outcome \in {"stopped", "killed"}
=============================================================================
