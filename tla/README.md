# Verification of simpleics-pot

simpleics-pot is a low-interaction industrial honeypot: a Modbus/TCP device in front of
a simulated wet well. Every transaction of a client becomes one structured event; tools
beside the device forward the events to a collector, package them as STIX, and validate
the register map. This directory holds TLA+ modules of the parts that keep state, TLC
configurations that check them on small instances, and TLAPS proofs of what matters
most for every instance. `PROJECT.json` maps every definition to the lines it models.

## The system

| component | state | operations | talks to |
|---|---|---|---|
| wet-well process (`model.py`) | level, commands, targets, delays, feedbacks, alarms, counters | `write_raw`, `tick`, `snapshot_raw` under one lock | ticked by the runtime, written and read by the adapter |
| TCP session layer (`server.py`) | active connections, per connection two timers, receive buffer, queue, drain task | `connection_made`, `connection_lost`, `data_received` / `callback_data`, `_drain_requests`, timer callbacks | PyModbus below, the adapter above |
| transport context (`transport_context.py`) | one ContextVar per task | bind, read, reset | bound by the session layer, read by telemetry |
| protocol adapter (`protocol.py`) | PyModbus's copy of the registers | `action` (the hook), `sync_area`, `_emit_event`, unit ids | process, register map, telemetry |
| register map (`register_map.py`) | none (constant) | lookups by key, location, area; uniqueness | everything |
| telemetry (`telemetry.py`) | event sequence number | `create`, JSON sink | log, read by the forwarder |
| runtime (`runtime.py`) | the process task, the listening server | `parse_args`, `run_server`, `_process_loop` | starts all of the above |
| forwarder (`tools/forward_events.py`) | token bucket, socket, counters | `run`, `send`, `_take_token`, `_connect`, `_reset` | reads the log, sends to a collector |
| STIX packager (`tools/build_stix_bundle.py`) | one `Source` per address, the output directory | `collect`, `observe`, `build_bundle`, `write_bundle` | reads the log, leaves files for a collector |
| map validator (`tools/validate_register_map.py`) | none | `validate_map` | reads the map |

What is hard in it:

* **one event loop, many sessions.** Callbacks, timers and drain tasks of all
  connections interleave at awaits. A close can come from the peer, from two timers and
  from two limits, several of them on the same connection.
* **the hook is called twice for a write**, and PyModbus answers from a copy of the
  registers: what a client reads, what the process holds and what the event says must
  be the same thing.
* **feedbacks lag behind commands**, so that modes, setpoints and commands change while
  an actuator is on its way.
* **everything may fail half way**: a frame that does not decode, a value refused in the
  middle of a multi-write, a sink that raises after the event took its number, a TCP
  send with a part of the message on the wire, a bundle half written.
* **the map is checked in three places** (validator, loader, model), none of which knows
  what the others leave out, and a tick that raises ends its task without anyone
  noticing.
* **the packager runs again and again** over a log that grows and is out of order, and
  its consumers tell old from new by ids alone.

`PROJECT.json` lists these hazards at their lines, with the properties that watch them.

## Modules

### WetWell (model.py)

Variables are the fields of `WetWellProcess`; `write_raw` and `tick` hold the lock for
their whole length, so each is one action (`WriteRaw`, `Tick`). `Tick` is composed in the
order of the code: valve and pump requests, delays and feedbacks (`AdvanceValve`,
`AdvancePump`), level, flows and current from the feedbacks just computed (`MoveWater`),
alarms and acknowledgements from the level just computed (`UpdateAlarms`). The float
`_level_raw` is an exact integer in parts of a raw unit (`Fine`); `round()` is
`RoundHalfEven`, ties included; float rounding error is left out. Time is counted in a
unit in which ticks and delay are integers. The thermal cycle is kept modulo its period,
all the temperature depends on. `pump_fault` is a variable that nothing assigns after
`reset`, chosen from `PumpFaults`. The ranges of the registers, the mode's among them,
and the defaults are those of any map the validator accepts; what holds of a coherent
map only (`CoherentMap`: modes of the enum, no negative speed or first value, no faulted
pump that starts out running) is named as a condition by the results that need it.

### ModbusServer (server.py)

One action per callback of the event loop and per stretch of the drain task between two
awaits: `Accept`, `Refuse` (connection_made), `ConnectionLost`, `Deliver*`
(data_received with callback_data, one action per way through it: over the byte limit,
over the queue limit, a decoder exception, decoded), `StartDrain`, `FinishRequest`,
`FireIdle`, `FireIncomplete`, and `Advance`, the clock. A delivery is the sequence of
complete frames it brings, each a request, a frame that queues nothing, or one the
decoder raises on, and the number of bytes it leaves in the buffer. PyModbus's framing
and the transport are external. A handler's name is used again once its connection is
lost and its task done, which stands for any number of connections one after the other.
`partial_age`, `received` and `started` are history.

### ProtocolAdapter (protocol.py, telemetry.py, transport_context.py, register_map.py)

The way of a request from `_execute_request` to the process and the log. A session's task
is `idle`, `bound` (context bound, waiting for PyModbus to call the hook), `written`
(the writing call done, the read back to come) or `done`. `action` has no await, so each
call is one step: `UnknownFunction`, `Read`, `RefuseWrite`, `BreakWrite`, `AcceptWrite`,
`Readback`. Between the calls other sessions and the process loop (`Tick`) may run;
PyModbus need not suspend there, the model lets it. `RefuseCoil` is the answer
callback_data gives itself; `IgnoreUnit` and `Fail` are the ways the dependency ends a
request; `Emit` numbers the event, then the sink takes it or raises. Registers keep
their signed values; `memory` holds 16-bit words, and `Encode`/`Decode` are the
conversions. What PyModbus leaves in its memory after an accepted write is chosen among
what its two code paths could (`LeftInMemory`). The registers of the process are
abstract here: a tick may move those of its own (`Observed`) anywhere in `Shown`. One
register is neither written nor moved by a tick: `Snapshot` derives `auto_control_active`
from `control_mode`, as `snapshot_raw` does, so a write of the mode changes a register of
another area in the same step. A read of coils or discrete inputs is answered with every
point of its range, while the hook is told a number of 16-bit registers: its event names
the points among that many, one for up to sixteen (`ReadKeys` against `ServedKeys`).

### Forwarder (tools/forward_events.py)

A sequential program: one action per line read, one for each way a line can end, with
the bucket, the connect (which takes up to `ConnectTimeout` over TCP) and the summary
inside it. Tokens are integers, `One` of them for an event. `BrokenPipe` is the signal
that `main` leaves at its default action.

### Device (what the adapter promises)

The abstract specification: requests arrive, and each is handled in one step that reads
or writes all of its registers and enters one record in the log, or is declined without
an effect. There are no sessions, tasks, contexts, second calls of the hook, or copied
memory. `ProtocolAdapter!ImplementsDevice` is the refinement: `registers` are the raw
values of the process, `trail` the emitted events without number and identity, a request
is `handled` once it is answered or its writing call is done. A write touches its own
registers and no other but `auto_control_active`, which agrees with `control_mode` in every
state (`Touches`, `Agree`). With a map whose writable registers all have an effect, as the
validator asks, and a handler in `write_raw` (`Sound`) no write can stop half way. That the log replays (the last `after` of
every writable register is its value, every `before` is the `after` before it) holds of
`Device` by its shape, and so of the adapter.

### MapRules and Runtime (tools/validate_register_map.py, register_map.py, runtime.py)

`MapRules` has no state: `ValidateMap` is the condition under which `validate_map` finds
no error; `Loads`, `Constructs`, `BuildsIdentity` and `BuildsDevice` are what
`RegisterMap`, `WetWellProcess` and `ProcessProtocolAdapter` raise on, and `Starts` is
all of them in a row. A document keeps what these rules tell apart: texts are reduced to
filled, blank or missing, process quantities to within, low, high, infinite or missing,
scales to zero, positive or too large for a float. Numbers may be `Infinity`, which
`json.load` makes of `1e999` and the validator does not refuse; `int()` raises for it
(`Finite`), and PyModbus's `SimData` and `SimDevice` refuse a value that its data type or
its 16 bits do not hold (`Fits`). Defaults shown as truth values are neither: `bool()` of
them is 0 or 1.

`Runtime` is the program around them: `Refuse` (parse_args), `FailStart`, `Start`,
`Listen`, the process task (`Tick`, `TickRaises`, `Advance`), `Interrupt` and
`ServeFails`, then the `finally` of run_server in its order (`Cancel`, `TaskCancelled`,
`Awaited` or `AwaitRaises`, `Shutdown`), and `Kill` at any point. Of the process it keeps
what `_assert_invariants` looks at and a map can get wrong: `control_mode`,
`pump_speed_setpoint`, which makes the outlet flow negative, and `pump_feedback`. `Breaks`
is what surely raises; `MayBreak` adds what may: a pump that turns backwards raises unless
its flow rounds to zero, and with a quantity out of its bounds anything might. Times are differences to the present (`until` is
`next_tick - loop.time()`), so that the loop can run for ever in a finite state space;
`behind`, the time that was not simulated yet, is history. A busy event loop may let a
ready task wait until `behind` is `MaxBehind`; ticks that are overdue then come one after
the other (the `max(0.0, ...)` of `_process_loop`).

### StixBundle (tools/build_stix_bundle.py)

Several runs of the packager side by side. A run takes the time (`Start`), reads line by
line (`SkipLine`, `ObserveLine`, `Raise` at a bound), ends at the end of the log as it is
then, builds its bundle and either prints it (`WriteStdout`) or opens the temporary file,
writes it, renames it and sets its mode, each a step of its own (`OpenPartial`,
`WriteText`, `Replace`, `Chmod`). The log grows under the runs, a run may be killed
between any two steps (`Crash`), a collector may take a bundle as soon as it has its
final name (`Collect`). The directory maps names to files and a run holds a file, not a
name, so that a file keeps being written after another run has renamed it. An id derived
from a seed (UUIDv5) is the seed; the address key is what `address.compressed` makes of
every spelling.

### Definitions named as faulty variants

Next to some definitions stands a variant with a plausible slip (a dropped guard, a
missing reset). No specification uses them; replacing the definition by its variant
must make the property listed with it in `PROJECT.json` fail.

## Runs

| run | module | what it checks |
|---|---|---|
| `wet_well` | MCWetWell | safety of the process, every write against every tick, healthy and faulted pump |
| `wet_well_real` | MCWetWell | the closed loop with the numbers of the checked-in map |
| `wet_well_live` | MCWetWell | feedbacks follow, AUTO regulates, under a fair process loop |
| `modbus_server` | MCModbusServer | slots, timers, limits, order, deadlines that run on; two handlers for one slot |
| `modbus_server_live` | MCModbusServer | nothing lost, silent and incomplete connections close, queues drain |
| `modbus_server_stranded` | MCModbusServer | finding: a queued request nobody drains |
| `protocol_adapter` | MCProtocolAdapter | atomic writes, attribution, numbering, one event per request, served = reported, and the refinement of Device |
| `forwarder` | MCForwarder | accounting, rate limit, framing |
| `forwarder_killed` | MCForwarder | finding: a closed TCP connection kills the forwarder |
| `stix_bundle` | MCStixBundle | summaries, whole bundles, stable ids; two runs over a growing log |
| `runtime` | MCRuntime | which maps start, the process task's life and pace, an orderly end |
| `runtime_validated` | MCRuntime | finding: a validated map with which a tick raises |

### Bounds

* `wet_well`: levels, limits and setpoints scaled so that the whole tank is 10 raw units
  of four parts; a tick moves the level by fractions of a unit, so that ties of `round`
  happen; the mode has the range of the map, 0 to 1; the delay is 1.5 ticks as in the map, or 3 shorter ones;
  `CountMax` 2 makes the start counter saturate. Both values outside and values at the ends of each
  register's range are offered. `Phases` is 1:
  no property of this run looks at the temperature.
* `wet_well_real`: no writes, the map's own numbers, ticks of one second; the run
  follows the closed loop until it repeats, 754,876 states.
* `modbus_server`: one slot and two handlers is the smallest instance in which a slot
  passes from one connection to another. Three requests are one more than the queue
  holds, seven bytes one more than the buffer may; the two timeouts differ, so either
  timer fires first. Handlers are symmetric. `MaxRequests` bounds the requests of a
  connection, so that a client which refills the queue without end is not explored, in
  `QueueDrains` either. A frame that announces more than `FrameBytes` never completes in
  the model: it waits for its deadline or goes over the byte limit.
* `protocol_adapter`: ten registers with the addresses of the checked-in map, every area, a block of
  writable registers that ends at a read-only one, one writable register without an
  effect, a signed register that crosses zero, `control_mode` and the
  `auto_control_active` that follows it; fifteen requests, one per way through
  `action` at least, with a bit read over two points and writes of the mode alone and with
  others; two requests in all, which two sessions may hold at the same time
  or one may send in a row; one session has no peer address. Every property relates at
  most two requests.
* `forwarder`: no limit, half a token and one token per time unit, four lines, a clock
  up to 3 plus what connects take: enough to empty a bucket, refill it partly, refill
  it to the brim and be refused.

* `stix_bundle`: two runs, one of them with `--include-non-global`; five lines to choose
  from (one address in two spellings with times out of order, one without a valid time,
  a private one, one that is no event), a log of up to four of them; three events and
  two sources are the bounds, so that both are exceeded; a clock of two values, so that
  the runs share a stamp or not; times in halves of a millisecond, which truncation cuts
  to whole ones. 1,687,128 states.
* `runtime`: six of the 21 model keys, one of every area and the four the assertions
  need; 239 documents, which differ from a good one in one or two registers, in the
  device or in a process quantity, among them infinite values, defaults their data type
  does not hold, and ranges that go below zero; four command lines; clients write values
  from -1 to 2 (whether PyModbus hands a signed word over as a negative number is its
  own affair; a write is accepted if the map's range has the value); an interval of 2 and
  `MaxBehind` 5 let two whole ticks be overdue.

`CHECK_DEADLOCK FALSE` in the configurations of Forwarder, StixBundle and Runtime: a log
ends and the forwarder with it, a run of the packager ends, the server is stopped.

### Fairness

`wet_well_live` and `wet_well_real` assume WF of `TickStep`: `_process_loop` ticks for as long as the server
runs; clients owe nothing. `modbus_server_live` and `modbus_server_stranded` assume WF of
the clock, of due timers, and of every ready drain task: asyncio runs ready callbacks
and due timers, and PyModbus's datastore calls return. `Deliver`, `Accept` and
`ConnectionLost` have no fairness: a client may fall silent at any point. `runtime`
assumes WF of the ready process task, of time while it sleeps, of the wake-up of a
cancelled task, and of the steps of run_server's `finally` (that `server.shutdown`
returns is a promise of PyModbus); interrupts, failures and clients owe nothing.

### Findings

* **A request can be stranded** (`server.py:175`). callback_data's exception handlers
  return before the code that starts the drain task; a request queued earlier in the same
  delivery waits for the next delivery. With decodable frames only, `QueueDrains` holds.
  The same return throws away the frames behind the undecodable one: `NoRequestLost`
  holds with decodable frames only.
* **A collector that closes its connection kills the forwarder**
  (`forward_events.py:298`). SIGPIPE has its default action.

* **A validated map may stop the process** (`model.py:203`, `runtime.py:99`). The
  validator accepts `pump_fault` and `pump_feedback` that both default to 1, and a
  `control_mode` with a maximum of 2, and a `pump_speed_setpoint` below zero, whose pump
  has a negative outlet flow (`model.py:207`). A tick then raises, at once or after a client's
  write; the exception ends the task of the process loop, the server goes on answering
  from a process that stands still, and when it is stopped the exception skips
  `server.shutdown`. With a coherent map (`Coherent`) `ProcessAlive` and `StopsInOrder`
  hold.

Observations without a run:

* A pump target set by a MANUAL command that is still in its actuator delay counts as
  "running" after a switch to AUTO (`model.py:150`), so the pump may start inside the
  dead band, which the name of the test at `tests/test_process_model.py:49` excludes.
  No property here catches that; what does hold is `AutoStartInBand`: never at or below the stop threshold.
* A single-coil write of an undefined value is answered by callback_data itself
  (`server.py:187`) and leaves no event, while `docs/EVENTS.md:3` has one for every
  handled write. `OneEventPerRequest` excepts it.
* The incomplete-request timer is not restarted when a delivery completes one request
  and begins the next (`server.py:126`), so the second may have less than the whole
  timeout. `DeadlineRunsOn` is the other side of it: no delivery ever sets it back.
* A TCP connect blocks the forwarder for up to its timeout, for every event while the
  collector is away (`forward_events.py:165`).
* Two packager runs that start in the same millisecond share a temporary file
  (`build_stix_bundle.py:223`); one may fail or publish a mixture. `PublishedWhole` is
  stated for stamps that only one run has.
* Re-packaging is stable for sources with a valid time only; for the others, and for the
  id of the bundle, the seed holds the time of the run (`build_stix_bundle.py:169`,
  `216`).
* The validator does not look at references, at scales too large for a float, at areas
  without a register, at keys the model has or lacks, or at whether a default is finite
  and fits its data type (`1e999`, or 70000 in a `uint16`); the program then refuses to
  start. `ValidatedStarts` excepts these.
* Nothing asks that a register's range fit its 16-bit word (`validate_register_map.py:163`
  compares minimum, default and maximum with each other only). With one that does not,
  `_encode_register` sends a value's low 16 bits and the event names the value:
  `ReadsAreReported` carries that hypothesis.
* `nominal_inlet_flow_lps` may be up to 10,000 by the validator, while the 16-bit flow
  register, in hundredths, ends at 655; `tick_seconds` is bounded by the validator
  and read by nothing.

## Proofs

Checked by TLAPS, for every value of the constants that meets the named assumptions.

Each theorem is stated as `Spec => []Inv`, as `Spec =>` an action property, or, for the
refinement, as `Spec => ImplementsDevice`.

* **WetWellProofs** (`QuantityAssumption`, `TickAssumption`, `DefaultsAssumption`, which
  hold of every map the validator accepts whose level and start count start within their
  own bounds). What more a result needs is a hypothesis of its theorem. `TypeOK` is inductive by itself; `SettledFeedback` is
  inductive relative to it, because a new request restarts a delay that is positive, so
  a delay is zero only when the last request has arrived, and no faulted pump starts out
  running (`NoFaultedStart`). `AssertionsNeverFire` is about a `CoherentMap`: it rests on
  "a faulted pump does not run" and on flows and current that are not negative.
  `AssertionFiresFor` has no hypothesis: whatever the map, an
  assertion that fires means a mode outside the enum, a faulted pump that started out
  running, or a map with something negative; the level never escapes its bounds, and
  these three are all there is to look for in a map. `SnapshotCoherent` has two parts, each inductive
  relative to `TypeOK`; its `AlarmsCoherent` gives `NewAlarmUnacknowledged` (an alarm
  that comes up is never acknowledged already) as a step property, and
  `EveryStartCounted` shows that the start counter moves with the rising edges of the
  feedback only; these two are proved and have no run. `DelayedFeedback` assumes every tick
  shorter than the delay and `NoFaultedStart`; `SnapshotIsCoherent` a start between the
  alarm limits with the pump stopped (`StartsClear`, `StartsStopped`) and no negative
  speed. All of these hold of the checked-in map, and TLC evaluates them on every
  instance (`InstanceAssumption` of MCWetWell); the validator asks for none. `AutoStartsInBand` follows
  from the order of the code, not from an induction: a tick asks `DesiredPumpState`
  before it moves the feedback, so a start under way is taken back at or below the stop
  threshold. It assumes a hysteresis above zero, which the validator asks for
  (`validate_register_map.py:73`). `AutoHoldsTheLevel` needs the invariant
  `Regulating`: a level that is
  out of the band is so by no more than the travel since the pump was told to turn, and
  the age of that order is what its delay has used up; with no order under way the level
  is within one tick of the threshold it moves towards. Its hypotheses: `LeftAlone` (AUTO
  from the start, clients acknowledge alarms and write nothing else, a healthy pump that
  moves at least the inflow, ticks of bounded length) and `LimitsClear` (the alarm limits
  lie beyond thresholds and overshoot), and `StartsClear`. The checked-in map meets them: thresholds 4700
  and 5500, an overshoot of 28 raw units at most, limits 1800 and 8200; `wet_well_real` is
  that instance.
* **ModbusServerProofs** (`LimitsAssumption`): any number of handlers, any limits.
  `TypeOK` is not inductive alone: that `PopNext` keeps the number of tasks natural needs
  `InOrder` (no request in flight without its task). `TypeOK /\ InOrder` is, and
  `SlotsMatchConnections`, `SessionBounded` and `TimersGuardConnections` follow relative
  to it; `DeadlineRunsOn` is a step property of the deliveries under the type invariant
  and `TimersGuardConnections`. `NoRequestLost` is inductive relative to
  `TypeOK /\ InOrder`: received requests are numbered, and what is queued is the unbroken
  run of numbers from the last one started to the last one received. `RequestsKept`
  assumes `NoneBehindUndecodable`, the case the finding leaves. `Attended`, that a queue
  which is not empty has its one task, is the safety half of `QueueDrains`: what
  `QueueAttended` leaves to TLC is only that the event loop runs the task.
* **ProtocolAdapterProofs** (`MapAssumption`, `RequestAssumption`): any map, any set of
  requests, any number of sessions. The invariant is `TypeOK /\ TasksBound`: a task
  between bind and reset holds a request of its own session and that request's identity.
  `TasksBound` is what `EventsAttributed` needs. `WritesAreAtomic` follows from the order
  of checks in `WriteResult`; `SoundMapsNeverBreak` shows that its exception does
  not occur with a `Sound` map. Of a map `MapAssumption` asks no more than
  `RegisterMap` does (keys and locations differ), that it has `control_mode` and
  `auto_control_active`, as `snapshot_raw` does, and that minima, maxima and defaults are
  integers.
* **DeviceProofs** (the same assumptions): the adapter implements `Device`. The invariant
  `Refining` adds to `TypeOK /\ TasksBound` that a request in progress has no answer yet;
  without it a session could execute a request the device has handled already. Then every
  step is simulated, action by action: `Execute` and `RefuseCoil` are `Arrive`; a failure or
  an unknown unit before the hook is `Decline`; `Read`, `UnknownFunction` and `RefuseWrite`
  are `Show`; `AcceptWrite` is `Change`, with the written keys as witness, and `auto_control_active` agrees with
  `control_mode` after it because `RawAfter` is a snapshot; `BreakWrite` is
  `Break`; `Tick` is `Move`; `Readback`, `Finish` and a failure after the write are stutters,
  because the request they answer has taken effect.
* **EventLogProofs** (the same assumptions, and `Refining`). `OneEventPerRequest` is not
  inductive: it looks at answers only, while the event of an accepted write comes before
  its answer. `Accounted` speaks of the requests that have taken effect: no event is
  about any other, no two about the same, an event agrees with the answer or with an
  accepted write that waits for it, and unless the sink lost one, every request that
  action() handled without raising has its event. Every step is shown to be one of two
  kinds (`StepAccounts`): it emits nothing and owes nothing for what it handles
  (`Quietly`), or it emits the one event of the one request it handles (`Reports`); each
  kind keeps the account. `ReadsAreReported` adds `Served`, that a read event's values
  are the decoded words of the answer. It rests on `DecodeEncode`, which needs every
  range of the map to fit its 16-bit word (`WordsFit`).
* **ForwarderProofs** (`ForwarderAssumption`). `RateBounded` is not inductive, since it
  does not speak of the bucket; `Paid` is: for every event let through, the events since
  then plus the tokens left are at most one bucket plus the rate times the time up to
  the last refill. It survives a refill because the refill adds at most what that time
  is worth, and a grant because it moves one token from the bucket to the events.

* **StixBundleProofs** (`PackagerAssumption`): any number of runs, any log, any bounds.
  `CollectedIsSummary` is inductive relative to `TypeOK`: `ObserveLine` adds one position
  to the set of lines about one address, and the set of times grows by one;
  `RepackagingStable` and `IndicatorKept` follow from it without a further induction,
  since a summary determines first and last (and, over a log in the order of time, a
  longer log the same first). `PublishedWhole` is not inductive: the invariant
  `Publishing` says who holds which file (a run alone at its stamp owns its temporary
  file from the moment it opens it) and what the file holds at each stage.
* **RuntimeProofs** (`RuntimeAssumption`): any documents, any interval, any written values. `KeepsPace` needs
  `Paced`: `wake` is what is left of `until`, and `until` and `behind` add up to one
  interval, so that a loop that is late sleeps the less. `ProcessAlive` needs `Sane`, that
  mode, pump speed and feedback keep what a coherent map starts with, since a client may
  write a mode or a speed only within the map's range. `FailsClosed`
  rests on a counting argument: as many different keys as registers, so no two alike.
  `ValidatedStarts` is the converse: the validator's pairwise check makes the loader's
  counts come out, and a default that fits its data type is finite, while one that is
  shown as a truth value is never converted by `int()`. Its hypotheses (keys, references,
  scales, areas, fitting defaults) are what the validator does not look at.

Only model-checked: liveness under fairness (`FeedbackFollows`, `AutoRegulates`,
`AutoCycles`, `SilentConnectionCloses`, `IncompleteConnectionCloses`, `QueueDrains`,
`StopsInOrder`), which the prover cannot do. Every invariant and every action property of
a passing run, and the refinement, is stated by a theorem.

## Not modelled

* PyModbus's framing and its own tables, asyncio: external, modelled by how the code
  uses them.
* Event ids, timestamps, JSON and syslog text, device identity: formatting and constant
  text. A test of the text is a unit test.
* `event_sink=None`, and the register keys listed in the event of a refused request.
* The log filter and logging set-up of the runtime, a second Ctrl-C during shutdown, the
  arguments argparse refuses by itself.
* The constant fields and texts of STIX objects, the messages of the validator, and
  failures of `mkdir` and `chmod` other than a missing file.
* The repository safety check (a stateless scan of files for forbidden text), packaging
  and container files, the demonstration client: no state of their own to get wrong.

## Plan

1. State what the session layer promises as an abstract module (a queue per connection,
   served in order, closed by a deadline) and prove that `ModbusServer` implements it.
2. Compose session layer and adapter, to carry the order of each session's requests from
   the wire to the log.
3. Prove the safety halves of the liveness properties that are left: that an open
   connection always has a timer that will fire, and a server that is stopping a step of
   its `finally` to take.
