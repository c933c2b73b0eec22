------------------------------ MODULE WetWell ------------------------------
(***************************************************************************)
(* The simulated wet well of simpleics_pot/model.py: the level of a sump,  *)
(* an inlet valve and a pump whose feedbacks follow their commands after a *)
(* delay, the AUTO level controller with hysteresis, the level alarms and  *)
(* their acknowledgement.                                                  *)
(*                                                                         *)
(* WetWellProcess serialises write_raw and tick with one lock, so each is  *)
(* one action.  The float _level_raw is an exact integer here, counted in  *)
(* Fine parts of a raw unit; a flow is what it does to the level in one    *)
(* time unit; durations are integers of the same time unit.                *)
(***************************************************************************)
EXTENDS Integers

CONSTANTS
  Fine,              \* level parts in one raw level unit
  LevelTop,          \* 10_000 raw, in level parts
  CountMax,          \* 65535, where pump_start_count saturates
  ActuatorDelay,     \* process.actuator_delay_seconds
  TickSeconds,       \* the intervals tick() is called with
  Hysteresis,        \* process.auto_hysteresis_raw
  InletRate,         \* process.nominal_inlet_flow_lps, level parts per time unit
  PumpRate,          \* process.max_pump_flow_lps, per unit of pump speed
  FlowUnit,          \* flow that a flow register shows as 1
  CurrentIdle, CurrentSpan, SpeedScale,  \* 300, 1_200 and 10_000 of pump_current
  Phases,            \* 20, the phases of the temperature's cycle
  ThermalStep,       \* the 60 seconds of one temperature phase
  HighLimit, LowLimit,                   \* the alarm limit registers
  SetpointMin, SetpointMax,  \* the range the map gives level_setpoint,
  SpeedMin, SpeedMax,        \* pump_speed_setpoint
  ModeMin, ModeMax,          \* and control_mode
  PumpFaults,        \* the pump_fault defaults of the maps considered
  Defaults,          \* the register defaults reset() copies
  WriteKeys,         \* the writable keys the environment writes
  WriteValues        \* the raw values it offers

MANUAL == 0
AUTO == 1
ThermalCycle == Phases * ThermalStep

(* Python's round(): to the nearest integer, a tie to the even one.        *)
RoundHalfEven(n, d) ==
  LET q == n \div d
      r == n % d
  IN  IF 2 * r < d \/ (2 * r = d /\ q % 2 = 0) THEN q ELSE q + 1

\* What the validator asks of the quantities; the ranges may be any.
ASSUME QuantityAssumption ==
  /\ Fine \in Nat \ {0} /\ LevelTop \in Nat /\ CountMax \in Nat
  /\ ActuatorDelay \in Nat \ {0} /\ Hysteresis \in Nat
  /\ InletRate \in Nat /\ PumpRate \in Nat /\ FlowUnit \in Nat \ {0}
  /\ CurrentIdle \in Nat /\ CurrentSpan \in Nat /\ SpeedScale \in Nat \ {0}
  /\ Phases \in Nat \ {0} /\ ThermalStep \in Nat \ {0}
  /\ HighLimit \in Int /\ LowLimit \in Int
  /\ SetpointMin \in Int /\ SetpointMax \in Int
  /\ SpeedMin \in Int /\ SpeedMax \in Int
  /\ ModeMin \in Int /\ ModeMax \in Int
  /\ PumpFaults \subseteq BOOLEAN

\* tick() refuses an interval that is not positive.
ASSUME TickAssumption == TickSeconds \subseteq Nat \ {0}

\* The validator refuses a default outside its register's range; those of
\* the level and of the start count are the checked-in map's.
ASSUME DefaultsAssumption ==
  /\ Defaults.level \in 0..LevelTop
  /\ Defaults.level_setpoint \in SetpointMin..SetpointMax
  /\ Defaults.control_mode \in ModeMin..ModeMax
  /\ Defaults.pump_speed_setpoint \in SpeedMin..SpeedMax
  /\ Defaults.pump_start_count \in 0..CountMax
  /\ Defaults.pump_command \in BOOLEAN
  /\ Defaults.inlet_valve_command \in BOOLEAN
  /\ Defaults.pump_feedback \in BOOLEAN
  /\ Defaults.inlet_valve_feedback \in BOOLEAN
  /\ Defaults.inlet_flow \in Int
  /\ Defaults.outlet_flow \in Int
  /\ Defaults.pump_current \in Int

(* Facts of the checked-in map that the validator does not ask for.  They  *)
(* are no assumptions: a result that needs one names it.                   *)
(* No faulted pump starts out running, the modes are those of the enum, no *)
(* pump runs backwards and no process value starts negative.               *)
NoFaultedStart == Defaults.pump_feedback => PumpFaults \subseteq {FALSE}
ModesInEnum == ModeMin..ModeMax \subseteq {MANUAL, AUTO}
NothingNegative ==
  /\ SpeedMin >= 0
  /\ Defaults.inlet_flow >= 0 /\ Defaults.outlet_flow >= 0
  /\ Defaults.pump_current >= 0

CoherentMap == NoFaultedStart /\ ModesInEnum /\ NothingNegative

(* The level starts between the alarm limits, the pump stopped, and the    *)
(* process values agree with the feedbacks.                                *)
StartsClear ==
  /\ RoundHalfEven(Defaults.level, Fine) < HighLimit
  /\ RoundHalfEven(Defaults.level, Fine) > LowLimit
StartsStopped ==
  /\ ~Defaults.pump_feedback
  /\ Defaults.outlet_flow = 0 /\ Defaults.pump_current = 0
  /\ Defaults.inlet_flow = RoundHalfEven(
        IF Defaults.inlet_valve_feedback THEN InletRate ELSE 0, FlowUnit)

VARIABLES
  level, elapsed,
  level_setpoint, control_mode, pump_speed_setpoint,
  pump_command, inlet_valve_command,
  pump_feedback, inlet_valve_feedback,
  pump_target, valve_target,
  pump_delay, valve_delay,
  pump_start_count,
  high_level_alarm, low_level_alarm,
  high_alarm_acknowledged, low_alarm_acknowledged,
  inlet_flow, outlet_flow, pump_current,
  pump_fault         \* nothing assigns it after reset

settings == <<level_setpoint, control_mode, pump_speed_setpoint,
              pump_command, inlet_valve_command>>
acknowledged == <<high_alarm_acknowledged, low_alarm_acknowledged>>
actuators == <<pump_feedback, inlet_valve_feedback, pump_target, valve_target,
               pump_delay, valve_delay, pump_start_count>>
physics == <<level, elapsed, inlet_flow, outlet_flow, pump_current,
             high_level_alarm, low_level_alarm>>
vars == <<settings, acknowledged, actuators, physics, pump_fault>>

-----------------------------------------------------------------------------
Longest == CHOOSE s \in TickSeconds : \A t \in TickSeconds : t <= s

Clamp(low, n, high) == IF n < low THEN low ELSE IF n > high THEN high ELSE n

tank_level_pv == RoundHalfEven(level, Fine)
HighNow == tank_level_pv >= HighLimit
LowNow == tank_level_pv <= LowLimit

(* The triangle wave above the default temperature, in raw units (0.01 C). *)
process_temperature_pv ==
  LET phase == elapsed \div ThermalStep
  IN  IF phase <= Phases \div 2 THEN phase ELSE Phases - phase

Init ==
  /\ level = Defaults.level
  /\ elapsed = 0
  /\ level_setpoint = Defaults.level_setpoint
  /\ control_mode = Defaults.control_mode
  /\ pump_speed_setpoint = Defaults.pump_speed_setpoint
  /\ pump_start_count = Defaults.pump_start_count
  /\ pump_command = Defaults.pump_command
  /\ inlet_valve_command = Defaults.inlet_valve_command
  /\ pump_feedback = Defaults.pump_feedback
  /\ inlet_valve_feedback = Defaults.inlet_valve_feedback
  /\ pump_target = pump_feedback
  /\ valve_target = inlet_valve_feedback
  /\ pump_delay = 0 /\ valve_delay = 0
  /\ high_level_alarm = FALSE /\ low_level_alarm = FALSE
  /\ high_alarm_acknowledged = FALSE /\ low_alarm_acknowledged = FALSE
  /\ inlet_flow = Defaults.inlet_flow
  /\ outlet_flow = Defaults.outlet_flow
  /\ pump_current = Defaults.pump_current
  /\ pump_fault \in PumpFaults

-----------------------------------------------------------------------------
(* Faulty variants of the definitions below.  No specification uses them:  *)
(* each is a slip that a property of this module has to notice.            *)
AcceptedUnchecked(key) == WriteValues
DesiredPumpStateReversed ==
  IF control_mode = MANUAL
  THEN pump_command
  ELSE level <= (level_setpoint - Hysteresis) * Fine
DesiredPumpStateHigh ==
  IF control_mode = MANUAL
  THEN pump_command
  ELSE level >= (level_setpoint + 3 * Hysteresis) * Fine
RequestedKeepsDelay(target, desired, delay) ==
  IF desired # target /\ delay = 0 THEN ActuatorDelay ELSE delay
RequestedEveryTick(target, desired, delay) == ActuatorDelay
ArrivesEarly(delay, seconds) == 0 < delay /\ delay < seconds
RunsAtDespiteFault(target) == target
UpdateAlarmsKeepsAck ==
  /\ high_level_alarm' = HighNow' /\ low_level_alarm' = LowNow'
  /\ UNCHANGED acknowledged

-----------------------------------------------------------------------------
(* The raw values _coerce_write lets through to a writable key.            *)
Accepted(key) ==
  CASE key = "level_setpoint"      -> SetpointMin..SetpointMax
    [] key = "pump_speed_setpoint" -> SpeedMin..SpeedMax
    [] key = "control_mode"        -> ModeMin..ModeMax
    [] OTHER                       -> {0, 1}  \* the coils' registers are bool

(* A command or setpoint is stored; alarm_acknowledge is a pulse: 1 copies *)
(* the alarms that stand into their acknowledgements, 0 does nothing, and  *)
(* the coil always reads 0.                                                *)
WriteRaw(key, value) ==
  /\ value \in Accepted(key)
  /\ level_setpoint' = IF key = "level_setpoint" THEN value ELSE level_setpoint
  /\ control_mode' = IF key = "control_mode" THEN value ELSE control_mode
  /\ pump_speed_setpoint' =
       IF key = "pump_speed_setpoint" THEN value ELSE pump_speed_setpoint
  /\ pump_command' = IF key = "pump_command" THEN value = 1 ELSE pump_command
  /\ inlet_valve_command' =
       IF key = "inlet_valve_command" THEN value = 1 ELSE inlet_valve_command
  /\ IF key = "alarm_acknowledge" /\ value = 1
     THEN /\ high_alarm_acknowledged' = high_level_alarm
          /\ low_alarm_acknowledged' = low_level_alarm
     ELSE UNCHANGED acknowledged
  /\ UNCHANGED <<actuators, physics, pump_fault>>

-----------------------------------------------------------------------------
(* Any mode but MANUAL is taken for AUTO.                                  *)
(* AUTO starts the pump at setpoint + hysteresis; once it runs, or is on   *)
(* its way to run, it stops at setpoint - hysteresis.                      *)
DesiredPumpState ==
  IF control_mode = MANUAL
  THEN pump_command
  ELSE IF pump_feedback \/ pump_target
       THEN level > (level_setpoint - Hysteresis) * Fine
       ELSE level >= (level_setpoint + Hysteresis) * Fine

(* _request_pump, _request_valve: a changed target restarts the delay.     *)
Requested(target, desired, delay) ==
  IF desired # target THEN ActuatorDelay ELSE delay

(* _advance_actuators: the delay runs down, and the feedback moves in the  *)
(* tick that ends it.                                                      *)
Remaining(delay, seconds) == IF delay > seconds THEN delay - seconds ELSE 0
Arrives(delay, seconds) == 0 < delay /\ delay <= seconds

RunsAt(target) == target /\ ~pump_fault
StartCount(previous, running) ==
  IF running /\ ~previous
  THEN Clamp(0, pump_start_count + 1, CountMax)
  ELSE pump_start_count

AdvanceValve(seconds) ==
  LET delay == Requested(valve_target, inlet_valve_command, valve_delay)
  IN  /\ valve_target' = inlet_valve_command
      /\ valve_delay' = Remaining(delay, seconds)
      /\ inlet_valve_feedback' = IF Arrives(delay, seconds)
                                 THEN inlet_valve_command
                                 ELSE inlet_valve_feedback

AdvancePump(seconds) ==
  LET delay == Requested(pump_target, DesiredPumpState, pump_delay)
  IN  /\ pump_target' = DesiredPumpState
      /\ pump_delay' = Remaining(delay, seconds)
      /\ pump_feedback' = IF Arrives(delay, seconds)
                          THEN RunsAt(DesiredPumpState)
                          ELSE pump_feedback
      /\ pump_start_count' = StartCount(pump_feedback, pump_feedback')

(* The level and the process values follow the feedbacks just computed.    *)
InletNow(open) == IF open THEN InletRate ELSE 0
OutletNow(running) == IF running THEN PumpRate * pump_speed_setpoint ELSE 0
CurrentNow(running) ==
  IF running
  THEN RoundHalfEven(CurrentIdle * SpeedScale + CurrentSpan * pump_speed_setpoint,
                     SpeedScale)
  ELSE 0

MoveWater(seconds) ==
  LET inlet == InletNow(inlet_valve_feedback')
      outlet == OutletNow(pump_feedback')
  IN  /\ level' = Clamp(0, level + (inlet - outlet) * seconds, LevelTop)
      /\ inlet_flow' = RoundHalfEven(inlet, FlowUnit)
      /\ outlet_flow' = RoundHalfEven(outlet, FlowUnit)
      /\ pump_current' = CurrentNow(pump_feedback')

(* An alarm that clears takes its acknowledgement with it.                 *)
UpdateAlarms ==
  /\ high_level_alarm' = HighNow'
  /\ low_level_alarm' = LowNow'
  /\ high_alarm_acknowledged' = (high_alarm_acknowledged /\ HighNow')
  /\ low_alarm_acknowledged' = (low_alarm_acknowledged /\ LowNow')

Tick(seconds) ==
  /\ AdvanceValve(seconds)
  /\ AdvancePump(seconds)
  /\ MoveWater(seconds)
  /\ UpdateAlarms
  /\ elapsed' = (elapsed + seconds) % ThermalCycle
  /\ UNCHANGED <<settings, pump_fault>>

-----------------------------------------------------------------------------
Write == \E key \in WriteKeys, value \in WriteValues : WriteRaw(key, value)
TickStep == \E seconds \in TickSeconds : Tick(seconds)

Next == Write \/ TickStep

Spec == Init /\ [][Next]_vars

(* The process loop of the runtime ticks for as long as the server runs.   *)
FairSpec == Spec /\ WF_vars(TickStep)
-----------------------------------------------------------------------------
(* Every field keeps the type and range reset() gives it; the setpoints    *)
(* keep the range of their registers whatever is written.                  *)
TypeOK ==
  /\ level \in 0..LevelTop
  /\ elapsed \in 0..ThermalCycle - 1
  /\ level_setpoint \in SetpointMin..SetpointMax
  /\ control_mode \in ModeMin..ModeMax
  /\ pump_speed_setpoint \in SpeedMin..SpeedMax
  /\ pump_command \in BOOLEAN /\ inlet_valve_command \in BOOLEAN
  /\ pump_feedback \in BOOLEAN /\ inlet_valve_feedback \in BOOLEAN
  /\ pump_target \in BOOLEAN /\ valve_target \in BOOLEAN
  /\ pump_delay \in 0..ActuatorDelay /\ valve_delay \in 0..ActuatorDelay
  /\ pump_start_count \in 0..CountMax
  /\ high_level_alarm \in BOOLEAN /\ low_level_alarm \in BOOLEAN
  /\ high_alarm_acknowledged \in BOOLEAN /\ low_alarm_acknowledged \in BOOLEAN
  /\ inlet_flow \in Int /\ outlet_flow \in Int /\ pump_current \in Int
  /\ pump_fault \in PumpFaults

(* An actuator whose delay has run out shows its target: however requests  *)
(* and reversals fall between ticks, no request is lost with the feedback  *)
(* left behind for good (_request_*, _advance_actuators).                  *)
SettledFeedback ==
  /\ pump_delay = 0 => pump_feedback = (pump_target /\ ~pump_fault)
  /\ valve_delay = 0 => inlet_valve_feedback = valve_target

(* Every assertion of _assert_invariants holds, so no tick raises and the  *)
(* process loop is never ended by one; a faulted pump never reports        *)
(* running, whatever AUTO or an operator asks of it.  It holds of a        *)
(* CoherentMap: Runtime has maps that end the process loop.                *)
AssertionsHold ==
  /\ 0 <= level /\ level <= LevelTop
  /\ control_mode \in {MANUAL, AUTO}
  /\ ~(pump_fault /\ pump_feedback)
  /\ inlet_flow >= 0 /\ outlet_flow >= 0 /\ pump_current >= 0

(* The alarms a client reads agree with the rounded level it reads, at all *)
(* times and not only after a tick, and only an alarm that stands is       *)
(* acknowledged (tick, write_raw of alarm_acknowledge).                    *)
AlarmsCoherent ==
  /\ high_level_alarm = HighNow
  /\ low_level_alarm = LowNow
  /\ high_alarm_acknowledged => high_level_alarm
  /\ low_alarm_acknowledged => low_level_alarm

(* The process values a client reads agree with the feedbacks it reads in  *)
(* the same snapshot: a stopped pump moves no water and draws no current,  *)
(* a running one draws at least its idle current, the inlet flow is that   *)
(* of the valve's feedback (snapshot_raw between any two steps).           *)
ProcessValuesCoherent ==
  /\ ~pump_feedback => outlet_flow = 0 /\ pump_current = 0
  /\ pump_feedback => pump_current >= CurrentIdle
  /\ inlet_flow = RoundHalfEven(InletNow(inlet_valve_feedback), FlowUnit)

(* Whatever is read in one snapshot agrees with itself: the alarms with    *)
(* the level, the process values with the feedbacks (tick, snapshot_raw).  *)
SnapshotCoherent == AlarmsCoherent /\ ProcessValuesCoherent

(* An alarm that comes up anew is unacknowledged, also when the same alarm *)
(* was acknowledged earlier in the run (tick).                             *)
NewAlarmUnacknowledged ==
  [][ /\ high_level_alarm' /\ ~high_level_alarm => ~high_alarm_acknowledged'
      /\ low_level_alarm' /\ ~low_level_alarm => ~low_alarm_acknowledged' ]_vars

(* A feedback is never an alias of its command: it moves only to a target  *)
(* that an earlier tick requested and no tick since took back.  Needs      *)
(* every tick shorter than the delay, as in the checked-in map.            *)
DelayedFeedback ==
  [][ /\ pump_feedback' # pump_feedback => pump_target = pump_feedback'
      /\ inlet_valve_feedback' # inlet_valve_feedback
           => valve_target = inlet_valve_feedback' ]_vars

(* Every start of the pump is counted once, up to the width of the         *)
(* register; a request reversed before the pump moved is not a start.      *)
StartsCounted ==
  [][ IF pump_feedback' /\ ~pump_feedback
      THEN pump_start_count' = pump_start_count + 1
           \/ (pump_start_count = CountMax /\ pump_start_count' = CountMax)
      ELSE pump_start_count' = pump_start_count ]_vars

(* In AUTO the pump never starts with the level at or below the stop       *)
(* threshold, even when the setpoint or the mode changed while the start   *)
(* was under way (_desired_pump_state is asked again by every tick).       *)
AutoStartInBand ==
  [][ pump_feedback' /\ ~pump_feedback /\ control_mode = AUTO
        => level > (level_setpoint - Hysteresis) * Fine ]_vars

(* How far the level travels between the tick that sees a threshold        *)
(* crossed and the tick that moves the feedback.                           *)
Overshoot(rate) == rate * (Longest + ActuatorDelay)

(* The level stays in the dead band but for the travel the delay allows.   *)
LevelInBand ==
  /\ level >= (level_setpoint - Hysteresis) * Fine
              - Overshoot(PumpRate * pump_speed_setpoint - InletRate)
  /\ level <= (level_setpoint + Hysteresis) * Fine + Overshoot(InletRate)

(* Left alone in AUTO, the controller holds the level in the band and      *)
(* raises no alarm (the whole of tick, closed loop).                       *)
AutoHoldsLevel == LevelInBand /\ ~high_level_alarm /\ ~low_level_alarm

(* Left alone in AUTO, the pump keeps cycling: it neither sticks on nor    *)
(* sticks off.                                                             *)
AutoCycles == []<>pump_feedback /\ []<>~pump_feedback

Quiet == <>[][FALSE]_settings

(* A valve command that is left alone reaches the feedback for good, and   *)
(* so does a pump command in MANUAL unless the pump is faulted.            *)
FeedbackFollows ==
  \A b \in BOOLEAN :
    /\ <>[](inlet_valve_command = b) => <>[](inlet_valve_feedback = b)
    /\ <>[](control_mode = MANUAL /\ pump_command = b)
         => <>[](pump_feedback = (b /\ ~pump_fault))

Regulable == /\ control_mode = AUTO
             /\ inlet_valve_command
             /\ PumpRate * pump_speed_setpoint > InletRate

(* From any state that operators left behind, AUTO with an open valve and  *)
(* a pump speed above the inflow brings the level into the band for good.  *)
AutoRegulates == Quiet /\ <>[]Regulable => <>[]LevelInBand
=============================================================================
