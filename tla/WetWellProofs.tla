--------------------------- MODULE WetWellProofs ---------------------------
(***************************************************************************)
(* Proofs about the wet well: they hold for every register map that meets  *)
(* the assumptions of WetWell, for every sequence of writes and ticks.     *)
(***************************************************************************)
EXTENDS WetWell, TLAPS

-----------------------------------------------------------------------------
(* round() of a non-negative quotient is a natural number.                 *)
LEMMA RoundNat ==
  ASSUME NEW n \in Nat, NEW d \in Nat \ {0}
  PROVE  RoundHalfEven(n, d) \in Nat
<1>1. n \div d \in Nat
  BY SMT
<1> QED
  BY <1>1, SMT DEF RoundHalfEven

LEMMA RoundInt ==
  ASSUME NEW n \in Int, NEW d \in Nat \ {0}
  PROVE  RoundHalfEven(n, d) \in Int
<1>1. n \div d \in Int
  BY SMT
<1> QED
  BY <1>1, SMT DEF RoundHalfEven

(* round() of a quotient of at least k is at least k.                      *)
LEMMA RoundAtLeast ==
  ASSUME NEW n \in Nat, NEW d \in Nat \ {0}, NEW k \in Nat, n >= k * d
  PROVE  RoundHalfEven(n, d) >= k
<1>1. n \div d >= k
  BY SMT
<1> QED
  BY <1>1, SMT DEF RoundHalfEven

(* round() keeps the order.                                                *)
LEMMA RoundMonotone ==
  ASSUME NEW m \in Int, NEW n \in Int, NEW d \in Nat \ {0}, m <= n
  PROVE  RoundHalfEven(m, d) <= RoundHalfEven(n, d)
<1> DEFINE p == m \div d
           q == n \div d
           r == m % d
           s == n % d
<1>1. /\ p \in Int /\ q \in Int /\ r \in 0..d - 1 /\ s \in 0..d - 1
      /\ m = d * p + r /\ n = d * q + s
  BY SMT
<1>2. /\ RoundHalfEven(m, d) = IF 2 * r < d \/ (2 * r = d /\ p % 2 = 0) THEN p ELSE p + 1
      /\ RoundHalfEven(n, d) = IF 2 * s < d \/ (2 * s = d /\ q % 2 = 0) THEN q ELSE q + 1
  BY DEF RoundHalfEven
<1> HIDE DEF p, q, r, s
<1>3. p <= q
  <2> SUFFICES ASSUME p > q PROVE FALSE
    BY <1>1
  <2>1. p >= q + 1
    BY <1>1
  <2>2. d * p >= d * (q + 1)
    BY <1>1, <2>1, SMT
  <2>3. d * (q + 1) = d * q + d
    BY <1>1, SMT
  <2> QED
    BY <1>1, <2>2, <2>3, SMT
<1>4. p = q => r <= s
  BY <1>1, SMT
<1> QED
  BY <1>1, <1>2, <1>3, <1>4, SMT

(* A clamped integer lies between the bounds.                              *)
LEMMA ClampBounds ==
  ASSUME NEW lo \in Int, NEW hi \in Int, NEW n \in Int, lo <= hi
  PROVE  Clamp(lo, n, hi) \in lo..hi
BY DEF Clamp

(* What _advance_actuators does to a delay: it stays in range, and it is   *)
(* zero exactly when it was zero or arrived.                               *)
LEMMA DelayStep ==
  ASSUME NEW delay \in 0..ActuatorDelay, NEW seconds \in TickSeconds
  PROVE  /\ Remaining(delay, seconds) \in 0..ActuatorDelay
         /\ Remaining(delay, seconds) = 0 <=> delay = 0 \/ Arrives(delay, seconds)
         /\ Arrives(delay, seconds) \in BOOLEAN
BY QuantityAssumption, TickAssumption DEF Remaining, Arrives

LEMMA RequestedDelay ==
  ASSUME NEW delay \in 0..ActuatorDelay, NEW target, NEW desired
  PROVE  /\ Requested(target, desired, delay) \in 0..ActuatorDelay
         /\ Requested(target, desired, delay) = 0 => desired = target /\ delay = 0
BY QuantityAssumption DEF Requested

LEMMA DesiredBoolean == TypeOK => DesiredPumpState \in BOOLEAN
<1>1. /\ (level > (level_setpoint - Hysteresis) * Fine) \in BOOLEAN
      /\ (level >= (level_setpoint + Hysteresis) * Fine) \in BOOLEAN
  OBVIOUS
<1>2. TypeOK => pump_command \in BOOLEAN
  BY DEF TypeOK
<1> QED
  BY <1>1, <1>2, Zenon DEF DesiredPumpState

-----------------------------------------------------------------------------
(* The fields' types and ranges are inductive.                             *)
LEMMA TypeInit == Init => TypeOK
<1> SUFFICES ASSUME Init PROVE TypeOK
  OBVIOUS
<1>1. ThermalCycle \in Nat \ {0}
  BY QuantityAssumption DEF ThermalCycle
<1>2. elapsed \in 0..ThermalCycle - 1
  BY <1>1 DEF Init
<1>3. pump_delay \in 0..ActuatorDelay /\ valve_delay \in 0..ActuatorDelay
  BY QuantityAssumption DEF Init
<1> QED
  BY <1>2, <1>3, DefaultsAssumption, Zenon DEF Init, TypeOK

LEMMA TypeWrite ==
  ASSUME TypeOK, NEW key, NEW value, WriteRaw(key, value)
  PROVE  TypeOK'
<1>1. /\ level_setpoint' \in SetpointMin..SetpointMax
      /\ control_mode' \in ModeMin..ModeMax
      /\ pump_speed_setpoint' \in SpeedMin..SpeedMax
  BY DEF WriteRaw, TypeOK, Accepted
<1>2. pump_command' \in BOOLEAN /\ inlet_valve_command' \in BOOLEAN
  BY DEF WriteRaw, TypeOK
<1>3. high_alarm_acknowledged' \in BOOLEAN /\ low_alarm_acknowledged' \in BOOLEAN
  BY DEF WriteRaw, TypeOK, acknowledged
<1> QED
  BY <1>1, <1>2, <1>3 DEF WriteRaw, TypeOK, actuators, physics

LEMMA TypeTick ==
  ASSUME TypeOK, NEW seconds \in TickSeconds, Tick(seconds)
  PROVE  TypeOK'
<1> USE QuantityAssumption, TickAssumption
<1>1. valve_target' \in BOOLEAN /\ valve_delay' \in 0..ActuatorDelay
      /\ inlet_valve_feedback' \in BOOLEAN
  BY RequestedDelay, DelayStep DEF Tick, AdvanceValve, TypeOK
<1>2. pump_target' \in BOOLEAN /\ pump_delay' \in 0..ActuatorDelay
      /\ pump_feedback' \in BOOLEAN
  BY RequestedDelay, DelayStep, DesiredBoolean DEF Tick, AdvancePump, RunsAt, TypeOK
<1>3. pump_start_count' \in 0..CountMax
  BY ClampBounds DEF Tick, AdvancePump, StartCount, TypeOK
<1>4. InletNow(inlet_valve_feedback') \in Nat
  BY DEF InletNow
<1>5. OutletNow(pump_feedback') \in Int
  BY DEF OutletNow, TypeOK
<1>6. level' \in 0..LevelTop
  <2>1. level + (InletNow(inlet_valve_feedback') - OutletNow(pump_feedback')) * seconds
          \in Int
    BY <1>4, <1>5 DEF TypeOK
  <2> QED
    BY <2>1, ClampBounds DEF Tick, MoveWater
<1>7. inlet_flow' \in Int /\ outlet_flow' \in Int
  BY <1>4, <1>5, RoundInt DEF Tick, MoveWater
<1>8. pump_current' \in Int
  <2>1. CurrentIdle * SpeedScale + CurrentSpan * pump_speed_setpoint \in Int
    BY DEF TypeOK
  <2> QED
    BY <2>1, RoundInt DEF Tick, MoveWater, CurrentNow
<1>9. elapsed' \in 0..ThermalCycle - 1
  <2>1. ThermalCycle \in Nat \ {0}
    BY DEF ThermalCycle
  <2> QED
    BY <2>1 DEF Tick, TypeOK
<1>10. HighNow' \in BOOLEAN /\ LowNow' \in BOOLEAN
  BY DEF HighNow, LowNow
<1>11. /\ high_level_alarm' \in BOOLEAN /\ low_level_alarm' \in BOOLEAN
       /\ high_alarm_acknowledged' \in BOOLEAN
       /\ low_alarm_acknowledged' \in BOOLEAN
  BY <1>10, Zenon DEF Tick, UpdateAlarms
<1> QED
  BY <1>1, <1>2, <1>3, <1>6, <1>7, <1>8, <1>9, <1>11 DEF Tick, TypeOK, settings

(* Stuttering changes no field.                                            *)
LEMMA TypeStutter == TypeOK /\ UNCHANGED vars => TypeOK'
BY DEF TypeOK, vars, settings, acknowledged, actuators, physics

(* Type correctness of the wet well: whatever is written, the level stays  *)
(* in the tank, the setpoints in their registers' ranges and the start     *)
(* counter in its 16 bits (reset, write_raw, tick).                        *)
THEOREM TypeCorrect == Spec => []TypeOK
<1>1. TypeOK /\ [Next]_vars => TypeOK'
  BY TypeWrite, TypeTick, TypeStutter DEF Next, Write, TickStep
<1> QED
  BY TypeInit, <1>1, PTL DEF Spec

-----------------------------------------------------------------------------
(* A write touches neither an actuator nor a process value.                *)
LEMMA WriteFrame ==
  ASSUME NEW key, NEW value, WriteRaw(key, value)
  PROVE  UNCHANGED <<actuators, physics, pump_fault>>
BY DEF WriteRaw

(* A tick in which the pump neither has a delay to run down nor gets a new *)
(* request leaves target and feedback alone; a tick that ends the delay    *)
(* moves the feedback to the target.  The same for the valve.              *)
LEMMA SettledTick ==
  ASSUME TypeOK, SettledFeedback, NEW seconds \in TickSeconds, Tick(seconds)
  PROVE  SettledFeedback'
<1> DEFINE pd == Requested(pump_target, DesiredPumpState, pump_delay)
           vd == Requested(valve_target, inlet_valve_command, valve_delay)
<1>1. /\ pd \in 0..ActuatorDelay
      /\ pd = 0 => DesiredPumpState = pump_target /\ pump_delay = 0
  BY RequestedDelay DEF TypeOK
<1>2. /\ vd \in 0..ActuatorDelay
      /\ vd = 0 => inlet_valve_command = valve_target /\ valve_delay = 0
  BY RequestedDelay DEF TypeOK
<1>3. /\ pump_delay' = 0 => pd = 0 \/ Arrives(pd, seconds)
      /\ valve_delay' = 0 => vd = 0 \/ Arrives(vd, seconds)
  BY <1>1, <1>2, DelayStep DEF Tick, AdvancePump, AdvanceValve
<1>4. /\ pump_target' = DesiredPumpState /\ valve_target' = inlet_valve_command
      /\ pump_fault' = pump_fault
  BY DEF Tick, AdvancePump, AdvanceValve
<1>5. /\ pump_feedback' = IF Arrives(pd, seconds) THEN RunsAt(DesiredPumpState)
                                                 ELSE pump_feedback
      /\ inlet_valve_feedback' = IF Arrives(vd, seconds) THEN inlet_valve_command
                                                        ELSE inlet_valve_feedback
  BY DEF Tick, AdvancePump, AdvanceValve
<1> HIDE DEF pd, vd
<1>6. ASSUME pump_delay' = 0
      PROVE  pump_feedback' = (pump_target' /\ ~pump_fault')
  <2>1. CASE Arrives(pd, seconds)
    BY <2>1, <1>4, <1>5, Zenon DEF RunsAt
  <2>2. CASE ~Arrives(pd, seconds)
    <3>1. pd = 0
      BY <1>3, <1>6, <2>2, Zenon
    <3>2. pump_delay = 0 /\ DesiredPumpState = pump_target
      BY <1>1, <3>1, Zenon
    <3>3. pump_feedback = (pump_target /\ ~pump_fault)
      BY <3>2, Zenon DEF SettledFeedback
    <3> QED
      BY <1>4, <1>5, <2>2, <3>2, <3>3, Zenon
  <2> QED
    BY <2>1, <2>2
<1>7. valve_delay' = 0 => inlet_valve_feedback' = valve_target'
  BY <1>2, <1>3, <1>4, <1>5, Zenon DEF SettledFeedback
<1> QED
  BY <1>6, <1>7 DEF SettledFeedback

(* No actuator request is ever lost: once a delay has run out the feedback *)
(* shows the target (for a faulted pump, stopped), for every delay, every  *)
(* tick length and every interleaving of writes and ticks.  A map whose    *)
(* pump starts out running and faulted shows otherwise from the start.     *)
THEOREM FeedbackSettles ==
  ASSUME NoFaultedStart
  PROVE  Spec => []SettledFeedback
<1>1. Init => SettledFeedback
  <2> SUFFICES ASSUME Init PROVE SettledFeedback
    OBVIOUS
  <2>1. pump_feedback => ~pump_fault
    BY Zenon DEF Init, NoFaultedStart
  <2>2. pump_feedback \in BOOLEAN /\ inlet_valve_feedback \in BOOLEAN
    BY DefaultsAssumption DEF Init
  <2>3. pump_target = pump_feedback /\ valve_target = inlet_valve_feedback
    BY DEF Init
  <2> QED
    BY <2>1, <2>2, <2>3, Zenon DEF SettledFeedback
<1>2. TypeOK /\ SettledFeedback /\ [Next]_vars => SettledFeedback'
  <2> SUFFICES ASSUME TypeOK, SettledFeedback, [Next]_vars
               PROVE  SettledFeedback'
    OBVIOUS
  <2>1. ASSUME NEW key, NEW value, WriteRaw(key, value)
        PROVE  SettledFeedback'
    BY <2>1, WriteFrame DEF SettledFeedback, actuators
  <2>2. CASE UNCHANGED vars
    BY <2>2 DEF SettledFeedback, vars, actuators
  <2> QED
    BY <2>1, <2>2, SettledTick DEF Next, Write, TickStep
<1> QED
  BY <1>1, <1>2, TypeCorrect, PTL DEF Spec

-----------------------------------------------------------------------------
(* A faulted pump does not run, unless it ran and was faulted from the     *)
(* start.                                                                  *)
FaultStops == ~(pump_fault /\ pump_feedback)

LEMMA FaultedPumpStops ==
  ASSUME NoFaultedStart
  PROVE  Spec => []FaultStops
<1>1. Init => FaultStops
  BY Zenon DEF Init, FaultStops, NoFaultedStart
<1>2. FaultStops /\ [Next]_vars => FaultStops'
  <2> SUFFICES ASSUME FaultStops, [Next]_vars PROVE FaultStops'
    OBVIOUS
  <2>1. ASSUME NEW key, NEW value, WriteRaw(key, value) PROVE FaultStops'
    BY <2>1, WriteFrame DEF FaultStops, actuators
  <2>2. ASSUME NEW seconds \in TickSeconds, Tick(seconds) PROVE FaultStops'
    BY <2>2, Zenon DEF FaultStops, Tick, AdvancePump, RunsAt
  <2>3. CASE UNCHANGED vars
    BY <2>3 DEF FaultStops, vars, actuators
  <2> QED
    BY <2>1, <2>2, <2>3 DEF Next, Write, TickStep
<1> QED
  BY <1>1, <1>2, PTL DEF Spec

(* No process value is negative while no pump runs backwards.              *)
ValuesPositive == inlet_flow >= 0 /\ outlet_flow >= 0 /\ pump_current >= 0

LEMMA PositiveStep ==
  ASSUME NothingNegative, TypeOK, ValuesPositive, [Next]_vars
  PROVE  ValuesPositive'
<1>1. ASSUME NEW key, NEW value, WriteRaw(key, value) PROVE ValuesPositive'
  BY <1>1, WriteFrame DEF ValuesPositive, physics
<1>2. ASSUME NEW seconds \in TickSeconds, Tick(seconds) PROVE ValuesPositive'
  <2> USE QuantityAssumption
  <2>1. pump_speed_setpoint \in Nat
    BY DEF NothingNegative, TypeOK
  <2>2. /\ InletNow(inlet_valve_feedback') \in Nat
        /\ OutletNow(pump_feedback') \in Nat
    BY <2>1 DEF InletNow, OutletNow
  <2>3. inlet_flow' \in Nat /\ outlet_flow' \in Nat
    BY <1>2, <2>2, RoundNat DEF Tick, MoveWater
  <2>4. CurrentIdle * SpeedScale + CurrentSpan * pump_speed_setpoint \in Nat
    BY <2>1
  <2>5. pump_current' \in Nat
    BY <1>2, <2>4, RoundNat DEF Tick, MoveWater, CurrentNow
  <2> QED
    BY <2>3, <2>5 DEF ValuesPositive
<1>3. CASE UNCHANGED vars
  BY <1>3 DEF ValuesPositive, vars, physics
<1> QED
  BY <1>1, <1>2, <1>3 DEF Next, Write, TickStep

(* No assertion of _assert_invariants ever fires for a map that keeps      *)
(* control_mode within the enum and the pump speed from going negative,    *)
(* and starts no faulted pump running: tick never raises, so the process   *)
(* loop is not ended by the model itself.  The validator asks for none of  *)
(* the three.                                                              *)
THEOREM AssertionsNeverFire ==
  ASSUME CoherentMap
  PROVE  Spec => []AssertionsHold
<1> USE DEF CoherentMap
<1>1. Init => ValuesPositive
  BY DEF Init, NothingNegative, ValuesPositive
<1>2. TypeOK /\ ValuesPositive /\ [Next]_vars => ValuesPositive'
  BY PositiveStep
<1>3. TypeOK /\ FaultStops /\ ValuesPositive => AssertionsHold
  BY QuantityAssumption
     DEF TypeOK, FaultStops, ValuesPositive, ModesInEnum, AssertionsHold
<1> QED
  BY <1>1, <1>2, <1>3, TypeCorrect, FaultedPumpStops, PTL DEF Spec

(* For any map there are just three ways an assertion can fire: a mode     *)
(* outside the enum, a pump that was faulted and running from the start,   *)
(* or a map with negative values or pump speeds.                           *)
THEOREM AssertionFiresFor ==
  Spec => [](\/ AssertionsHold
             \/ control_mode \notin {MANUAL, AUTO}
             \/ ~NoFaultedStart
             \/ ~NothingNegative)
<1>1. ASSUME NothingNegative, Init PROVE ValuesPositive
  BY <1>1 DEF Init, NothingNegative, ValuesPositive
<1>2. ASSUME NothingNegative, TypeOK, ValuesPositive, [Next]_vars
      PROVE  ValuesPositive'
  BY <1>2, PositiveStep
<1>3. CASE NoFaultedStart /\ NothingNegative
  <2>1. Init => ValuesPositive
    BY <1>1, <1>3
  <2>2. TypeOK /\ ValuesPositive /\ [Next]_vars => ValuesPositive'
    BY <1>2, <1>3
  <2>3. TypeOK /\ FaultStops /\ ValuesPositive =>
          AssertionsHold \/ control_mode \notin {MANUAL, AUTO}
    BY QuantityAssumption DEF TypeOK, FaultStops, ValuesPositive, AssertionsHold
  <2>4. Spec => []FaultStops
    BY <1>3, FaultedPumpStops
  <2> QED
    BY <2>1, <2>2, <2>3, <2>4, TypeCorrect, PTL DEF Spec
<1>4. CASE ~(NoFaultedStart /\ NothingNegative)
  <2>1. ~NoFaultedStart \/ ~NothingNegative
    BY <1>4
  <2> QED
    BY <2>1, PTL
<1> QED
  BY <1>3, <1>4

-----------------------------------------------------------------------------
(* Alarms and acknowledgements agree with the level in every state, those  *)
(* between a write and the next tick included.                             *)
LEMMA AlarmsStep == TypeOK /\ AlarmsCoherent /\ [Next]_vars => AlarmsCoherent'
<1> SUFFICES ASSUME TypeOK, AlarmsCoherent, [Next]_vars PROVE AlarmsCoherent'
  OBVIOUS
<1>1. ASSUME NEW key, NEW value, WriteRaw(key, value) PROVE AlarmsCoherent'
  <2>1. /\ UNCHANGED <<level, high_level_alarm, low_level_alarm>>
        /\ HighNow' = HighNow /\ LowNow' = LowNow
    BY <1>1, WriteFrame DEF physics, HighNow, LowNow, tank_level_pv
  <2>2. CASE key = "alarm_acknowledge" /\ value = 1
    BY <1>1, <2>1, <2>2 DEF WriteRaw, AlarmsCoherent
  <2>3. CASE ~(key = "alarm_acknowledge" /\ value = 1)
    BY <1>1, <2>1, <2>3 DEF WriteRaw, AlarmsCoherent, acknowledged
  <2> QED
    BY <2>2, <2>3
<1>2. ASSUME NEW seconds \in TickSeconds, Tick(seconds) PROVE AlarmsCoherent'
  BY <1>2, Zenon DEF Tick, UpdateAlarms, AlarmsCoherent
<1>3. CASE UNCHANGED vars
  BY <1>3 DEF AlarmsCoherent, HighNow, LowNow, tank_level_pv, vars, physics,
              acknowledged
<1> QED
  BY <1>1, <1>2, <1>3 DEF Next, Write, TickStep

(* A map that starts clear of its alarm limits never shows an alarm that   *)
(* its level does not justify; one that starts past a limit does until the *)
(* first tick (reset, tick, write_raw).                                    *)
THEOREM AlarmsFollowLevel ==
  ASSUME StartsClear
  PROVE  Spec => []AlarmsCoherent
<1>1. Init => AlarmsCoherent
  <2> SUFFICES ASSUME Init PROVE AlarmsCoherent
    OBVIOUS
  <2>1. RoundHalfEven(Defaults.level, Fine) \in Nat
    BY RoundNat, DefaultsAssumption, QuantityAssumption
  <2>2. tank_level_pv = RoundHalfEven(Defaults.level, Fine)
    BY DEF Init, tank_level_pv
  <2>3. HighNow = FALSE /\ LowNow = FALSE
    BY <2>1, <2>2, QuantityAssumption DEF HighNow, LowNow, StartsClear
  <2> QED
    BY <2>3, Zenon DEF Init, AlarmsCoherent
<1> QED
  BY <1>1, AlarmsStep, TypeCorrect, PTL DEF Spec

(* Only an alarm that stands is acknowledged.                              *)
AlarmsAcknowledged ==
  /\ high_alarm_acknowledged => high_level_alarm
  /\ low_alarm_acknowledged => low_level_alarm

LEMMA AcknowledgedStep ==
  TypeOK /\ AlarmsAcknowledged /\ [Next]_vars => AlarmsAcknowledged'
<1> SUFFICES ASSUME TypeOK, AlarmsAcknowledged, [Next]_vars
             PROVE  AlarmsAcknowledged'
  OBVIOUS
<1>1. ASSUME NEW key, NEW value, WriteRaw(key, value) PROVE AlarmsAcknowledged'
  <2>1. UNCHANGED <<high_level_alarm, low_level_alarm>>
    BY <1>1, WriteFrame DEF physics
  <2> QED
    BY <1>1, <2>1 DEF WriteRaw, AlarmsAcknowledged, acknowledged
<1>2. ASSUME NEW seconds \in TickSeconds, Tick(seconds) PROVE AlarmsAcknowledged'
  BY <1>2, Zenon DEF Tick, UpdateAlarms, AlarmsAcknowledged
<1>3. CASE UNCHANGED vars
  BY <1>3 DEF AlarmsAcknowledged, vars, physics, acknowledged
<1> QED
  BY <1>1, <1>2, <1>3 DEF Next, Write, TickStep

(* An acknowledgement never outlives the alarm it was given for.           *)
THEOREM NewAlarmsUnacknowledged == Spec => NewAlarmUnacknowledged
<1>1. Init => AlarmsAcknowledged
  BY Zenon DEF Init, AlarmsAcknowledged
<1>2. TypeOK /\ AlarmsAcknowledged /\ [Next]_vars
        => [ /\ high_level_alarm' /\ ~high_level_alarm => ~high_alarm_acknowledged'
             /\ low_level_alarm' /\ ~low_level_alarm => ~low_alarm_acknowledged' ]_vars
  <2> SUFFICES ASSUME TypeOK, AlarmsAcknowledged, Next
               PROVE  /\ high_level_alarm' /\ ~high_level_alarm
                           => ~high_alarm_acknowledged'
                      /\ low_level_alarm' /\ ~low_level_alarm
                           => ~low_alarm_acknowledged'
    OBVIOUS
  <2>1. ASSUME NEW key, NEW value, WriteRaw(key, value)
        PROVE  UNCHANGED <<high_level_alarm, low_level_alarm>>
    BY <2>1, WriteFrame DEF physics
  <2>2. ASSUME NEW seconds \in TickSeconds, Tick(seconds)
        PROVE  /\ high_alarm_acknowledged' => high_alarm_acknowledged
               /\ low_alarm_acknowledged' => low_alarm_acknowledged
    BY <2>2, Zenon DEF Tick, UpdateAlarms
  <2> QED
    BY <2>1, <2>2, Zenon DEF Next, Write, TickStep, AlarmsAcknowledged
<1> QED
  BY <1>1, <1>2, AcknowledgedStep, TypeCorrect, PTL DEF Spec, NewAlarmUnacknowledged

-----------------------------------------------------------------------------
(* With every tick shorter than the delay, as in the checked-in map, no    *)
(* feedback moves in the tick that requested the move: pump_feedback and   *)
(* inlet_valve_feedback are never aliases of the command coils.            *)
THEOREM FeedbackIsDelayed ==
  ASSUME NoFaultedStart, \A seconds \in TickSeconds : seconds < ActuatorDelay
  PROVE  Spec => DelayedFeedback
<1> DEFINE A == /\ pump_feedback' # pump_feedback => pump_target = pump_feedback'
                /\ inlet_valve_feedback' # inlet_valve_feedback
                     => valve_target = inlet_valve_feedback'
<1>1. ASSUME TypeOK, FaultStops, Next
      PROVE  A
  <2>1. ASSUME NEW key, NEW value, WriteRaw(key, value)
        PROVE  A
    BY <2>1, WriteFrame DEF actuators
  <2>2. ASSUME NEW seconds \in TickSeconds, Tick(seconds)
        PROVE  A
    <3>1. ASSUME NEW target, NEW desired, NEW delay \in 0..ActuatorDelay,
                 Arrives(Requested(target, desired, delay), seconds)
          PROVE  desired = target
      BY <3>1, QuantityAssumption, TickAssumption DEF Arrives, Requested
    <3>2. ASSUME pump_feedback' # pump_feedback
          PROVE  pump_target = pump_feedback'
      <4>1. /\ Arrives(Requested(pump_target, DesiredPumpState, pump_delay), seconds)
            /\ pump_feedback' = RunsAt(DesiredPumpState)
        BY <2>2, <3>2, Zenon DEF Tick, AdvancePump
      <4>2. pump_feedback' = RunsAt(pump_target)
        BY <1>1, <3>1, <4>1 DEF TypeOK
      <4>3. CASE pump_fault
        BY <1>1, <3>2, <4>2, <4>3, Zenon DEF RunsAt, FaultStops, TypeOK
      <4>4. CASE ~pump_fault
        BY <1>1, <4>2, <4>4, Zenon DEF RunsAt, TypeOK
      <4> QED
        BY <4>3, <4>4
    <3>3. ASSUME inlet_valve_feedback' # inlet_valve_feedback
          PROVE  valve_target = inlet_valve_feedback'
      <4>1. /\ Arrives(Requested(valve_target, inlet_valve_command, valve_delay),
                       seconds)
            /\ inlet_valve_feedback' = inlet_valve_command
        BY <2>2, <3>3, Zenon DEF Tick, AdvanceValve
      <4> QED
        BY <1>1, <3>1, <4>1 DEF TypeOK
    <3> QED
      BY <3>2, <3>3
  <2> QED
    BY <1>1, <2>1, <2>2 DEF Next, Write, TickStep
<1>2. TypeOK /\ FaultStops /\ [Next]_vars => [A]_vars
  BY <1>1
<1> QED
  BY <1>2, TypeCorrect, FaultedPumpStops, PTL DEF Spec, DelayedFeedback

-----------------------------------------------------------------------------
(* Each start of the pump is counted exactly once, up to 65535.            *)
THEOREM EveryStartCounted == Spec => StartsCounted
<1> DEFINE A == IF pump_feedback' /\ ~pump_feedback
                THEN pump_start_count' = pump_start_count + 1
                     \/ (pump_start_count = CountMax /\ pump_start_count' = CountMax)
                ELSE pump_start_count' = pump_start_count
<1>1. ASSUME TypeOK, Next
      PROVE  A
  <2>1. ASSUME NEW key, NEW value, WriteRaw(key, value)
        PROVE  A
    BY <2>1, WriteFrame DEF actuators
  <2>2. ASSUME NEW seconds \in TickSeconds, Tick(seconds)
        PROVE  A
    <3>1. pump_start_count' = StartCount(pump_feedback, pump_feedback')
      BY <2>2 DEF Tick, AdvancePump
    <3>2. /\ pump_start_count \in 0..CountMax
          /\ CountMax \in Nat
      BY <1>1, QuantityAssumption DEF TypeOK
    <3> QED
      BY <3>1, <3>2 DEF StartCount, Clamp
  <2> QED
    BY <1>1, <2>1, <2>2 DEF Next, Write, TickStep
<1>2. TypeOK /\ [Next]_vars => [A]_vars
  BY <1>1
<1> QED
  BY <1>2, TypeCorrect, PTL DEF Spec, StartsCounted

-----------------------------------------------------------------------------
(* Flow and current registers agree with the feedbacks of the same         *)
(* snapshot in every reachable state.                                      *)
THEOREM ValuesFollowFeedback ==
  ASSUME StartsStopped, SpeedMin >= 0
  PROVE  Spec => []ProcessValuesCoherent
<1> USE QuantityAssumption
<1>1. Init => ProcessValuesCoherent
  <2> SUFFICES ASSUME Init PROVE ProcessValuesCoherent
    OBVIOUS
  <2>1. ~pump_feedback /\ outlet_flow = 0 /\ pump_current = 0
    BY DEF Init, StartsStopped
  <2>2. inlet_flow = RoundHalfEven(InletNow(inlet_valve_feedback), FlowUnit)
    BY Zenon DEF Init, InletNow, StartsStopped
  <2> QED
    BY <2>1, <2>2 DEF ProcessValuesCoherent
<1>2. TypeOK /\ ProcessValuesCoherent /\ [Next]_vars => ProcessValuesCoherent'
  <2> SUFFICES ASSUME TypeOK, ProcessValuesCoherent, [Next]_vars
               PROVE  ProcessValuesCoherent'
    OBVIOUS
  <2>1. ASSUME NEW key, NEW value, WriteRaw(key, value)
        PROVE  ProcessValuesCoherent'
    BY <2>1, WriteFrame DEF ProcessValuesCoherent, InletNow, actuators, physics
  <2>2. ASSUME NEW seconds \in TickSeconds, Tick(seconds)
        PROVE  ProcessValuesCoherent'
    <3>1. inlet_flow' = RoundHalfEven(InletNow(inlet_valve_feedback'), FlowUnit)
      BY <2>2 DEF Tick, MoveWater
    <3>2. ASSUME ~pump_feedback'
          PROVE  outlet_flow' = 0 /\ pump_current' = 0
      <4>1. outlet_flow' = RoundHalfEven(0, FlowUnit) /\ pump_current' = 0
        BY <2>2, <3>2 DEF Tick, MoveWater, OutletNow, CurrentNow
      <4>2. RoundHalfEven(0, FlowUnit) = 0
        BY DEF RoundHalfEven
      <4> QED
        BY <4>1, <4>2
    <3>3. ASSUME pump_feedback'
          PROVE  pump_current' >= CurrentIdle
      <4> DEFINE drawn == CurrentIdle * SpeedScale + CurrentSpan * pump_speed_setpoint
      <4>1. drawn \in Nat /\ drawn >= CurrentIdle * SpeedScale
        BY DEF TypeOK
      <4>2. pump_current' = RoundHalfEven(drawn, SpeedScale)
        BY <2>2, <3>3 DEF Tick, MoveWater, CurrentNow
      <4> HIDE DEF drawn
      <4> QED
        BY <4>1, <4>2, RoundAtLeast
    <3> QED
      BY <3>1, <3>2, <3>3 DEF ProcessValuesCoherent, InletNow
  <2>3. CASE UNCHANGED vars
    BY <2>3 DEF ProcessValuesCoherent, InletNow, vars, actuators, physics
  <2> QED
    BY <2>1, <2>2, <2>3 DEF Next, Write, TickStep
<1> QED
  BY <1>1, <1>2, TypeCorrect, PTL DEF Spec

(* What is read in one snapshot agrees with itself, in every state between *)
(* writes and ticks, for every map that starts clear of its alarm limits,  *)
(* stopped, and with no negative pump speed.                               *)
THEOREM SnapshotIsCoherent ==
  ASSUME StartsClear, StartsStopped, SpeedMin >= 0
  PROVE  Spec => []SnapshotCoherent
<1>1. AlarmsCoherent /\ ProcessValuesCoherent => SnapshotCoherent
  BY DEF SnapshotCoherent
<1> QED
  BY <1>1, AlarmsFollowLevel, ValuesFollowFeedback, PTL
-----------------------------------------------------------------------------
(* The two thresholds of AUTO: it starts the pump at the upper one and     *)
(* stops it at the lower one.                                              *)
StartAt == (level_setpoint + Hysteresis) * Fine
StopAt == (level_setpoint - Hysteresis) * Fine

LEMMA ThresholdsApart ==
  ASSUME Hysteresis > 0, TypeOK
  PROVE  StartAt \in Int /\ StopAt \in Int /\ StopAt < StartAt
<1> USE QuantityAssumption DEF TypeOK
<1>1. level_setpoint - Hysteresis \in Int /\ level_setpoint + Hysteresis \in Int
  OBVIOUS
<1>2. \A a, b \in Int : a < b => a * Fine < b * Fine
  BY SMT
<1> QED
  BY <1>1, <1>2 DEF StartAt, StopAt

LEMMA DesiredAboveStop ==
  ASSUME Hysteresis > 0, TypeOK, control_mode = AUTO, DesiredPumpState
  PROVE  level > StopAt
<1>1. control_mode # MANUAL
  BY DEF MANUAL, AUTO
<1>2. CASE pump_feedback \/ pump_target
  BY <1>1, <1>2, Zenon DEF DesiredPumpState, StopAt
<1>3. CASE ~(pump_feedback \/ pump_target)
  <2>1. level >= StartAt
    BY <1>1, <1>3, Zenon DEF DesiredPumpState, StartAt
  <2> QED
    BY <2>1, ThresholdsApart DEF TypeOK
<1> QED
  BY <1>2, <1>3

(* A start under way is not carried out at or below the stop threshold,    *)
(* whatever became of setpoint and mode meanwhile: every tick asks         *)
(* _desired_pump_state again before it moves the feedback. Needs a dead    *)
(* band (the validator asks for a hysteresis of at least 1): with none,    *)
(* the two thresholds are one level.                                       *)
THEOREM AutoStartsInBand ==
  ASSUME Hysteresis > 0
  PROVE  Spec => AutoStartInBand
<1>1. ASSUME TypeOK, Next, pump_feedback', ~pump_feedback, control_mode = AUTO
      PROVE  level > StopAt
  <2>1. ASSUME NEW key, NEW value, WriteRaw(key, value) PROVE FALSE
    BY <1>1, <2>1, WriteFrame DEF actuators
  <2>2. ASSUME NEW seconds \in TickSeconds, Tick(seconds) PROVE DesiredPumpState
    BY <1>1, <2>2, Zenon DEF Tick, AdvancePump, RunsAt
  <2> QED
    BY <1>1, <2>1, <2>2, DesiredAboveStop DEF Next, Write, TickStep
<1>2. TypeOK /\ [Next]_vars
        => [pump_feedback' /\ ~pump_feedback /\ control_mode = AUTO
              => level > (level_setpoint - Hysteresis) * Fine]_vars
  BY <1>1 DEF StopAt
<1> QED
  BY <1>2, TypeCorrect, PTL DEF Spec, AutoStartInBand

-----------------------------------------------------------------------------
(* The pot is left alone in AUTO: nobody writes a command or a setpoint,   *)
(* the valve is open, the pump is healthy and moves at least the inflow,   *)
(* and the level starts in the band.                                       *)
LeftAlone ==
  /\ WriteKeys \subseteq {"alarm_acknowledge"}
  /\ PumpFaults = {FALSE}
  /\ Hysteresis > 0
  /\ \E longest \in TickSeconds : \A seconds \in TickSeconds : seconds <= longest
  /\ Defaults.control_mode = AUTO /\ ~Defaults.pump_feedback
  /\ Defaults.inlet_valve_command /\ Defaults.inlet_valve_feedback
  /\ PumpRate * Defaults.pump_speed_setpoint >= InletRate
  /\ (Defaults.level_setpoint - Hysteresis) * Fine <= Defaults.level
  /\ Defaults.level <= (Defaults.level_setpoint + Hysteresis) * Fine

(* How fast the level falls while the pump runs, and where it is after     *)
(* going on for a time past a threshold.                                   *)
Fall == PumpRate * pump_speed_setpoint - InletRate
Above(time) == StartAt + InletRate * time
Below(time) == StopAt - Fall * time

(* A settled pump has overshot for at most the tick that saw the           *)
(* threshold, or its delay would have begun; a pump under way for that     *)
(* tick and the part of its delay that is over.                            *)
OnTheWay(lv, running, target, delay) ==
  /\ lv <= Above(Longest + ActuatorDelay) /\ lv >= Below(Longest + ActuatorDelay)
  /\ IF delay = 0
     THEN /\ running <=> target
          /\ target => lv >= Below(Longest)
          /\ ~target => lv <= Above(Longest)
     ELSE /\ running <=> ~target
          /\ target => lv >= StartAt /\ lv <= Above(Longest + (ActuatorDelay - delay))
          /\ ~target => lv <= StopAt /\ lv >= Below(Longest + (ActuatorDelay - delay))

Regulating ==
  /\ control_mode = AUTO /\ ~pump_fault
  /\ level_setpoint = Defaults.level_setpoint
  /\ pump_speed_setpoint = Defaults.pump_speed_setpoint
  /\ inlet_valve_command /\ inlet_valve_feedback /\ valve_target /\ valve_delay = 0
  /\ OnTheWay(level, pump_feedback, pump_target, pump_delay)

LEMMA LongestTick ==
  ASSUME LeftAlone
  PROVE  /\ Longest \in Nat \ {0}
         /\ \A seconds \in TickSeconds : seconds \in Nat \ {0} /\ seconds <= Longest
<1>1. Longest \in TickSeconds /\ \A seconds \in TickSeconds : seconds <= Longest
  BY DEF LeftAlone, Longest
<1> QED
  BY <1>1, TickAssumption

LEMMA Products ==
  ASSUME NEW rate \in Nat
  PROVE  /\ \A x, y \in Nat : rate * (x + y) = rate * x + rate * y
         /\ \A x, y \in Nat : x <= y => rate * x <= rate * y
         /\ \A x \in Nat : rate * x \in Nat
<1>1. \A x, y \in Nat : rate * (x + y) = rate * x + rate * y
  BY SMT
<1>2. \A x, y \in Nat : x <= y => rate * x <= rate * y
  BY SMT
<1> QED
  BY <1>1, <1>2

(* The bounds move away from the thresholds at the two rates.              *)
LEMMA Bounds ==
  ASSUME LeftAlone, TypeOK, Regulating
  PROVE  /\ InletRate \in Nat /\ Fall \in Nat
         /\ StartAt \in Int /\ StopAt \in Int /\ StopAt < StartAt
         /\ \A t \in Nat : Above(t) \in Int /\ Below(t) \in Int
         /\ \A t \in Nat : StartAt <= Above(t) /\ Below(t) <= StopAt
         /\ \A t, u \in Nat : /\ Above(t + u) = Above(t) + InletRate * u
                              /\ Below(t + u) = Below(t) - Fall * u
         /\ \A t, u \in Nat : t <= u => Above(t) <= Above(u) /\ Below(u) <= Below(t)
<1>1. InletRate \in Nat /\ Fall \in Nat
  BY QuantityAssumption DEF Fall, Regulating, LeftAlone, TypeOK
<1>2. StartAt \in Int /\ StopAt \in Int /\ StopAt < StartAt
  BY ThresholdsApart DEF LeftAlone
<1>3. /\ \A x, y \in Nat : /\ InletRate * (x + y) = InletRate * x + InletRate * y
                           /\ Fall * (x + y) = Fall * x + Fall * y
      /\ \A x, y \in Nat : x <= y => InletRate * x <= InletRate * y /\ Fall * x <= Fall * y
      /\ \A x \in Nat : InletRate * x \in Nat /\ Fall * x \in Nat
  BY <1>1, Products
<1> HIDE DEF Fall, StartAt, StopAt
<1>4. \A t \in Nat : /\ Above(t) \in Int /\ Below(t) \in Int
                     /\ StartAt <= Above(t) /\ Below(t) <= StopAt
  <2> SUFFICES ASSUME NEW t \in Nat
               PROVE  /\ Above(t) \in Int /\ Below(t) \in Int
                      /\ StartAt <= Above(t) /\ Below(t) <= StopAt
    OBVIOUS
  <2>1. InletRate * t \in Nat /\ Fall * t \in Nat
    BY <1>3
  <2> QED
    BY <1>2, <2>1 DEF Above, Below
<1>5. \A t, u \in Nat : /\ Above(t + u) = Above(t) + InletRate * u
                        /\ Below(t + u) = Below(t) - Fall * u
  BY <1>2, <1>3 DEF Above, Below
<1>6. \A t, u \in Nat : t <= u => Above(t) <= Above(u) /\ Below(u) <= Below(t)
  BY <1>2, <1>3 DEF Above, Below
<1> QED
  BY <1>1, <1>2, <1>4, <1>5, <1>6

(* A tick moves the level up at the inlet rate or down by Fall.            *)
LEMMA LevelMoves ==
  ASSUME LeftAlone, TypeOK, Regulating, NEW seconds \in TickSeconds, Tick(seconds)
  PROVE  /\ inlet_valve_feedback' /\ valve_target' /\ valve_delay' = 0
         /\ pump_feedback' => level - Fall * seconds <= level' /\ level' <= level
         /\ ~pump_feedback' => level <= level' /\ level' <= level + InletRate * seconds
<1>1. seconds \in Nat
  BY LongestTick
<1>2. inlet_valve_feedback' /\ valve_target' /\ valve_delay' = 0
  <2>1. Requested(valve_target, inlet_valve_command, valve_delay) = 0
    BY DEF Regulating, Requested, TypeOK
  <2>2. ~Arrives(0, seconds) /\ Remaining(0, seconds) = 0
    BY <1>1 DEF Arrives, Remaining
  <2> QED
    BY <2>1, <2>2 DEF Tick, AdvanceValve, Regulating
<1>3. /\ level \in 0..LevelTop /\ LevelTop \in Nat
      /\ InletRate \in Nat /\ Fall \in Nat
  BY Bounds, QuantityAssumption DEF TypeOK
<1>4. InletRate * seconds \in Nat /\ Fall * seconds \in Nat
  BY <1>1, <1>3, Products
<1>5. CASE pump_feedback'
  <2>1. level' = Clamp(0, level + (InletRate - PumpRate * pump_speed_setpoint) * seconds, LevelTop)
    BY <1>2, <1>5 DEF Tick, MoveWater, InletNow, OutletNow
  <2>2. (InletRate - PumpRate * pump_speed_setpoint) * seconds = -(Fall * seconds)
    <3>1. PumpRate * pump_speed_setpoint \in Int
      BY QuantityAssumption DEF TypeOK
    <3>2. \A a \in Int : (InletRate - a) * seconds = -((a - InletRate) * seconds)
      BY <1>1, <1>3, SMT
    <3> QED
      BY <3>1, <3>2 DEF Fall
  <2> HIDE DEF Fall
  <2> QED
    BY <1>2, <1>3, <1>4, <1>5, <2>1, <2>2 DEF Clamp
<1>6. CASE ~pump_feedback'
  <2>1. level' = Clamp(0, level + (InletRate - 0) * seconds, LevelTop)
    BY <1>2, <1>6 DEF Tick, MoveWater, InletNow, OutletNow
  <2>2. (InletRate - 0) * seconds = InletRate * seconds
    BY <1>3
  <2> QED
    BY <1>2, <1>3, <1>4, <1>6, <2>1, <2>2 DEF Clamp
<1> QED
  BY <1>2, <1>5, <1>6

(* What a tick does to a pump that AUTO asks to stay or to turn.           *)
LEMMA PumpMoves ==
  ASSUME LeftAlone, TypeOK, Regulating, NEW seconds \in TickSeconds, Tick(seconds)
  PROVE  /\ DesiredPumpState = IF pump_feedback \/ pump_target THEN level > StopAt
                                                              ELSE level >= StartAt
         /\ pump_target' = DesiredPumpState
         /\ LET delay == IF DesiredPumpState # pump_target THEN ActuatorDelay ELSE pump_delay
            IN  /\ pump_delay' = IF delay > seconds THEN delay - seconds ELSE 0
                /\ pump_feedback' = IF 0 < delay /\ delay <= seconds
                                    THEN DesiredPumpState ELSE pump_feedback
<1>1. DesiredPumpState = IF pump_feedback \/ pump_target THEN level > StopAt
                                                         ELSE level >= StartAt
  BY DEF DesiredPumpState, StopAt, StartAt, MANUAL, AUTO, Regulating
<1>2. RunsAt(DesiredPumpState) = DesiredPumpState
  <2>1. DesiredPumpState \in BOOLEAN /\ ~pump_fault
    BY DesiredBoolean DEF Regulating
  <2> QED
    BY <2>1, Zenon DEF RunsAt
<1> QED
  BY <1>1, <1>2 DEF Tick, AdvancePump, Requested, Remaining, Arrives

(* The closed loop is inductive: below, the six cases of a tick, by        *)
(* whether a delay is under way, where the pump is bound and what AUTO now *)
(* wants.                                                                  *)
LEMMA RegulatingTick ==
  ASSUME LeftAlone, TypeOK, Regulating, NEW seconds \in TickSeconds, Tick(seconds)
  PROVE  Regulating'
<1> DEFINE desired == DesiredPumpState
           delay == IF desired # pump_target THEN ActuatorDelay ELSE pump_delay
           past == Longest + (ActuatorDelay - pump_delay)
           most == Longest + ActuatorDelay
           up == InletRate * seconds
           down == Fall * seconds
<1>1. /\ seconds \in Nat \ {0} /\ Longest \in Nat \ {0} /\ seconds <= Longest
      /\ ActuatorDelay \in Nat \ {0} /\ pump_delay \in 0..ActuatorDelay
      /\ level \in Int /\ level' \in Int
      /\ pump_target \in BOOLEAN /\ pump_feedback \in BOOLEAN /\ desired \in BOOLEAN
  BY LongestTick, QuantityAssumption, TypeTick, DesiredBoolean DEF TypeOK
<1>2. /\ StartAt \in Int /\ StopAt \in Int /\ StopAt < StartAt
      /\ up \in Nat /\ down \in Nat
  BY <1>1, Bounds, Products
<1>3. /\ pump_target' <=> desired
      /\ 0 < delay /\ delay <= seconds => (pump_feedback' <=> desired)
      /\ ~(0 < delay /\ delay <= seconds) => (pump_feedback' <=> pump_feedback)
      /\ pump_delay' = IF delay > seconds THEN delay - seconds ELSE 0
      /\ (desired <=> pump_target) => delay = pump_delay
      /\ (desired <=> ~pump_target) => delay = ActuatorDelay
      /\ pump_feedback \/ pump_target => (desired <=> level > StopAt)
      /\ ~pump_feedback /\ ~pump_target => (desired <=> level >= StartAt)
  BY <1>1, PumpMoves, Zenon
<1>4. /\ pump_feedback' => level - down <= level' /\ level' <= level
      /\ ~pump_feedback' => level <= level' /\ level' <= level + up
  BY LevelMoves
<1>5. /\ past \in Nat /\ Longest <= past /\ past <= most
      /\ Above(Longest) \in Int /\ Above(past) \in Int /\ Above(most) \in Int
      /\ Below(Longest) \in Int /\ Below(past) \in Int /\ Below(most) \in Int
      /\ Above(Longest) <= Above(past) /\ Above(past) <= Above(most)
      /\ Below(most) <= Below(past) /\ Below(past) <= Below(Longest)
      /\ StartAt + up <= Above(Longest) /\ Below(Longest) <= StopAt - down
  <2>1. past \in Nat /\ Longest <= past /\ past <= most /\ most \in Nat
    BY <1>1
  <2> HIDE DEF past, most
  <2>2. /\ Above(Longest) \in Int /\ Above(past) \in Int /\ Above(most) \in Int
        /\ Below(Longest) \in Int /\ Below(past) \in Int /\ Below(most) \in Int
        /\ Above(Longest) <= Above(past) /\ Above(past) <= Above(most)
        /\ Below(most) <= Below(past) /\ Below(past) <= Below(Longest)
    BY <1>1, <2>1, Bounds
  <2>3. StartAt + up <= Above(Longest) /\ Below(Longest) <= StopAt - down
    <3>1. Above(seconds) <= Above(Longest) /\ Below(Longest) <= Below(seconds)
      BY <1>1, Bounds
    <3> QED
      BY <3>1 DEF Above, Below
  <2> QED
    BY <2>1, <2>2, <2>3
<1> HIDE DEF desired, up, down, past, delay
<1>6. ASSUME pump_delay' > 0
      PROVE  LET over == Longest + (ActuatorDelay - pump_delay')
                 start == IF desired <=> pump_target THEN past ELSE Longest
             IN  /\ over \in Nat /\ over <= most
                 /\ Above(over) = Above(start) + up /\ Below(over) = Below(start) - down
                 /\ Above(over) \in Int /\ Below(over) \in Int
                 /\ Above(over) <= Above(most) /\ Below(most) <= Below(over)
  <2> DEFINE over == Longest + (ActuatorDelay - pump_delay')
             start == IF desired <=> pump_target THEN past ELSE Longest
  <2>1. start \in Nat /\ over = start + seconds /\ over <= most /\ most \in Nat
    BY <1>1, <1>3, <1>5, <1>6 DEF past
  <2> HIDE DEF over, start, most
  <2>2. over \in Nat
    BY <1>1, <2>1
  <2>3. Above(over) = Above(start) + up /\ Below(over) = Below(start) - down
    BY <1>1, <2>1, Bounds DEF up, down
  <2>4. /\ Above(over) \in Int /\ Below(over) \in Int
        /\ Above(over) <= Above(most) /\ Below(most) <= Below(over)
    BY <2>1, <2>2, Bounds
  <2> QED
    BY <2>1, <2>2, <2>3, <2>4 DEF over, start
<1>7. OnTheWay(level, pump_feedback, pump_target, pump_delay)
  BY DEF Regulating
<1> HIDE DEF most
<1>8. OnTheWay(level', pump_feedback', pump_target', pump_delay')
  <2>1. CASE pump_delay = 0 /\ pump_target /\ desired
    <3>1. pump_feedback /\ level >= Below(Longest) /\ level <= Above(most)
      BY <1>7, <2>1 DEF OnTheWay, most
    <3>2. pump_feedback' /\ pump_target' /\ pump_delay' = 0
      BY <1>1, <1>2, <1>3, <2>1, <3>1
    <3>3. level > StopAt
      BY <1>3, <2>1
    <3> QED
      BY <1>1, <1>2, <1>4, <1>5, <3>1, <3>2, <3>3 DEF OnTheWay, most
  <2>2. CASE pump_delay = 0 /\ pump_target /\ ~desired
    <3>1. pump_feedback /\ level >= Below(Longest) /\ level <= StopAt
      BY <1>1, <1>2, <1>3, <1>7, <2>2 DEF OnTheWay
    <3>2. CASE ActuatorDelay <= seconds
      <4>1. ~pump_feedback' /\ ~pump_target' /\ pump_delay' = 0
        BY <1>1, <1>2, <1>3, <2>2, <3>2
      <4> QED
        BY <1>1, <1>2, <1>4, <1>5, <3>1, <4>1 DEF OnTheWay, most
    <3>3. CASE ~(ActuatorDelay <= seconds)
      <4>1. pump_feedback' /\ ~pump_target' /\ pump_delay' > 0
        BY <1>1, <1>2, <1>3, <2>2, <3>1, <3>3
      <4> QED
        BY <1>1, <1>2, <1>4, <1>5, <1>6, <2>2, <3>1, <4>1 DEF OnTheWay, most
    <3> QED
      BY <3>2, <3>3
  <2>3. CASE pump_delay = 0 /\ ~pump_target /\ desired
    <3>1. ~pump_feedback /\ level <= Above(Longest) /\ level >= StartAt
      BY <1>1, <1>2, <1>3, <1>7, <2>3 DEF OnTheWay
    <3>2. CASE ActuatorDelay <= seconds
      <4>1. pump_feedback' /\ pump_target' /\ pump_delay' = 0
        BY <1>1, <1>2, <1>3, <2>3, <3>2
      <4> QED
        BY <1>1, <1>2, <1>4, <1>5, <3>1, <4>1 DEF OnTheWay, most
    <3>3. CASE ~(ActuatorDelay <= seconds)
      <4>1. ~pump_feedback' /\ pump_target' /\ pump_delay' > 0
        BY <1>1, <1>2, <1>3, <2>3, <3>1, <3>3
      <4> QED
        BY <1>1, <1>2, <1>4, <1>5, <1>6, <2>3, <3>1, <4>1 DEF OnTheWay, most
    <3> QED
      BY <3>2, <3>3
  <2>4. CASE pump_delay = 0 /\ ~pump_target /\ ~desired
    BY <1>1, <1>2, <1>3, <1>4, <1>5, <1>7, <2>4 DEF OnTheWay, most
  <2>5. CASE pump_delay # 0 /\ pump_target
    <3>1. ~pump_feedback /\ level >= StartAt /\ level <= Above(past)
      BY <1>1, <1>7, <2>5, Zenon DEF OnTheWay, past
    <3>2. desired
      BY <1>1, <1>2, <1>3, <2>5, <3>1
    <3>3. CASE pump_delay <= seconds
      <4>1. pump_feedback' /\ pump_target' /\ pump_delay' = 0
        BY <1>1, <1>2, <1>3, <2>5, <3>2, <3>3
      <4> QED
        BY <1>1, <1>2, <1>4, <1>5, <3>1, <4>1 DEF OnTheWay, most
    <3>4. CASE ~(pump_delay <= seconds)
      <4>1. ~pump_feedback' /\ pump_target' /\ pump_delay' > 0
        BY <1>1, <1>2, <1>3, <2>5, <3>1, <3>2, <3>4
      <4> QED
        BY <1>1, <1>2, <1>4, <1>5, <1>6, <2>5, <3>1, <3>2, <4>1 DEF OnTheWay, most
    <3> QED
      BY <3>3, <3>4
  <2>6. CASE pump_delay # 0 /\ ~pump_target
    <3>1. pump_feedback /\ level <= StopAt /\ level >= Below(past)
      BY <1>1, <1>7, <2>6, Zenon DEF OnTheWay, past
    <3>2. ~desired
      BY <1>1, <1>2, <1>3, <2>6, <3>1
    <3>3. CASE pump_delay <= seconds
      <4>1. ~pump_feedback' /\ ~pump_target' /\ pump_delay' = 0
        BY <1>1, <1>2, <1>3, <2>6, <3>2, <3>3
      <4> QED
        BY <1>1, <1>2, <1>4, <1>5, <3>1, <4>1 DEF OnTheWay, most
    <3>4. CASE ~(pump_delay <= seconds)
      <4>1. pump_feedback' /\ ~pump_target' /\ pump_delay' > 0
        BY <1>1, <1>2, <1>3, <2>6, <3>1, <3>2, <3>4
      <4> QED
        BY <1>1, <1>2, <1>4, <1>5, <1>6, <2>6, <3>1, <3>2, <4>1 DEF OnTheWay, most
    <3> QED
      BY <3>3, <3>4
  <2> QED
    BY <1>1, <2>1, <2>2, <2>3, <2>4, <2>5, <2>6
<1>9. /\ UNCHANGED <<settings, pump_fault>>
      /\ StartAt' = StartAt /\ StopAt' = StopAt /\ Fall' = Fall
  BY DEF Tick, settings, StartAt, StopAt, Fall
<1>10. \A t : Above(t)' = Above(t) /\ Below(t)' = Below(t)
  BY <1>9 DEF Above, Below
<1> QED
  BY <1>8, <1>9, <1>10, LevelMoves DEF Regulating, OnTheWay, settings

(* The alarm limits leave room for the overshoot on both sides.            *)
LimitsClear ==
  /\ RoundHalfEven((Defaults.level_setpoint + Hysteresis) * Fine
                     + Overshoot(InletRate), Fine) < HighLimit
  /\ RoundHalfEven((Defaults.level_setpoint - Hysteresis) * Fine
                     - Overshoot(PumpRate * Defaults.pump_speed_setpoint - InletRate),
                   Fine) > LowLimit

LEMMA RegulatingInit ==
  ASSUME LeftAlone, Init
  PROVE  Regulating
<1>1. TypeOK
  BY TypeInit
<1>2. ~pump_fault /\ ~pump_feedback /\ ~pump_target /\ pump_delay = 0
  BY Zenon DEF Init, LeftAlone
<1>3. /\ control_mode = AUTO
      /\ level_setpoint = Defaults.level_setpoint
      /\ pump_speed_setpoint = Defaults.pump_speed_setpoint
      /\ inlet_valve_command /\ inlet_valve_feedback /\ valve_target /\ valve_delay = 0
      /\ StopAt <= level /\ level <= StartAt
  BY DEF Init, LeftAlone, StopAt, StartAt
<1>4. Longest \in Nat /\ ActuatorDelay \in Nat /\ level \in Int
  BY <1>1, LongestTick, QuantityAssumption DEF TypeOK
<1>5. InletRate \in Nat /\ Fall \in Nat /\ StartAt \in Int /\ StopAt \in Int
  BY <1>1, <1>3, QuantityAssumption DEF Fall, LeftAlone, TypeOK, StartAt, StopAt
<1> HIDE DEF Fall, StartAt, StopAt
<1>6. /\ InletRate * Longest \in Nat /\ InletRate * (Longest + ActuatorDelay) \in Nat
      /\ Fall * (Longest + ActuatorDelay) \in Nat
  BY <1>4, <1>5, Products
<1>7. OnTheWay(level, pump_feedback, pump_target, pump_delay)
  BY <1>2, <1>3, <1>4, <1>5, <1>6 DEF OnTheWay, Above, Below
<1> QED
  BY <1>2, <1>3, <1>7 DEF Regulating

LEMMA RegulatingStep ==
  ASSUME LeftAlone, TypeOK, Regulating, [Next]_vars
  PROVE  Regulating'
<1>1. ASSUME UNCHANGED <<settings, actuators, physics, pump_fault>>
      PROVE  Regulating'
  BY <1>1 DEF Regulating, OnTheWay, Above, Below, StartAt, StopAt, Fall,
              settings, actuators, physics
<1>2. ASSUME NEW key \in WriteKeys, NEW value \in WriteValues, WriteRaw(key, value)
      PROVE  Regulating'
  <2>1. key = "alarm_acknowledge"
    BY DEF LeftAlone
  <2>2. UNCHANGED settings
    BY <1>2, <2>1 DEF WriteRaw, settings
  <2> QED
    BY <1>1, <1>2, <2>2, WriteFrame
<1>3. CASE UNCHANGED vars
  BY <1>1, <1>3 DEF vars
<1> QED
  BY <1>2, <1>3, RegulatingTick DEF Next, Write, TickStep

LEMMA RegulatingHolds ==
  ASSUME LeftAlone, LimitsClear, TypeOK, AlarmsCoherent, Regulating
  PROVE  AutoHoldsLevel
<1> DEFINE top == (level_setpoint + Hysteresis) * Fine + Overshoot(InletRate)
           bottom == (level_setpoint - Hysteresis) * Fine
                       - Overshoot(PumpRate * pump_speed_setpoint - InletRate)
<1>1. top = Above(Longest + ActuatorDelay) /\ bottom = Below(Longest + ActuatorDelay)
  BY DEF Above, Below, StartAt, StopAt, Fall, Overshoot
<1>2. top \in Int /\ bottom \in Int /\ level \in Int /\ Fine \in Nat \ {0}
  BY <1>1, LongestTick, Bounds, QuantityAssumption DEF TypeOK
<1>3. bottom <= level /\ level <= top
  BY <1>1 DEF Regulating, OnTheWay
<1>4. LevelInBand
  BY <1>3 DEF LevelInBand
<1>5. RoundHalfEven(top, Fine) < HighLimit /\ RoundHalfEven(bottom, Fine) > LowLimit
  BY DEF LimitsClear, Regulating
<1> HIDE DEF top, bottom
<1>6. /\ RoundHalfEven(bottom, Fine) <= tank_level_pv
      /\ tank_level_pv <= RoundHalfEven(top, Fine)
  BY <1>2, <1>3, RoundMonotone DEF tank_level_pv
<1>7. /\ tank_level_pv \in Int /\ RoundHalfEven(top, Fine) \in Int
      /\ RoundHalfEven(bottom, Fine) \in Int
  <2>1. ASSUME NEW n \in Int PROVE RoundHalfEven(n, Fine) \in Int
    <3>1. n \div Fine \in Int
      BY <1>2, SMT
    <3> QED
      BY <3>1 DEF RoundHalfEven
  <2> QED
    BY <1>2, <2>1 DEF tank_level_pv
<1>8. ~HighNow /\ ~LowNow
  BY <1>5, <1>6, <1>7, QuantityAssumption DEF HighNow, LowNow
<1> QED
  BY <1>4, <1>8, Zenon DEF AutoHoldsLevel, AlarmsCoherent

(* Left alone in AUTO, the controller holds the level in its band, but for *)
(* the travel of one tick and one delay, and raises no alarm: for every    *)
(* map whose pump moves at least the inflow and whose limits leave that    *)
(* room, and for ticks of any lengths in any order (the whole of tick,     *)
(* closed loop).                                                           *)
THEOREM AutoHoldsTheLevel ==
  ASSUME LeftAlone, LimitsClear, StartsClear
  PROVE  Spec => []AutoHoldsLevel
<1>1. Init => Regulating
  BY RegulatingInit
<1>2. TypeOK /\ Regulating /\ [Next]_vars => Regulating'
  BY RegulatingStep
<1>3. TypeOK /\ AlarmsCoherent /\ Regulating => AutoHoldsLevel
  BY RegulatingHolds
<1> QED
  BY <1>1, <1>2, <1>3, TypeCorrect, AlarmsFollowLevel, PTL DEF Spec
=============================================================================
