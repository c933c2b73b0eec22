----------------------------- MODULE MCWetWell -----------------------------
(***************************************************************************)
(* Instances of WetWell for TLC.  The scaled instance keeps the order and  *)
(* the ratios of the checked-in map's quantities (delay 1.5 ticks, limits  *)
(* outside the setpoint range, half a raw unit per tick so that rounding   *)
(* ties happen); the real instance has the map's own numbers, with half a  *)
(* second as the time unit and 1/26000 raw as the level part, in which     *)
(* 7.2 l/s and 13.5 l/s into 6500 l are integers.                          *)
(***************************************************************************)
EXTENDS WetWell

ScaledDefaults ==
  [level |-> 20, level_setpoint |-> 5, control_mode |-> AUTO,
   pump_speed_setpoint |-> 2, pump_start_count |-> 0,
   pump_command |-> FALSE, inlet_valve_command |-> TRUE,
   pump_feedback |-> FALSE, inlet_valve_feedback |-> TRUE,
   inlet_flow |-> 1, outlet_flow |-> 0, pump_current |-> 0]

RealDefaults ==
  [level |-> 4700 * 26000, level_setpoint |-> 5100, control_mode |-> AUTO,
   pump_speed_setpoint |-> 6800, pump_start_count |-> 386,
   pump_command |-> FALSE, inlet_valve_command |-> TRUE,
   pump_feedback |-> FALSE, inlet_valve_feedback |-> TRUE,
   inlet_flow |-> 720, outlet_flow |-> 0, pump_current |-> 0]

\* The instances are those of a map the results apply to.
ASSUME InstanceAssumption == CoherentMap /\ StartsClear /\ StartsStopped

AllKeys == {"level_setpoint", "control_mode", "pump_speed_setpoint",
            "pump_command", "inlet_valve_command", "alarm_acknowledge"}
=============================================================================
