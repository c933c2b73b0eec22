------------------------- MODULE MCProtocolAdapter -------------------------
(***************************************************************************)
(* Instances of ProtocolAdapter for TLC: a part of the checked-in map with *)
(* its own addresses, at least one register of every area, a block of      *)
(* writable holding registers followed by a read-only one.  Two entries    *)
(* differ: the temperature's default, so that the signed register crosses  *)
(* zero, and the valve has no write_effect, which RegisterMap loads.       *)
(***************************************************************************)
EXTENDS ProtocolAdapter

Register(key, area, address, writable, data_type, minimum, maximum, default) ==
  [key |-> key, area |-> area, address |-> address, writable |-> writable,
   write_effect |-> writable, data_type |-> data_type,
   minimum |-> minimum, maximum |-> maximum, default |-> default]

PartMap ==
  {Register("alarm_acknowledge", "coil", 12, TRUE, "bool", 0, 1, 0),
   Register("pump_command", "coil", 13, TRUE, "bool", 0, 1, 0),
   [Register("inlet_valve_command", "coil", 14, TRUE, "bool", 0, 1, 1)
      EXCEPT !.write_effect = FALSE],
   Register("auto_control_active", "discrete_input", 12, FALSE, "bool", 0, 1, 1),
   Register("pump_feedback", "discrete_input", 13, FALSE, "bool", 0, 1, 0),
   Register("control_mode", "holding_register", 41, TRUE, "enum16", 0, 1, 1),
   Register("level_setpoint", "holding_register", 42, TRUE, "uint16", 3000, 8000, 5100),
   Register("pump_speed_setpoint", "holding_register", 43, TRUE, "uint16", 2000, 10000, 6800),
   Register("high_alarm_limit", "holding_register", 44, FALSE, "uint16", 6000, 9500, 8200),
   Register("process_temperature_pv", "input_register", 31, FALSE, "int16", -2000, 8000, -5)}

PartShown ==
  [k \in Observed |-> CASE k = "process_temperature_pv" -> {-5, 5}
                    [] k = "high_alarm_limit"       -> {8200}
                    [] OTHER                        -> {0}]

ReadOf(fc, address, count) ==
  [known_unit |-> TRUE, function_code |-> fc, address |-> address,
   count |-> count, values |-> <<>>]
WriteOf(fc, address, values) ==
  [known_unit |-> TRUE, function_code |-> fc, address |-> address,
   count |-> Len(values), values |-> values]

PartRequests ==
  {ReadOf(4, 31, 1), ReadOf(3, 42, 2), ReadOf(22, 42, 1),
   [ReadOf(3, 42, 1) EXCEPT !.known_unit = FALSE],
   ReadOf(2, 12, 2), WriteOf(16, 41, <<0, 6000>>), WriteOf(6, 41, <<1>>),
   WriteOf(5, 12, <<1>>), WriteOf(5, 13, <<2>>), WriteOf(6, 42, <<6000>>),
   WriteOf(16, 42, <<7000, 9000>>), WriteOf(16, 42, <<7000, 0>>),
   WriteOf(16, 43, <<9000, 1>>), WriteOf(15, 13, <<1, 0>>),
   WriteOf(15, 14, <<1, 1>>)}
=============================================================================
