------------------------------ MODULE MCRuntime ------------------------------
(***************************************************************************)
(* An instance of Runtime for TLC: a map with six of the model's keys,     *)
(* some of every area, and documents that differ from it in one or two     *)
(* registers, in the device or in the process.                             *)
(***************************************************************************)
EXTENDS Runtime

RegisterOf(key, area, address, data_type, writable, maximum, default) ==
  [complete |-> TRUE, key |-> key, area |-> area, address |-> address,
   reference |-> "integer", data_type |-> data_type,
   minimum |-> 0, maximum |-> maximum, default |-> default,
   writable |-> writable, write_effect |-> writable, scale |-> "positive"]

Base ==
  [registers |->
     <<RegisterOf("control_mode", "holding_register", 41, "enum16", TRUE, 1, 1),
       RegisterOf("pump_command", "coil", 13, "bool", TRUE, 1, 0),
       RegisterOf("pump_feedback", "discrete_input", 13, "bool", FALSE, 1, 0),
       RegisterOf("pump_fault", "discrete_input", 17, "bool", FALSE, 1, 0),
       RegisterOf("tank_level_pv", "input_register", 32, "uint16", FALSE, 10000, 4700),
       RegisterOf("pump_speed_setpoint", "holding_register", 43, "uint16", TRUE, 2, 1)>>,
   device |-> [synthetic_identity |-> TRUE, unit_id |-> 7, strings |-> "filled",
               vendor_url |-> "empty"],
   process |-> [q \in PROCESS_BOUNDS \cup {"name", "deterministic_seed"} |->
                  IF q \in PROCESS_BOUNDS THEN "within" ELSE TRUE],
   invariants |-> TRUE]

SmallKeys == Keys(Base)

\* Edits of a register that a second one may make up for, or make worse.
Edits(d) ==
  {d, [d EXCEPT !.default = 1], [d EXCEPT !.maximum = 2], [d EXCEPT !.key = "renamed"],
   [d EXCEPT !.area = "discrete_input"]}

Slips(d) ==
  {[d EXCEPT !.complete = FALSE], [d EXCEPT !.key = "pump_command"],
   [d EXCEPT !.reference = "text"], [d EXCEPT !.default = d.maximum + 1],
   [d EXCEPT !.area = "discrete_input", !.address = 13],
   [d EXCEPT !.writable = TRUE], [d EXCEPT !.write_effect = FALSE],
   [d EXCEPT !.address = -1], [d EXCEPT !.scale = "zero"], [d EXCEPT !.scale = "huge"]}

\* Values that a register may declare and no word carries, a data type that
\* the default does not fit, and signed registers that go below zero.
Extremes(d) ==
  {[d EXCEPT !.default = Infinity, !.maximum = Infinity],
   [d EXCEPT !.default = -Infinity, !.minimum = -Infinity],
   [d EXCEPT !.maximum = Infinity],
   [d EXCEPT !.default = 70000, !.maximum = 70000],
   [d EXCEPT !.data_type = "int16", !.default = 40000, !.maximum = 50000],
   [d EXCEPT !.data_type = "bool"],
   [d EXCEPT !.minimum = -1], [d EXCEPT !.minimum = -1, !.default = -1],
   [d EXCEPT !.data_type = "int16", !.minimum = -1],
   [d EXCEPT !.data_type = "int16", !.minimum = -1, !.default = -1],
   [d EXCEPT !.data_type = "int16", !.minimum = -1, !.writable = FALSE],
   [d EXCEPT !.data_type = "int16", !.minimum = -1, !.default = -1,
             !.writable = FALSE]}

SomeDocuments ==
  UNION {{[Base EXCEPT !.registers[i] = d, !.registers[j] = e] :
            d \in Edits(Base.registers[i]), e \in Edits(Base.registers[j])} :
         i \in 1..2, j \in 3..5}
  \cup {[Base EXCEPT !.registers[3].default = 1, !.registers[4].default = 1]}
  \cup UNION {{[Base EXCEPT !.registers[i] = d] :
                 d \in Slips(Base.registers[i]) \cup Extremes(Base.registers[i])} :
              i \in DOMAIN Base.registers}
  \cup {[Base EXCEPT !.registers = <<>>], [Base EXCEPT !.invariants = FALSE],
        [Base EXCEPT !.registers =
           Append(@, RegisterOf("spare", "coil", 1, "bool", TRUE, 1, 0))]}
  \cup {[Base EXCEPT !.device.unit_id = u] : u \in {0, 1, 247, 248}}
  \cup {[Base EXCEPT !.device.strings = s] : s \in {"blank", "missing"}}
  \cup {[Base EXCEPT !.device.vendor_url = u] : u \in {"http", "reserved", "missing"}}
  \cup {[Base EXCEPT !.process[q] = v] :
          q \in PROCESS_BOUNDS, v \in {"low", "high", "infinite", "missing"}}

SomeWritten == {-1, 0, 1, 2}

SomeArguments ==
  {[port |-> 1502, loopback |-> TRUE, allow_non_loopback |-> FALSE],
   [port |-> 1502, loopback |-> FALSE, allow_non_loopback |-> TRUE],
   [port |-> 1502, loopback |-> FALSE, allow_non_loopback |-> FALSE],
   [port |-> 0, loopback |-> TRUE, allow_non_loopback |-> FALSE]}
=============================================================================
