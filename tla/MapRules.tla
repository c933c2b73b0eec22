------------------------------- MODULE MapRules -------------------------------
(***************************************************************************)
(* What is asked of a register map document: by the validator that is run  *)
(* by hand or in CI (tools/validate_register_map.py), and by the program   *)
(* that loads it (register_map.py, the constructors of model.py and        *)
(* protocol.py), which does not call the validator.                        *)
(*                                                                         *)
(* A document is a record of registers (a sequence), device, process and   *)
(* invariants.  Texts are reduced to the cases the rules tell apart, a     *)
(* process quantity to where it lies in its PROCESS_BOUNDS, a scale to     *)
(* whether it is zero or less and whether float() can hold it.  Fractions  *)
(* are left out: int() or bool() is taken of a default before it is used.  *)
(***************************************************************************)
EXTENDS Integers, Sequences, FiniteSets

CONSTANTS
  ModelKeys,         \* the keys snapshot_raw returns
  Infinity           \* what json.load makes of 1e999, and of its negative

(* Of these keys snapshot_raw shows a truth value, and of these reset      *)
(* takes the int() of the default; snapshot_raw takes that of the others.  *)
TRUTHS == {"pump_command", "inlet_valve_command", "alarm_acknowledge",
           "pump_feedback", "inlet_valve_feedback", "pump_fault",
           "high_level_alarm", "low_level_alarm", "auto_control_active"}
FIELDS == {"level_setpoint", "control_mode", "pump_speed_setpoint",
           "pump_start_count", "inlet_flow_pv", "outlet_flow_pv",
           "pump_current_pv", "process_temperature_pv"}

AREA_ORDER == {"coil", "discrete_input", "holding_register", "input_register"}
WRITABLE_AREAS == {"coil", "holding_register"}

\* The process quantities the model reads; the validator bounds tick_seconds too.
QUANTITIES == {"capacity_liters", "max_pump_flow_lps", "nominal_inlet_flow_lps",
               "auto_hysteresis_raw", "actuator_delay_seconds"}
PROCESS_BOUNDS == QUANTITIES \cup {"tick_seconds"}

Registers(doc) == {doc.registers[i] : i \in DOMAIN doc.registers}
Keys(doc) == {d.key : d \in Registers(doc)}

-----------------------------------------------------------------------------
(* validate_map finds no error.                                            *)
DeviceValid(device) ==
  /\ device.synthetic_identity
  /\ device.unit_id \in 1..247
  /\ device.strings = "filled"   \* REQUIRED_DEVICE_STRINGS
  /\ device.vendor_url \in {"empty", "http"}  \* not reserved, not missing

ProcessValid(process) ==
  /\ process.name /\ process.deterministic_seed
  /\ \A q \in PROCESS_BOUNDS : process[q] = "within"

Addresses == 0..65535
RegisterValid(d) ==
  /\ d.complete                  \* REQUIRED_FIELDS
  /\ d.key # ""
  /\ d.area \in AREA_ORDER
  /\ d.address \in Addresses
  /\ d.minimum <= d.default /\ d.default <= d.maximum
  /\ d.writable => d.area \in WRITABLE_AREAS /\ d.write_effect
  /\ d.scale # "zero"            \* may be too large for a float

KeysDiffer(d, e) == d.key # e.key
LocationsDifferNot(d, e) == TRUE  \* faulty variant: locations not compared
LocationsDiffer(d, e) == d.area # e.area \/ d.address # e.address

ValidateMap(doc) ==
  /\ doc.registers # <<>>
  /\ DeviceValid(doc.device)
  /\ ProcessValid(doc.process)
  /\ \A i \in DOMAIN doc.registers :
       /\ RegisterValid(doc.registers[i])
       /\ \A j \in 1..i - 1 : /\ KeysDiffer(doc.registers[i], doc.registers[j])
                              /\ LocationsDiffer(doc.registers[i], doc.registers[j])
  /\ doc.invariants

-----------------------------------------------------------------------------
(* RegisterMap.load: from_dict of every register, and the indexes by key   *)
(* and by location have as many entries as there are registers.            *)
Indexed(doc) ==
  /\ Cardinality(Keys(doc)) = Len(doc.registers)
  /\ Cardinality({<<d.area, d.address>> : d \in Registers(doc)}) = Len(doc.registers)
IntegerReferences(doc) == \A d \in Registers(doc) : d.reference = "integer"
FiniteScales(doc) == \A d \in Registers(doc) : d.scale # "huge"
Loads(doc) ==
  /\ \A d \in Registers(doc) : d.complete
  /\ IntegerReferences(doc) /\ FiniteScales(doc)
  /\ Indexed(doc)

(* WetWellProcess: its quantities, and the defaults that reset looks up;   *)
(* int() raises for an infinite one.                                       *)
Finite(n) == n \notin {-Infinity, Infinity}
Constructs(doc) ==
  /\ \A q \in QUANTITIES : doc.process[q] # "missing"
  /\ doc.process["auto_hysteresis_raw"] # "infinite"
  /\ ModelKeys \subseteq Keys(doc)
  /\ \A d \in Registers(doc) : d.key \in FIELDS => Finite(d.default)

(* _build_identity.                                                        *)
BuildsIdentity(doc) ==
  doc.device.strings # "missing" /\ doc.device.vendor_url # "missing"

(* build_device: snapshot_raw refuses a map with other keys than the       *)
(* model's, no area may be empty, and a SimData and the SimDevice take a   *)
(* value only if it fits its data type (PyModbus).                         *)
AreasUsed(doc) == AREA_ORDER \subseteq {d.area : d \in Registers(doc)}

Fits(data_type, n) ==
  CASE data_type = "bool"  -> 0 <= n /\ n <= 1
    [] data_type = "int16" -> -32768 <= n /\ n <= 32767
    [] OTHER               -> 0 <= n /\ n <= 65535
DefaultsFit(doc) ==
  \A d \in Registers(doc) : d.key \notin TRUTHS => Fits(d.data_type, d.default)

BuildsDeviceAnyKeys(doc) == AreasUsed(doc)  \* faulty variant: keys not compared
BuildsDevice(doc) == Keys(doc) = ModelKeys /\ AreasUsed(doc) /\ DefaultsFit(doc)

Starts(doc) ==
  Loads(doc) /\ Constructs(doc) /\ BuildsIdentity(doc) /\ BuildsDevice(doc)
=============================================================================
