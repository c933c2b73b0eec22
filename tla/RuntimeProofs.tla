---------------------------- MODULE RuntimeProofs ----------------------------
(***************************************************************************)
(* Proofs about the life of the program: for every register map, every     *)
(* command line, every interval and however late the event loop lets the   *)
(* process loop run.                                                       *)
(***************************************************************************)
EXTENDS Runtime, FiniteSetTheorems, SequenceTheorems, TLAPS

-----------------------------------------------------------------------------
(* How the loop's clock readings are related: the sleep that is left is    *)
(* the distance to the next tick, if that is not overdue, and the time     *)
(* still to be simulated is what is missing to a whole interval.           *)
Paced ==
  task = "sleeping" =>
    /\ wake = IF until > 0 THEN until ELSE 0
    /\ until + behind = Interval
    /\ behind >= 0

(* Before the process is built nothing has been slept, and no task exists. *)
NotYet == stage = "starting" => task = "none" /\ behind = 0 /\ ~listening

(* The type invariant in two parts, the clock readings and the rest.       *)
ClockTypes == until \in Int /\ wake \in 0..Interval /\ behind \in Int
OtherTypes ==
  /\ arguments \in Arguments /\ document \in Documents
  /\ stage \in {"starting", "serving", "stopping", "closing", "exited"}
  /\ leaving \in {"", "interrupt", "error"}
  /\ outcome \in {"", "refused", "error", "stopped", "killed"}
  /\ listening \in BOOLEAN
  /\ task \in {"none", "sleeping", "raised", "cancelling", "cancelled"}
  /\ control_mode \in Int /\ pump_speed_setpoint \in Int
  /\ pump_feedback \in BOOLEAN

LEMMA TypeParts == (TypeOK <=> ClockTypes /\ OtherTypes) /\ (TypeOK' <=> ClockTypes' /\ OtherTypes')
BY DEF TypeOK, ClockTypes, OtherTypes

IInv == TypeOK /\ Paced /\ NotYet

LEMMA Bounds == Interval \in Nat /\ Interval > 0
BY RuntimeAssumption

LEMMA InitIInv == Init => IInv
<1> SUFFICES ASSUME Init PROVE IInv
  OBVIOUS
<1>1. ClockTypes
  <2>1. until = 0 /\ wake = 0 /\ behind = 0
    BY Zenon DEF Init
  <2> QED
    BY <2>1, Bounds DEF ClockTypes
<1>2. OtherTypes
  <2>1. control_mode \in Int /\ pump_speed_setpoint \in Int
    <3>1. control_mode = 0 /\ pump_speed_setpoint = 0
      BY Zenon DEF Init
    <3> QED
      BY <3>1
  <2> QED
    BY <2>1, Zenon DEF Init, OtherTypes
<1> QED
  BY <1>1, <1>2, TypeParts DEF Init, IInv, Paced, NotYet

(* What the maps declare are integers.                                     *)
LEMMA Declared ==
  ASSUME TypeOK, Keys(document) = ModelKeys,
         NEW k \in {"control_mode", "pump_speed_setpoint", "pump_feedback", "pump_fault"}
  PROVE  /\ Register(k) \in Registers(document)
         /\ Register(k).key = k
         /\ Default(k) \in Int
         /\ Register(k).minimum \in Int
         /\ Register(k).maximum \in Int
<1>1. k \in Keys(document)
  BY RuntimeAssumption
<1>2. \E d \in Registers(document) : d.key = k
  BY <1>1 DEF Keys
<1>3. Register(k) \in Registers(document) /\ Register(k).key = k
  BY <1>2 DEF Register
<1>4. PICK i \in DOMAIN document.registers : Register(k) = document.registers[i]
  BY <1>3 DEF Registers
<1>5. document \in Documents
  BY DEF TypeOK
<1> QED
  BY <1>3, <1>4, <1>5, RuntimeAssumption DEF Default

-----------------------------------------------------------------------------
(* The steps of the process loop.                                          *)
LEMMA TickKeeps ==
  ASSUME IInv, Tick
  PROVE  IInv'
<1>1. /\ until \in Int /\ wake \in 0..Interval /\ behind \in Int
      /\ Interval \in Nat /\ Interval > 0
      /\ task = "sleeping" /\ wake = 0 /\ task' = task
      /\ wake = IF until > 0 THEN until ELSE 0
      /\ until + behind = Interval
      /\ until' = until + Interval /\ behind' = behind - Interval
      /\ wake' = IF until' > 0 THEN until' ELSE 0
  BY Bounds DEF IInv, TypeOK, Paced, Tick, Ready, NextTick
<1>2. /\ until' \in Int /\ wake' \in 0..Interval /\ behind' \in Int
      /\ until' + behind' = Interval /\ behind' >= 0
  BY <1>1
<1>3. Paced'
  BY <1>1, <1>2 DEF Paced
<1>4. pump_feedback' \in BOOLEAN
  BY DEF Tick, Feedbacks, IInv, TypeOK
<1>5. TypeOK'
  <2>1. ClockTypes'
    BY <1>1, <1>2 DEF ClockTypes
  <2>2. OtherTypes'
    BY <1>4, TypeParts DEF IInv, OtherTypes, Tick, inputs, main
  <2> QED
    BY <2>1, <2>2, TypeParts
<1>6. NotYet'
  BY <1>1 DEF IInv, NotYet, Tick, main
<1> QED
  BY <1>3, <1>5, <1>6 DEF IInv

LEMMA AdvanceKeeps ==
  ASSUME IInv, Advance
  PROVE  IInv'
<1>1. /\ until \in Int /\ wake \in 0..Interval /\ behind \in Int
      /\ Interval \in Nat /\ Interval > 0
      /\ task = "sleeping" /\ task' = task
      /\ wake = IF until > 0 THEN until ELSE 0
      /\ until + behind = Interval /\ behind >= 0
      /\ until' = until - 1 /\ behind' = behind + 1
      /\ wake' = IF wake = 0 THEN 0 ELSE wake - 1
  BY Bounds DEF IInv, TypeOK, Paced, Advance
<1>2. /\ until' \in Int /\ wake' \in 0..Interval /\ behind' \in Int
      /\ wake' = IF until' > 0 THEN until' ELSE 0
      /\ until' + behind' = Interval /\ behind' >= 0
  BY <1>1
<1>3. TypeOK'
  BY <1>1, <1>2 DEF IInv, TypeOK, Advance, inputs, main, process
<1> QED
  BY <1>1, <1>2, <1>3 DEF IInv, Paced, NotYet, Advance, main

(* The start, and everything that leaves the clock readings alone.         *)
LEMMA StartKeeps ==
  ASSUME IInv, Start
  PROVE  IInv'
<1>1. Keys(document) = ModelKeys
  BY DEF Start, Starts, BuildsDevice
<1>2. /\ control_mode' \in Int /\ pump_speed_setpoint' \in Int
      /\ pump_feedback' \in BOOLEAN
  BY <1>1, Declared DEF Start, IInv
<1>3. /\ Interval \in Nat /\ Interval > 0 /\ behind = 0
      /\ until' = Interval /\ wake' = Interval /\ behind' = behind
      /\ task' = "sleeping" /\ stage' = "serving"
  BY Bounds DEF Start, IInv, NotYet
<1>4. TypeOK'
  <2>1. ClockTypes'
    BY <1>3 DEF ClockTypes
  <2>2. OtherTypes'
    BY <1>2, TypeParts DEF IInv, OtherTypes, Start, inputs
  <2> QED
    BY <2>1, <2>2, TypeParts
<1> QED
  BY <1>3, <1>4 DEF IInv, Paced, NotYet

(* A write sets one of the two fields to a value that is accepted.         *)
LEMMA Writes ==
  ASSUME WriteMode \/ WriteSpeed
  PROVE  /\ \/ /\ \E value \in Int : Accepted("control_mode", value) /\ control_mode' = value
               /\ pump_speed_setpoint' = pump_speed_setpoint
            \/ /\ \E value \in Int : /\ Accepted("pump_speed_setpoint", value)
                                     /\ pump_speed_setpoint' = value
               /\ control_mode' = control_mode
         /\ UNCHANGED <<inputs, main, task, pump_feedback, pace>>
<1>1. Written \subseteq Int
  BY RuntimeAssumption
<1>2. CASE WriteMode
  BY <1>1, <1>2, Zenon DEF WriteMode
<1>3. CASE WriteSpeed
  BY <1>1, <1>3, Zenon DEF WriteSpeed
<1> QED
  BY <1>2, <1>3

LEMMA WriteKeeps ==
  ASSUME IInv, WriteMode \/ WriteSpeed
  PROVE  IInv'
<1>1. control_mode' \in Int /\ pump_speed_setpoint' \in Int
  BY Writes DEF IInv, TypeOK
<1>2. UNCHANGED <<inputs, main, task, pump_feedback, pace>>
  BY Writes
<1> QED
  BY <1>1, <1>2 DEF IInv, TypeOK, Paced, NotYet, inputs, main, pace

LEMMA OtherKeeps ==
  ASSUME IInv,
         \/ Refuse \/ FailStart \/ Listen \/ TickRaises \/ Interrupt \/ ServeFails
         \/ TaskCancelled \/ Awaited \/ AwaitRaises \/ Shutdown \/ Kill
         \/ UNCHANGED vars
  PROVE  IInv'
<1> USE DEF IInv, TypeOK, Paced, NotYet, inputs, main, process, pace
<1>1. CASE Refuse \/ FailStart
  BY <1>1 DEF Refuse, FailStart, Exit
<1>2. CASE Listen
  BY <1>2 DEF Listen
<1>3. CASE TickRaises
  BY <1>3 DEF TickRaises, Ready, Feedbacks
<1>4. CASE Interrupt \/ ServeFails
  BY <1>4 DEF Interrupt, ServeFails, Leave, Cancel
<1>5. CASE TaskCancelled \/ Awaited
  BY <1>5 DEF TaskCancelled, Awaited
<1>6. CASE AwaitRaises \/ Shutdown \/ Kill
  BY <1>6 DEF AwaitRaises, Shutdown, Kill, Exit
<1>7. CASE UNCHANGED vars
  BY <1>7 DEF vars
<1> QED
  BY <1>1, <1>2, <1>3, <1>4, <1>5, <1>6, <1>7

-----------------------------------------------------------------------------
(* From the start on the arguments are ones that were accepted, and the    *)
(* map is one that the program starts with.                                *)
Served ==
  stage \in {"serving", "stopping", "closing"} =>
    Acceptable(arguments) /\ Starts(document)
Open == listening => stage \notin {"starting", "exited"}

LEMMA ServedStep == Served /\ [Next]_vars => Served'
<1> SUFFICES ASSUME Served, [Next]_vars PROVE Served'
  OBVIOUS
<1>1. document' = document /\ arguments' = arguments
  BY DEF Next, Refuse, FailStart, Start, Listen, WriteMode, WriteSpeed, Tick, TickRaises, Advance,
         Interrupt, ServeFails, Leave, TaskCancelled, Awaited, AwaitRaises, Shutdown,
         Kill, Exit, vars, inputs
<1>2. \/ stage' \in {stage, "exited"}
      \/ /\ stage' \in {"serving", "stopping", "closing"}
         /\ Acceptable(arguments) /\ Starts(document)
  BY DEF Served, Next, Refuse, FailStart, Start, Listen, WriteMode, WriteSpeed, Tick, TickRaises,
         Advance, Interrupt, ServeFails, Leave, TaskCancelled, Awaited, AwaitRaises,
         Shutdown, Kill, Exit, vars, main
<1>3. Starts(document)' <=> Starts(document)
  BY <1>1 DEF Starts, Loads, Constructs, BuildsIdentity, BuildsDevice, Indexed,
         IntegerReferences, FiniteScales, AreasUsed, DefaultsFit, Keys, Registers
<1>4. Acceptable(arguments)' <=> Acceptable(arguments)
  BY <1>1 DEF Acceptable, BindAllowed
<1> QED
  BY <1>2, <1>3, <1>4 DEF Served

LEMMA StepIInv == IInv /\ [Next]_vars => IInv'
BY WriteKeeps, TickKeeps, AdvanceKeeps, StartKeeps, OtherKeeps DEF Next

LEMMA Invariance == Spec => [](IInv /\ Served)
<1>1. Init => Served
  BY DEF Init, Served
<1> QED
  BY <1>1, InitIInv, ServedStep, StepIInv, PTL DEF Spec

(* Every variable keeps its type; the loop never sleeps longer than the    *)
(* interval.                                                               *)
THEOREM TypeCorrect == Spec => []TypeOK
BY Invariance, PTL DEF IInv

(* Simulated time follows the clock: never ahead of it, and the loop       *)
(* sleeps only while less than an interval of it is missing, because a     *)
(* late tick does not move the next one (_process_loop).                   *)
THEOREM LoopKeepsPace == Spec => []KeepsPace
<1>1. IInv => KeepsPace
  <2> SUFFICES ASSUME IInv, task = "sleeping"
               PROVE  0 <= behind /\ (wake > 0 <=> behind < Interval)
    BY DEF KeepsPace
  <2>1. /\ until \in Int /\ behind \in Int /\ Interval \in Nat
        /\ wake = IF until > 0 THEN until ELSE 0
        /\ until + behind = Interval /\ behind >= 0
    BY Bounds DEF IInv, TypeOK, Paced
  <2> QED
    BY <2>1
<1> QED
  BY <1>1, Invariance, PTL
-----------------------------------------------------------------------------
(* What a coherent map means to the process: the mode is one of the two,   *)
(* the pump does not run backwards, and not at all when it is faulted.     *)
Sane ==
  stage = "serving" /\ Coherent(document) =>
    /\ task = "sleeping"
    /\ control_mode \in {0, 1}
    /\ pump_speed_setpoint >= 0
    /\ Faulted => ~pump_feedback

LEMMA CoherentRegisters ==
  ASSUME TypeOK, Coherent(document), Keys(document) = ModelKeys
  PROVE  /\ Default("control_mode") \in {0, 1}
         /\ Default("pump_speed_setpoint") >= 0
         /\ Default("pump_fault") = 0 \/ Default("pump_feedback") = 0
         /\ \A value \in Int : Accepted("control_mode", value) => value \in {0, 1}
         /\ \A value \in Int : Accepted("pump_speed_setpoint", value) => value >= 0
         /\ InBounds
<1> DEFINE mode == Register("control_mode")
           speed == Register("pump_speed_setpoint")
<1>1. /\ mode \in Registers(document) /\ mode.key = "control_mode"
      /\ speed \in Registers(document) /\ speed.key = "pump_speed_setpoint"
      /\ speed.minimum \in Int /\ speed.maximum \in Int
  BY Declared
<1>2. /\ Register("pump_fault") \in Registers(document)
      /\ Register("pump_fault").key = "pump_fault"
      /\ Register("pump_feedback") \in Registers(document)
      /\ Register("pump_feedback").key = "pump_feedback"
  BY Declared
<1>3. /\ mode.default \in {0, 1}
      /\ mode.writable => mode.minimum..mode.maximum \subseteq {0, 1}
      /\ speed.default >= 0
      /\ speed.writable => speed.minimum >= 0
  BY <1>1 DEF Coherent
<1>4. Default("pump_fault") = 0 \/ Default("pump_feedback") = 0
  BY <1>2 DEF Coherent, Default
<1>5. ASSUME NEW value \in Int, Accepted("control_mode", value)
      PROVE  value \in {0, 1}
  BY <1>3, <1>5 DEF Accepted
<1>6. ASSUME NEW value \in Int, Accepted("pump_speed_setpoint", value)
      PROVE  value >= 0
  <2>1. speed.writable /\ value \in speed.minimum..speed.maximum
    BY <1>6 DEF Accepted
  <2>2. speed.minimum >= 0
    BY <1>3, <2>1
  <2> HIDE DEF speed
  <2> QED
    BY <1>1, <2>1, <2>2
<1> QED
  BY <1>3, <1>4, <1>5, <1>6 DEF Coherent, Default, InBounds

LEMMA SaneStep == TypeOK /\ Served /\ Sane /\ [Next]_vars => Sane'
<1> SUFFICES ASSUME TypeOK, Served, Sane, [Next]_vars,
                    stage' = "serving", Coherent(document')
             PROVE  /\ task' = "sleeping"
                    /\ control_mode' \in {0, 1}
                    /\ pump_speed_setpoint' >= 0
                    /\ Faulted' => ~pump_feedback'
  BY DEF Sane, Coherent, Registers
<1>1. document' = document
  BY DEF Next, Refuse, FailStart, Start, Listen, WriteMode, WriteSpeed, Tick,
         TickRaises, Advance, Interrupt, ServeFails, Leave, TaskCancelled, Awaited,
         AwaitRaises, Shutdown, Kill, Exit, vars, inputs
<1>2. Faulted' <=> Faulted
  BY <1>1 DEF Faulted, Default, Register, Registers
<1>3. Coherent(document)
  BY <1>1
<1>4. CASE Start
  <2>1. Keys(document) = ModelKeys
    BY <1>4 DEF Start, Starts, BuildsDevice
  <2>2. /\ Default("control_mode") \in {0, 1}
        /\ Default("pump_speed_setpoint") >= 0
        /\ Default("pump_fault") = 0 \/ Default("pump_feedback") = 0
    BY <1>3, <2>1, CoherentRegisters
  <2> QED
    BY <1>2, <1>4, <2>2, Zenon DEF Start, Faulted
<1>5. ASSUME ~Start PROVE stage = "serving"
  BY <1>5 DEF Next, Refuse, FailStart, Listen, WriteMode, WriteSpeed, Tick, TickRaises,
         Advance, Interrupt, ServeFails, Leave, TaskCancelled, Awaited, AwaitRaises,
         Shutdown, Kill, Exit, vars, main
<1>6. ASSUME stage = "serving"
      PROVE  /\ task = "sleeping" /\ control_mode \in {0, 1}
             /\ pump_speed_setpoint >= 0
             /\ Faulted => ~pump_feedback
             /\ Keys(document) = ModelKeys
  BY <1>3, <1>6 DEF Sane, Served, Starts, BuildsDevice
<1>7. CASE stage = "serving" /\ (WriteMode \/ WriteSpeed)
  <2>1. control_mode' \in {0, 1} /\ pump_speed_setpoint' >= 0
    BY <1>3, <1>6, <1>7, CoherentRegisters, Writes
  <2>2. task' = task /\ pump_feedback' = pump_feedback
    BY <1>7, Writes
  <2> QED
    BY <1>2, <1>6, <1>7, <2>1, <2>2, Zenon
<1>8. CASE stage = "serving" /\ (Tick \/ TickRaises)
  <2>1. Faulted => ~pump_feedback'
    BY <1>6, <1>8, Zenon DEF Tick, TickRaises, Feedbacks
  <2>2. InBounds /\ ~(pump_speed_setpoint < 0)
    <3>1. InBounds
      BY <1>3, <1>6, <1>8, CoherentRegisters
    <3>2. pump_speed_setpoint \in Int /\ pump_speed_setpoint >= 0
      BY <1>6, <1>8 DEF TypeOK
    <3> QED
      BY <3>1, <3>2
  <2>3. ~MayBreak(pump_feedback')
    BY <1>6, <1>8, <2>1, <2>2, Zenon DEF MayBreak, Breaks
  <2> QED
    BY <1>2, <1>6, <1>8, <2>1, <2>3, Zenon DEF Tick, TickRaises
<1>9. CASE stage = "serving" /\ ~WriteMode /\ ~WriteSpeed /\ ~Tick /\ ~TickRaises
  <2>1. UNCHANGED <<task, process>>
    BY <1>6, <1>9 DEF Next, Refuse, FailStart, Start, Listen, Advance, Interrupt,
           ServeFails, Leave, TaskCancelled, Awaited, AwaitRaises, Shutdown, Kill, Exit,
           vars, process
  <2> QED
    BY <1>2, <1>6, <1>9, <2>1, Zenon DEF process
<1> QED
  BY <1>4, <1>5, <1>7, <1>8, <1>9

(* With a coherent map (modes of the enum, no negative pump speed, no pump *)
(* that starts out running and faulted, quantities in their bounds) no     *)
(* tick ever raises, whatever clients write: the process moves for as long *)
(* as the server serves.                                                   *)
THEOREM ProcessStaysAlive == Spec => []ProcessAlive
<1>1. Init => Sane
  BY DEF Init, Sane
<1>2. Sane => ProcessAlive
  BY DEF Sane, ProcessAlive
<1>3. IInv => TypeOK
  BY DEF IInv
<1> QED
  BY <1>1, <1>2, <1>3, SaneStep, Invariance, PTL DEF Spec

-----------------------------------------------------------------------------
(* The open port belongs to a program that has started.                    *)
LEMMA OpenStep == Served /\ Open /\ [Next]_vars => Open'
<1> SUFFICES ASSUME Served, Open, [Next]_vars PROVE Open'
  OBVIOUS
<1>1. stage' = "exited" => ~listening'
  BY DEF Open, Next, Refuse, FailStart, Start, Listen, WriteMode, WriteSpeed, Tick, TickRaises,
         Advance, Interrupt, ServeFails, Leave, TaskCancelled, Awaited, AwaitRaises,
         Shutdown, Kill, Exit, vars, main
<1>2. stage' # "starting" \/ ~listening'
  BY DEF Open, Next, Refuse, FailStart, Start, Listen, WriteMode, WriteSpeed, Tick, TickRaises,
         Advance, Interrupt, ServeFails, Leave, TaskCancelled, Awaited, AwaitRaises,
         Shutdown, Kill, Exit, vars, main
<1> QED
  BY <1>1, <1>2 DEF Open

(* A function with as many values as arguments takes none of them twice.   *)
LEMMA Pigeonhole ==
  ASSUME NEW n \in Nat, NEW f, NEW T, f \in [1..n -> T],
         \A t \in T : \E i \in 1..n : f[i] = t,
         Cardinality(T) = n
  PROVE  \A i, j \in 1..n : f[i] = f[j] => i = j
<1>1. IsFiniteSet(1..n) /\ Cardinality(1..n) = n
  BY FS_Interval
<1>2. f \in Surjection(1..n, T)
  BY DEF Surjection
<1>3. f \in Injection(1..n, T)
  BY <1>1, <1>2, FS_SurjSameCardinalityImpliesInj
<1> QED
  BY <1>3 DEF Injection, IsInjective

(* What the two indexes of RegisterMap establish by their sizes.           *)
LEMMA IndexedApart ==
  ASSUME NEW doc \in Documents, Indexed(doc),
         NEW i \in DOMAIN doc.registers, NEW j \in DOMAIN doc.registers, i # j
  PROVE  /\ KeysDiffer(doc.registers[i], doc.registers[j])
         /\ LocationsDiffer(doc.registers[i], doc.registers[j])
<1> DEFINE n == Len(doc.registers)
           key == [k \in 1..n |-> doc.registers[k].key]
           Place(d) == <<d.area, d.address>>
           place == [k \in 1..n |-> Place(doc.registers[k])]
<1>1. DOMAIN doc.registers = 1..n /\ n \in Nat
  BY RuntimeAssumption, LenProperties
<1>2. key[i] # key[j]
  <2>1. key \in [1..n -> Keys(doc)] /\ \A t \in Keys(doc) : \E k \in 1..n : key[k] = t
    BY <1>1 DEF Keys, Registers
  <2>2. Cardinality(Keys(doc)) = n
    BY DEF Indexed
  <2> HIDE DEF key, n
  <2> QED
    BY <1>1, <2>1, <2>2, Pigeonhole
<1>3. place[i] # place[j]
  <2> DEFINE Places == {Place(d) : d \in Registers(doc)}
  <2>1. place \in [1..n -> Places] /\ \A t \in Places : \E k \in 1..n : place[k] = t
    BY <1>1 DEF Registers
  <2>2. Cardinality(Places) = n
    BY DEF Indexed
  <2> HIDE DEF place, Places, n
  <2> QED
    BY <1>1, <2>1, <2>2, Pigeonhole
<1>4. /\ doc.registers[i].key # doc.registers[j].key
      /\ Place(doc.registers[i]) # Place(doc.registers[j])
  BY <1>1, <1>2, <1>3
<1> QED
  BY <1>4 DEF KeysDiffer, LocationsDiffer

(* The port is open only where it was meant to be, and only with the       *)
(* model's own keys, each once, at places of their own.                    *)
THEOREM PortFailsClosed == Spec => []FailsClosed
<1>1. Init => Open
  BY DEF Init, Open
<1>2. TypeOK /\ Served /\ Open => FailsClosed
  <2> SUFFICES ASSUME TypeOK, Served, Open, listening
               PROVE  /\ BindAllowed(arguments)
                      /\ Keys(document) = ModelKeys
                      /\ \A i, j \in DOMAIN document.registers :
                           \/ i = j
                           \/ /\ KeysDiffer(document.registers[i], document.registers[j])
                              /\ LocationsDiffer(document.registers[i], document.registers[j])
    BY DEF FailsClosed
  <2>1. Acceptable(arguments) /\ Starts(document) /\ document \in Documents
    BY DEF Served, Open, TypeOK
  <2>2. Indexed(document) /\ Keys(document) = ModelKeys
    BY <2>1 DEF Starts, Loads, BuildsDevice
  <2>3. BindAllowed(arguments)
    BY <2>1 DEF Acceptable
  <2> QED
    BY <2>1, <2>2, <2>3, IndexedApart, Zenon
<1>3. IInv => TypeOK
  BY DEF IInv
<1> QED
  BY <1>1, <1>2, <1>3, OpenStep, Invariance, PTL DEF Spec
-----------------------------------------------------------------------------
(* The converse of Pigeonhole.                                             *)
LEMMA NoneTwice ==
  ASSUME NEW n \in Nat, NEW f, NEW T, f \in [1..n -> T],
         \A t \in T : \E i \in 1..n : f[i] = t,
         \A i, j \in 1..n : f[i] = f[j] => i = j
  PROVE  Cardinality(T) = n
<1>1. IsFiniteSet(1..n) /\ Cardinality(1..n) = n
  BY FS_Interval
<1>2. f \in Surjection(1..n, T) /\ f \in Injection(1..n, T)
  BY DEF Surjection, Injection, IsInjective
<1> QED
  BY <1>1, <1>2, FS_Surjection

(* The validator's comparison of every register with those before it is    *)
(* what the sizes of the loader's indexes stand for.                       *)
LEMMA ValidatedIndexed ==
  ASSUME NEW doc \in Documents, ValidateMap(doc)
  PROVE  Indexed(doc)
<1> DEFINE n == Len(doc.registers)
           key == [k \in 1..n |-> doc.registers[k].key]
           Place(d) == <<d.area, d.address>>
           place == [k \in 1..n |-> Place(doc.registers[k])]
           Places == {Place(d) : d \in Registers(doc)}
<1>1. DOMAIN doc.registers = 1..n /\ n \in Nat
  BY RuntimeAssumption, LenProperties
<1>2. \A i \in 1..n : \A j \in 1..i - 1 :
        /\ doc.registers[i].key # doc.registers[j].key
        /\ Place(doc.registers[i]) # Place(doc.registers[j])
  BY <1>1 DEF ValidateMap, KeysDiffer, LocationsDiffer
<1>3. \A i, j \in 1..n : i # j =>
        /\ doc.registers[i].key # doc.registers[j].key
        /\ Place(doc.registers[i]) # Place(doc.registers[j])
  <2> SUFFICES ASSUME NEW i \in 1..n, NEW j \in 1..n, i # j
               PROVE  /\ doc.registers[i].key # doc.registers[j].key
                      /\ Place(doc.registers[i]) # Place(doc.registers[j])
    OBVIOUS
  <2> HIDE DEF n, Place
  <2>1. j \in 1..i - 1 \/ i \in 1..j - 1
    BY <1>1
  <2> QED
    BY <1>2, <2>1
<1>4. Cardinality(Keys(doc)) = n
  <2>1. key \in [1..n -> Keys(doc)] /\ \A t \in Keys(doc) : \E k \in 1..n : key[k] = t
    BY <1>1 DEF Keys, Registers
  <2>2. \A i, j \in 1..n : key[i] = key[j] => i = j
    BY <1>3
  <2> HIDE DEF key, n
  <2> QED
    BY <1>1, <2>1, <2>2, NoneTwice
<1>5. Cardinality(Places) = n
  <2>1. place \in [1..n -> Places] /\ \A t \in Places : \E k \in 1..n : place[k] = t
    BY <1>1 DEF Registers
  <2>2. \A i, j \in 1..n : place[i] = place[j] => i = j
    BY <1>3
  <2> HIDE DEF place, Places, n
  <2> QED
    BY <1>1, <2>1, <2>2, NoneTwice
<1> QED
  BY <1>4, <1>5 DEF Indexed

(* A default that fits its data type is finite.                            *)
LEMMA FitsFinite ==
  ASSUME NEW doc, DefaultsFit(doc), NEW d \in Registers(doc), d.key \in FIELDS
  PROVE  Finite(d.default)
<1>1. d.key \notin TRUTHS
  BY DEF FIELDS, TRUTHS
<1>2. Fits(d.data_type, d.default)
  BY <1>1 DEF DefaultsFit
<1>3. Infinity \in Int /\ Infinity > 65535
  BY RuntimeAssumption
<1>4. ~Fits(d.data_type, Infinity) /\ ~Fits(d.data_type, -Infinity)
  BY <1>3 DEF Fits
<1> QED
  BY <1>2, <1>4 DEF Finite

(* What the validator leaves to be asked for is this.                      *)
LEMMA ValidatedLoads ==
  ASSUME NEW doc \in Documents, ValidateMap(doc), Keys(doc) = ModelKeys,
         IntegerReferences(doc), FiniteScales(doc), AreasUsed(doc), DefaultsFit(doc)
  PROVE  Starts(doc)
<1>1. Loads(doc)
  <2>1. \A d \in Registers(doc) : d.complete
    BY DEF ValidateMap, RegisterValid, Registers
  <2> QED
    BY <2>1, ValidatedIndexed DEF Loads
<1>2. Constructs(doc)
  <2>1. \A q \in QUANTITIES : doc.process[q] = "within"
    BY DEF ValidateMap, ProcessValid, PROCESS_BOUNDS
  <2>2. \A d \in Registers(doc) : d.key \in FIELDS => Finite(d.default)
    BY FitsFinite
  <2> QED
    BY <2>1, <2>2 DEF Constructs, QUANTITIES
<1>3. BuildsIdentity(doc)
  <2>1. doc.device.strings = "filled" /\ doc.device.vendor_url \in {"empty", "http"}
    BY DEF ValidateMap, DeviceValid
  <2> QED
    BY <2>1 DEF BuildsIdentity
<1> QED
  BY <1>1, <1>2, <1>3 DEF Starts, BuildsDevice

(* An error without a task is that of a start that failed.                 *)
FailedStart ==
  /\ stage # "exited" => outcome = ""
  /\ stage = "closing" => task # "none"
  /\ outcome = "error" /\ task = "none" => ~Starts(document)

LEMMA FailedStartStep == FailedStart /\ [Next]_vars => FailedStart'
<1> SUFFICES ASSUME FailedStart, [Next]_vars PROVE FailedStart'
  OBVIOUS
<1>1. document' = document
  BY DEF Next, Refuse, FailStart, Start, Listen, WriteMode, WriteSpeed, Tick, TickRaises, Advance,
         Interrupt, ServeFails, Leave, TaskCancelled, Awaited, AwaitRaises, Shutdown,
         Kill, Exit, vars, inputs
<1>2. Starts(document)' <=> Starts(document)
  BY <1>1 DEF Starts, Loads, Constructs, BuildsIdentity, BuildsDevice, Indexed,
         IntegerReferences, FiniteScales, AreasUsed, DefaultsFit, Keys, Registers
<1>3. /\ stage' # "exited" => outcome' = ""
      /\ stage' = "closing" => task' # "none"
      /\ outcome' = "error" /\ task' = "none" => ~Starts(document)
  BY DEF FailedStart, Next, Refuse, FailStart, Start, Listen, WriteMode, WriteSpeed, Tick,
         TickRaises, Advance, Interrupt, ServeFails, Leave, Cancel, TaskCancelled,
         Awaited, AwaitRaises, Shutdown, Kill, Exit, Ready, vars, main
<1> QED
  BY <1>2, <1>3 DEF FailedStart

(* Every map the validator accepts is one the program starts with, if it   *)
(* has the model's keys, integer references, scales that are floats, no    *)
(* empty area, and finite defaults that fit their registers' data types.   *)
THEOREM ValidatedMapStarts == Spec => []ValidatedStarts
<1>1. Init => FailedStart
  BY DEF Init, FailedStart
<1>2. TypeOK /\ FailedStart => ValidatedStarts
  BY ValidatedLoads DEF TypeOK, FailedStart, ValidatedStarts
<1>3. IInv => TypeOK
  BY DEF IInv
<1> QED
  BY <1>1, <1>2, <1>3, FailedStartStep, Invariance, PTL DEF Spec
=============================================================================
