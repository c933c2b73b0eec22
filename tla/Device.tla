-------------------------------- MODULE Device --------------------------------
(***************************************************************************)
(* What the pot promises of its device and its log, without sessions,      *)
(* tasks or a copy of the registers: requests arrive, and every one is     *)
(* handled once, in one step that reads or writes all of its registers and *)
(* appends one entry to the log, so that the log is the order in which the *)
(* requests took effect.  The only requests without an entry are those     *)
(* that are declined without effect, and those whose entry was lost.  One  *)
(* register, auto_control_active, is not written but shows whether         *)
(* control_mode is AUTO.                                                   *)
(***************************************************************************)
EXTENDS Integers, Sequences

CONSTANTS
  Keys, Writable,    \* the registers, and those a client may write
  Sound,             \* the map is sound: no write can break half way
  None

VARIABLES
  registers,         \* the values of the registers
  trail, lost,       \* the entries of the log, and how many were lost
  arrived,           \* the number of requests so far
  handled            \* those that have taken effect

vars == <<registers, trail, lost, arrived, handled>>

(* auto_control_active says at all times what control_mode is.             *)
Agree(values) ==
  values["auto_control_active"] = IF values["control_mode"] = 1 THEN 1 ELSE 0

(* Only the registers of ks change, and with them the one that follows.    *)
Touches(ks) ==
  /\ \A k \in Keys \ (ks \cup {"auto_control_active"}) : registers'[k] = registers[k]
  /\ Agree(registers')

Of(ks, values) == [k \in Keys |-> IF k \in ks THEN values[k] ELSE None]

Init ==
  /\ registers \in [Keys -> Int] /\ Agree(registers)
  /\ trail = <<>> /\ lost = 0
  /\ arrived = 0 /\ handled = {}

(* A request arrives; it may be refused as soon as it is read.             *)
Arrive ==
  /\ arrived' = arrived + 1
  /\ handled' \in {handled, handled \cup {arrived'}}
  /\ UNCHANGED <<registers, trail, lost>>

Handle(n) ==
  /\ n \in 1..arrived /\ n \notin handled
  /\ handled' = handled \cup {n}
  /\ UNCHANGED arrived

Enter(entry) ==
  \/ trail' = Append(trail, entry) /\ UNCHANGED lost
  \/ lost' = lost + 1 /\ UNCHANGED trail

(* No such unit, or the dependency failed before the request was handled.  *)
Decline(n) == Handle(n) /\ UNCHANGED <<registers, trail, lost>>

(* A read shows registers as they are, a refusal shows none.               *)
Show(n) ==
  /\ Handle(n)
  /\ \E ks \in SUBSET Keys :
       Enter([request |-> n, shown |-> Of(ks, registers),
              before |-> Of({}, registers), after |-> Of({}, registers)])
  /\ UNCHANGED registers

(* A write changes its registers, and what follows control_mode with it,   *)
(* and no other; it enters both values of its own.                         *)
Change(n) ==
  /\ Handle(n)
  /\ \E ks \in SUBSET Writable :
       /\ Touches(ks)
       /\ Enter([request |-> n, shown |-> Of({}, registers),
                 before |-> Of(ks, registers), after |-> Of(ks, registers')])

(* With a map that is not sound a write may stop half way, unentered.      *)
Break(n) ==
  /\ ~Sound
  /\ Handle(n)
  /\ Touches(Writable)
  /\ UNCHANGED <<trail, lost>>

(* The process moves what clients cannot write, but for what follows a     *)
(* register that they can.                                                 *)
Move ==
  /\ Touches(Keys \ Writable)
  /\ UNCHANGED <<trail, lost, arrived, handled>>

Next ==
  \/ Arrive \/ Move
  \/ \E n \in 1..arrived : Decline(n) \/ Show(n) \/ Change(n) \/ Break(n)

Spec == Init /\ [][Next]_vars
=============================================================================
