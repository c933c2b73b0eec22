---------------------------- MODULE MCStixBundle ----------------------------
(***************************************************************************)
(* An instance of StixBundle for TLC: one global address in two spellings  *)
(* and with times out of order, one without a valid time, a private one,   *)
(* and a line that is no event or has no address.                          *)
(***************************************************************************)
EXTENDS StixBundle

Spellings ==
  [s \in {"v6", "V6", "v4", "lan"} |-> IF s = "V6" THEN "v6" ELSE s]

EventOf(source, time, code, write) ==
  [event |-> TRUE, source |-> source, time |-> time, code |-> code, write |-> write]

SomeLines ==
  {EventOf("v6", 4, 3, FALSE), EventOf("V6", 3, 16, TRUE),
   EventOf("v4", Never, NoCode, FALSE), EventOf("lan", 4, 3, FALSE),
   [EventOf("v6", Never, 3, TRUE) EXCEPT !.event = FALSE]}
=============================================================================
