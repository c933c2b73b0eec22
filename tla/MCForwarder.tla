---------------------------- MODULE MCForwarder ----------------------------
(***************************************************************************)
(* Instances of Forwarder for TLC.  A token is two parts and a second two  *)
(* time units: a rate of 1 is one event per second, a burst of one; a rate *)
(* of 2 is two per second, a burst of two; a rate of 0 is no limit.        *)
(***************************************************************************)
EXTENDS Forwarder
=============================================================================
