-------------------------- MODULE MCModbusServer ---------------------------
(* Instances of ModbusServer for TLC: which deliveries the clients make.   *)
EXTENDS ModbusServer, TLC

Sequences(kinds, n) == UNION {[1..m -> kinds] : m \in 0..n}

\* Up to two frames of any kind; three requests are one more than MaxPending.
ThreeRequests == <<"request", "request", "request">>
AnyDelivery == Sequences(Kinds, 2)
               \cup {ThreeRequests, <<"request", "undecodable", "request">>}
DecodableDelivery == Sequences({"request", "skipped"}, 2) \cup {ThreeRequests}
Symmetry == Permutations(Handlers)
=============================================================================
