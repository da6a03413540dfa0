------------------------- MODULE MCTransportOfferer -------------------------
(* Instances of TransportOfferer for TLC. *)
EXTENDS TransportOfferer
=============================================================================
