--------------------------- MODULE MCSignalRelay ---------------------------
(* An instance of SignalRelay for TLC. *)
EXTENDS SignalRelay

CONSTANTS m1, m2

=============================================================================
