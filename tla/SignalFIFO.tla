----------------------------- MODULE SignalFIFO -----------------------------
(***************************************************************************)
(* What a signal connection between two nodes promises to its users: the   *)
(* messages the sink accepts come out of the channel in the same order,    *)
(* each once and none skipped; the connection may stop at any point.       *)
(***************************************************************************)
EXTENDS Naturals, Sequences

CONSTANT Messages

VARIABLES
    accepted,    \* the messages the sink accepted
    received     \* the messages put into the receiving channel

Init == accepted = <<>> /\ received = <<>>

Write == /\ \E m \in Messages : accepted' = Append(accepted, m)
         /\ UNCHANGED received

Deliver == /\ Len(received) < Len(accepted)
           /\ received' = Append(received, accepted[Len(received) + 1])
           /\ UNCHANGED accepted

Spec == Init /\ [][Write \/ Deliver]_<<accepted, received>>

=============================================================================
