----------------------- MODULE MCSubscriptionManager -----------------------
(* Instances of SubscriptionManager for TLC. *)
EXTENDS SubscriptionManager

CONSTANTS t1, t2, t3

KindOfThree == [t \in Tracks |-> IF t = t3 THEN "audio" ELSE "video"]
NoLimit     == [k \in Kinds |-> 0]
VideoOne    == [k \in Kinds |-> IF k = "video" THEN 1 ELSE 0]

=============================================================================
