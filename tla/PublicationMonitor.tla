------------------------- MODULE PublicationMonitor -------------------------
(***************************************************************************)
(* The monitor of one publication (pkg/rtc/supervisor): every AddTrack     *)
(* request stands for a publish that has to start, and for its end. The    *)
(* wait for the start is timed while the publisher is connected and the    *)
(* track is not muted. Time is abstracted: a timer that is armed may be    *)
(* due at any moment.                                                      *)
(***************************************************************************)
EXTENDS Naturals, SequencesExt, FiniteSetsExt

NoTrack   == <<"none", 0>>
NoMonitor == [exists |-> FALSE, desired |-> <<>>, track |-> NoTrack, muted |-> FALSE, timer |-> "off", err |-> FALSE]

MaybeStartMonitor(m, connected) == IF connected /\ ~m.muted THEN [m EXCEPT !.timer = "armed"] ELSE m

(* update: what has happened is taken from the front; a publish that comes to *)
(* the front is timed from then on.                                           *)
Update(m, connected) ==
    LET waits == {i \in DOMAIN m.desired : (m.desired[i] = "start") <=> (m.track = NoTrack)}
        front == IF waits = {} THEN Len(m.desired) + 1 ELSE Min(waits)
        moved == [m EXCEPT !.desired = SubSeq(@, front, Len(@))]
    IN IF front > 1 /\ front <= Len(m.desired) /\ m.desired[front] = "start"
       THEN MaybeStartMonitor([moved EXCEPT !.timer = "off"], connected)
       ELSE moved

AddPublication(m, connected) ==
    Update([m EXCEPT !.exists = TRUE, !.desired = @ \o <<"start", "end">>], connected)

SetPublicationMute(m, muted, connected) ==
    IF m.exists THEN MaybeStartMonitor([m EXCEPT !.muted = muted], connected) ELSE m

SetPublishedTrack(m, o, connected) ==
    IF m.exists THEN Update([m EXCEPT !.track = o], connected) ELSE m

ClearPublishedTrack(m, o, connected) ==
    IF m.exists THEN Update([m EXCEPT !.track = IF @ = o THEN NoTrack ELSE @], connected) ELSE m

RemovePublication(m) == IF m.track = NoTrack THEN NoMonitor ELSE m

Check(m)    == m.desired # <<>> /\ Head(m.desired) = "start" /\ ~m.muted /\ m.timer = "due"
TimedOut(m) == m.err /\ Check(m)

(* Mutant: a monitor without a request is dropped, published or not. *)
IsIdleUnpublished(m) == m.desired \in {<<>>, <<"end">>}

IsIdle(m)   == m.desired = <<>> /\ m.track = NoTrack

(* checkPublications, for one monitor. *)
Checked(m) == IF ~Check(m) /\ IsIdle(m) THEN NoMonitor ELSE [m EXCEPT !.err = Check(m)]

=============================================================================
