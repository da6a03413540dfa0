----------------------------- MODULE MediaTrack -----------------------------
(***************************************************************************)
(* A published track (pkg/rtc/mediatrack.go): the receiver of its packets  *)
(* and the dynacast manager that tells the publisher what to send run      *)
(* beside each other, and the track closes the manager before it closes    *)
(* the receiver.                                                           *)
(***************************************************************************)
EXTENDS Dynacast, ReceiverRestart

CONSTANT TrackScopes   \* the pairs of scopes of the two parts

ASSUME TrackAssumption == TrackScopes \subseteq DynacastScopes \X RestartScopes

trackVars == <<dynacastVars, restartVars>>

TrackInit == DynacastInit /\ RestartInit /\ <<dscope, rscope>> \in TrackScopes

(* Close of the track, its last step: the receivers. *)
CloseTrack ==
    /\ "close" \in dscope.kinds => mgr.closed /\ threads["track"] = Idle
    /\ CloseReceiver
    /\ UNCHANGED dynacastVars

TrackNext == \/ DynacastNext /\ UNCHANGED restartVars
             \/ ReceiverNext /\ UNCHANGED dynacastVars
             \/ CloseTrack

TrackSpec == TrackInit /\ [][TrackNext]_trackVars /\ DynacastFairness /\ RestartFairness

=============================================================================
