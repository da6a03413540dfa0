---------------------------- MODULE MCMediaTrack ----------------------------
(* Instances of MediaTrack for TLC. *)
EXTENDS MediaTrack

CONSTANTS s, n

DynacastIn(audio, deb, peers, codecs, calls, kinds) ==
    [audio |-> audio, debounce |-> deb, peers |-> peers, codecs |-> codecs, calls |-> calls, kinds |-> kinds]

RestartIn(late, packets, ask, find, close) ==
    [late |-> late, packets |-> packets, asked |-> ask, found |-> find, close |-> close]

NoCalls   == DynacastIn(FALSE, FALSE, {}, {}, 0, {})
NoPackets == RestartIn({}, 0, 0, 0, FALSE)

(* Dynacast: restarts, mutes and downgrades of one subscriber; regression     *)
(* with and without debounce; a subscriber and a node that goes away; audio.  *)
DynacastSet ==
    {DynacastIn(FALSE, TRUE, {s}, {"vp8"}, 3, {"notify", "add", "restart", "mute", "resend"}),
     DynacastIn(FALSE, FALSE, {s}, {"av1"}, 3, {"notify", "regress"}),
     DynacastIn(FALSE, TRUE, {n}, {"av1"}, 2, {"notify", "regress", "close"}),
     DynacastIn(FALSE, TRUE, {s, n}, {"vp8"}, 3, {"notify", "clear"}),
     DynacastIn(TRUE, FALSE, {s}, {"av1", "vp8"}, 3, {"notify", "regress", "restart", "close"})}

(* The receiver: two restarts from outside, also with a layer that is added   *)
(* meanwhile; one while a layer is added and the track closes; detected ones, *)
(* with one from outside and alone.                                           *)
RestartSet == {RestartIn({}, 2, 2, 0, FALSE), RestartIn({1}, 1, 2, 0, FALSE),
               RestartIn({1}, 2, 1, 0, TRUE),
               RestartIn({}, 1, 1, 1, TRUE), RestartIn({1}, 1, 0, 1, FALSE)}

(* Both: the track closes while its layers are added and restarted. *)
ClosingDynacast == DynacastIn(FALSE, TRUE, {s}, {"vp8"}, 1, {"close"})
ClosingReceiver == RestartIn({}, 1, 1, 0, TRUE)

(* A restart that one of two buffers detects. *)
Detected == RestartIn({}, 1, 0, 1, FALSE)

AllDynacast == DynacastSet \union {NoCalls, ClosingDynacast}
AllRestart  == RestartSet \union {NoPackets, ClosingReceiver, Detected}

TrackSet    == (DynacastSet \X {NoPackets}) \union ({NoCalls} \X RestartSet)
               \union {<<ClosingDynacast, ClosingReceiver>>}
DetectedSet == {<<NoCalls, Detected>>}

=============================================================================
