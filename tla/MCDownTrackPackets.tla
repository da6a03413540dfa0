------------------------- MODULE MCDownTrackPackets -------------------------
(* Instances of DownTrackPackets for TLC. *)
EXTENDS DownTrackPackets

Within(codec, dd, last, p, e, n, r) ==
    [codec |-> codec, dd |-> dd, lastSN |-> last, pads |-> p, events |-> e, nacks |-> n, restarts |-> r]

(* The passing run: two simulcast layers with probing, with mutes and target  *)
(* changes, and with a restart; SVC streams with more of each.                *)
PacketScopes == {Within("VP8", FALSE, 14, 1, 0, 0, 0),
                 Within("VP8", FALSE, 13, 1, 1, 1, 0),
                 Within("VP8", FALSE, 13, 0, 1, 1, 1),
                 Within("VP9", TRUE, 15, 2, 1, 0, 0),
                 Within("AV1", TRUE, 14, 1, 2, 1, 0),
                 Within("VP9", FALSE, 14, 1, 2, 1, 0),
                 Within("VP9", TRUE, 14, 0, 1, 1, 1)}

=============================================================================
