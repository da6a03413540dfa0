----------------------------- MODULE RTPMunger -----------------------------
(***************************************************************************)
(* pkg/sfu/rtpmunger.go: the translation of the sequence numbers and       *)
(* timestamps of a source to those of one subscriber's stream. Every       *)
(* operator is the effect of one method on the munger; the forwarder calls *)
(* them with its lock held. The RTX gate is left out: FlagFilterRTX is     *)
(* false, nothing reads it.                                                *)
(***************************************************************************)
EXTENDS RangeMap

CONSTANT MungerRanges      \* closed ranges the munger's range map keeps, 100 in the code

ASSUME MungerAssumption == MungerRanges \in Nat \ {0}

Munger == [highestIncoming : Int, ranges : Ranges,
           lastSN : Int, secondLastSN : Int, snOffset : Int,
           lastTS : Int, secondLastTS : Int, tsOffset : Int,
           lastMarker : BOOLEAN, secondLastMarker : BOOLEAN]

NewMunger == [highestIncoming |-> 0, ranges |-> ClearAndResetValue(0, 0),
              lastSN |-> 0, secondLastSN |-> 0, snOffset |-> 0,
              lastTS |-> 0, secondLastTS |-> 0, tsOffset |-> 0,
              lastMarker |-> FALSE, secondLastMarker |-> FALSE]

(* The offset of the next packet; 0 when the map has none (an error is logged). *)
NextOffset(ranges, highest) ==
    IF HasValue(ranges, highest + 1) THEN GetValue(ranges, highest + 1) ELSE 0

WithRanges(m, ranges) ==
    [m EXCEPT !.ranges = ranges, !.snOffset = NextOffset(ranges, m.highestIncoming)]

(* The first packet of a stream keeps its numbers. *)
SetLastSnTs(m, sn, ts) ==
    WithRanges([m EXCEPT !.highestIncoming = sn - 1, !.lastSN = sn, !.secondLastSN = sn - 1,
                         !.lastTS = ts, !.secondLastTS = ts, !.tsOffset = 0],
               ClearAndResetValue(sn, 0))

(* A switch of the source: its packet sn follows the last one by the adjustments. *)
UpdateSnTsOffsets(m, sn, ts, snAdjust, tsAdjust) ==
    WithRanges([m EXCEPT !.highestIncoming = sn - 1, !.tsOffset = ts - m.lastTS - tsAdjust],
               ClearAndResetValue(sn, sn - m.lastSN - snAdjust))

(* The packet just translated is not sent: the next one takes its number. *)
PacketDropped(m, sn) ==
    IF m.highestIncoming # sn THEN m
    ELSE WithRanges([m EXCEPT !.lastSN = m.secondLastSN, !.lastTS = m.secondLastTS,
                              !.lastMarker = m.secondLastMarker],
                    ExcludeRange(m.ranges, MungerRanges, sn, sn + 1))

(* UpdateAndGetSnTs: what becomes of a packet, by its distance from the highest. *)
Contiguous(m, sn, payload) == sn = m.highestIncoming + 1 /\ payload
Gap(m, sn)                 == sn > m.highestIncoming + 1
PaddingOnly(m, sn, payload) == sn = m.highestIncoming + 1 /\ ~payload
OutOfOrder(m, sn)          == sn < m.highestIncoming

(* A late packet keeps the offset its neighbours had, if the map still knows it. *)
LateFound(m, sn) == HasValue(m.ranges, sn) /\ sn - GetValue(m.ranges, sn) < m.lastSN

(* The outgoing number and timestamp. *)
TranslatedSN(m, sn) == IF OutOfOrder(m, sn) THEN sn - GetValue(m.ranges, sn) ELSE sn - m.snOffset
TranslatedTS(m, ts) == ts - m.tsOffset

(* The munger after an in-order packet. *)
InOrder(m, sn, ts, marker) ==
    [m EXCEPT !.highestIncoming = sn,
              !.secondLastSN = m.lastSN, !.lastSN = sn - m.snOffset,
              !.secondLastTS = m.lastTS, !.lastTS = TranslatedTS(m, ts),
              !.secondLastMarker = m.lastMarker, !.lastMarker = marker]

(* An empty packet in order is left out. *)
SkipPadding(m, sn) ==
    WithRanges([m EXCEPT !.highestIncoming = sn], ExcludeRange(m.ranges, MungerRanges, sn, sn + 1))

(* UpdateAndGetPaddingSnTs: num packets after the last one, on a frame boundary *)
(* unless the end of the frame is forced; lastTS is the timestamp of the last.  *)
CanPad(m, forceMarker) == m.lastMarker \/ forceMarker

(* Mutant: the timestamps of later packets do not follow. *)
PaddedSameTS(m, num, lastTS, secondLastTS, forceMarker) ==
    WithRanges([m EXCEPT !.lastSN = m.lastSN + num, !.secondLastSN = m.lastSN + num - 1,
                         !.lastTS = lastTS, !.secondLastTS = secondLastTS,
                         !.secondLastMarker = m.lastMarker,
                         !.lastMarker = m.lastMarker \/ forceMarker],
               DecValue(m.ranges, MungerRanges, m.highestIncoming, num))

(* Mutant: the numbers of later packets do not follow. *)
PaddedSameSN(m, num, lastTS, secondLastTS, forceMarker) ==
    WithRanges([m EXCEPT !.lastSN = m.lastSN + num, !.secondLastSN = m.lastSN + num - 1,
                         !.lastTS = lastTS, !.secondLastTS = secondLastTS,
                         !.tsOffset = @ - (lastTS - m.lastTS),
                         !.secondLastMarker = m.lastMarker,
                         !.lastMarker = m.lastMarker \/ forceMarker],
               m.ranges)

Padded(m, num, lastTS, secondLastTS, forceMarker) ==
    WithRanges([m EXCEPT !.lastSN = m.lastSN + num, !.secondLastSN = m.lastSN + num - 1,
                         !.lastTS = lastTS, !.secondLastTS = secondLastTS,
                         !.tsOffset = @ - (lastTS - m.lastTS),
                         !.secondLastMarker = m.lastMarker,
                         !.lastMarker = m.lastMarker \/ forceMarker],
               DecValue(m.ranges, MungerRanges, m.highestIncoming, num))

=============================================================================
