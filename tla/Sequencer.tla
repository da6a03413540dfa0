----------------------------- MODULE Sequencer -----------------------------
(***************************************************************************)
(* pkg/sfu/sequencer.go: which source packet went out under which sequence *)
(* number, for the newest numbers, so that a NACK can be answered. Packets *)
(* are kept in a ring; ranges of padding do not use up its slots. Every    *)
(* operator is one method, which holds the sequencer's lock throughout.    *)
(* The model is the sparse sequencer of a video track. The limits on       *)
(* repeated NACKs (nacked, lastNack) and the lookup for probing, which     *)
(* only reads, are left out.                                               *)
(***************************************************************************)
EXTENDS RangeMap

CONSTANTS
    Slots,         \* size of the ring (MaxTrack in the code)
    SNModulus      \* 2^16 in the code

ASSUME SequencerAssumption == /\ Slots \in Nat \ {0}
                              /\ SNModulus \in Nat
                              /\ 2 * Slots <= SNModulus

SequencerRanges == (Slots + 1) \div 2

NoMeta == [source |-> <<>>, target |-> 0]

NewSequencer == [initialized |-> FALSE, extStartSN |-> 0, extHighestSN |-> 0, snOffset |-> 0,
                 meta |-> [i \in 0 .. Slots - 1 |-> NoMeta], ranges |-> ClearAndResetValue(0, 0)]

(* On a stream restart everything is forgotten. *)
SequencerFlush(s) == NewSequencer

UpdateSNOffset(s) ==
    IF HasValue(s.ranges, s.extHighestSN + 1)
    THEN [s EXCEPT !.snOffset = GetValue(s.ranges, s.extHighestSN + 1)] ELSE s

Initialized(s, sn) ==
    IF s.initialized THEN s
    ELSE UpdateSNOffset([s EXCEPT !.initialized = TRUE, !.extStartSN = sn, !.extHighestSN = sn])

HighestAdjusted(s) == s.extHighestSN - s.snOffset

(* The position of a number among those that use slots. *)
Adjusted(s, sn) == sn - (IF sn < s.extHighestSN THEN GetValue(s.ranges, sn) ELSE s.snOffset)

CanRecord(s, sn) ==
    /\ sn >= s.extStartSN
    /\ sn < s.extHighestSN => HasValue(s.ranges, sn)
    /\ Adjusted(s, sn) - HighestAdjusted(s) > -Slots

(* push records a packet; the slots of the numbers it skips become invalid. *)
SequencerPush(s0, sn, source) ==
    LET s       == Initialized(s0, sn)
        at      == Adjusted(s, sn)
        skipped == {a % Slots : a \in HighestAdjusted(s) + 1 .. at - 1}
    IN
    IF ~CanRecord(s, sn) THEN s
    ELSE [s EXCEPT !.meta = [i \in 0 .. Slots - 1 |->
                                IF i = at % Slots THEN [source |-> source, target |-> sn % SNModulus]
                                ELSE IF i \in skipped THEN NoMeta ELSE s.meta[i]],
                   !.extHighestSN = IF sn > s.extHighestSN THEN sn ELSE s.extHighestSN]

(* The slots pushPadding invalidates when it comes after a higher number. *)
LateSlots(s, first, last) ==
    {(sn - GetValue(s.ranges, sn)) % Slots :
        sn \in {n \in first .. last : /\ n < s.extHighestSN
                                      /\ n - s.extHighestSN >= -Slots
                                      /\ HasValue(s.ranges, n)}}

(* Mutant: the offset of the numbers after the padding is not taken over. *)
PushPaddingSameOffset(s, first, last) ==
    IF ~s.initialized THEN s
    ELSE IF first <= s.extHighestSN
         THEN [s EXCEPT !.meta = [i \in 0 .. Slots - 1 |->
                                     IF i \in LateSlots(s, first, last) THEN NoMeta ELSE s.meta[i]]]
         ELSE IF CanExclude(s.ranges, first)
              THEN [s EXCEPT
                     !.ranges = ExcludeRange(s.ranges, SequencerRanges, first, last + 1),
                     !.extHighestSN = last]
              ELSE s

(* pushPadding takes the numbers first .. last out of the count. *)
SequencerPushPadding(s, first, last) ==
    IF ~s.initialized THEN s
    ELSE IF first <= s.extHighestSN
         THEN [s EXCEPT !.meta = [i \in 0 .. Slots - 1 |->
                                     IF i \in LateSlots(s, first, last) THEN NoMeta ELSE s.meta[i]]]
         ELSE IF CanExclude(s.ranges, first)
              THEN UpdateSNOffset([s EXCEPT
                     !.ranges = ExcludeRange(s.ranges, SequencerRanges, first, last + 1),
                     !.extHighestSN = last])
              ELSE s

(* The slot of a number that is recent enough. *)
SlotOf(s, sn)   == (sn - GetValue(s.ranges, sn)) % Slots
IsRecent(s, sn) == /\ HasValue(s.ranges, sn)
                   /\ HighestAdjusted(s) - (sn - GetValue(s.ranges, sn)) \in 0 .. Slots - 1

(* getExtPacketMetas for one NACKed number: it is extended by the highest one. *)
Extended(s, sn) ==
    LET top == s.extHighestSN - (s.extHighestSN % SNModulus) IN
    IF sn > s.extHighestSN % SNModulus THEN top + sn - SNModulus ELSE top + sn

Behind(s, sn) == ((s.extHighestSN % SNModulus) - sn) % SNModulus

(* Mutant: the slot is trusted to hold the number. *)
ExtPacketMetaUnchecked(s, sn) ==
    IF /\ s.initialized /\ Behind(s, sn) <= SNModulus \div 2
       /\ IsRecent(s, Extended(s, sn))
    THEN s.meta[SlotOf(s, Extended(s, sn))] ELSE NoMeta

ExtPacketMeta(s, sn) ==
    IF /\ s.initialized /\ Behind(s, sn) <= SNModulus \div 2
       /\ IsRecent(s, Extended(s, sn))
       /\ s.meta[SlotOf(s, Extended(s, sn))].target = sn
    THEN s.meta[SlotOf(s, Extended(s, sn))] ELSE NoMeta

=============================================================================
