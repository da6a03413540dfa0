------------------------------ MODULE RangeMap ------------------------------
(***************************************************************************)
(* pkg/sfu/utils/rangemap.go: a bounded list of ranges of keys, each with  *)
(* a value. The last range is open; keys between two ranges are excluded;  *)
(* keys below the first range are too old. The RTP munger and the          *)
(* sequencer keep the sequence number offset of every packet in one.       *)
(*                                                                         *)
(* Keys and values are extended (64 bit) numbers, far from their limits;   *)
(* an offset may be negative where the code wraps.                         *)
(***************************************************************************)
EXTENDS Integers, Sequences

(* The open range has no end; the code stores 0. *)
OpenRange(start, value) == [start |-> start, end |-> 0, value |-> value]

Ranges == Seq([start : Int, end : Int, value : Int])

ClearAndResetValue(start, value) == <<OpenRange(start, value)>>

Open(rs) == rs[Len(rs)]

(* All but the newest size closed ranges are forgotten. *)
Prune(rs, size) ==
    IF Len(rs) > size + 1 THEN SubSeq(rs, Len(rs) - size, Len(rs)) ELSE rs

(* The open range ends at last and a new one begins. *)
CloseAt(rs, size, last, start, value) ==
    Prune(Append([rs EXCEPT ![Len(rs)].end = last], OpenRange(start, value)), size)

(* From end + 1 on the value is dec smaller. *)
DecValue(rs, size, end, dec) ==
    IF Open(rs).start > end
    THEN [rs EXCEPT ![Len(rs)].value = @ - dec]
    ELSE CloseAt(rs, size, end, end + 1, Open(rs).value - dec)

(* Only keys of the open range can be excluded. *)
CanExclude(rs, start) == Open(rs).start <= start

(* The keys from start up to, but not including, end are excluded. *)
ExcludeRange(rs, size, start, end) ==
    LET value == Open(rs).value + (end - start) IN
    IF ~CanExclude(rs, start) THEN rs
    ELSE IF Open(rs).start = start
         THEN [rs EXCEPT ![Len(rs)].start = end, ![Len(rs)].value = value]
         ELSE CloseAt(rs, size, start - 1, end, value)

ClosedAround(rs, key) == {i \in 1 .. Len(rs) - 1 : rs[i].start <= key /\ key <= rs[i].end}

(* GetValue returns a value, or an error for an excluded or too old key. *)
HasValue(rs, key) == key >= Open(rs).start \/ ClosedAround(rs, key) # {}

GetValue(rs, key) ==
    IF key >= Open(rs).start THEN Open(rs).value
    ELSE rs[CHOOSE i \in ClosedAround(rs, key) : TRUE].value

=============================================================================
