----------------------- MODULE DownTrackPacketsProofs -----------------------
(***************************************************************************)
(* Proofs about DownTrackPackets: the numbers and timestamps a DownTrack   *)
(* gives to its packets, and what its sequencer finds for a NACK, for      *)
(* every size of the range map and of the ring, every stream and any       *)
(* number of paddings, mutes, switches and restarts.                       *)
(***************************************************************************)
EXTENDS DownTrackPackets, TLAPS, SequenceTheorems

-----------------------------------------------------------------------------
(* The range map.                                                           *)

(* The ranges are in order, and so are the outgoing numbers of their keys. *)
RangesOK(rs) ==
    /\ rs \in Ranges /\ rs # <<>>
    /\ \A i \in 1 .. Len(rs) - 1 : rs[i].start <= rs[i].end
    /\ \A i, j \in 1 .. Len(rs) : i < j =>
          /\ rs[i].end < rs[j].start
          /\ rs[i].end - rs[i].value < rs[j].start - rs[j].value

(* The outgoing number of a key, and the first one the map knows. *)
Num(rs, k) == k - GetValue(rs, k)
First(rs)  == rs[1].start - rs[1].value

(* What happens to the keys up to last when the map changes behind them: they *)
(* keep their numbers or, if the map is full, the oldest are forgotten.       *)
Kept(rs, new, size, last) ==
    /\ \A k \in Int : k <= last /\ HasValue(new, k)
                        => HasValue(rs, k) /\ GetValue(new, k) = GetValue(rs, k)
    /\ \A k \in Int : k <= last /\ HasValue(rs, k)
                        => HasValue(new, k) \/ (Len(new) = size + 1 /\ Num(rs, k) < First(new))
    /\ Len(rs) = size + 1 => Len(new) = size + 1
    /\ First(rs) <= First(new)

(* The map after a change of its open range: it now begins at start, and keys *)
(* between last and start are excluded.                                       *)
Moved(rs, new, size, last, start, value) ==
    /\ RangesOK(new) /\ Len(new) <= size + 1
    /\ Open(new).start = start /\ Open(new).value = value
    /\ Kept(rs, new, size, last)
    /\ \A k \in Int : last < k /\ k < start => ~HasValue(new, k)

(* The ends and values of the ranges are numbers; the open range is the last. *)
LEMMA OpenIs ==
    ASSUME NEW rs, RangesOK(rs)
    PROVE  /\ Len(rs) \in Nat /\ Len(rs) >= 1
           /\ Open(rs) = rs[Len(rs)]
           /\ Open(rs).start \in Int /\ Open(rs).value \in Int
           /\ \A i \in 1 .. Len(rs) : rs[i].start \in Int /\ rs[i].end \in Int /\ rs[i].value \in Int
<1> DEFINE R == [start : Int, end : Int, value : Int]
<1>1. rs \in Seq(R) /\ rs # <<>>
  BY DEF RangesOK, Ranges
<1>2. \A x \in R : x.start \in Int /\ x.end \in Int /\ x.value \in Int
  OBVIOUS
<1> HIDE DEF R
<1>3. Len(rs) \in Nat /\ Len(rs) >= 1 /\ \A i \in 1 .. Len(rs) : rs[i] \in R
  BY <1>1, EmptySeq, ElementOfSeq
<1>4. Len(rs) \in 1 .. Len(rs)
  BY <1>3
<1> QED BY <1>2, <1>3, <1>4 DEF Open

(* Two ranges in order. *)
LEMMA Ordered ==
    ASSUME NEW rs, RangesOK(rs), NEW i \in 1 .. Len(rs), NEW j \in 1 .. Len(rs), i < j
    PROVE  /\ rs[i].start <= rs[i].end
           /\ rs[i].end < rs[j].start
           /\ rs[i].end - rs[i].value < rs[j].start - rs[j].value
<1>1. rs[i].end < rs[j].start /\ rs[i].end - rs[i].value < rs[j].start - rs[j].value
  BY DEF RangesOK
<1>2. i \in 1 .. Len(rs) - 1
  BY OpenIs
<1> QED BY <1>1, <1>2 DEF RangesOK

(* A closed range around a key gives its value. *)
LEMMA ClosedValue ==
    ASSUME NEW rs, RangesOK(rs), NEW k \in Int, NEW i \in 1 .. Len(rs) - 1,
           rs[i].start <= k, k <= rs[i].end
    PROVE  HasValue(rs, k) /\ GetValue(rs, k) = rs[i].value /\ k < Open(rs).start
<1>0. /\ Len(rs) \in Nat /\ Len(rs) >= 1 /\ Open(rs) = rs[Len(rs)]
      /\ \A j \in 1 .. Len(rs) : rs[j].start \in Int /\ rs[j].end \in Int /\ rs[j].value \in Int
  BY OpenIs
<1>1. k < Open(rs).start
  <2>1. rs[i].end < rs[Len(rs)].start
    BY <1>0, Ordered
  <2> QED BY <1>0, <2>1
<1>2. i \in ClosedAround(rs, k)
  BY DEF ClosedAround
<1>3. \A j \in ClosedAround(rs, k) : j = i
  <2> SUFFICES ASSUME NEW j \in ClosedAround(rs, k), j # i PROVE FALSE
    OBVIOUS
  <2>1. j \in 1 .. Len(rs) - 1 /\ rs[j].start <= k /\ k <= rs[j].end
    BY DEF ClosedAround
  <2>2. i < j \/ j < i
    BY <1>0, <2>1
  <2>a. i \in 1 .. Len(rs) /\ j \in 1 .. Len(rs)
    BY <1>0, <2>1
  <2>3. CASE i < j
    <3>1. rs[i].end < rs[j].start
      BY <2>a, <2>3, Ordered
    <3> QED BY <1>0, <2>1, <3>1
  <2>4. CASE j < i
    <3>1. rs[j].end < rs[i].start
      BY <1>0, <2>1, <2>4, Ordered
    <3> QED BY <1>0, <2>1, <3>1
  <2> QED BY <2>2, <2>3, <2>4
<1>4. (CHOOSE j \in ClosedAround(rs, k) : TRUE) = i
  BY <1>2, <1>3
<1>5. ~(k >= Open(rs).start)
  BY <1>0, <1>1
<1>6. GetValue(rs, k) = rs[i].value
  BY <1>4, <1>5 DEF GetValue
<1> QED BY <1>1, <1>2, <1>6 DEF HasValue

(* A key with a value is in the open range or in exactly one closed one. *)
LEMMA ValueCases ==
    ASSUME NEW rs, RangesOK(rs), NEW k \in Int, HasValue(rs, k)
    PROVE  \/ k >= Open(rs).start /\ GetValue(rs, k) = Open(rs).value
           \/ /\ k < Open(rs).start
              /\ \E i \in 1 .. Len(rs) - 1 :
                    rs[i].start <= k /\ k <= rs[i].end /\ GetValue(rs, k) = rs[i].value
<1>0. Open(rs).start \in Int
  BY OpenIs
<1>1. CASE k >= Open(rs).start
  BY <1>1 DEF GetValue
<1>2. CASE ~(k >= Open(rs).start)
  <2>1. PICK i \in ClosedAround(rs, k) : TRUE
    BY <1>2 DEF HasValue
  <2>2. i \in 1 .. Len(rs) - 1 /\ rs[i].start <= k /\ k <= rs[i].end
    BY <2>1 DEF ClosedAround
  <2>3. GetValue(rs, k) = rs[i].value
    BY <2>2, ClosedValue
  <2> QED BY <1>0, <1>2, <2>2, <2>3
<1> QED BY <1>1, <1>2

(* Values are numbers. *)
LEMMA ValueType ==
    ASSUME NEW rs, RangesOK(rs), NEW k \in Int, HasValue(rs, k)
    PROVE  GetValue(rs, k) \in Int /\ Num(rs, k) \in Int
<1>1. /\ Len(rs) \in Nat /\ Open(rs).start \in Int /\ Open(rs).value \in Int
      /\ \A i \in 1 .. Len(rs) : rs[i].start \in Int /\ rs[i].end \in Int /\ rs[i].value \in Int
  BY OpenIs
<1>2. GetValue(rs, k) \in Int
  BY <1>1, ValueCases
<1> QED BY <1>2 DEF Num

(* Later keys have larger numbers: no two keys share one. *)
LEMMA NumIncreases ==
    ASSUME NEW rs, RangesOK(rs), NEW k \in Int, NEW n \in Int, k < n,
           HasValue(rs, k), HasValue(rs, n)
    PROVE  Num(rs, k) < Num(rs, n)
<1>0. /\ Len(rs) \in Nat /\ Len(rs) >= 1 /\ Open(rs) = rs[Len(rs)]
      /\ \A i \in 1 .. Len(rs) : rs[i].start \in Int /\ rs[i].end \in Int /\ rs[i].value \in Int
  BY OpenIs
<1>1. CASE k >= Open(rs).start
  <2>1. n >= Open(rs).start
    BY <1>0, <1>1
  <2>2. GetValue(rs, k) = Open(rs).value /\ GetValue(rs, n) = Open(rs).value
    BY <1>1, <2>1 DEF GetValue
  <2> QED BY <1>0, <2>2 DEF Num
<1>2. CASE ~(k >= Open(rs).start)
  <2>1. PICK i \in 1 .. Len(rs) - 1 : rs[i].start <= k /\ k <= rs[i].end /\ GetValue(rs, k) = rs[i].value
    BY <1>2, ValueCases
  <2>2. PICK j \in 1 .. Len(rs) : /\ rs[j].start <= n /\ GetValue(rs, n) = rs[j].value
                                  /\ j = Len(rs) \/ n <= rs[j].end
    <3>1. CASE n >= Open(rs).start
      BY <1>0, <3>1 DEF GetValue
    <3>2. CASE ~(n >= Open(rs).start)
      <4>1. PICK j \in 1 .. Len(rs) - 1 : rs[j].start <= n /\ n <= rs[j].end /\ GetValue(rs, n) = rs[j].value
        BY <3>2, ValueCases
      <4> QED BY <1>0, <4>1
    <3> QED BY <3>1, <3>2
  <2>3. CASE i = j
    BY <1>0, <2>1, <2>2, <2>3 DEF Num
  <2>4. CASE i < j
    <3>0. i \in 1 .. Len(rs) /\ j \in 1 .. Len(rs)
      BY <1>0
    <3>1. rs[i].end - rs[i].value < rs[j].start - rs[j].value
      BY <2>4, <3>0, Ordered
    <3>2. /\ rs[i].end \in Int /\ rs[i].value \in Int
          /\ rs[j].start \in Int /\ rs[j].value \in Int
      BY <1>0, <3>0
    <3>a. \A e, v, t, w \in Int : e - v < t - w /\ k <= e /\ t <= n => k - v < n - w
      OBVIOUS
    <3>3. k - rs[i].value < n - rs[j].value
      BY <2>1, <2>2, <3>1, <3>2, <3>a, Zenon
    <3> QED BY <2>1, <2>2, <3>3 DEF Num
  <2>5. CASE j < i
    <3>1. rs[j].end < rs[i].start
      BY <1>0, <2>1, <2>2, <2>5, Ordered
    <3> QED BY <1>0, <2>1, <2>2, <2>5, <3>1
  <2> QED BY <1>0, <2>1, <2>2, <2>3, <2>4, <2>5
<1> QED BY <1>1, <1>2

(* Below the open range the numbers are below its first. *)
LEMMA NumBelowOpen ==
    ASSUME NEW rs, RangesOK(rs), NEW k \in Int, HasValue(rs, k), k < Open(rs).start
    PROVE  Num(rs, k) < Open(rs).start - Open(rs).value
<1>0. /\ Len(rs) \in Nat /\ Len(rs) >= 1 /\ Open(rs) = rs[Len(rs)]
      /\ \A i \in 1 .. Len(rs) : rs[i].start \in Int /\ rs[i].end \in Int /\ rs[i].value \in Int
  BY OpenIs
<1>1. PICK i \in 1 .. Len(rs) - 1 : rs[i].start <= k /\ k <= rs[i].end /\ GetValue(rs, k) = rs[i].value
  BY <1>0, ValueCases
<1>2. rs[i].end - rs[i].value < Open(rs).start - Open(rs).value
  BY <1>0, <1>1, Ordered
<1>3. /\ rs[i].end \in Int /\ rs[i].value \in Int
      /\ Open(rs).start \in Int /\ Open(rs).value \in Int
  BY <1>0, <1>1
<1>4. k - rs[i].value < Open(rs).start - Open(rs).value
  BY <1>1, <1>2, <1>3
<1> QED BY <1>1, <1>4 DEF Num

(* A record of the right fields. *)
LEMMA RangeType ==
    ASSUME NEW rs, RangesOK(rs), NEW last \in Int, NEW start \in Int, NEW value \in Int
    PROVE  /\ OpenRange(start, value) \in [start : Int, end : Int, value : Int]
           /\ [rs[Len(rs)] EXCEPT !.end = last] \in [start : Int, end : Int, value : Int]
           /\ [rs[Len(rs)] EXCEPT !.end = last] = [start |-> Open(rs).start, end |-> last, value |-> Open(rs).value]
           /\ \A i \in 1 .. Len(rs) : rs[i] \in [start : Int, end : Int, value : Int]
<1> DEFINE R == [start : Int, end : Int, value : Int]
<1>1. rs \in Seq(R) /\ rs # <<>>
  BY DEF RangesOK, Ranges
<1>2. OpenRange(start, value) \in R
  BY DEF OpenRange
<1>3. \A x \in R : /\ [x EXCEPT !.end = last] \in R
                   /\ [x EXCEPT !.end = last] = [start |-> x.start, end |-> last, value |-> x.value]
  OBVIOUS
<1> HIDE DEF R
<1>4. Len(rs) \in Nat /\ Len(rs) >= 1 /\ \A i \in 1 .. Len(rs) : rs[i] \in R
  BY <1>1, EmptySeq, ElementOfSeq
<1>5. rs[Len(rs)] \in R
  BY <1>4
<1> QED BY <1>2, <1>3, <1>4, <1>5 DEF Open, R

(* The map after its open range was closed, element by element; the oldest    *)
(* range is dropped when there are too many.                                  *)
Closed(rs, new, drop, last, start, value) ==
    /\ new \in Ranges /\ new # <<>>
    /\ Len(new) = Len(rs) + 1 - drop
    /\ new[Len(new)] = OpenRange(start, value)
    /\ new[Len(new) - 1] = [start |-> Open(rs).start, end |-> last, value |-> Open(rs).value]
    /\ \A i \in 1 .. Len(new) - 2 : new[i] = rs[i + drop]

LEMMA CloseAtIs ==
    ASSUME NEW rs, RangesOK(rs), NEW size \in Nat \ {0},
           NEW last \in Int, NEW start \in Int, NEW value \in Int,
           NEW drop \in Nat,
           Len(rs) > size => drop = Len(rs) - size, Len(rs) <= size => drop = 0
    PROVE  Closed(rs, CloseAt(rs, size, last, start, value), drop, last, start, value)
<1>0. SUFFICES ASSUME NEW new, new = CloseAt(rs, size, last, start, value)
               PROVE  Closed(rs, new, drop, last, start, value)
  OBVIOUS
<1> DEFINE R      == [start : Int, end : Int, value : Int]
           top    == OpenRange(start, value)
           closed == [rs EXCEPT ![Len(rs)].end = last]
           all    == Append(closed, top)
           mid    == [start |-> Open(rs).start, end |-> last, value |-> Open(rs).value]
<1>1. rs \in Seq(R) /\ rs # <<>>
  BY DEF RangesOK, Ranges
<1>2. top \in R /\ mid \in R /\ [rs[Len(rs)] EXCEPT !.end = last] = mid
  BY RangeType
<1>3. closed = [rs EXCEPT ![Len(rs)] = mid]
  BY <1>2
<1>4. new = Prune(all, size)
  BY <1>0 DEF CloseAt
<1> HIDE DEF R, top, mid, closed
<1>5. Len(rs) \in Nat /\ Len(rs) >= 1
  BY <1>1, EmptySeq
<1>6. /\ closed \in Seq(R) /\ Len(closed) = Len(rs)
      /\ \A i \in 1 .. Len(rs) : closed[i] = IF i = Len(rs) THEN mid ELSE rs[i]
  BY <1>1, <1>2, <1>3, <1>5
<1>7. /\ all \in Seq(R) /\ Len(all) = Len(rs) + 1 /\ all[Len(rs) + 1] = top
      /\ \A i \in 1 .. Len(rs) : all[i] = IF i = Len(rs) THEN mid ELSE rs[i]
  BY <1>2, <1>5, <1>6, AppendProperties
<1> HIDE DEF all
<1>8. CASE Len(rs) > size
  <2>1. drop = Len(rs) - size /\ drop \in Nat /\ Len(all) > size + 1
    BY <1>5, <1>7, <1>8
  <2>2. new = SubSeq(all, Len(all) - size, Len(all))
    BY <1>4, <2>1 DEF Prune
  <2>3. Len(all) - size = drop + 1 /\ drop + 1 \in 1 .. Len(all) /\ Len(all) \in 0 .. Len(all)
    BY <1>5, <1>7, <2>1
  <2>4. /\ new \in Seq(R) /\ Len(new) = Len(all) - drop
        /\ \A i \in 1 .. Len(all) - drop : new[i] = all[drop + i]
    <3> DEFINE m == drop + 1
               n == Len(all)
    <3>1. m \in Int /\ n \in Int /\ m <= n /\ n - m + 1 = Len(all) - drop /\ m >= 1
      BY <1>5, <1>7, <2>1, <2>3
    <3>2. \A i \in m .. n : all[i] \in R
      BY <1>7, <3>1, ElementOfSeq
    <3>3. new = SubSeq(all, m, n)
      BY <2>2, <2>3
    <3>4. \A i \in 1 .. Len(all) - drop : m + i - 1 = drop + i
      BY <1>5, <1>7, <2>1
    <3> HIDE DEF m, n
    <3>5. /\ SubSeq(all, m, n) \in Seq(R)
          /\ Len(SubSeq(all, m, n)) = n - m + 1
          /\ \A i \in 1 .. n - m + 1 : SubSeq(all, m, n)[i] = all[m + i - 1]
      BY <3>1, <3>2, SubSeqProperties
    <3> QED BY <3>1, <3>3, <3>4, <3>5
  <2>5. Len(new) = size + 1 /\ Len(all) = Len(rs) + 1
    BY <1>5, <1>7, <2>1, <2>4
  <2>a. \A i \in 1 .. size + 1 : new[i] = all[drop + i]
    BY <2>4, <2>5
  <2>6. new[Len(new)] = top /\ new[Len(new) - 1] = mid
    <3>1. size + 1 \in 1 .. size + 1 /\ size \in 1 .. size + 1
      OBVIOUS
    <3>2. new[size + 1] = all[drop + (size + 1)] /\ new[size] = all[drop + size]
      BY <2>a, <3>1
    <3>3. drop + (size + 1) = Len(rs) + 1 /\ drop + size = Len(rs) /\ Len(new) - 1 = size
      BY <1>5, <2>1, <2>5
    <3>4. all[Len(rs)] = mid
      BY <1>5, <1>7
    <3>5. new[size + 1] = top /\ new[size] = mid
      BY <1>7, <3>2, <3>3, <3>4
    <3> QED BY <2>5, <3>3, <3>5
  <2>7. \A i \in 1 .. Len(new) - 2 : new[i] = rs[i + drop]
    <3> SUFFICES ASSUME NEW i \in 1 .. Len(new) - 2 PROVE new[i] = rs[i + drop]
      OBVIOUS
    <3>1. i \in 1 .. size + 1 /\ drop + i \in 1 .. Len(rs) /\ drop + i # Len(rs) /\ drop + i = i + drop
      BY <1>5, <2>1, <2>5
    <3> QED BY <1>7, <2>a, <3>1
  <2>8. new # <<>>
    BY <2>5
  <2>9. Len(new) = Len(rs) + 1 - drop
    BY <1>5, <2>1, <2>5
  <2> QED BY <2>4, <2>6, <2>7, <2>8, <2>9 DEF R, top, mid, Ranges, Closed
<1>9. CASE ~(Len(rs) > size)
  <2>1. drop = 0 /\ ~(Len(all) > size + 1)
    BY <1>5, <1>7, <1>9
  <2>2. new = all
    BY <1>4, <2>1 DEF Prune
  <2>3. Len(new) = Len(rs) + 1 /\ new[Len(new)] = top /\ new[Len(new) - 1] = mid
    BY <1>5, <1>7, <2>2
  <2>4. \A i \in 1 .. Len(new) - 2 : new[i] = rs[i + drop]
    BY <1>5, <1>7, <2>1, <2>2, <2>3
  <2>5. new \in Seq(R) /\ new # <<>>
    BY <1>5, <1>7, <2>2, EmptySeq
  <2>6. Len(new) = Len(rs) + 1 - drop
    BY <1>5, <2>1, <2>3
  <2> QED BY <2>3, <2>4, <2>5, <2>6 DEF R, top, mid, Ranges, Closed
<1> QED BY <1>8, <1>9

(* A map whose ranges are in order, given element by element. *)
LEMMA RangesOKIntro ==
    ASSUME NEW rs \in Ranges, rs # <<>>,
           \A i \in 1 .. Len(rs) - 1 : rs[i].start <= rs[i].end,
           \A i, j \in 1 .. Len(rs) : i < j =>
              rs[i].end < rs[j].start /\ rs[i].end - rs[i].value < rs[j].start - rs[j].value
    PROVE  RangesOK(rs)
BY DEF RangesOK

(* Closing the open range: order is kept, keys up to last keep their numbers. *)
LEMMA CloseAtKept ==
    ASSUME NEW rs, RangesOK(rs), NEW size \in Nat \ {0}, Len(rs) <= size + 1,
           NEW last \in Int, NEW start \in Int, NEW value \in Int,
           Open(rs).start <= last, last < start, last - Open(rs).value < start - value
    PROVE  Moved(rs, CloseAt(rs, size, last, start, value), size, last, start, value)
<1> DEFINE new  == CloseAt(rs, size, last, start, value)
           drop == IF Len(rs) > size THEN Len(rs) - size ELSE 0
           L    == Len(rs)
           N    == Len(new)
<1>0. /\ L \in Nat /\ L >= 1 /\ Open(rs) = rs[L]
      /\ Open(rs).start \in Int /\ Open(rs).value \in Int
      /\ \A i \in 1 .. L : rs[i].start \in Int /\ rs[i].end \in Int /\ rs[i].value \in Int
  BY OpenIs
<1>1. drop \in Nat /\ (L > size => drop = L - size) /\ (~(L > size) => drop = 0)
  BY <1>0
<1> HIDE DEF drop
<1>2. /\ new \in Ranges /\ new # <<>> /\ N = L + 1 - drop
      /\ new[N] = OpenRange(start, value)
      /\ new[N - 1] = [start |-> Open(rs).start, end |-> last, value |-> Open(rs).value]
      /\ \A i \in 1 .. N - 2 : new[i] = rs[i + drop]
  <2>1. (Len(rs) > size => drop = Len(rs) - size) /\ (Len(rs) <= size => drop = 0)
    BY <1>0, <1>1
  <2>2. Closed(rs, new, drop, last, start, value)
    BY <1>1, <2>1, CloseAtIs
  <2> HIDE DEF new
  <2> QED BY <2>2 DEF Closed
<1> HIDE DEF new, N
<1>3. /\ N \in Nat /\ N >= 2 /\ N <= size + 1 /\ drop \in 0 .. 1 /\ (drop = 1 => N = size + 1)
      /\ L = N - 1 + drop
  <2>1. N = L + 1 - drop
    BY <1>2
  <2>2. CASE L > size
    <3>1. drop = 1 /\ L = size + 1
      BY <1>0, <1>1, <2>2
    <3> QED BY <1>0, <2>1, <3>1
  <2>3. CASE ~(L > size)
    <3>1. drop = 0
      BY <1>1, <2>3
    <3> QED BY <1>0, <2>1, <2>3, <3>1
  <2> QED BY <2>2, <2>3
<1>4. /\ new[N].start = start /\ new[N].value = value
      /\ new[N - 1].start = rs[L].start /\ new[N - 1].end = last /\ new[N - 1].value = rs[L].value
  BY <1>0, <1>2 DEF OpenRange
<1>5. \A i \in 1 .. N - 1 : /\ i + drop \in 1 .. L
                            /\ new[i].start = rs[i + drop].start /\ new[i].value = rs[i + drop].value
                            /\ new[i].end = IF i = N - 1 THEN last ELSE rs[i + drop].end
  <2> SUFFICES ASSUME NEW i \in 1 .. N - 1
               PROVE  /\ i + drop \in 1 .. L
                      /\ new[i].start = rs[i + drop].start /\ new[i].value = rs[i + drop].value
                      /\ new[i].end = IF i = N - 1 THEN last ELSE rs[i + drop].end
    OBVIOUS
  <2>1. i + drop \in 1 .. L
    BY <1>1, <1>3
  <2>2. CASE i = N - 1
    <3>1. i + drop = L
      BY <1>3, <2>2
    <3> QED BY <1>4, <2>1, <2>2, <3>1
  <2>3. CASE i # N - 1
    <3>1. i \in 1 .. N - 2
      BY <1>3, <2>3
    <3> QED BY <1>2, <2>1, <2>3, <3>1
  <2> QED BY <2>2, <2>3
<1>6. \A i \in 1 .. L - 1 : /\ rs[i].start <= rs[i].end /\ rs[i].end < rs[L].start
                            /\ rs[i].end - rs[i].value < rs[L].start - rs[L].value
  <2> SUFFICES ASSUME NEW i \in 1 .. L - 1
               PROVE  /\ rs[i].start <= rs[i].end /\ rs[i].end < rs[L].start
                      /\ rs[i].end - rs[i].value < rs[L].start - rs[L].value
    OBVIOUS
  <2>1. i \in 1 .. L /\ L \in 1 .. L /\ i < L
    BY <1>0
  <2> QED BY <2>1, Ordered
<1>7. \A i \in 1 .. N - 1 : new[i].start <= new[i].end
  <2> SUFFICES ASSUME NEW i \in 1 .. N - 1 PROVE new[i].start <= new[i].end
    OBVIOUS
  <2>1. CASE i = N - 1
    BY <1>0, <1>4, <2>1
  <2>2. CASE i # N - 1
    <3>1. i + drop \in 1 .. L - 1
      BY <1>3, <2>2
    <3> QED BY <1>5, <1>6, <2>2, <3>1
  <2> QED BY <2>1, <2>2
<1>8. \A i, j \in 1 .. N : i < j =>
         new[i].end < new[j].start /\ new[i].end - new[i].value < new[j].start - new[j].value
  <2> SUFFICES ASSUME NEW i \in 1 .. N, NEW j \in 1 .. N, i < j
               PROVE  new[i].end < new[j].start /\ new[i].end - new[i].value < new[j].start - new[j].value
    OBVIOUS
  <2>0. i \in 1 .. N - 1
    BY <1>3
  <2>1. CASE i = N - 1
    <3>1. j = N
      BY <1>3, <2>1
    <3> QED BY <1>0, <1>4, <2>1, <3>1
  <2>2. CASE i # N - 1
    <3> DEFINE a == i + drop
               b == j + drop
    <3>1. a \in 1 .. L - 1 /\ a \in 1 .. L /\ new[i].end = rs[a].end /\ new[i].value = rs[a].value
      BY <1>3, <1>5, <2>0, <2>2
    <3>2. rs[a].end \in Int /\ rs[a].value \in Int /\ rs[L].start \in Int /\ rs[L].value \in Int
      BY <1>0, <3>1
    <3>3. CASE j = N
      <4>1. rs[a].end < rs[L].start /\ rs[a].end - rs[a].value < rs[L].start - rs[L].value
        BY <1>6, <3>1
      <4>2. rs[L].start <= last /\ last < start /\ last - rs[L].value < start - value
        BY <1>0
      <4>3. \A e, v, s, w \in Int : (e < s /\ e - v < s - w /\ s <= last /\ last - w < start - value)
                                    => (e < start /\ e - v < start - value)
        BY <4>2
      <4>4. rs[a].end < start /\ rs[a].end - rs[a].value < start - value
        BY <3>2, <4>1, <4>2, <4>3, Zenon
      <4> QED BY <1>4, <3>1, <3>3, <4>4
    <3>4. CASE j # N
      <4>1. j \in 1 .. N - 1 /\ a < b
        BY <1>3, <3>4
      <4>2. b \in 1 .. L /\ new[j].start = rs[b].start /\ new[j].value = rs[b].value
        BY <1>5, <4>1
      <4> HIDE DEF a, b
      <4>3. rs[a].end < rs[b].start /\ rs[a].end - rs[a].value < rs[b].start - rs[b].value
        BY <3>1, <4>1, <4>2, Ordered
      <4> QED BY <3>1, <4>2, <4>3
    <3> QED BY <3>3, <3>4
  <2> QED BY <2>1, <2>2
<1>9. RangesOK(new)
  BY <1>2, <1>7, <1>8, RangesOKIntro DEF N
<1>10. Open(new).start = start /\ Open(new).value = value
  BY <1>4 DEF Open, N
<1>11. ASSUME NEW k \in Int, k <= last, HasValue(new, k)
       PROVE  HasValue(rs, k) /\ GetValue(new, k) = GetValue(rs, k)
  <2>1. PICK i \in 1 .. N - 1 : new[i].start <= k /\ k <= new[i].end /\ GetValue(new, k) = new[i].value
    BY <1>9, <1>10, <1>11, ValueCases DEF N
  <2>2. /\ i + drop \in 1 .. L /\ rs[i + drop].start <= k /\ GetValue(new, k) = rs[i + drop].value
        /\ i # N - 1 => k <= rs[i + drop].end
    BY <1>5, <2>1
  <2>3. CASE i = N - 1
    <3>1. i + drop = L
      BY <1>3, <2>3
    <3>2. k >= Open(rs).start /\ GetValue(new, k) = Open(rs).value
      BY <1>0, <2>2, <3>1
    <3> QED BY <3>2 DEF HasValue, GetValue
  <2>4. CASE i # N - 1
    <3>1. i + drop \in 1 .. L - 1
      BY <1>3, <2>1, <2>4
    <3> QED BY <2>2, <2>4, <3>1, ClosedValue
  <2> QED BY <2>3, <2>4
<1>12. drop = 1 => \A i \in 1 .. drop : rs[i].end - rs[i].value < First(new)
  <2> SUFFICES ASSUME drop = 1 PROVE rs[1].end - rs[1].value < First(new)
    BY <1>1
  <2>1. 1 \in 1 .. N - 1 /\ 1 + drop = 2
    BY <1>3
  <2>2. 2 \in 1 .. L /\ new[1].start = rs[2].start /\ new[1].value = rs[2].value
    BY <1>5, <2>1
  <2>3. 1 \in 1 .. L
    BY <2>2, <1>0
  <2>4. rs[1].end - rs[1].value < rs[2].start - rs[2].value
    BY <2>2, <2>3, Ordered
  <2> QED BY <2>2, <2>4 DEF First
<1>13. ASSUME NEW k \in Int, k <= last, HasValue(rs, k)
       PROVE  HasValue(new, k) \/ (N = size + 1 /\ Num(rs, k) < First(new))
  <2>1. CASE k >= Open(rs).start
    <3>1. N - 1 \in 1 .. N - 1 /\ new[N - 1].start <= k /\ k <= new[N - 1].end
      BY <1>0, <1>3, <1>4, <1>13, <2>1
    <3> QED BY <1>9, <3>1, ClosedValue DEF N
  <2>2. CASE ~(k >= Open(rs).start)
    <3>1. PICK i \in 1 .. L - 1 : rs[i].start <= k /\ k <= rs[i].end /\ GetValue(rs, k) = rs[i].value
      BY <1>13, <2>2, ValueCases
    <3>2. CASE i > drop
      <4> DEFINE a == i - drop
      <4>1. a \in 1 .. N - 1 /\ a # N - 1 /\ a + drop = i
        BY <1>3, <3>1, <3>2
      <4>2. new[a].start = rs[i].start /\ new[a].end = rs[i].end
        BY <1>5, <4>1
      <4> HIDE DEF a
      <4> QED BY <1>9, <3>1, <4>1, <4>2, ClosedValue DEF N
    <3>3. CASE ~(i > drop)
      <4>1. drop = 1 /\ i = 1 /\ N = size + 1
        BY <1>3, <3>1, <3>3
      <4>2. rs[1].end - rs[1].value < First(new)
        BY <1>12, <4>1
      <4>3. 1 \in 1 .. L /\ 2 \in 1 .. N /\ 1 \in 1 .. N - 1
        BY <1>0, <1>3, <3>1, <4>1
      <4>4. 1 + drop \in 1 .. L /\ new[1].start = rs[1 + drop].start /\ new[1].value = rs[1 + drop].value
        BY <1>5, <4>3
      <4>5. First(new) \in Int
        BY <1>0, <4>4 DEF First
      <4>6. rs[1].end \in Int /\ rs[1].value \in Int
        BY <1>0, <4>3
      <4>7. k - rs[1].value < First(new)
        BY <3>1, <4>1, <4>2, <4>5, <4>6
      <4> QED BY <3>1, <4>1, <4>7 DEF Num
    <3> QED BY <3>2, <3>3
  <2> QED BY <2>1, <2>2
<1>14. (L = size + 1 => N = size + 1) /\ First(rs) <= First(new)
  <2>1. L = size + 1 => N = size + 1
    BY <1>1, <1>3
  <2>3. 1 \in 1 .. L /\ 1 \in 1 .. N - 1
    BY <1>0, <1>3
  <2>4. 1 + drop \in 1 .. L /\ new[1].start = rs[1 + drop].start /\ new[1].value = rs[1 + drop].value
    BY <1>5, <2>3
  <2>5. First(new) \in Int
    BY <1>0, <2>4 DEF First
  <2>6. rs[1].start \in Int /\ rs[1].end \in Int /\ rs[1].value \in Int
    BY <1>0, <2>3
  <2>7. CASE drop = 1
    <3>1. L >= 2
      BY <1>0, <1>3, <2>7
    <3>2. rs[1].end - rs[1].value < First(new) /\ rs[1].start <= rs[1].end
      BY <1>1, <1>6, <1>12, <2>7, <3>1
    <3> QED BY <2>1, <2>5, <2>6, <3>2 DEF First
  <2>8. CASE drop = 0
    <3>1. new[1].start = rs[1].start /\ new[1].value = rs[1].value
      BY <2>4, <2>8
    <3>2. First(new) = First(rs)
      BY <3>1 DEF First
    <3> QED BY <2>1, <2>5, <3>2
  <2> QED BY <1>3, <2>7, <2>8
<1>15. ASSUME NEW k \in Int, last < k, k < start, HasValue(new, k) PROVE FALSE
  <2>1. PICK i \in 1 .. N - 1 : new[i].start <= k /\ k <= new[i].end
    BY <1>9, <1>10, <1>15, ValueCases DEF N
  <2>2. CASE i = N - 1
    BY <1>4, <1>15, <2>1, <2>2
  <2>3. CASE i # N - 1
    <3>1. i \in 1 .. N /\ N - 1 \in 1 .. N /\ i < N - 1
      BY <1>3, <2>1, <2>3
    <3>2. new[i].end < new[N - 1].start
      BY <1>8, <3>1
    <3>3. i + drop \in 1 .. L /\ new[i].end = rs[i + drop].end
      BY <1>5, <2>1, <2>3
    <3>4. new[i].end \in Int
      BY <1>0, <3>3
    <3> QED BY <1>0, <1>4, <1>15, <2>1, <3>2, <3>4
  <2> QED BY <2>2, <2>3
<1>16. Kept(rs, new, size, last)
  BY <1>11, <1>13, <1>14 DEF Kept, N
<1> QED BY <1>3, <1>9, <1>10, <1>15, <1>16 DEF Moved, new, N

(* Changing the open range in place, before any of its keys was used. *)
LEMMA InPlaceKept ==
    ASSUME NEW rs, RangesOK(rs), NEW size \in Nat \ {0}, Len(rs) <= size + 1,
           NEW last \in Int, NEW start \in Int, NEW value \in Int,
           last + 1 = Open(rs).start, Open(rs).start <= start,
           Open(rs).start - Open(rs).value <= start - value,
           NEW new \in Ranges, Len(new) = Len(rs),
           \A i \in 1 .. Len(rs) - 1 : new[i] = rs[i],
           new[Len(rs)].start = start, new[Len(rs)].value = value
    PROVE  Moved(rs, new, size, last, start, value)
<1> DEFINE L == Len(rs)
<1>0. /\ L \in Nat /\ L >= 1 /\ Open(rs) = rs[L]
      /\ Open(rs).start \in Int /\ Open(rs).value \in Int
      /\ \A i \in 1 .. L : rs[i].start \in Int /\ rs[i].end \in Int /\ rs[i].value \in Int
  BY OpenIs
<1>1. new # <<>>
  BY <1>0, EmptySeq
<1>a. \A i \in 1 .. L - 1 : i \in 1 .. L /\ new[i] = rs[i]
  BY <1>0
<1>2. \A i \in 1 .. L - 1 : /\ rs[i].start <= rs[i].end /\ rs[i].end < rs[L].start
                            /\ rs[i].end - rs[i].value < rs[L].start - rs[L].value
  <2> SUFFICES ASSUME NEW i \in 1 .. L - 1
               PROVE  /\ rs[i].start <= rs[i].end /\ rs[i].end < rs[L].start
                      /\ rs[i].end - rs[i].value < rs[L].start - rs[L].value
    OBVIOUS
  <2>1. i \in 1 .. L /\ L \in 1 .. L /\ i < L
    BY <1>0
  <2> QED BY <2>1, Ordered
<1>3. \A i, j \in 1 .. L : i < j =>
         new[i].end < new[j].start /\ new[i].end - new[i].value < new[j].start - new[j].value
  <2> SUFFICES ASSUME NEW i \in 1 .. L, NEW j \in 1 .. L, i < j
               PROVE  new[i].end < new[j].start /\ new[i].end - new[i].value < new[j].start - new[j].value
    OBVIOUS
  <2>0. i \in 1 .. L - 1
    BY <1>0
  <2>1. i \in 1 .. L - 1 /\ new[i] = rs[i]
    BY <1>a, <2>0
  <2>2. CASE j = L
    <3>1. rs[i].end < rs[L].start /\ rs[i].end - rs[i].value < rs[L].start - rs[L].value
      BY <1>2, <2>1
    <3>2. rs[i].end \in Int /\ rs[i].value \in Int /\ rs[L].start \in Int /\ rs[L].value \in Int
      BY <1>0, <2>1
    <3>3. rs[L].start <= start /\ rs[L].start - rs[L].value <= start - value
      BY <1>0
    <3>a. \A e, v, t, w \in Int : e < t /\ e - v < t - w /\ t <= start /\ t - w <= start - value
                                   => e < start /\ e - v < start - value
      BY <1>0
    <3>4. rs[i].end < start /\ rs[i].end - rs[i].value < start - value
      BY <3>1, <3>2, <3>3, <3>a, Zenon
    <3> QED BY <2>1, <2>2, <3>4
  <2>3. CASE j # L
    <3>0. j \in 1 .. L - 1
      BY <1>0, <2>3
    <3>1. j \in 1 .. L - 1 /\ new[j] = rs[j]
      BY <1>a, <3>0
    <3> QED BY <2>1, <3>1, Ordered
  <2> QED BY <2>2, <2>3
<1>4. \A i \in 1 .. L - 1 : new[i].start <= new[i].end
  BY <1>2
<1>5. RangesOK(new)
  BY <1>1, <1>3, <1>4, RangesOKIntro
<1>6. Open(new).start = start /\ Open(new).value = value
  BY DEF Open
<1>7. ASSUME NEW k \in Int, HasValue(new, k), k < start
      PROVE  k < Open(rs).start /\ HasValue(rs, k) /\ GetValue(new, k) = GetValue(rs, k)
  <2>0. \/ k >= Open(new).start
        \/ \E i \in 1 .. Len(new) - 1 : new[i].start <= k /\ k <= new[i].end /\ GetValue(new, k) = new[i].value
    BY <1>5, <1>7, ValueCases
  <2>1. PICK i \in 1 .. L - 1 : new[i].start <= k /\ k <= new[i].end /\ GetValue(new, k) = new[i].value
    BY <1>6, <1>7, <2>0
  <2>2. rs[i].start <= k /\ k <= rs[i].end /\ GetValue(new, k) = rs[i].value
    BY <1>a, <2>1
  <2> QED BY <2>1, <2>2, ClosedValue
<1>8. ASSUME NEW k \in Int, HasValue(rs, k), k < Open(rs).start
      PROVE  HasValue(new, k)
  <2>0. \/ k >= Open(rs).start
        \/ \E i \in 1 .. Len(rs) - 1 : rs[i].start <= k /\ k <= rs[i].end
    BY <1>8, ValueCases
  <2>1. PICK i \in 1 .. L - 1 : rs[i].start <= k /\ k <= rs[i].end
    BY <1>0, <1>8, <2>0
  <2>2. new[i].start <= k /\ k <= new[i].end
    BY <1>a, <2>1
  <2> QED BY <1>5, <2>1, <2>2, ClosedValue
<1>9. First(rs) <= First(new)
  <2>1. CASE L = 1
    <3>1. First(rs) = Open(rs).start - Open(rs).value /\ First(new) = start - value
      BY <1>0, <2>1 DEF First
    <3> QED BY <3>1
  <2>2. CASE L # 1
    <3>1. 1 \in 1 .. L - 1 /\ 1 \in 1 .. L
      BY <1>0, <2>2
    <3>2. new[1] = rs[1] /\ First(rs) \in Int
      BY <1>0, <3>1 DEF First
    <3> QED BY <3>2 DEF First
  <2> QED BY <2>1, <2>2
<1>10. Kept(rs, new, size, last)
  <2>1. ASSUME NEW k \in Int, k <= last, HasValue(new, k)
        PROVE  HasValue(rs, k) /\ GetValue(new, k) = GetValue(rs, k)
    <3>1. k < start
      BY <1>0, <2>1
    <3> QED BY <1>7, <2>1, <3>1
  <2>2. ASSUME NEW k \in Int, k <= last, HasValue(rs, k)
        PROVE  HasValue(new, k)
    <3>1. k < Open(rs).start
      BY <1>0, <2>2
    <3> QED BY <1>8, <2>2, <3>1
  <2> QED BY <1>9, <2>1, <2>2 DEF Kept
<1>11. ASSUME NEW k \in Int, last < k, k < start, HasValue(new, k) PROVE FALSE
  BY <1>0, <1>7, <1>11
<1> QED BY <1>5, <1>6, <1>10, <1>11 DEF Moved

(* The open range is a record. *)
LEMMA OpenType ==
    ASSUME NEW rs, RangesOK(rs)
    PROVE  /\ rs[Len(rs)] \in [start : Int, end : Int, value : Int]
           /\ rs \in Seq([start : Int, end : Int, value : Int])
<1> DEFINE R == [start : Int, end : Int, value : Int]
<1>1. rs \in Seq(R) /\ rs # <<>>
  BY DEF RangesOK, Ranges
<1> HIDE DEF R
<1>2. Len(rs) \in 1 .. Len(rs)
  BY OpenIs
<1>3. rs[Len(rs)] \in R
  BY <1>1, <1>2, ElementOfSeq
<1> QED BY <1>1, <1>3 DEF R

(* DecValue after the last key used. *)
LEMMA DecValueMoved ==
    ASSUME NEW rs, RangesOK(rs), NEW size \in Nat \ {0}, Len(rs) <= size + 1,
           NEW end \in Int, NEW dec \in Nat, Open(rs).start <= end + 1
    PROVE  Moved(rs, DecValue(rs, size, end, dec), size, end, end + 1, Open(rs).value - dec)
<1>0. /\ Len(rs) \in Nat /\ Len(rs) >= 1 /\ Open(rs) = rs[Len(rs)]
      /\ Open(rs).start \in Int /\ Open(rs).value \in Int
  BY OpenIs
<1>1. CASE Open(rs).start > end
  <2> DEFINE R   == [start : Int, end : Int, value : Int]
             top == [rs[Len(rs)] EXCEPT !.value = @ - dec]
             new == [rs EXCEPT ![Len(rs)] = top]
             v   == Open(rs).value - dec
  <2>1. DecValue(rs, size, end, dec) = new
    BY <1>1 DEF DecValue
  <2>2. rs[Len(rs)] \in R /\ rs \in Seq(R)
    BY OpenType
  <2>a. \A x \in R : LET y == [x EXCEPT !.value = @ - dec] IN
                        y \in R /\ y.start = x.start /\ y.value = x.value - dec
    OBVIOUS
  <2>3. top \in R /\ top.start = Open(rs).start /\ top.value = v
    BY <1>0, <2>2, <2>a
  <2> HIDE DEF R, top, v
  <2>4. /\ new \in Seq(R) /\ Len(new) = Len(rs) /\ new[Len(rs)] = top
        /\ \A i \in 1 .. Len(rs) - 1 : new[i] = rs[i]
    BY <1>0, <2>2, <2>3
  <2>5. new \in Ranges
    BY <2>4 DEF R, Ranges
  <2> HIDE DEF new
  <2>6. end + 1 = Open(rs).start /\ v \in Int
    BY <1>0, <1>1 DEF v
  <2>7. Open(rs).start - Open(rs).value <= end + 1 - v
    BY <1>0, <2>6 DEF v
  <2>8. new[Len(rs)].start = end + 1 /\ new[Len(rs)].value = v
    BY <2>3, <2>4, <2>6
  <2>9. end + 1 \in Int /\ Open(rs).start <= end + 1
    BY <1>0
  <2>10. Moved(rs, new, size, end, end + 1, v)
    BY <2>4, <2>5, <2>6, <2>7, <2>8, <2>9, InPlaceKept
  <2> QED BY <2>1, <2>10 DEF v
<1>2. CASE ~(Open(rs).start > end)
  <2>1. DecValue(rs, size, end, dec) = CloseAt(rs, size, end, end + 1, Open(rs).value - dec)
    BY <1>2 DEF DecValue
  <2>2. /\ Open(rs).start <= end /\ end < end + 1 /\ end + 1 \in Int /\ Open(rs).value - dec \in Int
        /\ end - Open(rs).value < end + 1 - (Open(rs).value - dec)
    BY <1>0, <1>2
  <2> QED BY <2>1, <2>2, CloseAtKept
<1> QED BY <1>1, <1>2

(* ExcludeRange of keys of the open range. *)
LEMMA ExcludeMoved ==
    ASSUME NEW rs, RangesOK(rs), NEW size \in Nat \ {0}, Len(rs) <= size + 1,
           NEW start \in Int, NEW end \in Int, start < end, Open(rs).start <= start
    PROVE  Moved(rs, ExcludeRange(rs, size, start, end), size, start - 1, end, Open(rs).value + (end - start))
<1> DEFINE value == Open(rs).value + (end - start)
<1>0. /\ Len(rs) \in Nat /\ Len(rs) >= 1 /\ Open(rs) = rs[Len(rs)]
      /\ Open(rs).start \in Int /\ Open(rs).value \in Int /\ value \in Int /\ start - 1 \in Int
  BY OpenIs
<1>a. CanExclude(rs, start)
  BY DEF CanExclude
<1>1. CASE Open(rs).start = start
  <2> DEFINE R   == [start : Int, end : Int, value : Int]
             top == [rs[Len(rs)] EXCEPT !.start = end, !.value = value]
             new == [rs EXCEPT ![Len(rs)] = top]
  <2>2. rs[Len(rs)] \in R /\ rs \in Seq(R)
    BY OpenType
  <2>3. top \in R /\ top.start = end /\ top.value = value
    BY <1>0, <2>2
  <2>a. ExcludeRange(rs, size, start, end) = [rs EXCEPT ![Len(rs)].start = end, ![Len(rs)].value = value]
    BY <1>a, <1>1 DEF ExcludeRange
  <2>1. ExcludeRange(rs, size, start, end) = new
    BY <1>0, <2>2, <2>a
  <2> HIDE DEF R, top, value
  <2>4. /\ new \in Seq(R) /\ Len(new) = Len(rs) /\ new[Len(rs)] = top
        /\ \A i \in 1 .. Len(rs) - 1 : new[i] = rs[i]
    BY <1>0, <2>2, <2>3
  <2>5. new \in Ranges
    BY <2>4 DEF R, Ranges
  <2> HIDE DEF new
  <2>6. (start - 1) + 1 = Open(rs).start /\ Open(rs).start <= end
    BY <1>0, <1>1
  <2>7. Open(rs).start - Open(rs).value <= end - value
    BY <1>0, <1>1 DEF value
  <2>8. new[Len(rs)].start = end /\ new[Len(rs)].value = value
    BY <2>3, <2>4
  <2>9. Moved(rs, new, size, start - 1, end, value)
    BY <1>0, <2>4, <2>5, <2>6, <2>7, <2>8, InPlaceKept
  <2> QED BY <2>1, <2>9 DEF value
<1>2. CASE Open(rs).start # start
  <2>1. ExcludeRange(rs, size, start, end) = CloseAt(rs, size, start - 1, end, value)
    BY <1>a, <1>2 DEF ExcludeRange
  <2> HIDE DEF value
  <2>2. /\ Open(rs).start <= start - 1 /\ start - 1 < end
        /\ (start - 1) - Open(rs).value < end - value
    BY <1>0, <1>2 DEF value
  <2>3. Moved(rs, CloseAt(rs, size, start - 1, end, value), size, start - 1, end, value)
    BY <1>0, <2>2, CloseAtKept
  <2> QED BY <2>1, <2>3 DEF value
<1> QED BY <1>1, <1>2

(* A map that was reset has one open range. *)
LEMMA ClearOK ==
    ASSUME NEW start \in Int, NEW value \in Int
    PROVE  LET rs == ClearAndResetValue(start, value) IN
           /\ RangesOK(rs) /\ Len(rs) = 1 /\ Open(rs).start = start /\ Open(rs).value = value
           /\ \A k \in Int : HasValue(rs, k) => k >= start
<1> DEFINE R  == [start : Int, end : Int, value : Int]
           x  == OpenRange(start, value)
           rs == ClearAndResetValue(start, value)
<1>1. x \in R /\ x.start = start /\ x.value = value
  BY DEF OpenRange
<1>2. rs = <<x>>
  BY DEF ClearAndResetValue
<1> HIDE DEF R, x, rs
<1>3. rs \in Seq(R) /\ Len(rs) = 1 /\ rs[1] = x /\ rs # <<>>
  BY <1>1, <1>2
<1>4. RangesOK(rs)
  <2>1. rs \in Ranges
    BY <1>3 DEF R, Ranges
  <2>2. \A i \in 1 .. Len(rs) - 1 : rs[i].start <= rs[i].end
    BY <1>3
  <2>3. \A i, j \in 1 .. Len(rs) : i < j =>
           rs[i].end < rs[j].start /\ rs[i].end - rs[i].value < rs[j].start - rs[j].value
    BY <1>3
  <2> QED BY <1>3, <2>1, <2>2, <2>3, RangesOKIntro
<1>5. Open(rs).start = start /\ Open(rs).value = value
  BY <1>1, <1>3 DEF Open
<1>6. \A k \in Int : HasValue(rs, k) => k >= start
  BY <1>3, <1>5 DEF HasValue, ClosedAround
<1> QED BY <1>3, <1>4, <1>5, <1>6 DEF rs

-----------------------------------------------------------------------------
(* The munger.                                                              *)

(* The next source number belongs to the open range; it gets an outgoing      *)
(* number and a timestamp that are not below the last ones.                   *)
MungerOK(m) ==
    /\ m \in Munger
    /\ RangesOK(m.ranges) /\ Len(m.ranges) <= MungerRanges + 1
    /\ Open(m.ranges).start <= m.highestIncoming + 1
    /\ m.snOffset = Open(m.ranges).value
    /\ m.lastSN <= m.highestIncoming + 1 - m.snOffset
    /\ m.lastTS <= m.highestIncoming + 1 - m.tsOffset

(* The last number went to, or was left to, the highest source number. *)
Synced(m) == m.lastSN = m.highestIncoming - m.snOffset

LEMMA MungerFields ==
    ASSUME NEW m, m \in Munger
    PROVE  /\ m.highestIncoming \in Int /\ m.ranges \in Ranges
           /\ m.lastSN \in Int /\ m.secondLastSN \in Int /\ m.snOffset \in Int
           /\ m.lastTS \in Int /\ m.secondLastTS \in Int /\ m.tsOffset \in Int
           /\ m.lastMarker \in BOOLEAN /\ m.secondLastMarker \in BOOLEAN
BY DEF Munger

(* New ranges that reach the next source number. *)
LEMMA WithRangesIs ==
    ASSUME NEW m \in Munger, NEW rs, RangesOK(rs), Open(rs).start <= m.highestIncoming + 1
    PROVE  /\ WithRanges(m, rs) = [m EXCEPT !.ranges = rs, !.snOffset = Open(rs).value]
           /\ WithRanges(m, rs) \in Munger
<1>1. m.highestIncoming \in Int /\ Open(rs).start \in Int /\ Open(rs).value \in Int /\ rs \in Ranges
  BY MungerFields, OpenIs DEF RangesOK
<1>2. NextOffset(rs, m.highestIncoming) = Open(rs).value
  <2>1. m.highestIncoming + 1 >= Open(rs).start
    BY <1>1
  <2> QED BY <2>1 DEF NextOffset, HasValue, GetValue
<1>3. WithRanges(m, rs) = [m EXCEPT !.ranges = rs, !.snOffset = Open(rs).value]
  BY <1>2 DEF WithRanges
<1>4. [m EXCEPT !.ranges = rs, !.snOffset = Open(rs).value] \in Munger
  BY <1>1 DEF Munger
<1> QED BY <1>3, <1>4

(* A packet in order. *)
LEMMA InOrderOK ==
    ASSUME NEW m, MungerOK(m), NEW sn \in Int, sn > m.highestIncoming, NEW marker \in BOOLEAN
    PROVE  LET n == InOrder(m, sn, sn, marker) IN
           /\ MungerOK(n) /\ Synced(n)
           /\ n.highestIncoming = sn /\ n.ranges = m.ranges /\ n.snOffset = m.snOffset
           /\ n.tsOffset = m.tsOffset
           /\ n.lastSN = sn - m.snOffset /\ n.lastSN >= m.lastSN /\ n.lastTS >= m.lastTS
           /\ n.secondLastSN = m.lastSN /\ n.secondLastTS = m.lastTS
<1> DEFINE n == InOrder(m, sn, sn, marker)
<1>0. m \in Munger
  BY DEF MungerOK
<1>1. /\ n.highestIncoming = sn /\ n.ranges = m.ranges /\ n.snOffset = m.snOffset
      /\ n.tsOffset = m.tsOffset /\ n.lastSN = sn - m.snOffset /\ n.lastTS = sn - m.tsOffset
      /\ n.secondLastSN = m.lastSN /\ n.secondLastTS = m.lastTS
  BY <1>0 DEF InOrder, TranslatedTS, Munger
<1>2. n \in Munger
  <2>1. sn - m.snOffset \in Int /\ sn - m.tsOffset \in Int
    BY <1>0, MungerFields
  <2>2. \A a, b \in Int : [m EXCEPT !.highestIncoming = sn,
              !.secondLastSN = m.lastSN, !.lastSN = a, !.secondLastTS = m.lastTS, !.lastTS = b,
              !.secondLastMarker = m.lastMarker, !.lastMarker = marker] \in Munger
    BY <1>0 DEF Munger
  <2> QED BY <2>1, <2>2 DEF InOrder, TranslatedTS
<1> HIDE DEF n
<1>3. /\ m.highestIncoming \in Int /\ m.lastSN \in Int /\ m.snOffset \in Int
      /\ m.lastTS \in Int /\ m.tsOffset \in Int /\ Open(m.ranges).start \in Int
  BY <1>0, MungerFields, OpenIs DEF MungerOK
<1>4. /\ Open(m.ranges).start <= m.highestIncoming + 1
      /\ m.lastSN <= m.highestIncoming + 1 - m.snOffset
      /\ m.lastTS <= m.highestIncoming + 1 - m.tsOffset
  BY DEF MungerOK
<1>5. /\ Open(n.ranges).start <= n.highestIncoming + 1
      /\ n.lastSN <= n.highestIncoming + 1 - n.snOffset
      /\ n.lastTS <= n.highestIncoming + 1 - n.tsOffset
      /\ n.lastSN >= m.lastSN /\ n.lastTS >= m.lastTS
  BY <1>1, <1>3, <1>4
<1>6. MungerOK(n)
  BY <1>1, <1>2, <1>5 DEF MungerOK
<1>7. Synced(n)
  BY <1>1 DEF Synced
<1> QED BY <1>1, <1>5, <1>6, <1>7 DEF n

(* The key sn after the highest is excluded and the last number stays. *)
Excluded(m, new, sn) ==
    /\ MungerOK(new)
    /\ new.highestIncoming = sn /\ new.lastSN = m.lastSN /\ new.lastTS = m.lastTS
    /\ new.snOffset = m.snOffset + 1
    /\ Moved(m.ranges, new.ranges, MungerRanges, sn - 1, sn + 1, m.snOffset + 1)

LEMMA ExcludedOK ==
    ASSUME NEW m, MungerOK(m), NEW sn \in Int, sn = m.highestIncoming + 1,
           NEW x \in Munger, x.highestIncoming = sn, x.ranges = m.ranges,
           x.lastSN = m.lastSN, x.lastTS = m.lastTS, x.tsOffset = m.tsOffset
    PROVE  Excluded(m, WithRanges(x, ExcludeRange(m.ranges, MungerRanges, sn, sn + 1)), sn)
<1> DEFINE rs  == ExcludeRange(m.ranges, MungerRanges, sn, sn + 1)
           new == WithRanges(x, rs)
<1>1. /\ m.highestIncoming \in Int /\ m.lastSN \in Int /\ m.snOffset \in Int
      /\ m.lastTS \in Int /\ m.tsOffset \in Int /\ Open(m.ranges).start \in Int
  BY MungerFields, OpenIs DEF MungerOK
<1>2. /\ RangesOK(m.ranges) /\ Len(m.ranges) <= MungerRanges + 1 /\ Open(m.ranges).value = m.snOffset
      /\ Open(m.ranges).start <= sn
      /\ m.lastSN <= m.highestIncoming + 1 - m.snOffset
      /\ m.lastTS <= m.highestIncoming + 1 - m.tsOffset
  BY DEF MungerOK
<1>3. sn + 1 \in Int /\ sn < sn + 1 /\ m.snOffset + ((sn + 1) - sn) = m.snOffset + 1
  BY <1>1
<1>4. Moved(m.ranges, rs, MungerRanges, sn - 1, sn + 1, m.snOffset + 1)
  <2>1. Moved(m.ranges, rs, MungerRanges, sn - 1, sn + 1, Open(m.ranges).value + ((sn + 1) - sn))
    BY <1>2, <1>3, ExcludeMoved, MungerAssumption
  <2> HIDE DEF rs
  <2> QED BY <1>2, <1>3, <2>1
<1> HIDE DEF rs
<1>5. RangesOK(rs) /\ Len(rs) <= MungerRanges + 1 /\ Open(rs).start = sn + 1 /\ Open(rs).value = m.snOffset + 1
  BY <1>4 DEF Moved
<1>a. Open(rs).start <= x.highestIncoming + 1
  BY <1>5
<1>6. new = [x EXCEPT !.ranges = rs, !.snOffset = Open(rs).value] /\ new \in Munger
  BY <1>5, <1>a, WithRangesIs
<1>7. /\ new.ranges = rs /\ new.snOffset = m.snOffset + 1 /\ new.highestIncoming = sn
      /\ new.lastSN = m.lastSN /\ new.lastTS = m.lastTS /\ new.tsOffset = m.tsOffset
  BY <1>5, <1>6 DEF Munger
<1> HIDE DEF new
<1>8. MungerOK(new)
  <2>1. /\ Open(new.ranges).start <= new.highestIncoming + 1
        /\ new.lastSN <= new.highestIncoming + 1 - new.snOffset
        /\ new.lastTS <= new.highestIncoming + 1 - new.tsOffset
    <3>a. \A h, l, t, o, q \in Int : sn = h + 1 /\ l <= h + 1 - o /\ t <= h + 1 - q
                                    => l <= sn + 1 - (o + 1) /\ t <= sn + 1 - q
      OBVIOUS
    <3>1. m.lastSN <= sn + 1 - (m.snOffset + 1) /\ m.lastTS <= sn + 1 - m.tsOffset
      BY <1>1, <1>2, <3>a, Zenon
    <3>2. Open(new.ranges).start = sn + 1
      BY <1>5, <1>7
    <3> QED BY <1>7, <3>1, <3>2
  <2> QED BY <1>5, <1>6, <1>7, <2>1 DEF MungerOK
<1>9. Excluded(m, new, sn)
  BY <1>4, <1>7, <1>8 DEF Excluded
<1> QED BY <1>9 DEF new, rs

(* A packet that got the next number and is not sent. *)
LEMMA DroppedOK ==
    ASSUME NEW m, MungerOK(m), NEW sn \in Int, sn = m.highestIncoming + 1, NEW marker \in BOOLEAN
    PROVE  Excluded(m, PacketDropped(InOrder(m, sn, sn, marker), sn), sn)
<1> DEFINE n == InOrder(m, sn, sn, marker)
           x == [n EXCEPT !.lastSN = n.secondLastSN, !.lastTS = n.secondLastTS,
                          !.lastMarker = n.secondLastMarker]
<1>0. m.highestIncoming \in Int
  BY MungerFields DEF MungerOK
<1>1. sn > m.highestIncoming
  BY <1>0
<1>2. /\ MungerOK(n) /\ n.highestIncoming = sn /\ n.ranges = m.ranges /\ n.tsOffset = m.tsOffset
      /\ n.secondLastSN = m.lastSN /\ n.secondLastTS = m.lastTS
  BY <1>1, InOrderOK
<1> HIDE DEF n
<1>3. n \in Munger
  BY <1>2 DEF MungerOK
<1>4. /\ x \in Munger /\ x.highestIncoming = sn /\ x.ranges = m.ranges
      /\ x.lastSN = m.lastSN /\ x.lastTS = m.lastTS /\ x.tsOffset = m.tsOffset
  BY <1>2, <1>3 DEF Munger
<1>5. PacketDropped(n, sn) = WithRanges(x, ExcludeRange(m.ranges, MungerRanges, sn, sn + 1))
  BY <1>2 DEF PacketDropped
<1> HIDE DEF x
<1>6. Excluded(m, PacketDropped(n, sn), sn)
  BY <1>4, <1>5, ExcludedOK
<1> QED BY <1>6 DEF n

(* An empty packet in order. *)
LEMMA SkipOK ==
    ASSUME NEW m, MungerOK(m), NEW sn \in Int, sn = m.highestIncoming + 1
    PROVE  Excluded(m, SkipPadding(m, sn), sn)
<1> DEFINE x == [m EXCEPT !.highestIncoming = sn]
<1>1. m \in Munger
  BY DEF MungerOK
<1>2. /\ x \in Munger /\ x.highestIncoming = sn /\ x.ranges = m.ranges
      /\ x.lastSN = m.lastSN /\ x.lastTS = m.lastTS /\ x.tsOffset = m.tsOffset
  BY <1>1 DEF Munger
<1>3. SkipPadding(m, sn) = WithRanges(x, ExcludeRange(m.ranges, MungerRanges, sn, sn + 1))
  BY DEF SkipPadding
<1> HIDE DEF x
<1> QED BY <1>2, <1>3, ExcludedOK

(* Padding takes the next numbers. *)
LEMMA PaddedOK ==
    ASSUME NEW m, MungerOK(m), NEW num \in Nat, NEW lastTS \in Int, lastTS >= m.lastTS,
           NEW secondLastTS \in Int, NEW force \in BOOLEAN
    PROVE  LET p == Padded(m, num, lastTS, secondLastTS, force) IN
           /\ MungerOK(p)
           /\ p.highestIncoming = m.highestIncoming /\ p.lastSN = m.lastSN + num
           /\ p.lastTS = lastTS /\ p.snOffset = m.snOffset - num
           /\ Moved(m.ranges, p.ranges, MungerRanges, m.highestIncoming, m.highestIncoming + 1, m.snOffset - num)
<1> DEFINE x  == [m EXCEPT !.lastSN = m.lastSN + num, !.secondLastSN = m.lastSN + num - 1,
                           !.lastTS = lastTS, !.secondLastTS = secondLastTS,
                           !.tsOffset = @ - (lastTS - m.lastTS),
                           !.secondLastMarker = m.lastMarker,
                           !.lastMarker = m.lastMarker \/ force]
           rs == DecValue(m.ranges, MungerRanges, m.highestIncoming, num)
           p  == Padded(m, num, lastTS, secondLastTS, force)
<1>0. m \in Munger
  BY DEF MungerOK
<1>1. /\ m.highestIncoming \in Int /\ m.lastSN \in Int /\ m.snOffset \in Int
      /\ m.lastTS \in Int /\ m.tsOffset \in Int /\ Open(m.ranges).start \in Int
      /\ m.lastMarker \in BOOLEAN
  BY <1>0, MungerFields, OpenIs DEF MungerOK
<1>2. /\ RangesOK(m.ranges) /\ Len(m.ranges) <= MungerRanges + 1 /\ Open(m.ranges).value = m.snOffset
      /\ Open(m.ranges).start <= m.highestIncoming + 1
      /\ m.lastSN <= m.highestIncoming + 1 - m.snOffset
      /\ m.lastTS <= m.highestIncoming + 1 - m.tsOffset
  BY DEF MungerOK
<1>3. /\ x.highestIncoming = m.highestIncoming /\ x.lastSN = m.lastSN + num /\ x.lastTS = lastTS
      /\ x.tsOffset = m.tsOffset - (lastTS - m.lastTS)
  BY <1>0 DEF Munger
<1>4. x \in Munger
  <2>1. /\ m.lastSN + num \in Int /\ m.lastSN + num - 1 \in Int
        /\ m.tsOffset - (lastTS - m.lastTS) \in Int /\ (m.lastMarker \/ force) \in BOOLEAN
    BY <1>1
  <2>2. \A a, b, c \in Int, d \in BOOLEAN :
           [m EXCEPT !.lastSN = a, !.secondLastSN = b, !.lastTS = lastTS, !.secondLastTS = secondLastTS,
                     !.tsOffset = c, !.secondLastMarker = m.lastMarker, !.lastMarker = d] \in Munger
    BY <1>0 DEF Munger
  <2>3. x = [m EXCEPT !.lastSN = m.lastSN + num, !.secondLastSN = m.lastSN + num - 1,
                      !.lastTS = lastTS, !.secondLastTS = secondLastTS,
                      !.tsOffset = m.tsOffset - (lastTS - m.lastTS),
                      !.secondLastMarker = m.lastMarker, !.lastMarker = m.lastMarker \/ force]
    BY <1>0 DEF Munger
  <2> QED BY <2>1, <2>2, <2>3
<1>5. Moved(m.ranges, rs, MungerRanges, m.highestIncoming, m.highestIncoming + 1, m.snOffset - num)
  <2>1. Moved(m.ranges, rs, MungerRanges, m.highestIncoming, m.highestIncoming + 1, Open(m.ranges).value - num)
    BY <1>1, <1>2, DecValueMoved, MungerAssumption
  <2> QED BY <1>2, <2>1
<1>6. p = WithRanges(x, rs)
  BY DEF Padded
<1> HIDE DEF rs, x, p
<1>7. /\ RangesOK(rs) /\ Len(rs) <= MungerRanges + 1
      /\ Open(rs).start = m.highestIncoming + 1 /\ Open(rs).value = m.snOffset - num
  BY <1>5 DEF Moved
<1>8. Open(rs).start <= x.highestIncoming + 1
  BY <1>1, <1>3, <1>7
<1>9. p = [x EXCEPT !.ranges = rs, !.snOffset = Open(rs).value] /\ p \in Munger
  BY <1>4, <1>6, <1>7, <1>8, WithRangesIs
<1>10. /\ p.ranges = rs /\ p.snOffset = m.snOffset - num /\ p.highestIncoming = m.highestIncoming
       /\ p.lastSN = m.lastSN + num /\ p.lastTS = lastTS /\ p.tsOffset = m.tsOffset - (lastTS - m.lastTS)
  BY <1>3, <1>4, <1>7, <1>9 DEF Munger
<1>11. MungerOK(p)
  <2>a. \A l, h, o \in Int : l <= h + 1 - o => l + num <= h + 1 - (o - num)
    OBVIOUS
  <2>b. \A t, h, o \in Int : t <= h + 1 - o => lastTS <= h + 1 - (o - (lastTS - t))
    OBVIOUS
  <2>1. m.lastSN + num <= m.highestIncoming + 1 - (m.snOffset - num)
    BY <1>1, <1>2, <2>a, Zenon
  <2>2. lastTS <= m.highestIncoming + 1 - (m.tsOffset - (lastTS - m.lastTS))
    BY <1>1, <1>2, <2>b, Zenon
  <2>3. Open(p.ranges).start = m.highestIncoming + 1
    BY <1>7, <1>10
  <2>4. Open(p.ranges).start <= p.highestIncoming + 1
    BY <1>1, <1>10, <2>3
  <2>5. /\ p.lastSN <= p.highestIncoming + 1 - p.snOffset
        /\ p.lastTS <= p.highestIncoming + 1 - p.tsOffset
    BY <1>10, <2>1, <2>2
  <2> QED BY <1>7, <1>9, <1>10, <2>4, <2>5 DEF MungerOK
<1> QED BY <1>5, <1>10, <1>11 DEF p

(* After a reset the keys below the next source number have no numbers. *)
Fresh(m, sn) ==
    /\ MungerOK(m) /\ m.highestIncoming = sn - 1 /\ Len(m.ranges) = 1
    /\ \A k \in Int : HasValue(m.ranges, k) => k >= sn

(* The first packet of a stream, and a switch of the source. *)
LEMMA ResetOK ==
    ASSUME NEW x \in Munger, NEW sn \in Int, NEW value \in Int,
           x.highestIncoming = sn - 1, x.lastSN <= sn - value, x.lastTS <= sn - x.tsOffset
    PROVE  LET new == WithRanges(x, ClearAndResetValue(sn, value)) IN
           /\ Fresh(new, sn)
           /\ new.lastSN = x.lastSN /\ new.lastTS = x.lastTS /\ new.snOffset = value
<1> DEFINE rs  == ClearAndResetValue(sn, value)
           new == WithRanges(x, rs)
<1>1. /\ RangesOK(rs) /\ Len(rs) = 1 /\ Open(rs).start = sn /\ Open(rs).value = value
      /\ \A k \in Int : HasValue(rs, k) => k >= sn
  BY ClearOK
<1> HIDE DEF rs
<1>2. Open(rs).start <= x.highestIncoming + 1
  BY <1>1
<1>3. new = [x EXCEPT !.ranges = rs, !.snOffset = Open(rs).value] /\ new \in Munger
  BY <1>1, <1>2, WithRangesIs
<1>4. /\ new.ranges = rs /\ new.snOffset = value /\ new.highestIncoming = sn - 1
      /\ new.lastSN = x.lastSN /\ new.lastTS = x.lastTS /\ new.tsOffset = x.tsOffset
  BY <1>1, <1>3 DEF Munger
<1> HIDE DEF new
<1>5. Len(rs) <= MungerRanges + 1
  BY <1>1, MungerAssumption
<1>6. x.lastSN \in Int /\ x.lastTS \in Int /\ x.tsOffset \in Int
  BY MungerFields
<1>7. MungerOK(new)
  <2>1. Open(new.ranges).start <= new.highestIncoming + 1
    BY <1>1, <1>4
  <2>2. /\ new.lastSN <= new.highestIncoming + 1 - new.snOffset
        /\ new.lastTS <= new.highestIncoming + 1 - new.tsOffset
    <3>1. x.lastSN <= (sn - 1) + 1 - value /\ x.lastTS <= (sn - 1) + 1 - x.tsOffset
      BY <1>6
    <3> QED BY <1>4, <3>1
  <2> QED BY <1>1, <1>3, <1>4, <1>5, <2>1, <2>2 DEF MungerOK
<1> QED BY <1>1, <1>4, <1>7 DEF Fresh, new, rs

LEMMA StartOK ==
    ASSUME NEW m, MungerOK(m), NEW sn \in Int
    PROVE  LET n == SetLastSnTs(m, sn, sn) IN
           Fresh(n, sn) /\ n.lastSN = sn /\ n.lastTS = sn /\ n.snOffset = 0
<1> DEFINE x == [m EXCEPT !.highestIncoming = sn - 1, !.lastSN = sn, !.secondLastSN = sn - 1,
                          !.lastTS = sn, !.secondLastTS = sn, !.tsOffset = 0]
<1>1. m \in Munger
  BY DEF MungerOK
<1>2. x \in Munger /\ x.highestIncoming = sn - 1 /\ x.lastSN = sn /\ x.lastTS = sn /\ x.tsOffset = 0
  <2>1. \A a, b \in Int : [m EXCEPT !.highestIncoming = a, !.lastSN = sn, !.secondLastSN = a,
                            !.lastTS = sn, !.secondLastTS = sn, !.tsOffset = b] \in Munger
    BY <1>1 DEF Munger
  <2>2. sn - 1 \in Int /\ 0 \in Int
    OBVIOUS
  <2>3. x \in Munger
    BY <2>1, <2>2
  <2> QED BY <1>1, <2>3 DEF Munger
<1>3. SetLastSnTs(m, sn, sn) = WithRanges(x, ClearAndResetValue(sn, 0))
  BY DEF SetLastSnTs
<1> HIDE DEF x
<1>4. x.lastSN <= sn - 0 /\ x.lastTS <= sn - x.tsOffset /\ 0 \in Int
  BY <1>2
<1> QED BY <1>2, <1>3, <1>4, ResetOK

LEMMA SwitchOK ==
    ASSUME NEW m, MungerOK(m), NEW sn \in Int, NEW d \in Nat
    PROVE  LET n == UpdateSnTsOffsets(m, sn, sn, 1, d) IN
           Fresh(n, sn) /\ Synced(n) /\ n.lastSN = m.lastSN /\ n.lastTS = m.lastTS
<1> DEFINE v == sn - m.lastSN - 1
           t == sn - m.lastTS - d
           x == [m EXCEPT !.highestIncoming = sn - 1, !.tsOffset = t]
           n == UpdateSnTsOffsets(m, sn, sn, 1, d)
<1>1. m \in Munger
  BY DEF MungerOK
<1>2. m.lastSN \in Int /\ m.lastTS \in Int /\ v \in Int /\ t \in Int
  BY <1>1, MungerFields
<1>3. n = WithRanges(x, ClearAndResetValue(sn, v))
  BY DEF UpdateSnTsOffsets
<1>a. m.lastSN <= sn - v /\ m.lastTS <= sn - t /\ m.lastSN = sn - 1 - v
  BY <1>2
<1> HIDE DEF v, t
<1>4. /\ x \in Munger /\ x.highestIncoming = sn - 1
      /\ x.lastSN = m.lastSN /\ x.lastTS = m.lastTS /\ x.tsOffset = t
  <2>1. \A a \in Int : LET y == [m EXCEPT !.highestIncoming = a, !.tsOffset = t]
                       IN  /\ y \in Munger /\ y.highestIncoming = a
                           /\ y.lastSN = m.lastSN /\ y.lastTS = m.lastTS /\ y.tsOffset = t
    BY <1>1, <1>2 DEF Munger
  <2>2. sn - 1 \in Int
    OBVIOUS
  <2> QED BY <2>1, <2>2
<1> HIDE DEF x, n
<1>5. x.lastSN <= sn - v /\ x.lastTS <= sn - x.tsOffset
  BY <1>4, <1>a
<1>6. Fresh(n, sn) /\ n.lastSN = x.lastSN /\ n.lastTS = x.lastTS /\ n.snOffset = v
  BY <1>2, <1>3, <1>4, <1>5, ResetOK
<1>7. Synced(n)
  BY <1>4, <1>6, <1>a DEF Synced, Fresh
<1> QED BY <1>4, <1>6, <1>7 DEF n

LEMMA NewMungerOK == MungerOK(NewMunger)
<1> DEFINE rs == ClearAndResetValue(0, 0)
<1>1. RangesOK(rs) /\ Len(rs) = 1 /\ Open(rs).start = 0 /\ Open(rs).value = 0
  BY ClearOK
<1>2. NewMunger \in Munger /\ NewMunger.ranges = rs
  BY <1>1 DEF NewMunger, Munger, RangesOK
<1>3. /\ NewMunger.highestIncoming = 0 /\ NewMunger.snOffset = 0 /\ NewMunger.lastSN = 0
      /\ NewMunger.lastTS = 0 /\ NewMunger.tsOffset = 0
  BY DEF NewMunger
<1> HIDE DEF rs
<1>4. Len(rs) <= MungerRanges + 1
  BY <1>1, MungerAssumption
<1>5. 0 <= 0 + 1 /\ 0 <= 0 + 1 - 0
  OBVIOUS
<1> QED BY <1>1, <1>2, <1>3, <1>4, <1>5 DEF MungerOK

-----------------------------------------------------------------------------
(* The invariant.                                                           *)

Forwarder == [selector : {"simulcast", "dd", "vp9"}, started : BOOLEAN, lastSSRC : Layers \cup {NoLayer},
              cur : Layers \cup {NoLayer}, target : Layers \cup {NoLayer}, ref : BOOLEAN]

PacketTypeOK ==
    /\ scope \in Scopes
    /\ MungerOK(munger)
    /\ fwd \in Forwarder
    /\ arrived \in [Layers -> SUBSET Int]
    /\ DOMAIN out \subseteq Int

(* What holds until the stream begins, whether with a packet or with padding. *)
NotStarted ==
    /\ ~fwd.started => munger = NewMunger /\ out = <<>> /\ fwd.lastSSRC = NoLayer
    /\ padder.pc = "probe" => fwd.started

(* Every selector but that of VP9 has a current layer only with a source, so   *)
(* that no packet is translated with the offsets of another source.           *)
SourceOK ==
    /\ fwd.lastSSRC \in Streams \cup {NoLayer}
    /\ scope.codec = "VP8" => fwd.selector = "simulcast" /\ fwd.cur = fwd.lastSSRC
    /\ fwd.selector # "vp9" => (fwd.cur # NoLayer => fwd.lastSSRC # NoLayer)
    /\ fwd.selector = "dd" => (fwd.lastSSRC # NoLayer => fwd.cur # NoLayer)
    /\ fwd.lastSSRC # NoLayer => Synced(munger) /\ Flowing

(* No number above the last one was sent. *)
NoneBeyond == \A n \in DOMAIN out : n <= munger.lastSN

(* The numbers that late packets of the source would get are unused. *)
Unused(sns, m, arr, used) ==
    \A k \in sns \ arr : k <= m.highestIncoming /\ HasValue(m.ranges, k) => Num(m.ranges, k) \notin used

LateAreUnused ==
    restart # "forwarder" /\ fwd.lastSSRC # NoLayer => Unused(SNs, munger, arrived[fwd.lastSSRC], DOMAIN out)

NumbersInv == PacketTypeOK /\ NotStarted /\ SourceOK /\ NoneBeyond /\ LateAreUnused

(* Where the code promises that holes are filled. *)
Promised == scope.codec = "VP8" \/ fwd.selector = "dd"

(* The last number was sent or given up; what came of the source was seen by  *)
(* the munger; numbers before the first one sent are behind the map.          *)
LastIsSpent == fwd.started => munger.lastSN \in DOMAIN out \cup gaveUp
HasBegun    == fwd.lastSSRC # NoLayer => munger.highestIncoming >= FirstSN
AllSeen     == Promised /\ fwd.lastSSRC # NoLayer =>
                  \A k \in arrived[fwd.lastSSRC] : k <= munger.highestIncoming \/ k \in passed
Explained(n) ==
    \/ n \in DOMAIN out \/ n \in gaveUp \/ Awaited(n) \/ Forgotten(n)
    \/ (\A o \in DOMAIN out : n < o) /\ (fwd.lastSSRC # NoLayer => n < First(munger.ranges))
HolesInv == /\ LastIsSpent /\ HasBegun /\ AllSeen /\ passed \subseteq Int
            /\ Promised => \A n \in FirstSN .. munger.lastSN : Explained(n)

PacketInv == NumbersInv /\ HolesInv

-----------------------------------------------------------------------------
(* What the translation of a packet does to the munger.                     *)

(* The packet sn turns the munger m into r; used says whether it takes a      *)
(* number, n.                                                                 *)
TakesNext(m, r, sn, n)  == /\ sn > m.highestIncoming /\ n = sn - m.snOffset
                           /\ \E marker \in BOOLEAN : r = InOrder(m, sn, sn, marker)
LeavesOut(m, r, sn)     == sn = m.highestIncoming + 1 /\ Excluded(m, r, sn)
FillsHole(m, r, sn, n)  == sn < m.highestIncoming /\ LateFound(m, sn) /\ r = m /\ n = Num(m.ranges, sn)
IsTooLate(m, r, sn)     == /\ sn <= m.highestIncoming /\ r = m
                           /\ ~(sn < m.highestIncoming /\ LateFound(m, sn))

Takes(m, r, sn, n)   == TakesNext(m, r, sn, n) \/ FillsHole(m, r, sn, n)
TakesNone(m, r, sn)  == LeavesOut(m, r, sn) \/ IsTooLate(m, r, sn)

(* Numbers of keys up to the highest are not above the one it would have. *)
LEMMA NumUpTo ==
    ASSUME NEW m, MungerOK(m), NEW k \in Int, k <= m.highestIncoming, HasValue(m.ranges, k)
    PROVE  Num(m.ranges, k) \in Int /\ Num(m.ranges, k) <= m.highestIncoming - m.snOffset
<1> DEFINE rs == m.ranges
<1>0. /\ m.highestIncoming \in Int /\ m.snOffset \in Int /\ RangesOK(rs)
      /\ Open(rs).start <= m.highestIncoming + 1 /\ Open(rs).value = m.snOffset
  BY MungerFields DEF MungerOK
<1> HIDE DEF rs
<1>1. Num(rs, k) \in Int /\ Open(rs).start \in Int
  BY <1>0, ValueType, OpenIs DEF rs
<1>2. CASE k >= Open(rs).start
  <2>1. Num(rs, k) = k - m.snOffset
    BY <1>0, <1>2 DEF Num, GetValue
  <2> QED BY <1>0, <1>1, <2>1 DEF rs
<1>3. CASE ~(k >= Open(rs).start)
  <2>1. Num(rs, k) < Open(rs).start - m.snOffset
    BY <1>0, <1>1, <1>3, NumBelowOpen DEF rs
  <2> QED BY <1>0, <1>1, <2>1 DEF rs
<1> QED BY <1>2, <1>3

(* The number of a key after the highest. *)
LEMMA NumBeyond ==
    ASSUME NEW m, MungerOK(m), NEW k \in Int, k > m.highestIncoming
    PROVE  HasValue(m.ranges, k) /\ Num(m.ranges, k) = k - m.snOffset
<1>1. /\ m.highestIncoming \in Int /\ Open(m.ranges).start \in Int
      /\ Open(m.ranges).start <= m.highestIncoming + 1 /\ Open(m.ranges).value = m.snOffset
  BY MungerFields, OpenIs DEF MungerOK
<1>2. k >= Open(m.ranges).start
  BY <1>1
<1> QED BY <1>1, <1>2 DEF HasValue, GetValue, Num

(* Two keys never share a number. *)
LEMMA NumInjective ==
    ASSUME NEW rs, RangesOK(rs), NEW k \in Int, NEW j \in Int, k # j, HasValue(rs, k), HasValue(rs, j)
    PROVE  Num(rs, k) # Num(rs, j)
<1>1. Num(rs, k) \in Int /\ Num(rs, j) \in Int
  BY ValueType
<1>2. CASE k < j
  BY <1>1, <1>2, NumIncreases
<1>3. CASE j < k
  BY <1>1, <1>3, NumIncreases
<1> QED BY <1>2, <1>3

(* The map never gives a number before its first. *)
LEMMA NumFromFirst ==
    ASSUME NEW rs, RangesOK(rs), NEW k \in Int, HasValue(rs, k)
    PROVE  First(rs) \in Int /\ First(rs) <= Num(rs, k)
<1>0. /\ Len(rs) \in Nat /\ Len(rs) >= 1 /\ Open(rs) = rs[Len(rs)]
      /\ \A i \in 1 .. Len(rs) : rs[i].start \in Int /\ rs[i].end \in Int /\ rs[i].value \in Int
  BY OpenIs
<1>1. 1 \in 1 .. Len(rs) /\ rs[1].start \in Int /\ rs[1].end \in Int /\ rs[1].value \in Int
  BY <1>0
<1>2. PICK i \in 1 .. Len(rs) : rs[i].start <= k /\ GetValue(rs, k) = rs[i].value
  <2>1. CASE k >= Open(rs).start
    BY <1>0, <2>1 DEF GetValue
  <2>2. CASE ~(k >= Open(rs).start)
    <3>1. PICK i \in 1 .. Len(rs) - 1 : rs[i].start <= k /\ k <= rs[i].end /\ GetValue(rs, k) = rs[i].value
      BY <2>2, ValueCases
    <3>2. i \in 1 .. Len(rs)
      BY <1>0, <3>1
    <3> QED BY <3>1, <3>2
  <2> QED BY <2>1, <2>2
<1>3. rs[i].start \in Int /\ rs[i].value \in Int
  BY <1>0, <1>2
<1>4. rs[i].start - rs[i].value <= Num(rs, k) /\ Num(rs, k) \in Int
  BY <1>2, <1>3 DEF Num
<1>5. CASE i = 1
  BY <1>1, <1>4, <1>5 DEF First
<1>6. CASE i # 1
  <2>1. 1 < i
    BY <1>0, <1>2, <1>6
  <2>2. rs[1].start <= rs[1].end /\ rs[1].end - rs[1].value < rs[i].start - rs[i].value
    BY <1>1, <1>2, <2>1, Ordered
  <2> QED BY <1>1, <1>3, <1>4, <2>2 DEF First
<1> QED BY <1>5, <1>6

(* The munger stays well-formed, and its last number and timestamp do not go back. *)
LEMMA TakesOK ==
    ASSUME NEW m, MungerOK(m), NEW r, NEW sn \in Int, NEW n, Takes(m, r, sn, n)
    PROVE  /\ MungerOK(r) /\ n \in Int /\ n <= r.lastSN
           /\ r.lastSN >= m.lastSN /\ r.lastTS >= m.lastTS
           /\ Synced(m) => Synced(r)
           /\ r.ranges = m.ranges /\ r.highestIncoming >= m.highestIncoming /\ r.highestIncoming >= sn
<1>0. /\ m.highestIncoming \in Int /\ m.snOffset \in Int /\ m.lastSN \in Int /\ m.lastTS \in Int
      /\ RangesOK(m.ranges)
  BY MungerFields DEF MungerOK
<1>1. CASE TakesNext(m, r, sn, n)
  <2>1. PICK marker \in BOOLEAN : r = InOrder(m, sn, sn, marker)
    BY <1>1 DEF TakesNext
  <2>2. sn > m.highestIncoming /\ n = sn - m.snOffset
    BY <1>1 DEF TakesNext
  <2>3. /\ MungerOK(r) /\ Synced(r) /\ r.highestIncoming = sn /\ r.ranges = m.ranges
        /\ r.lastSN = sn - m.snOffset /\ r.lastSN >= m.lastSN /\ r.lastTS >= m.lastTS
    BY <2>1, <2>2, InOrderOK
  <2> QED BY <1>0, <2>2, <2>3
<1>2. CASE FillsHole(m, r, sn, n)
  <2>1. sn < m.highestIncoming /\ HasValue(m.ranges, sn) /\ n = Num(m.ranges, sn) /\ r = m /\ n < m.lastSN
    BY <1>2 DEF FillsHole, LateFound, Num
  <2>2. n \in Int
    BY <1>0, <2>1, ValueType
  <2> QED BY <1>0, <2>1, <2>2
<1> QED BY <1>1, <1>2 DEF Takes

LEMMA TakesNoneOK ==
    ASSUME NEW m, MungerOK(m), NEW r, NEW sn \in Int, TakesNone(m, r, sn)
    PROVE  /\ MungerOK(r) /\ r.lastSN = m.lastSN /\ r.lastTS = m.lastTS
           /\ Synced(m) => Synced(r)
           /\ r.highestIncoming >= m.highestIncoming /\ r.highestIncoming >= sn
<1>0. /\ m.highestIncoming \in Int /\ m.snOffset \in Int /\ m.lastSN \in Int /\ m.lastTS \in Int
  BY MungerFields DEF MungerOK
<1>1. CASE LeavesOut(m, r, sn)
  <2>1. /\ MungerOK(r) /\ r.highestIncoming = sn /\ r.lastSN = m.lastSN /\ r.lastTS = m.lastTS
        /\ r.snOffset = m.snOffset + 1 /\ sn = m.highestIncoming + 1
    BY <1>1 DEF LeavesOut, Excluded
  <2> QED BY <1>0, <2>1 DEF Synced
<1>2. CASE IsTooLate(m, r, sn)
  BY <1>0, <1>2 DEF IsTooLate
<1> QED BY <1>1, <1>2 DEF TakesNone

(* A packet takes an unused number, and leaves those of the others unused. *)
LEMMA TakesUnused ==
    ASSUME NEW m, MungerOK(m), NEW sns \in SUBSET Int, NEW arr, NEW used \in SUBSET Int,
           Unused(sns, m, arr, used), \A u \in used : u <= m.highestIncoming - m.snOffset,
           NEW r, NEW sn \in sns \ arr, NEW n, Takes(m, r, sn, n)
    PROVE  /\ n \notin used
           /\ Unused(sns, r, arr \cup {sn}, used \cup {n})
<1>0. /\ m.highestIncoming \in Int /\ m.snOffset \in Int /\ RangesOK(m.ranges) /\ sn \in Int
  BY MungerFields DEF MungerOK
<1>a. r.ranges = m.ranges
  BY <1>0, TakesOK
<1>1. CASE TakesNext(m, r, sn, n)
  <2>1. sn > m.highestIncoming /\ n = sn - m.snOffset
    BY <1>1 DEF TakesNext
  <2>2. r.highestIncoming = sn
    BY <1>0, <1>1, <2>1, InOrderOK DEF TakesNext
  <2>3. n \notin used /\ n > m.highestIncoming - m.snOffset
    BY <1>0, <2>1
  <2>4. ASSUME NEW k \in sns \ (arr \cup {sn}), k <= sn, HasValue(m.ranges, k)
        PROVE  Num(m.ranges, k) \notin used \cup {n}
    <3>0. k \in Int /\ k < sn
      BY <1>0, <2>4
    <3>1. CASE k <= m.highestIncoming
      <4>1. Num(m.ranges, k) \notin used
        BY <2>4, <3>1 DEF Unused
      <4>2. Num(m.ranges, k) \in Int /\ Num(m.ranges, k) <= m.highestIncoming - m.snOffset
        BY <2>4, <3>0, <3>1, NumUpTo
      <4> QED BY <1>0, <2>3, <4>1, <4>2
    <3>2. CASE ~(k <= m.highestIncoming)
      <4>1. k > m.highestIncoming
        BY <1>0, <3>0, <3>2
      <4>2. Num(m.ranges, k) = k - m.snOffset
        BY <3>0, <4>1, NumBeyond
      <4> QED BY <1>0, <2>1, <3>0, <4>1, <4>2
    <3> QED BY <3>1, <3>2
  <2>5. Unused(sns, r, arr \cup {sn}, used \cup {n})
    BY <1>a, <2>2, <2>4 DEF Unused
  <2> QED BY <2>3, <2>5
<1>2. CASE FillsHole(m, r, sn, n)
  <2>1. sn < m.highestIncoming /\ HasValue(m.ranges, sn) /\ n = Num(m.ranges, sn) /\ r = m
    BY <1>2 DEF FillsHole, LateFound
  <2>2. sn <= m.highestIncoming
    BY <1>0, <2>1
  <2>3. n \notin used
    BY <2>1, <2>2 DEF Unused
  <2>4. ASSUME NEW k \in sns \ (arr \cup {sn}), k <= m.highestIncoming, HasValue(m.ranges, k)
        PROVE  Num(m.ranges, k) \notin used \cup {n}
    <3>0. k \in Int /\ k # sn
      OBVIOUS
    <3>1. Num(m.ranges, k) \notin used
      BY <2>4 DEF Unused
    <3>2. Num(m.ranges, k) # n
      BY <1>0, <2>1, <2>4, <3>0, NumInjective
    <3> QED BY <3>1, <3>2
  <2>5. Unused(sns, r, arr \cup {sn}, used \cup {n})
    BY <2>1, <2>4 DEF Unused
  <2> QED BY <2>3, <2>5
<1> QED BY <1>1, <1>2 DEF Takes

LEMMA TakesNoneUnused ==
    ASSUME NEW m, MungerOK(m), NEW sns \in SUBSET Int, NEW arr, NEW used,
           Unused(sns, m, arr, used), NEW r, NEW sn \in sns \ arr, TakesNone(m, r, sn)
    PROVE  Unused(sns, r, arr \cup {sn}, used)
<1>0. m.highestIncoming \in Int /\ sn \in Int
  BY MungerFields DEF MungerOK
<1>1. CASE LeavesOut(m, r, sn)
  <2>1. /\ r.highestIncoming = sn /\ sn = m.highestIncoming + 1
        /\ Kept(m.ranges, r.ranges, MungerRanges, sn - 1)
    BY <1>1 DEF LeavesOut, Excluded, Moved
  <2>2. ASSUME NEW k \in sns \ (arr \cup {sn}), k <= sn, HasValue(r.ranges, k)
        PROVE  Num(r.ranges, k) \notin used
    <3>1. k \in Int /\ k <= sn - 1 /\ k <= m.highestIncoming
      BY <1>0, <2>1, <2>2
    <3>2. HasValue(m.ranges, k) /\ Num(r.ranges, k) = Num(m.ranges, k)
      BY <2>1, <2>2, <3>1 DEF Kept, Num
    <3> QED BY <3>1, <3>2 DEF Unused
  <2> QED BY <2>1, <2>2 DEF Unused
<1>2. CASE IsTooLate(m, r, sn)
  BY <1>2 DEF IsTooLate, Unused
<1> QED BY <1>1, <1>2 DEF TakesNone

(* Padding takes numbers that no packet would get. *)
LEMMA PaddingUnused ==
    ASSUME NEW m, MungerOK(m), Synced(m), NEW sns \in SUBSET Int, NEW arr, NEW used,
           Unused(sns, m, arr, used), NEW p, p.highestIncoming = m.highestIncoming,
           Kept(m.ranges, p.ranges, MungerRanges, m.highestIncoming),
           NEW new, \A n \in new : n \in Int /\ n > m.lastSN
    PROVE  Unused(sns, p, arr, used \cup new)
<1>0. m.highestIncoming \in Int /\ m.lastSN \in Int /\ m.snOffset \in Int
  BY MungerFields DEF MungerOK
<1> SUFFICES ASSUME NEW k \in sns \ arr, k <= m.highestIncoming, HasValue(p.ranges, k)
             PROVE  Num(p.ranges, k) \notin used \cup new
  BY DEF Unused
<1>1. HasValue(m.ranges, k) /\ Num(p.ranges, k) = Num(m.ranges, k)
  BY DEF Kept, Num
<1>2. Num(m.ranges, k) \notin used
  BY <1>1 DEF Unused
<1>3. Num(m.ranges, k) \in Int /\ Num(m.ranges, k) <= m.lastSN
  <2>1. Num(m.ranges, k) \in Int /\ Num(m.ranges, k) <= m.highestIncoming - m.snOffset
    BY <1>1, NumUpTo
  <2> QED BY <2>1 DEF Synced
<1> QED BY <1>0, <1>1, <1>2, <1>3

(* After a switch no late packet has a number. *)
LEMMA FreshUnused ==
    ASSUME NEW m, NEW sn \in Int, Fresh(m, sn), NEW sns \in SUBSET Int, NEW arr, NEW used
    PROVE  Unused(sns, m, arr, used)
<1>1. m.highestIncoming = sn - 1 /\ \A k \in Int : HasValue(m.ranges, k) => k >= sn
  BY DEF Fresh
<1> SUFFICES ASSUME NEW k \in sns \ arr, k <= m.highestIncoming, HasValue(m.ranges, k) PROVE FALSE
  BY DEF Unused
<1> QED BY <1>1

(* Translated and Filtered in these terms. *)
LEMMA TranslatedIs ==
    ASSUME NEW m, MungerOK(m), NEW sn \in Int, NEW payload \in BOOLEAN, NEW marker \in BOOLEAN
    PROVE  LET r == Translated(m, sn, sn, payload, marker) IN
           /\ HasNumber(m, sn, payload) => Takes(m, r, sn, TranslatedSN(m, sn))
           /\ ~HasNumber(m, sn, payload) => TakesNone(m, r, sn)
<1> DEFINE r == Translated(m, sn, sn, payload, marker)
           h == m.highestIncoming
<1>0. h \in Int
  BY MungerFields DEF MungerOK
<1>1. CASE Contiguous(m, sn, payload) \/ Gap(m, sn)
  <2>1. sn > h /\ ~OutOfOrder(m, sn)
    BY <1>0, <1>1 DEF Contiguous, Gap, OutOfOrder
  <2>2. r = InOrder(m, sn, sn, marker) /\ TranslatedSN(m, sn) = sn - m.snOffset
    BY <1>1, <2>1 DEF Translated, TranslatedSN
  <2>3. TakesNext(m, r, sn, TranslatedSN(m, sn))
    BY <2>1, <2>2 DEF TakesNext
  <2>4. HasNumber(m, sn, payload)
    BY <1>1 DEF HasNumber
  <2> QED BY <2>3, <2>4 DEF Takes
<1>2. CASE ~(Contiguous(m, sn, payload) \/ Gap(m, sn)) /\ PaddingOnly(m, sn, payload)
  <2>1. sn = h + 1 /\ ~OutOfOrder(m, sn)
    BY <1>0, <1>2 DEF PaddingOnly, OutOfOrder
  <2>2. r = SkipPadding(m, sn)
    BY <1>2 DEF Translated
  <2>3. LeavesOut(m, r, sn)
    BY <2>1, <2>2, SkipOK DEF LeavesOut
  <2>4. ~HasNumber(m, sn, payload)
    BY <1>2, <2>1 DEF HasNumber
  <2> QED BY <2>3, <2>4 DEF TakesNone
<1>3. CASE ~(Contiguous(m, sn, payload) \/ Gap(m, sn)) /\ ~PaddingOnly(m, sn, payload)
  <2>1. sn <= h
    BY <1>0, <1>3 DEF Contiguous, Gap, PaddingOnly
  <2>2. r = m
    BY <1>3 DEF Translated
  <2>3. CASE OutOfOrder(m, sn) /\ LateFound(m, sn)
    <3>1. FillsHole(m, r, sn, TranslatedSN(m, sn))
      BY <2>2, <2>3 DEF FillsHole, OutOfOrder, TranslatedSN, Num
    <3>2. HasNumber(m, sn, payload)
      BY <2>3 DEF HasNumber
    <3> QED BY <3>1, <3>2 DEF Takes
  <2>4. CASE ~(OutOfOrder(m, sn) /\ LateFound(m, sn))
    <3>1. IsTooLate(m, r, sn)
      BY <2>1, <2>2, <2>4 DEF IsTooLate, OutOfOrder
    <3>2. ~HasNumber(m, sn, payload)
      BY <1>3, <2>4 DEF HasNumber
    <3> QED BY <3>1, <3>2 DEF TakesNone
  <2> QED BY <2>3, <2>4
<1> QED BY <1>1, <1>2, <1>3

(* A number that is sent: earlier ones are not touched unless it is one. *)
Sends(n) == DOMAIN out' = DOMAIN out \cup {n} /\ \A o \in DOMAIN out : o # n => out'[o] = out[o]

LEMMA SetOutSends ==
    ASSUME NEW n, NEW x, SetOut(n, x)
    PROVE  Sends(n)
BY DEF SetOut, Sends

(* The packet is translated by m: it is sent, padding is sent in its place, or *)
(* its number is spent; or it takes none.                                     *)
Processed(m, sn) ==
    \/ TakesNone(m, munger', sn) /\ out' = out
    \/ \E n \in Int : Takes(m, munger', sn, n) /\ (Sends(n) \/ (out' = out /\ n \in gaveUp'))

LEMMA FilteredIs ==
    ASSUME NEW m, MungerOK(m), NEW sn \in Int, NEW payload \in BOOLEAN, NEW marker \in BOOLEAN,
           HasNumber(m, sn, payload), Filtered(m, sn, sn, payload, marker)
    PROVE  Processed(m, sn)
<1>0. m.highestIncoming \in Int
  BY MungerFields DEF MungerOK
<1>1. CASE Contiguous(m, sn, payload)
  <2>1. munger' = PacketDropped(InOrder(m, sn, sn, marker), sn) /\ out' = out
    BY <1>1 DEF Filtered
  <2>2. sn = m.highestIncoming + 1
    BY <1>1 DEF Contiguous
  <2>3. LeavesOut(m, munger', sn)
    BY <2>1, <2>2, DroppedOK DEF LeavesOut
  <2> QED BY <2>1, <2>3 DEF TakesNone, Processed
<1>2. CASE ~Contiguous(m, sn, payload)
  <2>1. munger' = Translated(m, sn, sn, payload, marker) /\ SetOut(TranslatedSN(m, sn), Padding)
    BY <1>2 DEF Filtered
  <2>2. Takes(m, munger', sn, TranslatedSN(m, sn))
    BY <2>1, TranslatedIs
  <2>3. TranslatedSN(m, sn) \in Int
    BY <2>2, TakesOK
  <2> QED BY <2>1, <2>2, <2>3, SetOutSends DEF Processed
<1> QED BY <1>1, <1>2

(* The source numbers are numbers. *)
LEMMA SNsType ==
    ASSUME PacketTypeOK
    PROVE  /\ SNs \subseteq Int /\ FirstSN \in Nat /\ FirstSN >= 1 /\ scope.lastSN \in Nat
           /\ \A k \in SNs : k >= FirstSN
<1>1. scope \in Scope
  BY PacketAssumption DEF PacketTypeOK
<1>2. scope.lastSN \in Nat /\ FirstSN \in Nat /\ FirstSN >= 1
  BY <1>1, PacketAssumption DEF Scope
<1> QED BY <1>2 DEF SNs

LEMMA ForwarderFields ==
    ASSUME fwd \in Forwarder
    PROVE  /\ fwd.selector \in {"simulcast", "dd", "vp9"} /\ fwd.started \in BOOLEAN
           /\ fwd.lastSSRC \in {-1, 0, 1} /\ fwd.cur \in {-1, 0, 1} /\ fwd.target \in {-1, 0, 1}
           /\ fwd.ref \in BOOLEAN
BY DEF Forwarder, Layers, NoLayer

(* The verdicts of the selectors. *)
Rejects(l, v) ==
    \/ fwd.selector = "simulcast" /\ v.relevant = FALSE /\ v.cur = fwd.cur /\ l # fwd.cur
    \/ fwd.selector = "dd" /\ v.relevant = TRUE /\ v.cur = fwd.cur /\ fwd.cur # NoLayer
    \/ fwd.selector = "dd" /\ v.relevant = FALSE /\ v.cur = fwd.cur /\ fwd.cur = NoLayer
    \/ fwd.selector = "vp9"

Accepts(l, sn, payload, v) ==
    \/ fwd.selector = "simulcast" /\ v.relevant = FALSE /\ v.cur = l /\ (sn \in KeyFrames \/ fwd.cur = l)
    \/ fwd.selector \in {"dd", "vp9"} /\ v.cur # NoLayer /\ payload

LEMMA SelectIs ==
    ASSUME PacketTypeOK, SourceOK, Flowing, NEW l \in Streams, NEW sn, NEW payload \in BOOLEAN,
           NEW v \in Select(l, sn, payload)
    PROVE  /\ v.cur \in Layers \cup {NoLayer}
           /\ \/ v.selected = TRUE /\ Accepts(l, sn, payload, v)
              \/ v.selected = FALSE /\ Rejects(l, v)
<1>0. /\ fwd.selector \in {"simulcast", "dd", "vp9"} /\ fwd.cur \in {-1, 0, 1} /\ fwd.target \in {0, 1}
      /\ l \in {0, 1}
  BY ForwarderFields DEF PacketTypeOK, Flowing, NoLayer, Streams, Layers
<1>a. /\ fwd.cur \in Layers \cup {NoLayer} /\ l \in Layers \cup {NoLayer} /\ fwd.target \in Layers \cup {NoLayer}
      /\ fwd.target # NoLayer /\ 0 \in Layers \cup {NoLayer}
  BY <1>0 DEF Layers, NoLayer
<1>1. CASE fwd.selector = "simulcast"
  <2>1. v \in SelectSimulcast(l, sn)
    BY <1>1 DEF Select
  <2>2. \/ /\ v = Verdict(l, TRUE, FALSE) /\ sn \in KeyFrames /\ l # fwd.cur
        \/ v = Verdict(fwd.cur, l = fwd.cur, FALSE)
    BY <1>0, <2>1 DEF SelectSimulcast
  <2>3. CASE v = Verdict(l, TRUE, FALSE) /\ sn \in KeyFrames /\ l # fwd.cur
    <3>1. v.cur = l /\ v.selected = TRUE /\ v.relevant = FALSE
      BY <2>3 DEF Verdict
    <3> QED BY <1>a, <1>1, <2>3, <3>1 DEF Accepts
  <2>4. CASE v = Verdict(fwd.cur, l = fwd.cur, FALSE) /\ l = fwd.cur
    <3>1. v = Verdict(fwd.cur, TRUE, FALSE)
      BY <2>4
    <3>2. v.cur = l /\ v.selected = TRUE /\ v.relevant = FALSE
      BY <2>4, <3>1 DEF Verdict
    <3> QED BY <1>a, <1>1, <2>4, <3>2 DEF Accepts
  <2>5. CASE v = Verdict(fwd.cur, l = fwd.cur, FALSE) /\ l # fwd.cur
    <3>1. v = Verdict(fwd.cur, FALSE, FALSE)
      BY <2>5
    <3>2. v.cur = fwd.cur /\ v.selected = FALSE /\ v.relevant = FALSE
      BY <2>5, <3>1 DEF Verdict
    <3> QED BY <1>a, <1>1, <2>5, <3>2 DEF Rejects
  <2> QED BY <2>2, <2>3, <2>4, <2>5
<1>2. CASE fwd.selector = "dd"
  <2>1. v \in SelectDD(sn, payload)
    BY <1>2 DEF Select
  <2>2. \/ v = Verdict(fwd.cur, FALSE, fwd.cur # NoLayer)
        \/ payload /\ \E c \in 0 .. fwd.target : v = Verdict(c, TRUE, TRUE)
    BY <2>1 DEF SelectDD
  <2>3. \A c \in 0 .. fwd.target : c \in Layers \cup {NoLayer} /\ c # NoLayer
    BY <1>0 DEF Layers, NoLayer
  <2>4. CASE v = Verdict(fwd.cur, FALSE, fwd.cur # NoLayer) /\ fwd.cur # NoLayer
    <3>1. v = Verdict(fwd.cur, FALSE, TRUE)
      BY <2>4
    <3>2. v.cur = fwd.cur /\ v.selected = FALSE /\ v.relevant = TRUE
      BY <3>1 DEF Verdict
    <3> QED BY <1>a, <1>2, <2>4, <3>2 DEF Rejects
  <2>5. CASE v = Verdict(fwd.cur, FALSE, fwd.cur # NoLayer) /\ fwd.cur = NoLayer
    <3>1. v = Verdict(fwd.cur, FALSE, FALSE)
      BY <2>5
    <3>2. v.cur = fwd.cur /\ v.selected = FALSE /\ v.relevant = FALSE
      BY <3>1 DEF Verdict
    <3> QED BY <1>a, <1>2, <2>5, <3>2 DEF Rejects
  <2>6. ASSUME NEW c \in 0 .. fwd.target, v = Verdict(c, TRUE, TRUE), payload
        PROVE  v.cur \in Layers \cup {NoLayer} /\ v.selected = TRUE /\ Accepts(l, sn, payload, v)
    <3>1. v.cur = c /\ v.selected = TRUE
      BY <2>6 DEF Verdict
    <3> QED BY <1>2, <2>3, <2>6, <3>1 DEF Accepts
  <2> QED BY <2>2, <2>4, <2>5, <2>6
<1>3. CASE fwd.selector = "vp9"
  <2>1. v \in SelectVP9(sn, payload)
    BY <1>3 DEF Select
  <2>2. \/ v = Verdict(fwd.cur, FALSE, FALSE)
        \/ v = Verdict(0, FALSE, TRUE)
        \/ v = Verdict(fwd.cur, FALSE, TRUE)
        \/ v = Verdict(fwd.cur, TRUE, TRUE) /\ fwd.cur # NoLayer /\ payload
        \/ v = Verdict(fwd.target, TRUE, TRUE) /\ payload
    BY <2>1 DEF SelectVP9
  <2>3. \/ v.cur = fwd.cur /\ v.selected = FALSE /\ v.relevant = FALSE
        \/ v.cur = 0 /\ v.selected = FALSE /\ v.relevant = TRUE
        \/ v.cur = fwd.cur /\ v.selected = FALSE /\ v.relevant = TRUE
        \/ v.cur = fwd.cur /\ v.selected = TRUE /\ v.relevant = TRUE /\ fwd.cur # NoLayer /\ payload
        \/ v.cur = fwd.target /\ v.selected = TRUE /\ v.relevant = TRUE /\ payload
    BY <2>2 DEF Verdict
  <2> QED BY <1>a, <1>3, <2>3 DEF Accepts, Rejects
<1> QED BY <1>0, <1>1, <1>2, <1>3

-----------------------------------------------------------------------------
(* The cases of WriteRTP.                                                   *)

LEMMA NotSelectedCases ==
    ASSUME NumbersInv, NEW l \in Streams, NEW sn \in SNs, NEW payload \in BOOLEAN, NEW marker \in BOOLEAN,
           NotSelected(l, sn, payload, marker)
    PROVE  /\ Flowing /\ gaveUp' = gaveUp /\ passed' = passed
           /\ fwd' \in Forwarder /\ fwd'.started = fwd.started
           /\ fwd'.lastSSRC = fwd.lastSSRC /\ fwd'.target = fwd.target
           /\ fwd.selector # "vp9" => fwd'.cur = fwd.cur
           /\ fwd'.selector = NextSelector(payload)
           /\ \/ /\ munger' = munger /\ out' = out
                 /\ fwd.selector = "simulcast" => l # fwd.cur
                 /\ fwd.selector = "dd" => fwd.lastSSRC = NoLayer
              \/ /\ fwd.started /\ Processed(munger, sn) /\ fwd.selector # "simulcast"
                 /\ fwd.selector = "dd" => fwd.lastSSRC # NoLayer
<1>0. /\ PacketTypeOK /\ SourceOK /\ MungerOK(munger) /\ fwd \in Forwarder /\ sn \in Int
      /\ ~fwd.started => fwd.lastSSRC = NoLayer
  BY SNsType DEF NumbersInv, PacketTypeOK, NotStarted
<1>1. Flowing /\ gaveUp' = gaveUp /\ passed' = passed
  BY DEF NotSelected
<1>2. PICK v \in Select(l, sn, payload) :
         /\ ~v.selected
         /\ fwd' = [fwd EXCEPT !.cur = v.cur, !.selector = NextSelector(payload)]
         /\ IF v.relevant /\ fwd.started
            THEN IF HasNumber(munger, sn, payload)
                 THEN Filtered(munger, sn, sn, payload, marker)
                 ELSE munger' = Translated(munger, sn, sn, payload, marker) /\ UNCHANGED out
            ELSE UNCHANGED <<munger, out>>
  BY DEF NotSelected
<1>3. /\ v.cur \in Layers \cup {NoLayer}
      /\ \/ fwd.selector = "simulcast" /\ v.relevant = FALSE /\ v.cur = fwd.cur /\ l # fwd.cur
         \/ fwd.selector = "dd" /\ v.relevant = TRUE /\ v.cur = fwd.cur /\ fwd.cur # NoLayer
         \/ fwd.selector = "dd" /\ v.relevant = FALSE /\ v.cur = fwd.cur /\ fwd.cur = NoLayer
         \/ fwd.selector = "vp9"
  <2>1. /\ v.cur \in Layers \cup {NoLayer}
        /\ \/ v.selected = TRUE /\ Accepts(l, sn, payload, v)
           \/ v.selected = FALSE /\ Rejects(l, v)
    BY <1>0, <1>1, <1>2, SelectIs
  <2>2. v.selected # TRUE
    BY <1>2
  <2> QED BY <2>1, <2>2 DEF Rejects
<1>4. NextSelector(payload) \in {"simulcast", "dd", "vp9"}
  BY <1>0, ForwarderFields DEF NextSelector
<1>5. /\ fwd' \in Forwarder /\ fwd'.started = fwd.started
      /\ fwd'.lastSSRC = fwd.lastSSRC /\ fwd'.target = fwd.target
      /\ fwd'.cur = v.cur /\ fwd'.selector = NextSelector(payload)
  BY <1>0, <1>2, <1>3, <1>4 DEF Forwarder
<1>6. CASE v.relevant /\ fwd.started
  <2>1. Processed(munger, sn)
    <3>1. CASE HasNumber(munger, sn, payload)
      BY <1>0, <1>2, <1>6, <3>1, FilteredIs
    <3>2. CASE ~HasNumber(munger, sn, payload)
      <4>1. munger' = Translated(munger, sn, sn, payload, marker) /\ out' = out
        BY <1>2, <1>6, <3>2
      <4>2. TakesNone(munger, munger', sn)
        BY <1>0, <3>2, <4>1, TranslatedIs
      <4> QED BY <4>1, <4>2 DEF Processed
    <3> QED BY <3>1, <3>2
  <2>2. fwd.selector # "simulcast" /\ (fwd.selector = "dd" => fwd.cur # NoLayer)
    BY <1>3, <1>6
  <2>3. fwd.selector = "dd" => fwd.lastSSRC # NoLayer
    BY <1>0, <2>2 DEF SourceOK
  <2> QED BY <1>1, <1>3, <1>5, <1>6, <2>1, <2>2, <2>3
<1>7. CASE ~(v.relevant /\ fwd.started)
  <2>1. munger' = munger /\ out' = out
    BY <1>2, <1>7
  <2>2. fwd.selector = "simulcast" => l # fwd.cur
    BY <1>3
  <2>3. fwd.selector = "dd" => fwd.lastSSRC = NoLayer
    BY <1>0, <1>3, <1>7 DEF SourceOK
  <2> QED BY <1>1, <1>3, <1>5, <2>1, <2>2, <2>3
<1> QED BY <1>6, <1>7

(* A selected packet begins the stream. *)
Begins(m, sn) ==
    \E n \in Int : TakesNext(m, munger', sn, n) /\ (Sends(n) \/ (out' = out /\ n \in gaveUp'))

LEMMA SelectedCases ==
    ASSUME NumbersInv, NEW l \in Streams, NEW sn \in SNs, NEW payload \in BOOLEAN, NEW marker \in BOOLEAN,
           Comes(l, sn, payload), Selected(l, sn, payload, marker)
    PROVE  /\ Flowing
           /\ fwd' \in Forwarder /\ fwd'.selector = fwd.selector /\ fwd'.started = TRUE
           /\ fwd'.lastSSRC = l /\ fwd'.cur # NoLayer /\ fwd'.target = fwd.target
           /\ fwd.selector = "simulcast" => fwd'.cur = l
           /\ \/ /\ fwd.lastSSRC = l /\ Processed(munger, sn)
                 /\ gaveUp \subseteq gaveUp' /\ passed' = passed
              \/ /\ fwd.lastSSRC # l /\ gaveUp \cup Unsent \subseteq gaveUp'
                 /\ passed' = {o \in arrived[l] : o > sn}
                 /\ \/ fwd.started /\ \E d \in Nat : Processed(UpdateSnTsOffsets(munger, sn, sn, 1, d), sn)
                    \/ ~fwd.started /\ Begins(SetLastSnTs(munger, sn, sn), sn)
<1>0. /\ PacketTypeOK /\ SourceOK /\ MungerOK(munger) /\ fwd \in Forwarder /\ sn \in Int
      /\ ~fwd.started => fwd.lastSSRC = NoLayer
  BY SNsType DEF NumbersInv, PacketTypeOK, NotStarted
<1>1. Flowing /\ (fwd.lastSSRC # l => StartAllowed(l, sn))
  BY DEF Selected
<1>2. PICK v \in Select(l, sn, payload), m \in Switched(l, sn, sn) :
         /\ v.selected
         /\ fwd' = [fwd EXCEPT !.cur = v.cur, !.started = TRUE, !.lastSSRC = l, !.ref = TRUE]
         /\ passed' = IF fwd.lastSSRC = l THEN passed ELSE {o \in arrived[l] : o > sn}
         /\ LET left == IF fwd.lastSSRC = l THEN gaveUp ELSE gaveUp \cup Unsent
                n    == TranslatedSN(m, sn)
            IN
            \/ /\ ~HasNumber(m, sn, payload)
               /\ munger' = Translated(m, sn, sn, payload, marker)
               /\ gaveUp' = left
               /\ UNCHANGED <<flight, out>>
            \/ /\ fwd.selector = "simulcast" /\ HasNumber(m, sn, payload) /\ payload
               /\ sn \notin KeyFrames \/ OutOfOrder(m, sn)
               /\ Filtered(m, sn, sn, payload, marker)
               /\ gaveUp' = left
               /\ UNCHANGED flight
            \/ /\ HasNumber(m, sn, payload)
               /\ fwd.target < v.cur
               /\ munger' = Translated(m, sn, sn, payload, marker)
               /\ gaveUp' = left \cup {n}
               /\ UNCHANGED <<flight, out>>
            \/ /\ HasNumber(m, sn, payload)
               /\ munger' = Translated(m, sn, sn, payload, marker)
               /\ flight' = [flight EXCEPT ![l] = [sn |-> n, source |-> Packet(l, sn)]]
               /\ SetOut(n, Packet(l, sn))
               /\ gaveUp' = left
  BY DEF Selected
<1> DEFINE left == IF fwd.lastSSRC = l THEN gaveUp ELSE gaveUp \cup Unsent
           n    == TranslatedSN(m, sn)
           r    == Translated(m, sn, sn, payload, marker)
<1>3. \/ ~HasNumber(m, sn, payload) /\ munger' = r /\ gaveUp' = left /\ out' = out
      \/ /\ fwd.selector = "simulcast" /\ HasNumber(m, sn, payload)
         /\ sn \notin KeyFrames \/ OutOfOrder(m, sn)
         /\ Filtered(m, sn, sn, payload, marker) /\ gaveUp' = left
      \/ HasNumber(m, sn, payload) /\ munger' = r /\ gaveUp' = left \cup {n} /\ out' = out
      \/ HasNumber(m, sn, payload) /\ munger' = r /\ gaveUp' = left /\ SetOut(n, Packet(l, sn))
  BY <1>2
<1>4. /\ v.cur \in Layers \cup {NoLayer} /\ v.cur # NoLayer
      /\ fwd.selector = "simulcast" => v.cur = l /\ (sn \in KeyFrames \/ fwd.cur = l)
  <2>0. l # NoLayer
    BY DEF Streams, Layers, NoLayer
  <2>1. v.cur \in Layers \cup {NoLayer}
    BY <1>0, <1>1, <1>2, SelectIs
  <2>2. \/ fwd.selector = "simulcast" /\ v.cur = l /\ (sn \in KeyFrames \/ fwd.cur = l)
        \/ fwd.selector \in {"dd", "vp9"} /\ v.cur # NoLayer
    <3>1. \/ v.selected = TRUE /\ Accepts(l, sn, payload, v)
          \/ v.selected = FALSE /\ Rejects(l, v)
      BY <1>0, <1>1, <1>2, SelectIs
    <3>2. v.selected # FALSE
      BY <1>2
    <3> QED BY <3>1, <3>2 DEF Accepts
  <2> QED BY <2>0, <2>1, <2>2
<1>5. l \in Layers
  BY DEF Streams, Layers
<1>6. /\ fwd' \in Forwarder /\ fwd'.selector = fwd.selector /\ fwd'.started = TRUE
      /\ fwd'.lastSSRC = l /\ fwd'.cur = v.cur /\ fwd'.target = fwd.target
  BY <1>0, <1>2, <1>4, <1>5 DEF Forwarder
<1>7. left \subseteq gaveUp'
  BY <1>3
<1>8. ASSUME MungerOK(m) PROVE Processed(m, sn)
  <2>1. HasNumber(m, sn, payload) => Takes(m, r, sn, n) /\ n \in Int
    <3>1. HasNumber(m, sn, payload) => Takes(m, r, sn, n)
      BY <1>0, <1>8, TranslatedIs
    <3> HIDE DEF r, n
    <3> QED BY <1>0, <1>8, <3>1, TakesOK
  <2>2. ~HasNumber(m, sn, payload) => TakesNone(m, r, sn)
    BY <1>0, <1>8, TranslatedIs
  <2> HIDE DEF r, n, left
  <2>3. CASE ~HasNumber(m, sn, payload) /\ munger' = r /\ gaveUp' = left /\ out' = out
    BY <2>2, <2>3 DEF Processed
  <2>4. CASE HasNumber(m, sn, payload) /\ Filtered(m, sn, sn, payload, marker)
    BY <1>0, <1>8, <2>4, FilteredIs
  <2>5. CASE HasNumber(m, sn, payload) /\ munger' = r /\ gaveUp' = left \cup {n} /\ out' = out
    BY <2>1, <2>5 DEF Processed
  <2>6. CASE HasNumber(m, sn, payload) /\ munger' = r /\ gaveUp' = left /\ SetOut(n, Packet(l, sn))
    BY <2>1, <2>6, SetOutSends DEF Processed
  <2> QED BY <1>3, <2>3, <2>4, <2>5, <2>6
<1>9. CASE fwd.lastSSRC = l
  <2>1. m = munger
    BY <1>2, <1>9 DEF Switched
  <2>2. Processed(munger, sn)
    BY <1>0, <1>8, <2>1
  <2> QED BY <1>1, <1>2, <1>4, <1>6, <1>7, <1>9, <2>2
<1>10. CASE fwd.lastSSRC # l /\ fwd.started
  <2>1. PICK d \in 1 .. 2 : m = UpdateSnTsOffsets(munger, sn, sn, 1, d)
    BY <1>2, <1>10 DEF Switched
  <2>2. d \in Nat /\ MungerOK(m)
    BY <1>0, <2>1, SwitchOK DEF Fresh
  <2>3. Processed(UpdateSnTsOffsets(munger, sn, sn, 1, d), sn)
    BY <1>8, <2>1, <2>2
  <2> QED BY <1>1, <1>2, <1>4, <1>6, <1>7, <1>10, <2>2, <2>3
<1>11. CASE fwd.lastSSRC # l /\ ~fwd.started
  <2>1. m = SetLastSnTs(munger, sn, sn)
    BY <1>2, <1>11 DEF Switched
  <2>2. MungerOK(m) /\ m.highestIncoming = sn - 1
    BY <1>0, <2>1, StartOK DEF Fresh
  <2>3. payload
    BY <1>1, <1>11 DEF StartAllowed, Comes
  <2>4. Contiguous(m, sn, payload) /\ HasNumber(m, sn, payload) /\ ~OutOfOrder(m, sn)
    BY <1>0, <2>2, <2>3 DEF Contiguous, HasNumber, OutOfOrder
  <2>5. ~(fwd.selector = "simulcast" /\ (sn \notin KeyFrames \/ OutOfOrder(m, sn)))
    <3>1. fwd.selector = "simulcast" => fwd.cur = NoLayer
      BY <1>0, <1>11 DEF SourceOK
    <3>2. l # NoLayer
      BY DEF Streams, Layers, NoLayer
    <3> QED BY <1>4, <2>4, <3>1, <3>2
  <2>6. TakesNext(m, r, sn, n)
    <3>1. r = InOrder(m, sn, sn, marker) /\ n = sn - m.snOffset /\ sn > m.highestIncoming
      BY <1>0, <2>2, <2>4 DEF Translated, TranslatedSN
    <3> QED BY <3>1 DEF TakesNext
  <2>7. n \in Int
    <3> HIDE DEF r, n
    <3> QED BY <1>0, <2>2, <2>6, TakesOK DEF Takes
  <2> HIDE DEF r, n, left
  <2>8. munger' = r /\ ((gaveUp' = left \cup {n} /\ out' = out) \/ SetOut(n, Packet(l, sn)))
    BY <1>3, <2>4, <2>5
  <2>9. Begins(m, sn)
    BY <2>6, <2>7, <2>8, SetOutSends DEF Begins
  <2> QED BY <1>1, <1>2, <1>4, <1>6, <1>7, <1>11, <2>1, <2>9 DEF left
<1> QED BY <1>9, <1>10, <1>11

-----------------------------------------------------------------------------
(* Every step keeps the invariant of the numbers.                           *)

(* What a step may do to numbers and timestamps. *)
NumbersStep ==
    /\ munger'.lastTS >= munger.lastTS
    /\ OutOfSync \/ \A n \in DOMAIN out : n \in DOMAIN out' /\ out'[n] = out[n]
    /\ (~OutOfSync /\ fwd.lastSSRC = NoLayer /\ fwd.started /\ arrived' # arrived)
          => munger'.lastSN - munger.lastSN \in 0 .. 1

(* A packet that is translated, whether in sync or not. *)
LEMMA ProcessedNumbers ==
    ASSUME NEW m, MungerOK(m), NEW sn \in Int, Processed(m, sn), DOMAIN out \subseteq Int,
           \A n \in DOMAIN out : n <= m.lastSN
    PROVE  /\ MungerOK(munger') /\ munger'.lastTS >= m.lastTS /\ munger'.lastSN >= m.lastSN
           /\ Synced(m) => Synced(munger')
           /\ munger'.highestIncoming >= m.highestIncoming /\ munger'.highestIncoming >= sn
           /\ DOMAIN out' \subseteq Int /\ \A n \in DOMAIN out' : n <= munger'.lastSN
<1>0. m.lastSN \in Int /\ m.lastTS \in Int
  BY MungerFields DEF MungerOK
<1>1. CASE TakesNone(m, munger', sn) /\ out' = out
  <2>1. /\ MungerOK(munger') /\ munger'.lastSN = m.lastSN /\ munger'.lastTS = m.lastTS
        /\ Synced(m) => Synced(munger')
        /\ munger'.highestIncoming >= m.highestIncoming /\ munger'.highestIncoming >= sn
    BY <1>1, TakesNoneOK
  <2> QED BY <1>0, <1>1, <2>1
<1>2. ASSUME NEW n \in Int, Takes(m, munger', sn, n), Sends(n) \/ (out' = out /\ n \in gaveUp')
      PROVE  /\ MungerOK(munger') /\ munger'.lastTS >= m.lastTS /\ munger'.lastSN >= m.lastSN
             /\ Synced(m) => Synced(munger')
             /\ munger'.highestIncoming >= m.highestIncoming /\ munger'.highestIncoming >= sn
             /\ DOMAIN out' \subseteq Int /\ \A o \in DOMAIN out' : o <= munger'.lastSN
  <2>1. /\ MungerOK(munger') /\ n <= munger'.lastSN
        /\ munger'.lastSN >= m.lastSN /\ munger'.lastTS >= m.lastTS
        /\ Synced(m) => Synced(munger')
        /\ munger'.highestIncoming >= m.highestIncoming /\ munger'.highestIncoming >= sn
    BY <1>2, TakesOK
  <2>2. munger'.lastSN \in Int
    BY <2>1, MungerFields DEF MungerOK
  <2>3. \A o \in DOMAIN out : o <= munger'.lastSN
    BY <1>0, <2>1, <2>2
  <2>4. DOMAIN out' \subseteq DOMAIN out \cup {n}
    BY <1>2 DEF Sends
  <2> QED BY <2>1, <2>3, <2>4
<1> QED BY <1>1, <1>2 DEF Processed

(* A packet that is translated in sync takes a number of its own. *)
LEMMA ProcessedUnused ==
    ASSUME NEW m, MungerOK(m), DOMAIN out \subseteq Int,
           \A u \in DOMAIN out : u <= m.highestIncoming - m.snOffset,
           NEW sns \in SUBSET Int, NEW arr, Unused(sns, m, arr, DOMAIN out),
           NEW sn \in sns \ arr, Processed(m, sn)
    PROVE  /\ \A o \in DOMAIN out : o \in DOMAIN out' /\ out'[o] = out[o]
           /\ Unused(sns, munger', arr \cup {sn}, DOMAIN out')
<1>1. CASE TakesNone(m, munger', sn) /\ out' = out
  <2>1. Unused(sns, munger', arr \cup {sn}, DOMAIN out)
    BY <1>1, TakesNoneUnused
  <2> QED BY <1>1, <2>1
<1>2. ASSUME NEW n \in Int, Takes(m, munger', sn, n), Sends(n) \/ (out' = out /\ n \in gaveUp')
      PROVE  /\ \A o \in DOMAIN out : o \in DOMAIN out' /\ out'[o] = out[o]
             /\ Unused(sns, munger', arr \cup {sn}, DOMAIN out')
  <2>0. DOMAIN out \in SUBSET Int
    OBVIOUS
  <2>1. n \notin DOMAIN out /\ Unused(sns, munger', arr \cup {sn}, DOMAIN out \cup {n})
    BY <1>2, <2>0, TakesUnused, Zenon
  <2>2. CASE Sends(n)
    BY <2>1, <2>2 DEF Sends
  <2>3. CASE out' = out
    BY <2>1, <2>3 DEF Unused
  <2> QED BY <1>2, <2>2, <2>3
<1> QED BY <1>1, <1>2 DEF Processed

(* The first packet after a switch takes the number after the last one, or none. *)
LEMMA FreshProcessed ==
    ASSUME NEW m, NEW sn \in Int, Fresh(m, sn), Synced(m), Processed(m, sn)
    PROVE  munger'.lastSN - m.lastSN \in 0 .. 1
<1>0. /\ MungerOK(m) /\ m.highestIncoming = sn - 1 /\ m.lastSN = m.highestIncoming - m.snOffset
      /\ m.lastSN \in Int /\ m.snOffset \in Int
  BY MungerFields DEF Fresh, MungerOK, Synced
<1>1. CASE TakesNone(m, munger', sn)
  BY <1>0, <1>1, TakesNoneOK
<1>2. ASSUME NEW n \in Int, Takes(m, munger', sn, n)
      PROVE  munger'.lastSN = m.lastSN + 1
  <2>1. TakesNext(m, munger', sn, n)
    BY <1>0, <1>2 DEF Takes, FillsHole
  <2>2. PICK marker \in BOOLEAN : munger' = InOrder(m, sn, sn, marker)
    BY <2>1 DEF TakesNext
  <2>3. munger'.lastSN = sn - m.snOffset
    BY <1>0, <2>1, <2>2, InOrderOK DEF TakesNext
  <2> QED BY <1>0, <2>3
<1> QED BY <1>0, <1>1, <1>2 DEF Processed

LEMMA UnusedLess ==
    ASSUME NEW sns, NEW m, NEW arr, NEW more, NEW used, Unused(sns, m, arr, used), arr \subseteq more
    PROVE  Unused(sns, m, more, used)
BY DEF Unused

LEMMA ComesIs ==
    ASSUME PacketTypeOK, NEW l, NEW sn \in SNs, NEW payload, Comes(l, sn, payload)
    PROVE  /\ l \in Streams /\ l \in Layers /\ l # NoLayer /\ restart = "no" /\ restart' = "no"
           /\ sn \in Int /\ sn \in SNs \ arrived[l]
           /\ scope' = scope /\ muted' = muted /\ padder' = padder
           /\ SNs' = SNs /\ Streams' = Streams
           /\ arrived' \in [Layers -> SUBSET Int] /\ arrived'[l] = arrived[l] \cup {sn}
           /\ \A k \in Layers : k # l => arrived'[k] = arrived[k]
<1>1. l \in Streams /\ l \in Layers /\ l # NoLayer
  BY DEF Comes, Streams, Layers, NoLayer
<1>2. sn \in Int
  BY SNsType
<1>3. arrived \in [Layers -> SUBSET Int] /\ arrived' = [arrived EXCEPT ![l] = @ \cup {sn}]
  BY DEF Comes, PacketTypeOK
<1>4. arrived' \in [Layers -> SUBSET Int] /\ arrived'[l] = arrived[l] \cup {sn}
  BY <1>1, <1>2, <1>3
<1>5. \A k \in Layers : k # l => arrived'[k] = arrived[k]
  BY <1>1, <1>3
<1>6. /\ restart = "no" /\ restart' = restart /\ sn \notin arrived[l]
      /\ scope' = scope /\ muted' = muted /\ padder' = padder
  BY DEF Comes
<1>7. SNs' = SNs /\ Streams' = Streams
  BY <1>6 DEF SNs, Streams
<1> QED BY <1>1, <1>2, <1>4, <1>5, <1>6, <1>7

(* A packet that is not translated. *)
LEMMA NotTranslatedStep ==
    ASSUME NumbersInv, NEW l, NEW sn \in SNs, NEW payload, Comes(l, sn, payload),
           munger' = munger, out' = out, fwd' \in Forwarder,
           fwd'.started = fwd.started, fwd'.lastSSRC = fwd.lastSSRC, fwd'.target = fwd.target,
           SourceOK'
    PROVE  NumbersInv' /\ NumbersStep
<1>0. PacketTypeOK /\ NotStarted /\ NoneBeyond /\ LateAreUnused
  BY DEF NumbersInv
<1>1. /\ l \in Layers /\ restart = "no" /\ restart' = "no"
      /\ scope' = scope /\ muted' = muted /\ padder' = padder /\ SNs' = SNs
      /\ arrived' \in [Layers -> SUBSET Int] /\ arrived'[l] = arrived[l] \cup {sn}
  BY <1>0, ComesIs
<1>a. \A k \in Layers : k # l => arrived'[k] = arrived[k]
  BY <1>0, <1>1 DEF Comes, PacketTypeOK
<1>2. PacketTypeOK'
  BY <1>0, <1>1 DEF PacketTypeOK, MungerOK, Synced
<1>3. NotStarted'
  BY <1>0, <1>1 DEF NotStarted
<1>4. NoneBeyond'
  BY <1>0 DEF NoneBeyond
<1>5. LateAreUnused'
  <2> SUFFICES ASSUME fwd'.lastSSRC # NoLayer
               PROVE  Unused(SNs, munger, arrived'[fwd.lastSSRC], DOMAIN out)
    BY <1>1 DEF LateAreUnused, Unused
  <2>1. Unused(SNs, munger, arrived[fwd.lastSSRC], DOMAIN out)
    BY <1>0, <1>1 DEF LateAreUnused
  <2>2. fwd.lastSSRC \in Layers
    BY <1>0, ForwarderFields DEF PacketTypeOK, Layers, NoLayer
  <2>3. arrived[fwd.lastSSRC] \subseteq arrived'[fwd.lastSSRC]
    BY <1>1, <1>a, <2>2
  <2> QED BY <2>1, <2>3, UnusedLess
<1>6. NumbersStep
  <2>1. munger.lastSN \in Int /\ munger.lastTS \in Int
    BY <1>0, MungerFields DEF PacketTypeOK, MungerOK
  <2> QED BY <2>1 DEF NumbersStep
<1> QED BY <1>2, <1>3, <1>4, <1>5, <1>6 DEF NumbersInv

LEMMA DropStep ==
    ASSUME NumbersInv, NEW l, NEW sn \in SNs, DropWhileMuted(l, sn)
    PROVE  NumbersInv' /\ NumbersStep
<1>0. SourceOK /\ PacketTypeOK
  BY DEF NumbersInv
<1>1. Comes(l, sn, TRUE) /\ munger' = munger /\ out' = out /\ fwd' = fwd
  BY DEF DropWhileMuted, histVars
<1>2. scope' = scope /\ muted' = muted /\ Streams' = Streams
  BY <1>0, <1>1, ComesIs
<1>3. SourceOK'
  BY <1>0, <1>1, <1>2 DEF SourceOK, Synced, Flowing
<1>4. fwd' \in Forwarder
  BY <1>0, <1>1 DEF PacketTypeOK
<1> QED BY <1>1, <1>3, <1>4, NotTranslatedStep

(* The parts of the invariant that concern the source, after a packet. *)
LEMMA NotSelectedSource ==
    ASSUME NumbersInv, NEW l, NEW sn \in SNs, NEW payload \in BOOLEAN, NEW marker \in BOOLEAN,
           Comes(l, sn, payload), NotSelected(l, sn, payload, marker),
           Synced(munger) => Synced(munger')
    PROVE  SourceOK'
<1>0. SourceOK /\ PacketTypeOK
  BY DEF NumbersInv
<1>1. l \in Streams /\ scope' = scope /\ muted' = muted /\ Streams' = Streams
  BY <1>0, ComesIs
<1>2. /\ fwd'.lastSSRC = fwd.lastSSRC /\ fwd'.target = fwd.target
      /\ fwd.selector # "vp9" => fwd'.cur = fwd.cur
      /\ fwd'.selector = NextSelector(payload)
  BY <1>1, NotSelectedCases
<1>3. /\ fwd.selector \in {"simulcast", "dd", "vp9"}
      /\ fwd'.selector # "vp9" => fwd.selector # "vp9"
      /\ fwd'.selector = "dd" => fwd.selector = "dd"
      /\ fwd.selector = "simulcast" => fwd'.selector = "simulcast"
  BY <1>0, <1>2, ForwarderFields DEF NextSelector, PacketTypeOK
<1>4. fwd'.lastSSRC # NoLayer => Synced(munger') /\ Flowing'
  BY <1>0, <1>1, <1>2 DEF SourceOK, Flowing
<1>5. scope.codec = "VP8" => fwd'.selector = "simulcast" /\ fwd'.cur = fwd'.lastSSRC
  BY <1>0, <1>2, <1>3 DEF SourceOK
<1>6. /\ fwd'.selector # "vp9" => (fwd'.cur # NoLayer => fwd'.lastSSRC # NoLayer)
      /\ fwd'.selector = "dd" => (fwd'.lastSSRC # NoLayer => fwd'.cur # NoLayer)
  BY <1>0, <1>2, <1>3 DEF SourceOK
<1>7. fwd'.lastSSRC \in Streams' \cup {NoLayer}
  BY <1>0, <1>1, <1>2 DEF SourceOK
<1> QED BY <1>1, <1>4, <1>5, <1>6, <1>7 DEF SourceOK

LEMMA NotSelectedStep ==
    ASSUME NumbersInv, NEW l, NEW sn \in SNs, NEW payload \in BOOLEAN, NEW marker \in BOOLEAN,
           Comes(l, sn, payload), NotSelected(l, sn, payload, marker)
    PROVE  NumbersInv' /\ NumbersStep
<1>0. PacketTypeOK /\ NotStarted /\ NoneBeyond /\ LateAreUnused /\ SourceOK
  BY DEF NumbersInv
<1>1. /\ l \in Layers /\ l \in Streams /\ l # NoLayer /\ restart = "no" /\ restart' = "no"
      /\ scope' = scope /\ muted' = muted /\ padder' = padder /\ SNs' = SNs
      /\ sn \in Int /\ sn \in SNs \ arrived[l]
      /\ arrived' \in [Layers -> SUBSET Int] /\ arrived'[l] = arrived[l] \cup {sn}
  BY <1>0, ComesIs
<1>2. /\ fwd' \in Forwarder /\ fwd'.started = fwd.started
      /\ fwd'.lastSSRC = fwd.lastSSRC /\ fwd'.target = fwd.target
      /\ \/ munger' = munger /\ out' = out
         \/ /\ fwd.started /\ Processed(munger, sn) /\ fwd.selector # "simulcast"
            /\ fwd.selector = "dd" => fwd.lastSSRC # NoLayer
  BY <1>1, NotSelectedCases
<1>3. CASE munger' = munger /\ out' = out
  <2>1. SourceOK'
    BY <1>3, NotSelectedSource
  <2> QED BY <1>2, <1>3, <2>1, NotTranslatedStep
<1>4. CASE /\ fwd.started /\ Processed(munger, sn) /\ fwd.selector # "simulcast"
           /\ fwd.selector = "dd" => fwd.lastSSRC # NoLayer
  <2>1. MungerOK(munger) /\ DOMAIN out \subseteq Int /\ \A n \in DOMAIN out : n <= munger.lastSN
    BY <1>0 DEF PacketTypeOK, NoneBeyond
  <2>2. /\ MungerOK(munger') /\ munger'.lastTS >= munger.lastTS
        /\ Synced(munger) => Synced(munger')
        /\ DOMAIN out' \subseteq Int /\ \A n \in DOMAIN out' : n <= munger'.lastSN
    BY <1>1, <1>4, <2>1, ProcessedNumbers
  <2>3. SourceOK'
    BY <2>2, NotSelectedSource
  <2>4. PacketTypeOK'
    BY <1>0, <1>1, <1>2, <2>2 DEF PacketTypeOK, MungerOK
  <2>5. NotStarted'
    BY <1>0, <1>1, <1>2, <1>4 DEF NotStarted
  <2>6. NoneBeyond'
    BY <2>2 DEF NoneBeyond
  <2>7. CASE fwd.lastSSRC = NoLayer
    <3>1. LateAreUnused'
      BY <1>2, <2>7 DEF LateAreUnused
    <3>2. OutOfSync
      BY <1>0, <1>4, <2>7, ForwarderFields DEF OutOfSync, PacketTypeOK
    <3>3. NumbersStep
      BY <2>2, <3>2 DEF NumbersStep
    <3> QED BY <2>3, <2>4, <2>5, <2>6, <3>1, <3>3 DEF NumbersInv
  <2>8. CASE fwd.lastSSRC # NoLayer
    <3>1. fwd.lastSSRC = l
      BY <1>0, <1>1, <1>4, <2>8 DEF SourceOK, Streams
    <3>2. Unused(SNs, munger, arrived[l], DOMAIN out)
      BY <1>0, <1>1, <2>8, <3>1 DEF LateAreUnused
    <3>3. \A u \in DOMAIN out : u <= munger.highestIncoming - munger.snOffset
      BY <1>0, <2>1, <2>8 DEF SourceOK, Synced
    <3>4. SNs \in SUBSET Int
      BY <1>0, SNsType
    <3>5. /\ \A o \in DOMAIN out : o \in DOMAIN out' /\ out'[o] = out[o]
          /\ Unused(SNs, munger', arrived[l] \cup {sn}, DOMAIN out')
      BY <1>1, <1>4, <2>1, <3>2, <3>3, <3>4, ProcessedUnused
    <3>6. LateAreUnused'
      BY <1>1, <1>2, <3>1, <3>5 DEF LateAreUnused
    <3>7. NumbersStep
      BY <2>2, <2>8, <3>5 DEF NumbersStep
    <3> QED BY <2>3, <2>4, <2>5, <2>6, <3>6, <3>7 DEF NumbersInv
  <2> QED BY <2>7, <2>8
<1> QED BY <1>2, <1>3, <1>4

(* A selected packet, translated by the munger m: that of the source, or one  *)
(* that was switched to it.                                                   *)
LEMMA SelectedBy ==
    ASSUME NumbersInv, NEW l, NEW sn \in SNs, NEW payload \in BOOLEAN, NEW marker \in BOOLEAN,
           Comes(l, sn, payload), Selected(l, sn, payload, marker),
           NEW m, MungerOK(m), m.lastTS >= munger.lastTS, Processed(m, sn), Synced(munger'),
           \A n \in DOMAIN out : n <= m.lastSN, \A n \in DOMAIN out : n <= m.highestIncoming - m.snOffset,
           Unused(SNs, m, arrived[l], DOMAIN out),
           fwd.lastSSRC = NoLayer /\ fwd.started => munger'.lastSN - munger.lastSN \in 0 .. 1
    PROVE  NumbersInv' /\ NumbersStep
<1>0. PacketTypeOK /\ NotStarted /\ NoneBeyond /\ LateAreUnused /\ SourceOK
  BY DEF NumbersInv
<1>1. /\ l \in Layers /\ l \in Streams /\ l # NoLayer /\ restart = "no" /\ restart' = "no"
      /\ scope' = scope /\ muted' = muted /\ padder' = padder /\ SNs' = SNs /\ Streams' = Streams
      /\ sn \in Int /\ sn \in SNs \ arrived[l]
      /\ arrived' \in [Layers -> SUBSET Int] /\ arrived'[l] = arrived[l] \cup {sn}
  BY <1>0, ComesIs
<1>2. /\ Flowing
      /\ fwd' \in Forwarder /\ fwd'.selector = fwd.selector /\ fwd'.started = TRUE
      /\ fwd'.lastSSRC = l /\ fwd'.cur # NoLayer /\ fwd'.target = fwd.target
      /\ fwd.selector = "simulcast" => fwd'.cur = l
  BY <1>1, SelectedCases
<1>3. DOMAIN out \subseteq Int /\ SNs \in SUBSET Int /\ MungerOK(munger)
  BY <1>0, SNsType DEF PacketTypeOK
<1>4. /\ MungerOK(munger') /\ munger'.lastTS >= m.lastTS
      /\ DOMAIN out' \subseteq Int /\ \A n \in DOMAIN out' : n <= munger'.lastSN
  BY <1>1, <1>3, ProcessedNumbers
<1>5. /\ \A o \in DOMAIN out : o \in DOMAIN out' /\ out'[o] = out[o]
      /\ Unused(SNs, munger', arrived[l] \cup {sn}, DOMAIN out')
  BY <1>1, <1>3, ProcessedUnused
<1>6. PacketTypeOK'
  BY <1>0, <1>1, <1>2, <1>4 DEF PacketTypeOK
<1>7. NotStarted'
  BY <1>2 DEF NotStarted
<1>8. SourceOK'
  BY <1>0, <1>1, <1>2 DEF SourceOK, Flowing
<1>9. NoneBeyond'
  BY <1>4 DEF NoneBeyond
<1>10. LateAreUnused'
  BY <1>1, <1>2, <1>5 DEF LateAreUnused
<1>11. munger'.lastTS >= munger.lastTS
  <2>1. m \in Munger /\ munger \in Munger /\ munger' \in Munger
    BY <1>3, <1>4 DEF MungerOK
  <2>2. m.lastTS \in Int /\ munger.lastTS \in Int /\ munger'.lastTS \in Int
    BY <2>1, MungerFields
  <2> QED BY <1>4, <2>2
<1>12. NumbersStep
  BY <1>5, <1>11 DEF NumbersStep
<1> QED BY <1>6, <1>7, <1>8, <1>9, <1>10, <1>12 DEF NumbersInv

LEMMA SelectedStep ==
    ASSUME NumbersInv, NEW l, NEW sn \in SNs, NEW payload \in BOOLEAN, NEW marker \in BOOLEAN,
           Comes(l, sn, payload), Selected(l, sn, payload, marker)
    PROVE  NumbersInv' /\ NumbersStep
<1>0. PacketTypeOK /\ NotStarted /\ NoneBeyond /\ LateAreUnused /\ SourceOK /\ MungerOK(munger)
  BY DEF NumbersInv, PacketTypeOK
<1>1. l \in Streams /\ l # NoLayer /\ sn \in Int /\ restart = "no"
  BY <1>0, ComesIs
<1>2. \/ fwd.lastSSRC = l /\ Processed(munger, sn)
      \/ fwd.lastSSRC # l /\ fwd.started /\ \E d \in Nat : Processed(UpdateSnTsOffsets(munger, sn, sn, 1, d), sn)
      \/ fwd.lastSSRC # l /\ ~fwd.started /\ Begins(SetLastSnTs(munger, sn, sn), sn)
  BY <1>1, SelectedCases
<1>3. /\ munger.lastSN \in Int /\ munger.lastTS \in Int /\ munger.highestIncoming \in Int /\ munger.snOffset \in Int
      /\ DOMAIN out \subseteq Int /\ \A n \in DOMAIN out : n <= munger.lastSN
      /\ SNs \in SUBSET Int /\ sn >= 1
  BY <1>0, MungerFields, SNsType DEF NoneBeyond, PacketTypeOK, MungerOK
<1>4. CASE fwd.lastSSRC = l /\ Processed(munger, sn)
  <2>1. Synced(munger) /\ \A n \in DOMAIN out : n <= munger.highestIncoming - munger.snOffset
    BY <1>0, <1>1, <1>3, <1>4 DEF SourceOK, Synced
  <2>2. Synced(munger')
    BY <1>0, <1>1, <1>3, <1>4, <2>1, ProcessedNumbers
  <2>3. Unused(SNs, munger, arrived[l], DOMAIN out)
    BY <1>0, <1>1, <1>4 DEF LateAreUnused
  <2>4. munger.lastTS >= munger.lastTS /\ fwd.lastSSRC # NoLayer
    BY <1>1, <1>3, <1>4
  <2> QED BY <1>0, <1>3, <1>4, <2>1, <2>2, <2>3, <2>4, SelectedBy
<1>5. ASSUME fwd.lastSSRC # l, fwd.started, NEW d \in Nat, Processed(UpdateSnTsOffsets(munger, sn, sn, 1, d), sn)
      PROVE  NumbersInv' /\ NumbersStep
  <2> DEFINE m == UpdateSnTsOffsets(munger, sn, sn, 1, d)
  <2>1. Fresh(m, sn) /\ Synced(m) /\ m.lastSN = munger.lastSN /\ m.lastTS = munger.lastTS
    BY <1>0, <1>1, SwitchOK
  <2>2. Processed(m, sn)
    BY <1>5
  <2> HIDE DEF m
  <2>3. MungerOK(m) /\ \A n \in DOMAIN out : n <= m.lastSN
    BY <1>3, <2>1 DEF Fresh
  <2>4. \A n \in DOMAIN out : n <= m.highestIncoming - m.snOffset
    BY <2>1, <2>3 DEF Synced
  <2>5. Synced(munger')
    BY <1>1, <1>3, <2>1, <2>2, <2>3, ProcessedNumbers
  <2>6. Unused(SNs, m, arrived[l], DOMAIN out)
    BY <1>1, <1>3, <2>1, FreshUnused
  <2>7. munger'.lastSN - munger.lastSN \in 0 .. 1 /\ m.lastTS >= munger.lastTS
    BY <1>1, <1>3, <2>1, <2>2, FreshProcessed
  <2> QED BY <2>2, <2>3, <2>4, <2>5, <2>6, <2>7, SelectedBy
<1>6. CASE fwd.lastSSRC # l /\ ~fwd.started /\ Begins(SetLastSnTs(munger, sn, sn), sn)
  <2> DEFINE m == SetLastSnTs(munger, sn, sn)
  <2>1. Fresh(m, sn) /\ m.lastSN = sn /\ m.lastTS = sn /\ m.snOffset = 0
    BY <1>0, <1>1, StartOK
  <2>2. Begins(m, sn)
    BY <1>6
  <2>3. munger.lastTS = 0 /\ out = <<>>
    BY <1>0, <1>6 DEF NotStarted, NewMunger
  <2>4. DOMAIN out = {}
    BY <2>3
  <2> HIDE DEF m
  <2>5. Processed(m, sn)
    BY <2>2 DEF Begins, Processed, Takes
  <2>6. MungerOK(m) /\ m.lastTS >= munger.lastTS
    BY <1>1, <1>3, <2>1, <2>3 DEF Fresh
  <2>7. Synced(munger')
    <3>1. PICK n \in Int : TakesNext(m, munger', sn, n)
      BY <2>2 DEF Begins
    <3>2. PICK mk \in BOOLEAN : munger' = InOrder(m, sn, sn, mk)
      BY <3>1 DEF TakesNext
    <3> QED BY <1>1, <2>6, <3>1, <3>2, InOrderOK DEF TakesNext
  <2>8. Unused(SNs, m, arrived[l], DOMAIN out)
    BY <1>1, <1>3, <2>1, FreshUnused
  <2> QED BY <1>6, <2>4, <2>5, <2>6, <2>7, <2>8, SelectedBy
<1> QED BY <1>2, <1>4, <1>5, <1>6

LEMMA SwitchFailsStep ==
    ASSUME NumbersInv, NEW l, NEW sn \in SNs, NEW payload \in BOOLEAN,
           Comes(l, sn, payload), SwitchFails(l, sn, payload)
    PROVE  /\ NumbersInv' /\ NumbersStep
           /\ munger' = munger /\ out' = out /\ gaveUp' = gaveUp /\ passed' = passed
           /\ fwd.lastSSRC # l /\ fwd'.lastSSRC = fwd.lastSSRC /\ fwd'.selector = fwd.selector
<1>0. SourceOK /\ PacketTypeOK /\ fwd \in Forwarder
  BY DEF NumbersInv, PacketTypeOK
<1>1. /\ l \in Streams /\ l # NoLayer /\ scope' = scope /\ muted' = muted /\ Streams' = Streams
  BY <1>0, ComesIs
<1>2. /\ Flowing /\ fwd.lastSSRC # l
      /\ munger' = munger /\ out' = out /\ gaveUp' = gaveUp /\ passed' = passed
  BY DEF SwitchFails, histVars
<1>3. PICK v \in Select(l, sn, payload) :
         /\ v.selected
         /\ fwd' = [fwd EXCEPT !.cur = IF v.cur # @ THEN @ ELSE NoLayer,
                               !.ref = @ \/ (fwd.started /\ StartAllowed(l, sn))]
  BY DEF SwitchFails
<1>4. /\ fwd' \in Forwarder /\ fwd'.selector = fwd.selector /\ fwd'.started = fwd.started
      /\ fwd'.lastSSRC = fwd.lastSSRC /\ fwd'.target = fwd.target
      /\ fwd'.cur = IF v.cur # fwd.cur THEN fwd.cur ELSE NoLayer
  <2>1. \A c \in Layers \cup {NoLayer}, b \in BOOLEAN : [fwd EXCEPT !.cur = c, !.ref = b] \in Forwarder
    BY <1>0 DEF Forwarder
  <2>2. fwd.cur \in Layers \cup {NoLayer} /\ NoLayer \in Layers \cup {NoLayer}
    BY <1>0 DEF Forwarder
  <2>3. (IF v.cur # fwd.cur THEN fwd.cur ELSE NoLayer) \in Layers \cup {NoLayer}
    BY <2>2
  <2>4. (fwd.ref \/ (fwd.started /\ StartAllowed(l, sn))) \in BOOLEAN
    BY DEF StartAllowed
  <2>5. fwd' \in Forwarder
    BY <1>3, <2>1, <2>3, <2>4
  <2> QED BY <1>0, <1>3, <2>5 DEF Forwarder
<1>5. /\ fwd.selector = "simulcast" => v.cur = l
      /\ fwd.selector \in {"dd", "vp9"} => v.cur # NoLayer
  <2>1. \/ v.selected = TRUE /\ Accepts(l, sn, payload, v)
        \/ v.selected = FALSE /\ Rejects(l, v)
    BY <1>0, <1>1, <1>2, SelectIs
  <2>2. v.selected # FALSE
    BY <1>3
  <2> QED BY <2>1, <2>2 DEF Accepts
<1>6. scope.codec = "VP8" => fwd'.cur = fwd.cur
  <2> HAVE scope.codec = "VP8"
  <2>1. fwd.selector = "simulcast" /\ fwd.cur = fwd.lastSSRC
    BY <1>0 DEF SourceOK
  <2> QED BY <1>2, <1>4, <1>5, <2>1
<1>7. scope.codec # "VP8" => fwd.lastSSRC = NoLayer
  BY <1>0, <1>1, <1>2 DEF SourceOK, Streams
<1>8. scope.codec # "VP8" /\ fwd.selector # "vp9" => fwd'.cur = NoLayer
  BY <1>0, <1>4, <1>7 DEF SourceOK
<1>9. SourceOK'
  BY <1>0, <1>1, <1>2, <1>4, <1>6, <1>7, <1>8 DEF SourceOK, Flowing
<1>10. NumbersInv' /\ NumbersStep
  BY <1>2, <1>4, <1>9, NotTranslatedStep
<1> QED BY <1>2, <1>4, <1>10

(* The munger that padding continues. *)
LEMMA StartedIs ==
    ASSUME NumbersInv
    PROVE  /\ MungerOK(Started) /\ Started.lastTS >= munger.lastTS /\ Started.lastTS \in Int
           /\ Started.lastSN \in Int /\ Started.highestIncoming \in Int /\ Started.lastMarker \in BOOLEAN
           /\ \A n \in DOMAIN out : n <= Started.lastSN
           /\ fwd.started => Started = munger
           /\ ~fwd.started => Fresh(Started, FirstSN) /\ Started.lastSN = FirstSN /\ DOMAIN out = {}
<1>0. PacketTypeOK /\ NotStarted /\ NoneBeyond /\ MungerOK(munger)
  BY DEF NumbersInv, PacketTypeOK
<1>1. FirstSN \in Int /\ FirstSN >= 1 /\ munger.lastTS \in Int
  BY <1>0, SNsType, MungerFields DEF MungerOK
<1>2. CASE fwd.started
  <2>1. Started = munger
    BY <1>2 DEF Started
  <2>2. munger \in Munger
    BY <1>0 DEF MungerOK
  <2> QED BY <1>0, <1>1, <1>2, <2>1, <2>2, MungerFields DEF NoneBeyond
<1>3. CASE ~fwd.started
  <2>1. Started = SetLastSnTs(munger, FirstSN, FirstSN)
    BY <1>3 DEF Started
  <2>2. Fresh(Started, FirstSN) /\ Started.lastSN = FirstSN /\ Started.lastTS = FirstSN
    BY <1>0, <1>1, <2>1, StartOK
  <2>3. munger.lastTS = 0 /\ out = <<>>
    BY <1>0, <1>3 DEF NotStarted, NewMunger
  <2>4. DOMAIN out = {}
    BY <2>3
  <2>5. MungerOK(Started) /\ Started \in Munger
    BY <2>2 DEF Fresh, MungerOK
  <2>6. Started.lastMarker \in BOOLEAN /\ Started.highestIncoming \in Int
    BY <2>5, MungerFields
  <2> QED BY <1>1, <1>3, <2>2, <2>3, <2>4, <2>5, <2>6
<1> QED BY <1>2, <1>3

(* What padding and blank frames do: num numbers after those of Started. *)
Pads(num) ==
    /\ munger'.highestIncoming = Started.highestIncoming /\ munger'.lastSN = Started.lastSN + num
    /\ MungerOK(munger') /\ munger'.lastTS >= Started.lastTS /\ munger'.snOffset = Started.snOffset - num
    /\ Moved(Started.ranges, munger'.ranges, MungerRanges, Started.highestIncoming, Started.highestIncoming + 1,
             Started.snOffset - num)
    /\ AddOut(Started.lastSN + 1, Started.lastSN + num)

SameSource ==
    /\ fwd' \in Forwarder /\ fwd'.started = TRUE /\ fwd'.lastSSRC = fwd.lastSSRC /\ fwd'.cur = fwd.cur
    /\ fwd'.target = fwd.target /\ fwd'.selector = fwd.selector
    /\ scope' = scope /\ muted' = muted /\ arrived' = arrived /\ restart' = restart

LEMMA PadsStep ==
    ASSUME NumbersInv, NEW num \in Nat, Pads(num), SameSource
    PROVE  NumbersInv' /\ NumbersStep
<1>0. PacketTypeOK /\ NotStarted /\ NoneBeyond /\ LateAreUnused /\ SourceOK /\ MungerOK(munger)
  BY DEF NumbersInv, PacketTypeOK
<1> DEFINE new == (Started.lastSN + 1) .. (Started.lastSN + num)
<1>1. /\ Started.lastTS >= munger.lastTS /\ Started.lastTS \in Int /\ MungerOK(Started)
      /\ Started.lastSN \in Int /\ Started.highestIncoming \in Int
      /\ \A n \in DOMAIN out : n <= Started.lastSN
      /\ fwd.started => Started = munger
  BY StartedIs
<1>2. /\ munger'.highestIncoming = Started.highestIncoming /\ munger'.lastSN = Started.lastSN + num
      /\ MungerOK(munger') /\ munger'.lastTS >= Started.lastTS /\ munger'.snOffset = Started.snOffset - num
      /\ Kept(Started.ranges, munger'.ranges, MungerRanges, Started.highestIncoming)
      /\ AddOut(Started.lastSN + 1, Started.lastSN + num)
  BY DEF Pads, Moved
<1>3. munger.lastTS \in Int /\ munger'.lastTS \in Int /\ Started.snOffset \in Int
  <2>1. munger \in Munger /\ munger' \in Munger /\ Started \in Munger
    BY <1>0, <1>1, <1>2 DEF MungerOK
  <2> QED BY <2>1, MungerFields
<1>4. DOMAIN out' = DOMAIN out \cup new /\ \A n \in DOMAIN out : n \notin new => out'[n] = out[n]
  BY <1>2 DEF AddOut
<1>5. \A n \in new : n \in Int /\ n > Started.lastSN /\ n <= Started.lastSN + num
  BY <1>1
<1> HIDE DEF new
<1>6. DOMAIN out \subseteq Int
  BY <1>0 DEF PacketTypeOK
<1>7. \A n \in DOMAIN out : n \notin new
  BY <1>1, <1>5, <1>6
<1>8. PacketTypeOK'
  <2>1. DOMAIN out' \subseteq Int
    BY <1>4, <1>5, <1>6
  <2> QED BY <1>0, <1>2, <2>1 DEF PacketTypeOK, SameSource
<1>9. NotStarted'
  BY DEF NotStarted, SameSource
<1>10. fwd.lastSSRC # NoLayer => fwd.started /\ Started = munger /\ Synced(munger)
  BY <1>0, <1>1 DEF NotStarted, SourceOK
<1>11. SourceOK'
  <2>1. fwd.lastSSRC # NoLayer => Synced(munger')
    BY <1>1, <1>2, <1>3, <1>10 DEF Synced
  <2> QED BY <1>0, <2>1 DEF SourceOK, SameSource, Streams, Flowing
<1>12. NoneBeyond'
  <2>1. \A n \in DOMAIN out : n <= Started.lastSN + num
    BY <1>1, <1>6
  <2> QED BY <1>2, <1>4, <1>5, <2>1 DEF NoneBeyond
<1>13. LateAreUnused'
  <2> SUFFICES ASSUME restart' # "forwarder", fwd'.lastSSRC # NoLayer
               PROVE  Unused(SNs, munger', arrived[fwd.lastSSRC], DOMAIN out')
    BY DEF LateAreUnused, SameSource, SNs
  <2>1. fwd.lastSSRC # NoLayer /\ restart # "forwarder"
    BY DEF SameSource
  <2>2. Unused(SNs, Started, arrived[fwd.lastSSRC], DOMAIN out) /\ Synced(Started)
    BY <1>0, <1>10, <2>1 DEF LateAreUnused
  <2>3. SNs \in SUBSET Int
    BY <1>0, SNsType
  <2>4. Unused(SNs, munger', arrived[fwd.lastSSRC], DOMAIN out \cup new)
    BY <1>1, <1>2, <1>5, <2>2, <2>3, PaddingUnused
  <2> QED BY <1>4, <2>4
<1>14. NumbersStep
  <2>1. arrived' = arrived
    BY DEF SameSource
  <2>2. munger'.lastTS >= munger.lastTS
    BY <1>1, <1>2, <1>3
  <2> QED BY <1>4, <1>7, <2>1, <2>2 DEF NumbersStep
<1> QED BY <1>8, <1>9, <1>11, <1>12, <1>13, <1>14 DEF NumbersInv

LEMMA TakePaddingCases ==
    ASSUME NumbersInv, NEW num \in 1 .. 2, TakePadding(num)
    PROVE  /\ SameSource /\ gaveUp' = gaveUp /\ passed' = passed
           /\ Pads(num) \/ (munger' = Started /\ out' = out)
<1> DEFINE onMute == padder.pc = "onMute"
           force  == onMute \/ fwd.target = NoLayer
           lastTS == IF onMute /\ Started.lastMarker THEN Started.lastTS + 1 ELSE Started.lastTS
<1>0. fwd \in Forwarder /\ num \in Nat
  BY DEF NumbersInv, PacketTypeOK
<1>1. /\ fwd' = [fwd EXCEPT !.started = TRUE]
      /\ scope' = scope /\ muted' = muted /\ arrived' = arrived /\ restart' = restart
      /\ gaveUp' = gaveUp /\ passed' = passed
  BY DEF TakePadding, srcVars
<1>2. SameSource
  BY <1>0, <1>1 DEF SameSource, Forwarder
<1>3. CASE CanPad(Started, force)
  <2>1. munger' = Padded(Started, num, lastTS, Started.lastTS, force) /\ AddOut(Started.lastSN + 1, Started.lastSN + num)
    BY <1>3 DEF TakePadding
  <2>2. MungerOK(Started) /\ Started.lastTS \in Int
    BY StartedIs
  <2>3. lastTS \in Int /\ lastTS >= Started.lastTS /\ force \in BOOLEAN
    BY <2>2
  <2> HIDE DEF lastTS, force
  <2>4. /\ munger'.highestIncoming = Started.highestIncoming /\ munger'.lastSN = Started.lastSN + num
        /\ MungerOK(munger') /\ munger'.lastTS = lastTS /\ munger'.snOffset = Started.snOffset - num
        /\ Moved(Started.ranges, munger'.ranges, MungerRanges, Started.highestIncoming, Started.highestIncoming + 1,
                 Started.snOffset - num)
    BY <1>0, <2>1, <2>2, <2>3, PaddedOK
  <2>5. Pads(num)
    BY <2>1, <2>3, <2>4 DEF Pads
  <2> QED BY <1>1, <1>2, <2>5
<1>4. CASE ~CanPad(Started, force)
  <2>1. munger' = Started /\ out' = out
    BY <1>4 DEF TakePadding
  <2> QED BY <1>1, <1>2, <2>1
<1> QED BY <1>3, <1>4

LEMMA TakePaddingStep ==
    ASSUME NumbersInv, NEW num \in 1 .. 2, TakePadding(num)
    PROVE  NumbersInv' /\ NumbersStep
<1>0. PacketTypeOK /\ NotStarted /\ NoneBeyond /\ LateAreUnused /\ SourceOK /\ MungerOK(munger)
  BY DEF NumbersInv, PacketTypeOK
<1>1. SameSource /\ num \in Nat /\ (Pads(num) \/ (munger' = Started /\ out' = out))
  BY TakePaddingCases
<1>2. CASE Pads(num)
  BY <1>1, <1>2, PadsStep
<1>3. CASE munger' = Started /\ out' = out
  <2>1. /\ MungerOK(Started) /\ Started.lastTS >= munger.lastTS
        /\ \A n \in DOMAIN out : n <= Started.lastSN
        /\ fwd.started => Started = munger
    BY StartedIs
  <2>2. PacketTypeOK'
    BY <1>0, <1>1, <1>3, <2>1 DEF PacketTypeOK, SameSource
  <2>3. NotStarted' /\ NoneBeyond'
    BY <1>1, <1>3, <2>1 DEF NotStarted, NoneBeyond, SameSource
  <2>4. fwd.lastSSRC # NoLayer => munger' = munger
    BY <1>0, <1>3, <2>1 DEF NotStarted
  <2>5. SourceOK'
    BY <1>0, <1>1, <2>4 DEF SourceOK, SameSource, Streams, Flowing
  <2>6. LateAreUnused'
    BY <1>0, <1>1, <1>3, <2>4 DEF LateAreUnused, SameSource, SNs
  <2>7. NumbersStep
    BY <1>1, <1>3, <2>1 DEF NumbersStep, SameSource
  <2> QED BY <2>2, <2>3, <2>5, <2>6, <2>7 DEF NumbersInv
<1> QED BY <1>1, <1>2, <1>3

LEMMA BlankFrameCases ==
    ASSUME NumbersInv, BlankFrame
    PROVE  /\ SameSource /\ gaveUp' = gaveUp /\ passed' = passed
           /\ \E num \in 1 .. 2 : Pads(num)
<1> DEFINE num  == IF munger.lastMarker THEN 1 ELSE 2
           open == ~munger.lastMarker
           ts   == munger.lastTS + 1
<1>0. fwd \in Forwarder /\ NotStarted /\ MungerOK(munger)
  BY DEF NumbersInv, PacketTypeOK
<1>1. /\ out # <<>> /\ fwd' = fwd /\ scope' = scope /\ muted' = muted /\ arrived' = arrived /\ restart' = restart
      /\ gaveUp' = gaveUp /\ passed' = passed
      /\ munger' = Padded(munger, num, ts, munger.lastTS, open)
      /\ AddOut(munger.lastSN + 1, munger.lastSN + num)
  BY DEF BlankFrame, srcVars
<1>2. fwd.started = TRUE /\ Started = munger
  <2>1. fwd.started /\ fwd.started \in BOOLEAN
    BY <1>0, <1>1, ForwarderFields DEF NotStarted
  <2>2. Started = munger
    BY <2>1 DEF Started
  <2> QED BY <2>1, <2>2
<1>3. SameSource
  BY <1>0, <1>1, <1>2 DEF SameSource
<1>4. num \in 1 .. 2 /\ num \in Nat /\ munger.lastTS \in Int /\ ts \in Int /\ open \in BOOLEAN
  <2>1. munger.lastTS \in Int /\ munger.lastMarker \in BOOLEAN
    BY <1>0, MungerFields DEF MungerOK
  <2> QED BY <2>1
<1>5. ts >= munger.lastTS
  BY <1>4
<1> HIDE DEF num, open, ts
<1>6. /\ munger'.highestIncoming = munger.highestIncoming /\ munger'.lastSN = munger.lastSN + num
      /\ MungerOK(munger') /\ munger'.lastTS = ts /\ munger'.snOffset = munger.snOffset - num
      /\ Moved(munger.ranges, munger'.ranges, MungerRanges, munger.highestIncoming, munger.highestIncoming + 1,
               munger.snOffset - num)
  BY <1>0, <1>1, <1>4, <1>5, PaddedOK
<1>7. Pads(num)
  BY <1>1, <1>2, <1>5, <1>6 DEF Pads
<1> QED BY <1>1, <1>3, <1>4, <1>7

(* The source is let go: what was not sent never will be. *)
LetsGo == fwd'.lastSSRC = NoLayer /\ gaveUp \cup Unsent \subseteq gaveUp'

(* Steps without a packet or padding. *)
Quiet ==
    /\ munger' = munger /\ out' = out /\ scope' = scope /\ fwd' \in Forwarder
    /\ fwd'.started = fwd.started /\ fwd'.lastSSRC \in {fwd.lastSSRC, NoLayer}
    /\ fwd'.selector = fwd.selector \/ LetsGo
    /\ arrived' \in [Layers -> SUBSET Int]
    /\ padder'.pc = "probe" => fwd.started
    /\ \/ fwd'.lastSSRC = NoLayer \/ restart' = "forwarder"
       \/ arrived' = arrived /\ restart # "forwarder"

LEMMA QuietStep ==
    ASSUME NumbersInv, Quiet, SourceOK'
    PROVE  NumbersInv' /\ NumbersStep
<1>0. PacketTypeOK /\ NotStarted /\ NoneBeyond /\ LateAreUnused
  BY DEF NumbersInv
<1>1. PacketTypeOK'
  BY <1>0 DEF PacketTypeOK, Quiet
<1>2. NotStarted'
  BY <1>0 DEF NotStarted, Quiet
<1>3. NoneBeyond'
  BY <1>0 DEF NoneBeyond, Quiet
<1>4. LateAreUnused'
  <2> SUFFICES ASSUME restart' # "forwarder", fwd'.lastSSRC # NoLayer
               PROVE  Unused(SNs, munger, arrived'[fwd'.lastSSRC], DOMAIN out)
    BY DEF LateAreUnused, Quiet, SNs
  <2>1. arrived' = arrived /\ restart # "forwarder" /\ fwd'.lastSSRC = fwd.lastSSRC
    BY DEF Quiet
  <2> QED BY <1>0, <2>1 DEF LateAreUnused
<1>5. NumbersStep
  <2>1. munger.lastSN \in Int /\ munger.lastTS \in Int
    BY <1>0, MungerFields DEF PacketTypeOK, MungerOK
  <2> QED BY <2>1 DEF NumbersStep, Quiet
<1> QED BY <1>1, <1>2, <1>3, <1>4, <1>5 DEF NumbersInv

(* Steps of the sequencer, of NACKs, and the check before padding. *)
Idles ==
    /\ munger' = munger /\ out' = out /\ scope' = scope /\ fwd' = fwd /\ muted' = muted /\ arrived' = arrived
    /\ gaveUp' = gaveUp /\ passed' = passed
    /\ restart' # "forwarder" => restart # "forwarder"
    /\ padder'.pc = "probe" => fwd.started

LEMMA IdlesStep ==
    ASSUME NumbersInv, Idles
    PROVE  NumbersInv' /\ NumbersStep
<1>0. PacketTypeOK /\ SourceOK
  BY DEF NumbersInv
<1>1. Quiet
  BY <1>0 DEF PacketTypeOK, Idles, Quiet
<1>2. SourceOK'
  BY <1>0 DEF SourceOK, Idles, Synced, Streams, Flowing
<1> QED BY <1>1, <1>2, QuietStep

LEMMA IdleSteps ==
    ASSUME NumbersInv,
           \/ \E l \in Layers : Record(l)
           \/ \E kind \in {"probe", "onMute"} : CheckPadding(kind)
           \/ PushPadding \/ (\E n \in DOMAIN out : GetExtPacketMetas(n))
           \/ Retransmit \/ NackDone \/ FlushSequencer
    PROVE  Idles
<1>0. NotStarted
  BY DEF NumbersInv
<1>a. padder.pc = "probe" => fwd.started
  BY <1>0 DEF NotStarted
<1>1. ASSUME NEW l \in Layers, Record(l) PROVE Idles
  BY <1>a, <1>1 DEF Record, Idles, fwVars, srcVars, histVars
<1>2. ASSUME NEW kind \in {"probe", "onMute"}, CheckPadding(kind) PROVE Idles
  <2>1. padder'.pc = "probe" => fwd.started
    <3> HAVE padder'.pc = "probe"
    <3>2. CASE kind = "probe"
      BY <1>0, <1>2, <3>2 DEF CheckPadding, NotStarted
    <3>3. CASE kind = "onMute"
      <4>1. padder' = padder \/ padder'.pc = "onMute"
        BY <1>2, <3>3 DEF CheckPadding
      <4> QED BY <1>a, <4>1
    <3> QED BY <3>2, <3>3
  <2> QED BY <1>2, <2>1 DEF CheckPadding, Idles, fwVars, srcVars, histVars
<1>3. ASSUME PushPadding PROVE Idles
  BY <1>3 DEF PushPadding, Idles, fwVars, srcVars, NoPadder
<1>4. ASSUME NEW n \in DOMAIN out, GetExtPacketMetas(n) PROVE Idles
  BY <1>a, <1>4 DEF GetExtPacketMetas, Idles, fwVars, srcVars, histVars
<1>5. ASSUME Retransmit PROVE Idles
  BY <1>a, <1>5 DEF Retransmit, Idles, fwVars, srcVars, histVars
<1>6. ASSUME NackDone PROVE Idles
  BY <1>a, <1>6 DEF NackDone, Idles, fwVars, srcVars, histVars
<1>7. ASSUME FlushSequencer PROVE Idles
  BY <1>a, <1>7 DEF FlushSequencer, Idles, fwVars, histVars
<1> QED BY <1>1, <1>2, <1>3, <1>4, <1>5, <1>6, <1>7

(* The selector that DetermineCodec chooses. *)
LEMMA SelectorIs ==
    ASSUME scope \in Scopes
    PROVE  /\ Selector \in {"simulcast", "dd", "vp9"}
           /\ scope.codec = "VP8" => Selector = "simulcast"
           /\ scope.codec # "VP9" => Selector # "vp9"
<1>1. scope.codec \in {"VP8", "VP9", "AV1"} /\ scope.dd \in BOOLEAN
  BY PacketAssumption DEF Scope
<1>2. CASE scope.codec = "VP8"
  BY <1>2 DEF Selector
<1>3. CASE scope.codec # "VP8" /\ scope.dd
  BY <1>3 DEF Selector
<1>4. CASE scope.codec = "VP9" /\ ~scope.dd
  BY <1>4 DEF Selector
<1>5. CASE scope.codec = "AV1" /\ ~scope.dd
  BY <1>5 DEF Selector
<1> QED BY <1>1, <1>2, <1>3, <1>4, <1>5

(* Mute, unmute, new targets and restarts. *)
LEMMA ResyncIs ==
    ASSUME NumbersInv, NEW t \in Layers \cup {NoLayer}, NEW b \in BOOLEAN,
           NEW s \in {"simulcast", "dd", "vp9"}, scope.codec = "VP8" => s = "simulcast",
           fwd' = [fwd EXCEPT !.selector = s, !.cur = NoLayer, !.lastSSRC = NoLayer, !.target = t, !.ref = b],
           scope' = scope
    PROVE  /\ SourceOK' /\ fwd' \in Forwarder
           /\ fwd'.started = fwd.started /\ fwd'.lastSSRC = NoLayer /\ fwd'.selector = s
<1>0. fwd \in Forwarder /\ SourceOK
  BY DEF NumbersInv, PacketTypeOK
<1>1. NoLayer \in Layers \cup {NoLayer}
  OBVIOUS
<1>2. /\ fwd' \in Forwarder /\ fwd'.started = fwd.started /\ fwd'.lastSSRC = NoLayer
      /\ fwd'.selector = s /\ fwd'.cur = NoLayer
  BY <1>0, <1>1 DEF Forwarder
<1>3. SourceOK'
  BY <1>0, <1>2 DEF SourceOK, Streams
<1> QED BY <1>2, <1>3

LEMMA ControlSteps ==
    ASSUME NumbersInv, Control
    PROVE  /\ Quiet /\ SourceOK' /\ passed' = passed /\ arrived' = arrived
           /\ LetsGo \/ (fwd'.lastSSRC = fwd.lastSSRC /\ gaveUp' = gaveUp)
<1>0. PacketTypeOK /\ fwd \in Forwarder /\ NotStarted /\ SourceOK /\ fwd.ref \in BOOLEAN
  BY ForwarderFields DEF NumbersInv, PacketTypeOK
<1>1. /\ munger' = munger /\ out' = out /\ scope' = scope /\ arrived' = arrived /\ restart' = restart
      /\ padder' = padder /\ passed' = passed
  BY DEF Control, srcVars
<1>2. ASSUME NEW t \in Layers \cup {NoLayer}, Resync(t)
      PROVE  Quiet /\ SourceOK' /\ LetsGo
  <2>0. /\ fwd.selector \in {"simulcast", "dd", "vp9"}
        /\ scope.codec = "VP8" => fwd.selector = "simulcast"
    BY <1>0, ForwarderFields DEF SourceOK
  <2>1. fwd' = [fwd EXCEPT !.selector = fwd.selector, !.cur = NoLayer, !.lastSSRC = NoLayer,
                           !.target = t, !.ref = fwd.ref]
    BY <1>0, <1>2 DEF Resync, Forwarder
  <2>2. /\ SourceOK' /\ fwd' \in Forwarder
        /\ fwd'.started = fwd.started /\ fwd'.lastSSRC = NoLayer /\ fwd'.selector = fwd.selector
    BY <1>0, <1>1, <2>0, <2>1, ResyncIs
  <2>3. Quiet
    BY <1>0, <1>1, <2>2 DEF Quiet, PacketTypeOK, NotStarted
  <2>4. LetsGo
    BY <1>2, <2>2 DEF LetsGo, Resync
  <2> QED BY <2>2, <2>3, <2>4
<1>3. ASSUME NEW who, Mute(who) PROVE Quiet /\ SourceOK' /\ LetsGo
  <2>1. Resync(fwd.target) /\ fwd.target \in Layers \cup {NoLayer}
    BY <1>0, <1>3 DEF Mute, Forwarder
  <2> QED BY <1>2, <2>1
<1>4. ASSUME NEW who, Unmute(who)
      PROVE  Quiet /\ SourceOK' /\ fwd'.lastSSRC = fwd.lastSSRC /\ gaveUp' = gaveUp
  <2>1. fwd' = fwd /\ gaveUp' = gaveUp /\ muted # {}
    BY <1>4 DEF Unmute
  <2>2. fwd.lastSSRC = NoLayer
    BY <1>0, <2>1 DEF SourceOK, Flowing
  <2>3. SourceOK'
    BY <1>0, <1>1, <2>1, <2>2 DEF SourceOK, Streams
  <2>4. Quiet
    BY <1>0, <1>1, <2>1, <2>2 DEF Quiet, PacketTypeOK, NotStarted
  <2> QED BY <2>1, <2>3, <2>4
<1>5. ASSUME NEW t \in Layers \cup {NoLayer}, SetTargetLayer(t), t # NoLayer
      PROVE  Quiet /\ SourceOK' /\ (LetsGo \/ (fwd'.lastSSRC = fwd.lastSSRC /\ gaveUp' = gaveUp))
  <2>1. fwd' = [fwd EXCEPT !.target = t] /\ gaveUp' = gaveUp /\ muted' = muted
    BY <1>5 DEF SetTargetLayer
  <2>2. /\ fwd' \in Forwarder /\ fwd'.started = fwd.started /\ fwd'.lastSSRC = fwd.lastSSRC
        /\ fwd'.selector = fwd.selector /\ fwd'.cur = fwd.cur /\ fwd'.target = t
    BY <1>0, <2>1 DEF Forwarder
  <2>3. SourceOK'
    BY <1>0, <1>1, <1>5, <2>1, <2>2 DEF SourceOK, Streams, Flowing
  <2>4. Quiet
    <3>1. fwd'.lastSSRC = NoLayer \/ restart' = "forwarder" \/ (arrived' = arrived /\ restart # "forwarder")
      BY <1>1
    <3> QED BY <1>0, <1>1, <2>2, <3>1 DEF Quiet, PacketTypeOK, NotStarted
  <2> QED BY <2>1, <2>2, <2>3, <2>4
<1>6. ASSUME NEW t \in Layers \cup {NoLayer}, SetTargetLayer(t), t = NoLayer
      PROVE  Quiet /\ SourceOK' /\ LetsGo
  <2>1. Resync(t)
    BY <1>6 DEF SetTargetLayer
  <2> QED BY <1>2, <2>1
<1>7. \/ \E who \in {"subscriber", "publisher"} : Mute(who) \/ Unmute(who)
      \/ \E t \in Layers \cup {NoLayer} : SetTargetLayer(t)
  BY DEF Control
<1> QED BY <1>1, <1>3, <1>4, <1>5, <1>6, <1>7

LEMMA RestartSteps ==
    ASSUME NumbersInv
    PROVE  /\ RestartStreams => /\ Quiet /\ SourceOK' /\ passed' = passed /\ gaveUp' = gaveUp /\ fwd' = fwd
                                /\ arrived' = [l \in Layers |-> {}]
           /\ RestartForwarder => /\ Quiet /\ SourceOK' /\ passed' = passed /\ LetsGo
<1>0. PacketTypeOK /\ fwd \in Forwarder /\ NotStarted /\ SourceOK /\ fwd.ref \in BOOLEAN
  BY ForwarderFields DEF NumbersInv, PacketTypeOK
<1>1. ASSUME RestartStreams
      PROVE  /\ Quiet /\ SourceOK' /\ passed' = passed /\ gaveUp' = gaveUp /\ fwd' = fwd
             /\ arrived' = [l \in Layers |-> {}]
  <2>1. /\ munger' = munger /\ out' = out /\ scope' = scope /\ fwd' = fwd /\ muted' = muted
        /\ restart' = "forwarder" /\ padder' = padder /\ gaveUp' = gaveUp /\ passed' = passed
        /\ arrived' = [l \in Layers |-> {}]
    BY <1>1 DEF RestartStreams, fwVars, histVars
  <2>2. arrived' \in [Layers -> SUBSET Int]
    BY <2>1
  <2>3. Quiet
    BY <1>0, <2>1, <2>2 DEF Quiet, NotStarted
  <2>4. SourceOK'
    BY <1>0, <2>1 DEF SourceOK, Synced, Streams, Flowing
  <2> QED BY <2>1, <2>3, <2>4
<1>2. ASSUME RestartForwarder
      PROVE  Quiet /\ SourceOK' /\ passed' = passed /\ LetsGo
  <2>1. /\ munger' = munger /\ out' = out /\ scope' = scope /\ arrived' = arrived
        /\ padder' = padder /\ passed' = passed /\ gaveUp' = gaveUp \cup Unsent
        /\ fwd' = [fwd EXCEPT !.selector = Selector, !.cur = NoLayer, !.lastSSRC = NoLayer,
                              !.target = NoLayer, !.ref = FALSE]
    BY <1>2 DEF RestartForwarder
  <2>2. NoLayer \in Layers \cup {NoLayer} /\ FALSE \in BOOLEAN
    OBVIOUS
  <2>3. /\ SourceOK' /\ fwd' \in Forwarder
        /\ fwd'.started = fwd.started /\ fwd'.lastSSRC = NoLayer
    BY <1>0, <2>1, <2>2, SelectorIs, ResyncIs DEF PacketTypeOK
  <2>4. LetsGo
    BY <2>1, <2>3 DEF LetsGo
  <2>5. Quiet
    BY <1>0, <2>1, <2>3, <2>4 DEF Quiet, PacketTypeOK, NotStarted
  <2> QED BY <2>1, <2>3, <2>4, <2>5
<1> QED BY <1>1, <1>2

LEMMA NumbersInitially == PacketInit => NumbersInv
<1> SUFFICES ASSUME PacketInit PROVE NumbersInv
  OBVIOUS
<1>1. /\ scope \in Scopes /\ munger = NewMunger /\ out = <<>> /\ padder = NoPadder
      /\ arrived = [l \in Layers |-> {}]
      /\ fwd = [selector |-> Selector, started |-> FALSE, lastSSRC |-> NoLayer, cur |-> NoLayer, target |-> 1, ref |-> FALSE]
  BY DEF PacketInit
<1>3. Selector \in {"simulcast", "dd", "vp9"} /\ (scope.codec = "VP8" => Selector = "simulcast")
  BY <1>1, SelectorIs
<1>4. fwd \in Forwarder
  BY <1>1, <1>3 DEF Forwarder, Layers
<1>5. DOMAIN out = {}
  BY <1>1
<1>6. PacketTypeOK
  BY <1>1, <1>4, <1>5, NewMungerOK DEF PacketTypeOK
<1>7. NotStarted /\ SourceOK
  BY <1>1, <1>3 DEF NotStarted, SourceOK, NoPadder
<1>8. NoneBeyond /\ LateAreUnused
  BY <1>1, <1>5 DEF NoneBeyond, LateAreUnused
<1> QED BY <1>6, <1>7, <1>8 DEF NumbersInv

LEMMA NumbersNext ==
    ASSUME NumbersInv, [PacketNext]_packetVars
    PROVE  NumbersInv' /\ NumbersStep
<1>1. CASE WriteRTP
  <2>1. PICK l \in Layers, sn \in SNs :
            \/ DropWhileMuted(l, sn)
            \/ \E payload, marker \in BOOLEAN :
                 /\ Comes(l, sn, payload)
                 /\ \/ NotSelected(l, sn, payload, marker) \/ Selected(l, sn, payload, marker)
                    \/ SwitchFails(l, sn, payload)
    BY <1>1 DEF WriteRTP
  <2>2. CASE DropWhileMuted(l, sn)
    BY <2>2, DropStep
  <2>3. ASSUME NEW payload \in BOOLEAN, NEW marker \in BOOLEAN, Comes(l, sn, payload),
               \/ NotSelected(l, sn, payload, marker) \/ Selected(l, sn, payload, marker)
               \/ SwitchFails(l, sn, payload)
        PROVE  NumbersInv' /\ NumbersStep
    BY <2>3, NotSelectedStep, SelectedStep, SwitchFailsStep
  <2> QED BY <2>1, <2>2, <2>3
<1>2. CASE \/ \E l \in Layers : Record(l)
           \/ \E kind \in {"probe", "onMute"} : CheckPadding(kind)
           \/ PushPadding \/ (\E n \in DOMAIN out : GetExtPacketMetas(n))
           \/ Retransmit \/ NackDone \/ FlushSequencer
  <2>1. Idles
    BY <1>2, IdleSteps
  <2> QED BY <2>1, IdlesStep
<1>3. CASE \E num \in 1 .. 2 : TakePadding(num)
  BY <1>3, TakePaddingStep
<1>4. CASE BlankFrame
  <2>1. SameSource /\ \E num \in 1 .. 2 : Pads(num)
    BY <1>4, BlankFrameCases
  <2>2. PICK num \in 1 .. 2 : Pads(num)
    BY <2>1
  <2>3. num \in Nat
    OBVIOUS
  <2> QED BY <2>1, <2>2, <2>3, PadsStep
<1>5. CASE Control
  <2>1. Quiet /\ SourceOK'
    BY <1>5, ControlSteps
  <2> QED BY <2>1, QuietStep
<1>6. CASE RestartStreams \/ RestartForwarder
  <2>1. Quiet /\ SourceOK'
    BY <1>6, RestartSteps
  <2> QED BY <2>1, QuietStep
<1>7. CASE UNCHANGED packetVars
  <2>1. Idles
    BY <1>7 DEF packetVars, fwVars, srcVars, histVars, Idles, NumbersInv, NotStarted
  <2> QED BY <2>1, IdlesStep
<1> QED BY <1>1, <1>2, <1>3, <1>4, <1>5, <1>6, <1>7 DEF PacketNext

(* The invariant of the numbers: no number above the last one was sent, and   *)
(* those that late packets of the source would get are unused.                *)
THEOREM NumbersInvariant == PacketSpec => []NumbersInv
<1>1. NumbersInv /\ [PacketNext]_packetVars => NumbersInv'
  BY NumbersNext
<1> QED BY <1>1, NumbersInitially, PTL DEF PacketSpec

(* Forwarder and RTP munger: for any stream, any size of the range map and    *)
(* any number of paddings, mutes, switches and restarts, no outgoing number   *)
(* is given to a second packet.                                               *)
THEOREM NumbersStayUnique == PacketSpec => NumbersAreUnique
<1>1. NumbersInv /\ [PacketNext]_packetVars
        => [OutOfSync \/ \A n \in DOMAIN out : n \in DOMAIN out' /\ out'[n] = out[n]]_packetVars
  BY NumbersNext DEF NumbersStep
<1> QED BY <1>1, NumbersInvariant, PTL DEF PacketSpec, NumbersAreUnique

(* RTP munger: the timestamp that the next packets build on never goes back.  *)
THEOREM TimestampsDoAdvance == PacketSpec => TimestampsAdvance
<1>1. NumbersInv /\ [PacketNext]_packetVars => [munger'.lastTS >= munger.lastTS]_packetVars
  BY NumbersNext DEF NumbersStep
<1> QED BY <1>1, NumbersInvariant, PTL DEF PacketSpec, TimestampsAdvance

(* Forwarder: the first packet after a mute, a pause or a restart continues   *)
(* the numbers, whatever arrived and was not selected before.                 *)
THEOREM NumbersDoNotJump == PacketSpec => NoJumpAfterResync
<1>1. NumbersInv /\ [PacketNext]_packetVars
        => [(~OutOfSync /\ fwd.lastSSRC = NoLayer /\ fwd.started /\ arrived' # arrived)
              => munger'.lastSN - munger.lastSN \in 0 .. 1]_packetVars
  BY NumbersNext DEF NumbersStep
<1> QED BY <1>1, NumbersInvariant, PTL DEF PacketSpec, NoJumpAfterResync

-----------------------------------------------------------------------------
(* Holes.                                                                   *)

LEMMA KeptSame ==
    ASSUME NEW rs, RangesOK(rs), NEW last
    PROVE  Kept(rs, rs, MungerRanges, last)
<1>1. First(rs) \in Int
  <2>1. HasValue(rs, Open(rs).start) /\ Open(rs).start \in Int
    BY OpenIs DEF HasValue
  <2> QED BY <2>1, NumFromFirst
<1> QED BY <1>1 DEF Kept

(* A number that is explained stays so, if what arrives takes the number it    *)
(* was awaited for, and numbers sent are new or not below the first of the map. *)
LEMMA ExplainedKept ==
    ASSUME NumbersInv, passed \subseteq Int, NEW n \in Int, n <= munger.lastSN, Explained(n),
           DOMAIN out \subseteq DOMAIN out', gaveUp \subseteq gaveUp', fwd'.lastSSRC = fwd.lastSSRC,
           SNs' = SNs, fwd.lastSSRC # NoLayer => passed' = passed,
           MungerOK(munger'), munger'.highestIncoming >= munger.highestIncoming, munger'.lastSN >= munger.lastSN,
           Kept(munger.ranges, munger'.ranges, MungerRanges, munger.highestIncoming),
           fwd.lastSSRC # NoLayer =>
              \A k \in arrived'[fwd.lastSSRC] :
                 \/ k \in arrived[fwd.lastSSRC] \/ ~(k < munger.highestIncoming /\ LateFound(munger, k))
                 \/ Num(munger.ranges, k) \in DOMAIN out' \cup gaveUp',
           \A o \in DOMAIN out' : \/ o \in DOMAIN out
                                  \/ o \in Int /\ o > munger.lastSN
                                  \/ o \in Int /\ o >= First(munger.ranges) /\ fwd.lastSSRC # NoLayer
    PROVE  Explained(n)'
<1> DEFINE h  == munger.highestIncoming
           rs == munger.ranges
<1>0. PacketTypeOK /\ MungerOK(munger)
  BY DEF NumbersInv, PacketTypeOK
<1>1. /\ h \in Int /\ munger.lastSN \in Int /\ RangesOK(rs)
      /\ munger'.highestIncoming \in Int /\ munger'.lastSN \in Int /\ RangesOK(munger'.ranges)
  <2>1. munger \in Munger /\ munger' \in Munger /\ RangesOK(rs) /\ RangesOK(munger'.ranges)
    BY <1>0 DEF MungerOK
  <2> QED BY <2>1, MungerFields
<1>2. First(rs) \in Int /\ First(munger'.ranges) \in Int /\ First(rs) <= First(munger'.ranges)
  <2>1. HasValue(rs, Open(rs).start) /\ Open(rs).start \in Int
    BY <1>1, OpenIs DEF HasValue
  <2>2. HasValue(munger'.ranges, Open(munger'.ranges).start) /\ Open(munger'.ranges).start \in Int
    BY <1>1, OpenIs DEF HasValue
  <2>3. First(rs) <= First(munger'.ranges)
    BY DEF Kept
  <2> QED BY <1>1, <2>1, <2>2, <2>3, NumFromFirst
<1>3. CASE n \in DOMAIN out \/ n \in gaveUp
  BY <1>3 DEF Explained
<1>4. CASE Forgotten(n)
  <2>1. Len(rs) = MungerRanges + 1 /\ n < First(rs)
    BY <1>4 DEF Forgotten, First
  <2>2. Len(munger'.ranges) = MungerRanges + 1 /\ n < First(munger'.ranges)
    BY <1>2, <2>1 DEF Kept
  <2>3. Forgotten(n)'
    BY <2>2 DEF Forgotten, First
  <2> QED BY <2>3 DEF Explained
<1>5. CASE (\A o \in DOMAIN out : n < o) /\ (fwd.lastSSRC # NoLayer => n < First(rs))
  <2>1. \A o \in DOMAIN out' : n < o
    BY <1>1, <1>2, <1>5
  <2>2. fwd.lastSSRC # NoLayer => n < First(munger'.ranges)
    BY <1>2, <1>5
  <2> QED BY <2>1, <2>2 DEF Explained
<1>6. CASE Awaited(n)
  <2>1. fwd.lastSSRC # NoLayer
    BY <1>6 DEF Awaited
  <2>2. PICK k \in (SNs \ arrived[fwd.lastSSRC]) \cup passed :
             OutOfOrder(munger, k) /\ LateFound(munger, k) /\ TranslatedSN(munger, k) = n
    BY <1>6 DEF Awaited
  <2>3. k < h /\ HasValue(rs, k) /\ n = Num(rs, k) /\ n < munger.lastSN
    BY <2>2 DEF OutOfOrder, LateFound, TranslatedSN, Num
  <2>4. k \in Int
    BY <1>0, <2>2, SNsType
  <2>5. CASE k \in (SNs \ arrived'[fwd.lastSSRC]) \cup passed
    <3>1. HasValue(munger'.ranges, k) \/ (Len(munger'.ranges) = MungerRanges + 1 /\ n < First(munger'.ranges))
      BY <1>1, <2>3, <2>4 DEF Kept
    <3>2. CASE HasValue(munger'.ranges, k)
      <4>1. GetValue(munger'.ranges, k) = GetValue(rs, k)
        BY <1>1, <2>3, <2>4, <3>2 DEF Kept
      <4>2. k < munger'.highestIncoming /\ n = k - GetValue(munger'.ranges, k) /\ n < munger'.lastSN
        BY <1>1, <2>3, <2>4, <4>1 DEF Num
      <4>3. OutOfOrder(munger', k) /\ LateFound(munger', k) /\ TranslatedSN(munger', k) = n
        BY <3>2, <4>2 DEF OutOfOrder, LateFound, TranslatedSN
      <4>4. k \in (SNs' \ arrived'[fwd'.lastSSRC]) \cup passed'
        BY <2>1, <2>5
      <4>5. Awaited(n)'
        BY <2>1, <4>3, <4>4 DEF Awaited
      <4> QED BY <4>5 DEF Explained
    <3>3. CASE Len(munger'.ranges) = MungerRanges + 1 /\ n < First(munger'.ranges)
      BY <3>3 DEF Explained, Forgotten, First
    <3> QED BY <3>1, <3>2, <3>3
  <2>6. CASE k \notin (SNs \ arrived'[fwd.lastSSRC]) \cup passed
    <3>1. k \in arrived'[fwd.lastSSRC] /\ k \notin arrived[fwd.lastSSRC]
      BY <2>2, <2>6
    <3>2. n \in DOMAIN out' \cup gaveUp'
      BY <2>1, <2>2, <2>3, <3>1
    <3> QED BY <3>2 DEF Explained
  <2> QED BY <2>5, <2>6
<1> QED BY <1>3, <1>4, <1>5, <1>6 DEF Explained

LEMMA ProcessedSpent ==
    ASSUME NEW m, MungerOK(m), NEW sn \in Int, Processed(m, sn)
    PROVE  /\ DOMAIN out \subseteq DOMAIN out'
           /\ m.lastSN \in DOMAIN out \cup gaveUp' => munger'.lastSN \in DOMAIN out' \cup gaveUp'
           /\ munger'.lastSN = m.lastSN \/ munger'.lastSN \in DOMAIN out' \cup gaveUp'
<1>1. CASE TakesNone(m, munger', sn) /\ out' = out
  <2>1. munger'.lastSN = m.lastSN
    BY <1>1, TakesNoneOK
  <2> QED BY <1>1, <2>1
<1>2. ASSUME NEW n \in Int, Takes(m, munger', sn, n), Sends(n) \/ (out' = out /\ n \in gaveUp')
      PROVE  /\ DOMAIN out \subseteq DOMAIN out'
             /\ munger'.lastSN = m.lastSN \/ munger'.lastSN \in DOMAIN out' \cup gaveUp'
  <2>1. n \in DOMAIN out' \cup gaveUp' /\ DOMAIN out \subseteq DOMAIN out'
    BY <1>2 DEF Sends
  <2>2. CASE TakesNext(m, munger', sn, n)
    <3>1. PICK marker \in BOOLEAN : munger' = InOrder(m, sn, sn, marker)
      BY <2>2 DEF TakesNext
    <3>2. munger'.lastSN = n
      BY <2>2, <3>1, InOrderOK DEF TakesNext
    <3> QED BY <2>1, <3>2
  <2>3. CASE FillsHole(m, munger', sn, n)
    BY <2>1, <2>3 DEF FillsHole
  <2> QED BY <1>2, <2>2, <2>3 DEF Takes
<1> QED BY <1>1, <1>2 DEF Processed

(* A packet of the source, in sync: it takes the number it was awaited for,    *)
(* and a gap before it is awaited from then on.                               *)
LEMMA ProcessedExplained ==
    ASSUME NumbersInv, HolesInv, Promised, NEW l, NEW sn \in SNs, NEW payload, Comes(l, sn, payload),
           fwd.lastSSRC = l, fwd'.lastSSRC = l, Processed(munger, sn),
           gaveUp \subseteq gaveUp', passed' = passed,
           NEW n \in FirstSN .. munger'.lastSN
    PROVE  Explained(n)'
<1> DEFINE h  == munger.highestIncoming
           rs == munger.ranges
<1>0. /\ PacketTypeOK /\ SourceOK /\ NoneBeyond /\ MungerOK(munger) /\ AllSeen /\ HasBegun /\ passed \subseteq Int
      /\ DOMAIN out \subseteq Int
  BY DEF NumbersInv, PacketTypeOK, HolesInv
<1>1. l # NoLayer /\ sn \in Int /\ sn \in SNs \ arrived[l] /\ SNs' = SNs /\ arrived'[l] = arrived[l] \cup {sn}
  BY <1>0, ComesIs
<1>2. /\ MungerOK(munger') /\ munger'.lastSN >= munger.lastSN
      /\ munger'.highestIncoming >= h /\ munger'.highestIncoming >= sn
  BY <1>0, <1>1, ProcessedNumbers DEF NoneBeyond
<1>3. /\ h \in Int /\ munger.lastSN \in Int /\ munger.snOffset \in Int /\ RangesOK(rs)
      /\ munger.lastSN = h - munger.snOffset /\ h >= FirstSN
  BY <1>0, <1>1, MungerFields DEF MungerOK, SourceOK, Synced, HasBegun
<1>4. n \in Int /\ n >= FirstSN /\ n <= munger'.lastSN /\ munger'.lastSN \in Int /\ FirstSN \in Int /\ scope.lastSN \in Int
  <2>1. munger' \in Munger
    BY <1>2 DEF MungerOK
  <2>2. munger'.lastSN \in Int /\ FirstSN \in Int /\ scope.lastSN \in Int
    BY <1>0, <2>1, MungerFields, SNsType
  <2> QED BY <2>2
<1>5. DOMAIN out \subseteq DOMAIN out'
  BY <1>0, <1>1, ProcessedSpent
<1>6. CASE n <= munger.lastSN
  <2>1. Explained(n)
    BY <1>3, <1>4, <1>6 DEF HolesInv
  <2>2. Kept(rs, munger'.ranges, MungerRanges, h)
    <3>1. CASE LeavesOut(munger, munger', sn)
      <4>1. sn - 1 = h
        BY <1>3, <3>1 DEF LeavesOut
      <4> QED BY <3>1, <4>1 DEF LeavesOut, Excluded, Moved
    <3>2. CASE IsTooLate(munger, munger', sn)
      BY <1>3, <3>2, KeptSame DEF IsTooLate
    <3>3. ASSUME NEW t \in Int, Takes(munger, munger', sn, t)
          PROVE  Kept(rs, munger'.ranges, MungerRanges, h)
      <4>1. munger'.ranges = rs
        BY <1>0, <1>1, <3>3, TakesOK
      <4> QED BY <1>3, <4>1, KeptSame
    <3> QED BY <3>1, <3>2, <3>3 DEF Processed, TakesNone
  <2>3. sn < h /\ LateFound(munger, sn) => Num(rs, sn) \in DOMAIN out' \cup gaveUp'
    <3> SUFFICES ASSUME sn < h, LateFound(munger, sn) PROVE Num(rs, sn) \in DOMAIN out' \cup gaveUp'
      OBVIOUS
    <3>1. ~TakesNone(munger, munger', sn)
      BY <1>1, <1>3 DEF TakesNone, LeavesOut, IsTooLate
    <3>2. PICK t \in Int : Takes(munger, munger', sn, t) /\ (Sends(t) \/ (out' = out /\ t \in gaveUp'))
      BY <3>1 DEF Processed
    <3>3. FillsHole(munger, munger', sn, t)
      BY <1>1, <1>3, <3>2 DEF Takes, TakesNext
    <3> QED BY <3>2, <3>3 DEF FillsHole, Sends
  <2>4. \A k \in arrived'[fwd.lastSSRC] :
           \/ k \in arrived[fwd.lastSSRC] \/ ~(k < munger.highestIncoming /\ LateFound(munger, k))
           \/ Num(munger.ranges, k) \in DOMAIN out' \cup gaveUp'
    BY <1>1, <2>3
  <2>5. \A o \in DOMAIN out' : \/ o \in DOMAIN out
                               \/ o \in Int /\ o >= First(munger.ranges) /\ fwd.lastSSRC # NoLayer
    <3>1. ASSUME NEW t \in Int, Takes(munger, munger', sn, t) PROVE t >= First(rs)
      <4>1. HasValue(rs, sn) /\ t = Num(rs, sn)
        <5>1. CASE TakesNext(munger, munger', sn, t)
          BY <1>0, <1>1, <1>3, <5>1, NumBeyond DEF TakesNext
        <5>2. CASE FillsHole(munger, munger', sn, t)
          BY <5>2 DEF FillsHole, LateFound
        <5> QED BY <3>1, <5>1, <5>2 DEF Takes
      <4>2. First(rs) \in Int /\ First(rs) <= Num(rs, sn)
        BY <1>1, <1>3, <4>1, NumFromFirst
      <4> QED BY <3>1, <4>1, <4>2
    <3>2. CASE out' = out
      BY <3>2
    <3>3. ASSUME NEW t \in Int, Takes(munger, munger', sn, t), Sends(t)
          PROVE  \A o \in DOMAIN out' : o \in DOMAIN out \/ (o \in Int /\ o >= First(rs))
      BY <3>1, <3>3 DEF Sends
    <3> QED BY <1>1, <3>2, <3>3 DEF Processed
  <2> QED BY <1>0, <1>1, <1>2, <1>4, <1>5, <1>6, <2>1, <2>2, <2>4, <2>5, ExplainedKept
<1>7. CASE n > munger.lastSN
  <2>1. munger'.lastSN # munger.lastSN
    BY <1>3, <1>4, <1>7
  <2>2. PICK t \in Int : Takes(munger, munger', sn, t) /\ (Sends(t) \/ (out' = out /\ t \in gaveUp'))
    <3>1. ~TakesNone(munger, munger', sn)
      BY <1>0, <1>1, <2>1, TakesNoneOK
    <3> QED BY <3>1 DEF Processed
  <2>3. TakesNext(munger, munger', sn, t)
    BY <2>1, <2>2 DEF Takes, FillsHole
  <2>4. PICK marker \in BOOLEAN : munger' = InOrder(munger, sn, sn, marker)
    BY <2>3 DEF TakesNext
  <2>5. /\ munger'.highestIncoming = sn /\ munger'.ranges = rs /\ munger'.lastSN = sn - munger.snOffset
        /\ sn > h /\ t = sn - munger.snOffset
    BY <1>0, <1>1, <2>3, <2>4, InOrderOK DEF TakesNext
  <2>6. CASE n = t
    BY <2>2, <2>6 DEF Sends, Explained
  <2>7. CASE n # t
    <3> DEFINE k == n + munger.snOffset
    <3>1. k \in Int /\ k > h /\ k < sn /\ k >= FirstSN /\ k <= scope.lastSN
      <4>1. sn <= scope.lastSN
        BY <1>4 DEF SNs
      <4> QED BY <1>1, <1>3, <1>4, <1>7, <2>5, <2>7, <4>1
    <3>2. k \in SNs
      BY <1>4, <3>1 DEF SNs
    <3>3. HasValue(rs, k) /\ Num(rs, k) = n
      <4>1. HasValue(rs, k) /\ Num(rs, k) = k - munger.snOffset
        BY <1>0, <3>1, NumBeyond
      <4> QED BY <1>3, <1>4, <4>1
    <3>4. k \notin arrived'[l] \/ k \in passed
      <4>1. k \in arrived[l] => k <= h \/ k \in passed
        BY <1>0, <1>1 DEF AllSeen
      <4> QED BY <1>1, <1>3, <3>1, <4>1
    <3>5. OutOfOrder(munger', k) /\ LateFound(munger', k) /\ TranslatedSN(munger', k) = n
      <4>1. n < munger'.lastSN
        BY <1>4, <2>5, <2>7
      <4>2. k - GetValue(rs, k) = n
        BY <3>3 DEF Num
      <4>3. k < munger'.highestIncoming
        BY <2>5, <3>1
      <4> HIDE DEF k
      <4> QED BY <2>5, <3>3, <4>1, <4>2, <4>3 DEF OutOfOrder, LateFound, TranslatedSN
    <3>6. k \in (SNs' \ arrived'[fwd'.lastSSRC]) \cup passed'
      BY <1>1, <3>2, <3>4
    <3> HIDE DEF k
    <3>7. Awaited(n)'
      BY <1>1, <3>5, <3>6 DEF Awaited
    <3> QED BY <3>7 DEF Explained
  <2> QED BY <2>6, <2>7
<1> QED BY <1>3, <1>4, <1>6, <1>7

(* Whether holes are promised only changes to no. *)
LEMMA PromisedBefore ==
    ASSUME NumbersInv, scope' = scope, Promised', fwd'.selector = "dd" => fwd.selector = "dd"
    PROVE  Promised /\ ~OutOfSync
BY DEF NumbersInv, SourceOK, Promised, OutOfSync

(* A packet that is not translated is one of another source, or there is no   *)
(* source.                                                                    *)
LEMMA HolesNotTranslated ==
    ASSUME NumbersInv, HolesInv, NEW l, NEW sn \in SNs, NEW payload, Comes(l, sn, payload),
           munger' = munger, out' = out, gaveUp' = gaveUp, passed' = passed,
           fwd'.started = fwd.started, fwd'.lastSSRC = fwd.lastSSRC,
           Promised' => Promised, Promised' /\ fwd.lastSSRC # NoLayer => fwd.lastSSRC # l
    PROVE  HolesInv'
<1>0. /\ PacketTypeOK /\ LastIsSpent /\ HasBegun /\ AllSeen /\ passed \subseteq Int /\ MungerOK(munger)
  BY DEF NumbersInv, PacketTypeOK, HolesInv
<1>1. l \in Layers /\ SNs' = SNs
  BY <1>0, ComesIs
<1>2. Promised' /\ fwd.lastSSRC # NoLayer => arrived'[fwd.lastSSRC] = arrived[fwd.lastSSRC]
  <2>1. fwd.lastSSRC # NoLayer => fwd.lastSSRC \in Layers
    BY <1>0, ForwarderFields DEF PacketTypeOK, Layers, NoLayer
  <2> QED BY <1>0, <1>1, <2>1 DEF Comes, PacketTypeOK
<1>3. LastIsSpent' /\ HasBegun' /\ AllSeen'
  BY <1>0, <1>2 DEF LastIsSpent, HasBegun, AllSeen
<1>4. ASSUME Promised', NEW n \in FirstSN .. munger'.lastSN
      PROVE  Explained(n)'
  <2>0. munger.lastSN \in Int /\ munger.highestIncoming \in Int /\ RangesOK(munger.ranges) /\ FirstSN \in Int
    BY <1>0, MungerFields, SNsType DEF MungerOK
  <2>1. Explained(n) /\ n \in Int /\ n <= munger.lastSN
    BY <1>4, <2>0 DEF HolesInv
  <2>2. Kept(munger.ranges, munger'.ranges, MungerRanges, munger.highestIncoming)
    BY <2>0, KeptSame
  <2>3. fwd.lastSSRC # NoLayer => \A k \in arrived'[fwd.lastSSRC] : k \in arrived[fwd.lastSSRC]
    BY <1>2, <1>4
  <2>4. munger'.highestIncoming >= munger.highestIncoming /\ munger'.lastSN >= munger.lastSN /\ MungerOK(munger')
    BY <1>0, <2>0
  <2> QED BY <1>0, <1>1, <2>1, <2>2, <2>3, <2>4, ExplainedKept
<1> QED BY <1>0, <1>3, <1>4 DEF HolesInv

(* A packet of the source. *)
LEMMA HolesProcessed ==
    ASSUME NumbersInv, HolesInv, NEW l, NEW sn \in SNs, NEW payload, Comes(l, sn, payload),
           fwd.lastSSRC = l, fwd'.lastSSRC = l, Processed(munger, sn), Promised' => Promised,
           gaveUp \subseteq gaveUp', passed' = passed
    PROVE  HolesInv'
<1>0. /\ PacketTypeOK /\ LastIsSpent /\ HasBegun /\ AllSeen /\ passed \subseteq Int /\ MungerOK(munger)
      /\ DOMAIN out \subseteq Int /\ NoneBeyond /\ NotStarted
  BY DEF NumbersInv, PacketTypeOK, HolesInv
<1>1. l # NoLayer /\ sn \in Int /\ SNs' = SNs /\ arrived'[l] = arrived[l] \cup {sn} /\ arrived[l] \subseteq Int
  BY <1>0, ComesIs DEF PacketTypeOK
<1>2. /\ MungerOK(munger') /\ munger'.highestIncoming >= munger.highestIncoming /\ munger'.highestIncoming >= sn
  BY <1>0, <1>1, ProcessedNumbers DEF NoneBeyond
<1>3. munger.highestIncoming \in Int /\ munger'.highestIncoming \in Int /\ FirstSN \in Int
  <2>1. munger \in Munger /\ munger' \in Munger
    BY <1>0, <1>2 DEF MungerOK
  <2> QED BY <1>0, <2>1, MungerFields, SNsType
<1>4. LastIsSpent'
  <2>1. fwd.started
    BY <1>0, <1>1 DEF NotStarted
  <2>2. munger.lastSN \in DOMAIN out \cup gaveUp'
    BY <1>0, <2>1 DEF LastIsSpent
  <2>3. munger'.lastSN \in DOMAIN out' \cup gaveUp'
    BY <1>0, <1>1, <2>2, ProcessedSpent
  <2> QED BY <2>3 DEF LastIsSpent
<1>5. HasBegun'
  BY <1>0, <1>1, <1>2, <1>3 DEF HasBegun
<1>6. AllSeen'
  <2> SUFFICES ASSUME Promised', NEW k \in arrived[l] \cup {sn}
               PROVE  k <= munger'.highestIncoming \/ k \in passed
    BY <1>1 DEF AllSeen
  <2>1. CASE k \in arrived[l]
    <3>1. k <= munger.highestIncoming \/ k \in passed
      BY <1>0, <1>1, <2>1 DEF AllSeen
    <3>2. k \in Int
      BY <1>1, <2>1
    <3> QED BY <1>2, <1>3, <3>1, <3>2
  <2>2. CASE k = sn
    BY <1>2, <2>2
  <2> QED BY <2>1, <2>2
<1>7. ASSUME Promised', NEW n \in FirstSN .. munger'.lastSN PROVE Explained(n)'
  BY <1>7, ProcessedExplained
<1> QED BY <1>0, <1>4, <1>5, <1>6, <1>7 DEF HolesInv

LEMMA HolesNotSelected ==
    ASSUME NumbersInv, HolesInv, NEW l, NEW sn \in SNs, NEW payload \in BOOLEAN, NEW marker \in BOOLEAN,
           Comes(l, sn, payload), NotSelected(l, sn, payload, marker)
    PROVE  HolesInv'
<1>0. /\ PacketTypeOK /\ SourceOK /\ MungerOK(munger) /\ NotStarted /\ LastIsSpent /\ passed \subseteq Int
  BY DEF NumbersInv, PacketTypeOK, HolesInv
<1>1. l \in Streams /\ l # NoLayer /\ scope' = scope /\ sn \in Int
  BY <1>0, ComesIs
<1>2. /\ gaveUp' = gaveUp /\ passed' = passed
      /\ fwd'.started = fwd.started /\ fwd'.lastSSRC = fwd.lastSSRC
      /\ fwd'.selector = NextSelector(payload)
      /\ \/ /\ munger' = munger /\ out' = out
            /\ fwd.selector = "simulcast" => l # fwd.cur
            /\ fwd.selector = "dd" => fwd.lastSSRC = NoLayer
         \/ /\ fwd.started /\ Processed(munger, sn) /\ fwd.selector # "simulcast"
            /\ fwd.selector = "dd" => fwd.lastSSRC # NoLayer
  BY <1>1, NotSelectedCases
<1>3. fwd'.selector = "dd" => fwd.selector = "dd"
  BY <1>2 DEF NextSelector
<1>4. Promised' => Promised /\ ~OutOfSync
  BY <1>1, <1>3, PromisedBefore
<1>5. CASE /\ munger' = munger /\ out' = out
           /\ fwd.selector = "simulcast" => l # fwd.cur
           /\ fwd.selector = "dd" => fwd.lastSSRC = NoLayer
  <2>1. Promised /\ fwd.lastSSRC # NoLayer => fwd.lastSSRC # l
    BY <1>0, <1>5 DEF Promised, SourceOK
  <2> QED BY <1>2, <1>4, <1>5, <2>1, HolesNotTranslated
<1>6. CASE /\ fwd.started /\ Processed(munger, sn) /\ fwd.selector # "simulcast"
           /\ fwd.selector = "dd" => fwd.lastSSRC # NoLayer
  <2>1. CASE fwd.lastSSRC = l
    BY <1>2, <1>4, <1>6, <2>1, HolesProcessed
  <2>2. CASE fwd.lastSSRC # l
    <3>1. scope.codec # "VP8" /\ fwd.lastSSRC = NoLayer
      BY <1>0, <1>1, <1>6, <2>2 DEF SourceOK, Streams
    <3>2. ~Promised'
      BY <1>1, <1>3, <1>6, <3>1 DEF Promised
    <3>3. munger'.lastSN \in DOMAIN out' \cup gaveUp'
      BY <1>0, <1>1, <1>2, <1>6, ProcessedSpent DEF LastIsSpent
    <3> QED BY <1>0, <1>2, <3>1, <3>2, <3>3 DEF HolesInv, LastIsSpent, HasBegun, AllSeen
  <2> QED BY <2>1, <2>2
<1> QED BY <1>2, <1>5, <1>6

LEMMA HolesSwitchFails ==
    ASSUME NumbersInv, HolesInv, NEW l, NEW sn \in SNs, NEW payload \in BOOLEAN,
           Comes(l, sn, payload), SwitchFails(l, sn, payload)
    PROVE  HolesInv'
<1>0. PacketTypeOK /\ fwd \in Forwarder
  BY DEF NumbersInv, PacketTypeOK
<1>1. scope' = scope
  BY <1>0, ComesIs
<1>2. /\ munger' = munger /\ out' = out /\ gaveUp' = gaveUp /\ passed' = passed
      /\ fwd.lastSSRC # l /\ fwd'.lastSSRC = fwd.lastSSRC /\ fwd'.selector = fwd.selector
  BY SwitchFailsStep
<1>3. fwd'.started = fwd.started
  BY <1>0 DEF SwitchFails, Forwarder
<1>4. Promised' => Promised
  BY <1>1, <1>2 DEF Promised
<1> QED BY <1>2, <1>3, <1>4, HolesNotTranslated

LEMMA HolesDrop ==
    ASSUME NumbersInv, HolesInv, NEW l, NEW sn \in SNs, DropWhileMuted(l, sn)
    PROVE  HolesInv'
<1>0. PacketTypeOK /\ SourceOK
  BY DEF NumbersInv
<1>1. /\ Comes(l, sn, TRUE) /\ munger' = munger /\ out' = out /\ fwd' = fwd /\ gaveUp' = gaveUp /\ passed' = passed
      /\ ~Flowing
  BY DEF DropWhileMuted, histVars, Flowing
<1>2. scope' = scope /\ fwd.lastSSRC = NoLayer
  BY <1>0, <1>1, ComesIs DEF SourceOK
<1>3. Promised' => Promised
  BY <1>1, <1>2 DEF Promised
<1> QED BY <1>1, <1>2, <1>3, HolesNotTranslated

(* After a switch the packets that came before, or will come, are seen or passed. *)
LEMMA SwitchedSeen ==
    ASSUME PacketTypeOK, NEW l, NEW sn \in SNs, NEW payload, Comes(l, sn, payload),
           MungerOK(munger'), munger'.highestIncoming >= sn, fwd'.lastSSRC = l,
           passed' = {o \in arrived[l] : o > sn}
    PROVE  HasBegun' /\ AllSeen' /\ passed' \subseteq Int
<1>1. sn \in Int /\ arrived'[l] = arrived[l] \cup {sn} /\ arrived[l] \subseteq Int /\ sn >= FirstSN /\ FirstSN \in Int
  <2>1. l \in Layers /\ sn \in Int /\ arrived'[l] = arrived[l] \cup {sn}
    BY ComesIs
  <2>2. arrived[l] \subseteq Int
    BY <2>1 DEF PacketTypeOK
  <2>3. sn >= FirstSN /\ FirstSN \in Int
    BY SNsType
  <2> QED BY <2>1, <2>2, <2>3
<1>2. munger'.highestIncoming \in Int
  BY MungerFields DEF MungerOK
<1>3. HasBegun'
  BY <1>1, <1>2 DEF HasBegun
<1>4. \A k \in arrived[l] \cup {sn} : k <= munger'.highestIncoming \/ k \in passed'
  BY <1>1, <1>2
<1>5. AllSeen'
  BY <1>1, <1>4 DEF AllSeen
<1> QED BY <1>1, <1>3, <1>5

LEMMA HolesSelected ==
    ASSUME NumbersInv, HolesInv, NEW l, NEW sn \in SNs, NEW payload \in BOOLEAN, NEW marker \in BOOLEAN,
           Comes(l, sn, payload), Selected(l, sn, payload, marker)
    PROVE  HolesInv'
<1>0. /\ PacketTypeOK /\ SourceOK /\ MungerOK(munger) /\ NotStarted /\ NoneBeyond /\ LastIsSpent
      /\ passed \subseteq Int /\ DOMAIN out \subseteq Int
  BY DEF NumbersInv, PacketTypeOK, HolesInv
<1>1. l \in Streams /\ l # NoLayer /\ scope' = scope /\ sn \in Int /\ sn >= FirstSN /\ FirstSN \in Int
  BY <1>0, ComesIs, SNsType
<1>2. /\ fwd'.selector = fwd.selector /\ fwd'.lastSSRC = l
      /\ \/ /\ fwd.lastSSRC = l /\ Processed(munger, sn)
            /\ gaveUp \subseteq gaveUp' /\ passed' = passed
         \/ /\ fwd.lastSSRC # l /\ gaveUp \cup Unsent \subseteq gaveUp'
            /\ passed' = {o \in arrived[l] : o > sn}
            /\ \/ fwd.started /\ \E d \in Nat : Processed(UpdateSnTsOffsets(munger, sn, sn, 1, d), sn)
               \/ ~fwd.started /\ Begins(SetLastSnTs(munger, sn, sn), sn)
  BY <1>1, SelectedCases
<1>3. Promised' => Promised
  BY <1>1, <1>2 DEF Promised
<1>4. munger.lastSN \in Int
  BY <1>0, MungerFields DEF MungerOK
<1>5. CASE fwd.lastSSRC = l /\ Processed(munger, sn) /\ gaveUp \subseteq gaveUp' /\ passed' = passed
  BY <1>2, <1>3, <1>5, HolesProcessed
<1>6. ASSUME gaveUp \cup Unsent \subseteq gaveUp', passed' = {o \in arrived[l] : o > sn}, fwd.started,
             NEW d \in Nat, Processed(UpdateSnTsOffsets(munger, sn, sn, 1, d), sn)
      PROVE  HolesInv'
  <2> DEFINE m == UpdateSnTsOffsets(munger, sn, sn, 1, d)
  <2>1. Fresh(m, sn) /\ Synced(m) /\ m.lastSN = munger.lastSN
    BY <1>0, <1>1, SwitchOK
  <2>2. Processed(m, sn)
    BY <1>6
  <2> HIDE DEF m
  <2>3. MungerOK(m) /\ \A n \in DOMAIN out : n <= m.lastSN
    BY <1>0, <2>1 DEF Fresh, NoneBeyond
  <2>4. MungerOK(munger') /\ munger'.highestIncoming >= sn
    BY <1>0, <1>1, <2>2, <2>3, ProcessedNumbers
  <2>5. HasBegun' /\ AllSeen' /\ passed' \subseteq Int
    BY <1>0, <1>2, <1>6, <2>4, SwitchedSeen
  <2>6. m.lastSN \in DOMAIN out \cup gaveUp'
    BY <1>0, <1>6, <2>1 DEF LastIsSpent
  <2>7. munger'.lastSN \in DOMAIN out' \cup gaveUp' /\ DOMAIN out \subseteq DOMAIN out'
    BY <1>1, <2>2, <2>3, <2>6, ProcessedSpent
  <2>8. munger'.lastSN - munger.lastSN \in 0 .. 1 /\ munger'.lastSN \in Int
    <3>1. munger'.lastSN - m.lastSN \in 0 .. 1
      BY <1>1, <2>1, <2>2, FreshProcessed
    <3>2. munger'.lastSN \in Int
      BY <2>4, MungerFields DEF MungerOK
    <3> QED BY <2>1, <3>1, <3>2
  <2>9. ASSUME NEW n \in FirstSN .. munger'.lastSN PROVE n \in DOMAIN out' \cup gaveUp'
    <3>1. n = munger'.lastSN \/ n \in FirstSN .. munger.lastSN
      BY <1>1, <1>4, <2>8
    <3>2. CASE n \in FirstSN .. munger.lastSN
      BY <1>6, <2>7, <3>2 DEF Unsent
    <3> QED BY <2>7, <3>1, <3>2
  <2>10. \A n \in FirstSN .. munger'.lastSN : Explained(n)'
    BY <2>9 DEF Explained
  <2> QED BY <2>5, <2>7, <2>10 DEF HolesInv, LastIsSpent
<1>7. ASSUME passed' = {o \in arrived[l] : o > sn}, ~fwd.started, Begins(SetLastSnTs(munger, sn, sn), sn)
      PROVE  HolesInv'
  <2> DEFINE m == SetLastSnTs(munger, sn, sn)
  <2>1. Fresh(m, sn) /\ m.lastSN = sn /\ m.snOffset = 0
    BY <1>0, <1>1, StartOK
  <2>2. out = <<>>
    BY <1>0, <1>7 DEF NotStarted
  <2>3. DOMAIN out = {}
    BY <2>2
  <2>4. PICK t \in Int : TakesNext(m, munger', sn, t) /\ (Sends(t) \/ (out' = out /\ t \in gaveUp'))
    BY <1>7 DEF Begins
  <2> HIDE DEF m
  <2>5. PICK mk \in BOOLEAN : munger' = InOrder(m, sn, sn, mk)
    BY <2>4 DEF TakesNext
  <2>6. MungerOK(m) /\ sn > m.highestIncoming /\ t = sn - m.snOffset
    BY <2>1, <2>4 DEF Fresh, TakesNext
  <2>7. /\ MungerOK(munger') /\ munger'.highestIncoming = sn /\ munger'.ranges = m.ranges /\ munger'.lastSN = sn
    <3>1. /\ MungerOK(munger') /\ munger'.highestIncoming = sn /\ munger'.ranges = m.ranges
          /\ munger'.lastSN = sn - m.snOffset
      BY <1>1, <2>5, <2>6, InOrderOK
    <3> QED BY <1>1, <2>1, <3>1
  <2>8. t = sn /\ DOMAIN out' \subseteq {sn} /\ sn \in DOMAIN out' \cup gaveUp'
    <3>1. t = sn
      BY <1>1, <2>1, <2>6
    <3> QED BY <2>3, <2>4, <3>1 DEF Sends
  <2>9. munger'.highestIncoming >= sn
    BY <1>1, <2>7
  <2>10. HasBegun' /\ AllSeen' /\ passed' \subseteq Int
    BY <1>0, <1>2, <1>7, <2>7, <2>9, SwitchedSeen
  <2>11. First(munger'.ranges) = sn
    <3>1. /\ RangesOK(m.ranges) /\ Len(m.ranges) = 1 /\ Open(m.ranges).start <= m.highestIncoming + 1
          /\ m.highestIncoming = sn - 1 /\ Open(m.ranges).value = 0
          /\ \A k \in Int : HasValue(m.ranges, k) => k >= sn
      BY <2>1 DEF Fresh, MungerOK
    <3>2. Open(m.ranges).start \in Int /\ HasValue(m.ranges, Open(m.ranges).start)
      BY <3>1, OpenIs DEF HasValue
    <3>3. Open(m.ranges).start = sn /\ Open(m.ranges) = m.ranges[1]
      BY <1>1, <3>1, <3>2 DEF Open
    <3> QED BY <1>1, <2>7, <3>1, <3>3 DEF First
  <2>12. ASSUME NEW n \in FirstSN .. munger'.lastSN PROVE Explained(n)'
    <3>1. CASE n = sn
      BY <2>8, <3>1 DEF Explained
    <3>2. CASE n # sn
      <4>1. n < sn
        BY <1>1, <2>7, <3>2
      <4>2. \A o \in DOMAIN out' : n < o
        BY <2>8, <4>1
      <4> QED BY <2>11, <4>1, <4>2 DEF Explained
    <3> QED BY <3>1, <3>2
  <2> QED BY <2>7, <2>8, <2>10, <2>12 DEF HolesInv, LastIsSpent
<1> QED BY <1>2, <1>5, <1>6, <1>7

(* Padding and blank frames. *)
LEMMA HolesPads ==
    ASSUME NumbersInv, HolesInv, NEW num \in 1 .. 2, Pads(num), SameSource, gaveUp' = gaveUp, passed' = passed
    PROVE  HolesInv'
<1>0. /\ PacketTypeOK /\ NotStarted /\ NoneBeyond /\ MungerOK(munger) /\ num \in Nat /\ num >= 1
      /\ HasBegun /\ AllSeen /\ passed \subseteq Int /\ DOMAIN out \subseteq Int /\ FirstSN \in Int
  BY SNsType DEF NumbersInv, PacketTypeOK, HolesInv
<1>1. /\ Started.lastSN \in Int /\ MungerOK(Started)
      /\ fwd.started => Started = munger
      /\ ~fwd.started => Started.lastSN = FirstSN /\ DOMAIN out = {}
  BY StartedIs
<1>2. /\ munger'.highestIncoming = Started.highestIncoming /\ munger'.lastSN = Started.lastSN + num
      /\ MungerOK(munger')
      /\ Kept(Started.ranges, munger'.ranges, MungerRanges, Started.highestIncoming)
  BY DEF Pads, Moved
<1>3. /\ fwd'.started = TRUE /\ fwd'.lastSSRC = fwd.lastSSRC /\ fwd'.selector = fwd.selector
      /\ scope' = scope /\ arrived' = arrived /\ SNs' = SNs
  BY DEF SameSource, SNs
<1>4. DOMAIN out' = DOMAIN out \cup ((Started.lastSN + 1) .. (Started.lastSN + num))
  BY DEF Pads, AddOut
<1>5. fwd.lastSSRC # NoLayer => fwd.started /\ Started = munger
  BY <1>0, <1>1 DEF NotStarted
<1>6. LastIsSpent'
  <2>1. munger'.lastSN \in DOMAIN out'
    BY <1>0, <1>1, <1>2, <1>4
  <2> QED BY <2>1 DEF LastIsSpent
<1>7. HasBegun' /\ AllSeen'
  <2>1. Promised' => Promised
    BY <1>3 DEF Promised
  <2> QED BY <1>0, <1>2, <1>3, <1>5, <2>1 DEF HasBegun, AllSeen
<1>8. ASSUME Promised', NEW n \in FirstSN .. munger'.lastSN PROVE Explained(n)'
  <2>0. n \in Int /\ n >= FirstSN /\ n <= Started.lastSN + num
    BY <1>0, <1>1, <1>2
  <2>1. CASE n > Started.lastSN
    <3>1. n \in DOMAIN out'
      BY <1>0, <1>1, <1>4, <2>0, <2>1
    <3> QED BY <3>1 DEF Explained
  <2>2. CASE n <= Started.lastSN /\ ~fwd.started
    <3>1. n = FirstSN
      BY <1>0, <1>1, <2>0, <2>2
    <3>2. \A o \in DOMAIN out' : n < o
      BY <1>0, <1>1, <1>4, <2>2, <3>1
    <3>3. fwd'.lastSSRC = NoLayer
      BY <1>3, <1>5, <2>2
    <3> QED BY <3>2, <3>3 DEF Explained
  <2>3. CASE n <= Started.lastSN /\ fwd.started
    <3>0. Promised /\ munger.highestIncoming \in Int /\ munger.lastSN \in Int /\ Started = munger
      BY <1>0, <1>1, <1>3, <1>8, <2>3, MungerFields DEF Promised, MungerOK
    <3>1. Explained(n) /\ n <= munger.lastSN
      BY <2>0, <2>3, <3>0, <1>0 DEF HolesInv
    <3>2. munger'.highestIncoming >= munger.highestIncoming /\ munger'.lastSN >= munger.lastSN
      BY <1>0, <1>2, <3>0
    <3>3. \A o \in DOMAIN out' : o \in DOMAIN out \/ (o \in Int /\ o > munger.lastSN)
      BY <1>0, <1>4, <3>0
    <3>4. Kept(munger.ranges, munger'.ranges, MungerRanges, munger.highestIncoming)
      BY <1>2, <3>0
    <3>5. fwd.lastSSRC # NoLayer => \A k \in arrived'[fwd.lastSSRC] : k \in arrived[fwd.lastSSRC]
      BY <1>3
    <3>6. DOMAIN out \subseteq DOMAIN out'
      BY <1>4
    <3> QED BY <1>0, <1>2, <1>3, <2>0, <3>1, <3>2, <3>3, <3>4, <3>5, <3>6, ExplainedKept
  <2> QED BY <1>1, <2>0, <2>1, <2>2, <2>3
<1> QED BY <1>0, <1>6, <1>7, <1>8 DEF HolesInv

(* Steps that send nothing: the source is let go, or what is awaited stays so. *)
LEMMA HolesQuiet ==
    ASSUME NumbersInv, HolesInv, munger' = munger, out' = out, scope' = scope, fwd'.started = fwd.started,
           passed' = passed, fwd'.selector = fwd.selector \/ LetsGo,
           \/ LetsGo
           \/ /\ fwd'.lastSSRC = fwd.lastSSRC /\ gaveUp' = gaveUp
              /\ \A l \in Layers : arrived'[l] \subseteq arrived[l]
    PROVE  HolesInv'
<1>0. /\ PacketTypeOK /\ MungerOK(munger) /\ LastIsSpent /\ HasBegun /\ AllSeen /\ passed \subseteq Int
  BY DEF NumbersInv, PacketTypeOK, HolesInv
<1>1. SNs' = SNs
  BY DEF SNs
<1>2. CASE LetsGo
  <2>1. fwd'.lastSSRC = NoLayer /\ gaveUp \subseteq gaveUp' /\ Unsent \subseteq gaveUp'
    BY <1>2 DEF LetsGo
  <2>2. LastIsSpent' /\ HasBegun' /\ AllSeen'
    BY <1>0, <2>1 DEF LastIsSpent, HasBegun, AllSeen
  <2>3. \A n \in FirstSN .. munger'.lastSN : Explained(n)'
    BY <2>1 DEF Explained, Unsent
  <2> QED BY <1>0, <2>2, <2>3 DEF HolesInv
<1>3. CASE /\ ~LetsGo /\ fwd'.lastSSRC = fwd.lastSSRC /\ gaveUp' = gaveUp
           /\ \A l \in Layers : arrived'[l] \subseteq arrived[l]
  <2>a. Promised' => Promised
    BY <1>3 DEF Promised
  <2>0. munger.lastSN \in Int /\ munger.highestIncoming \in Int /\ RangesOK(munger.ranges) /\ FirstSN \in Int
    BY <1>0, MungerFields, SNsType DEF MungerOK
  <2>1. fwd.lastSSRC # NoLayer => \A k \in arrived'[fwd.lastSSRC] : k \in arrived[fwd.lastSSRC]
    <3>1. fwd.lastSSRC # NoLayer => fwd.lastSSRC \in Layers
      BY <1>0, ForwarderFields DEF PacketTypeOK, Layers, NoLayer
    <3> QED BY <1>3, <3>1
  <2>2. LastIsSpent' /\ HasBegun' /\ AllSeen'
    BY <1>0, <1>3, <2>a, <2>1 DEF LastIsSpent, HasBegun, AllSeen
  <2>3. ASSUME Promised', NEW n \in FirstSN .. munger'.lastSN PROVE Explained(n)'
    <3>1. Explained(n) /\ n \in Int /\ n <= munger.lastSN
      BY <2>a, <2>0, <2>3 DEF HolesInv
    <3>2. Kept(munger.ranges, munger'.ranges, MungerRanges, munger.highestIncoming)
      BY <2>0, KeptSame
    <3>3. munger'.highestIncoming >= munger.highestIncoming /\ munger'.lastSN >= munger.lastSN /\ MungerOK(munger')
      BY <1>0, <2>0
    <3> QED BY <1>0, <1>1, <1>3, <2>1, <3>1, <3>2, <3>3, ExplainedKept
  <2> QED BY <1>0, <2>2, <2>3 DEF HolesInv
<1> QED BY <1>2, <1>3

LEMMA HolesTakePadding ==
    ASSUME NumbersInv, HolesInv, NEW num \in 1 .. 2, TakePadding(num)
    PROVE  HolesInv'
<1>0. NotStarted /\ PacketTypeOK
  BY DEF NumbersInv
<1>1. SameSource /\ gaveUp' = gaveUp /\ passed' = passed
  BY TakePaddingCases
<1>2. CASE Pads(num)
  BY <1>1, <1>2, HolesPads
<1>3. CASE ~Pads(num)
  <2>1. munger' = Started /\ out' = out
    BY <1>3, TakePaddingCases
  <2>2. fwd.started
    <3> SUFFICES ASSUME ~fwd.started PROVE FALSE
      OBVIOUS
    <3>1. padder.pc = "onMute"
      BY <1>0 DEF NotStarted, TakePadding
    <3>2. CanPad(Started, TRUE)
      BY DEF CanPad
    <3>3. AddOut(Started.lastSN + 1, Started.lastSN + num)
      BY <3>1, <3>2 DEF TakePadding, CanPad
    <3>4. Started.lastSN \in Int /\ DOMAIN out = {}
      BY StartedIs
    <3>5. Started.lastSN + 1 \in DOMAIN out'
      BY <3>3, <3>4 DEF AddOut
    <3> QED BY <2>1, <3>4, <3>5
  <2>3. munger' = munger /\ fwd'.started = fwd.started
    <3>1. fwd.started \in BOOLEAN
      BY <1>0, ForwarderFields DEF PacketTypeOK
    <3> QED BY <1>1, <2>1, <2>2, <3>1 DEF Started, SameSource
  <2>4. /\ scope' = scope /\ fwd'.selector = fwd.selector /\ fwd'.lastSSRC = fwd.lastSSRC
        /\ \A l \in Layers : arrived'[l] \subseteq arrived[l]
    BY <1>1 DEF SameSource
  <2> QED BY <1>1, <2>1, <2>3, <2>4, HolesQuiet
<1> QED BY <1>2, <1>3

LEMMA HolesInitially == PacketInit => HolesInv
<1> SUFFICES ASSUME PacketInit PROVE HolesInv
  OBVIOUS
<1>1. fwd.started = FALSE /\ fwd.lastSSRC = NoLayer /\ munger.lastSN = 0 /\ passed = {}
  BY DEF PacketInit, NewMunger
<1>2. FirstSN .. munger.lastSN = {}
  BY <1>1, PacketAssumption
<1> QED BY <1>1, <1>2 DEF HolesInv, LastIsSpent, HasBegun, AllSeen

LEMMA HolesNext ==
    ASSUME NumbersInv, HolesInv, [PacketNext]_packetVars
    PROVE  HolesInv'
<1>1. CASE WriteRTP
  <2>1. PICK l \in Layers, sn \in SNs :
            \/ DropWhileMuted(l, sn)
            \/ \E payload, marker \in BOOLEAN :
                 /\ Comes(l, sn, payload)
                 /\ \/ NotSelected(l, sn, payload, marker) \/ Selected(l, sn, payload, marker)
                    \/ SwitchFails(l, sn, payload)
    BY <1>1 DEF WriteRTP
  <2>2. CASE DropWhileMuted(l, sn)
    BY <2>2, HolesDrop
  <2>3. ASSUME NEW payload \in BOOLEAN, NEW marker \in BOOLEAN, Comes(l, sn, payload),
               \/ NotSelected(l, sn, payload, marker) \/ Selected(l, sn, payload, marker)
               \/ SwitchFails(l, sn, payload)
        PROVE  HolesInv'
    BY <2>3, HolesNotSelected, HolesSelected, HolesSwitchFails
  <2> QED BY <2>1, <2>2, <2>3
<1>2. ASSUME Idles PROVE HolesInv'
  <2>1. /\ munger' = munger /\ out' = out /\ scope' = scope /\ fwd' = fwd /\ arrived' = arrived
        /\ gaveUp' = gaveUp /\ passed' = passed
    BY <1>2 DEF Idles
  <2> QED BY <2>1, HolesQuiet
<1>3. CASE \/ \E l \in Layers : Record(l)
           \/ \E kind \in {"probe", "onMute"} : CheckPadding(kind)
           \/ PushPadding \/ (\E n \in DOMAIN out : GetExtPacketMetas(n))
           \/ Retransmit \/ NackDone \/ FlushSequencer
  BY <1>2, <1>3, IdleSteps
<1>4. CASE \E num \in 1 .. 2 : TakePadding(num)
  BY <1>4, HolesTakePadding
<1>5. CASE BlankFrame
  <2>1. SameSource /\ gaveUp' = gaveUp /\ passed' = passed /\ \E num \in 1 .. 2 : Pads(num)
    BY <1>5, BlankFrameCases
  <2> QED BY <2>1, HolesPads
<1>6. CASE Control
  <2>1. /\ Quiet /\ passed' = passed /\ arrived' = arrived
        /\ LetsGo \/ (fwd'.lastSSRC = fwd.lastSSRC /\ gaveUp' = gaveUp)
    BY <1>6, ControlSteps
  <2> QED BY <2>1, HolesQuiet DEF Quiet
<1>7. CASE RestartStreams
  <2>1. /\ Quiet /\ passed' = passed /\ gaveUp' = gaveUp /\ fwd' = fwd /\ arrived' = [l \in Layers |-> {}]
    BY <1>7, RestartSteps
  <2>2. \A l \in Layers : arrived'[l] \subseteq arrived[l]
    BY <2>1
  <2> QED BY <2>1, <2>2, HolesQuiet DEF Quiet
<1>8. CASE RestartForwarder
  <2>1. Quiet /\ passed' = passed /\ LetsGo
    BY <1>8, RestartSteps
  <2> QED BY <2>1, HolesQuiet DEF Quiet
<1>9. CASE UNCHANGED packetVars
  <2>1. Idles
    BY <1>9 DEF packetVars, fwVars, srcVars, histVars, Idles, NumbersInv, NotStarted
  <2> QED BY <1>2, <2>1
<1> QED BY <1>1, <1>3, <1>4, <1>5, <1>6, <1>7, <1>8, <1>9 DEF PacketNext

(* The whole invariant: besides the numbers, the last one is spent, the munger *)
(* has seen what came of its source, and every number up to the last is        *)
(* explained.                                                                 *)
THEOREM PacketInvariant == PacketSpec => []PacketInv
<1>1. PacketInit => PacketInv
  BY NumbersInitially, HolesInitially DEF PacketInv
<1>2. PacketInv /\ [PacketNext]_packetVars => PacketInv'
  BY NumbersNext, HolesNext DEF PacketInv
<1> QED BY <1>1, <1>2, PTL DEF PacketSpec

(* Forwarder and RTP munger: a number that was not sent still belongs to a    *)
(* packet that may come late and then gets it, or the code has given it up.   *)
THEOREM HolesStayAwaited == PacketSpec => []HolesAreAwaited
<1>1. PacketInv => HolesAreAwaited
  BY DEF PacketInv, HolesInv, HolesAreAwaited, Explained, Promised
<1> QED BY <1>1, PacketInvariant, PTL

-----------------------------------------------------------------------------
(* Remainders: the slots of the ring, and numbers on the wire.              *)

LEMMA Remainder ==
    ASSUME NEW m \in Nat \ {0}, NEW a \in Int
    PROVE  a % m \in 0 .. m - 1 /\ \E q \in Int : a = q * m + (a % m)
<1>0. m \in Int /\ m > 0
  OBVIOUS
<1>1. a % m \in 0 .. m - 1 /\ a \div m \in Int
  BY <1>0, SMT
<1>2. a = (a \div m) * m + (a % m)
  BY <1>0, Z3
<1> QED BY <1>1, <1>2

(* Two multiples less than two turns apart. *)
LEMMA Multiples ==
    ASSUME NEW m \in Nat \ {0}, NEW p \in Int, NEW q \in Int,
           p * m - q * m < 2 * m, p * m - q * m > -m
    PROVE  p = q \/ p = q + 1
<1>1. (p - q) * m = p * m - q * m
  BY Z3
<1>2. \A k \in Int : k >= 2 => k * m >= 2 * m
  BY Z3
<1>3. \A k \in Int : k <= -1 => k * m <= -m
  BY Z3
<1> DEFINE k == p - q
<1>4. k \in Int /\ k * m < 2 * m /\ k * m > -m
  BY <1>1
<1> HIDE DEF k
<1>a. k * m \in Int
  BY <1>4
<1>5. k < 2 /\ k > -1
  <2>1. ~(k >= 2)
    BY <1>2, <1>4, <1>a
  <2>2. ~(k <= -1)
    BY <1>3, <1>4, <1>a
  <2> QED BY <1>4, <2>1, <2>2
<1>6. k = 0 \/ k = 1
  BY <1>4, <1>5
<1> QED BY <1>6 DEF k

(* Numbers less than a turn apart: which remainders they have. *)
LEMMA NextTurn ==
    ASSUME NEW m \in Nat \ {0}, NEW a \in Int, NEW b \in Int, a <= b, b - a < m
    PROVE  /\ (b % m) - (a % m) = b - a \/ (b % m) - (a % m) = b - a - m
           /\ a % m \in 0 .. m - 1 /\ b % m \in 0 .. m - 1
<1>1. PICK p \in Int : b = p * m + (b % m)
  BY Remainder
<1>2. PICK q \in Int : a = q * m + (a % m)
  BY Remainder
<1>3. a % m \in 0 .. m - 1 /\ b % m \in 0 .. m - 1
  BY Remainder
<1> DEFINE x == p * m
           y == q * m
<1>4. x \in Int /\ y \in Int
  OBVIOUS
<1>5. b = x + (b % m) /\ a = y + (a % m)
  BY <1>1, <1>2
<1>6. p = q \/ p = q + 1
  <2>1. x - y < 2 * m /\ x - y > -m
    <3> HIDE DEF x, y
    <3> QED BY <1>3, <1>4, <1>5
  <2> QED BY <2>1, Multiples
<1>7. x = y \/ x = y + m
  <2>1. (q + 1) * m = q * m + m
    BY Z3
  <2> QED BY <1>6, <2>1
<1> DEFINE u == b % m
           v == a % m
<1>8. u \in 0 .. m - 1 /\ v \in 0 .. m - 1 /\ b = x + u /\ a = y + v
  BY <1>3, <1>5
<1> HIDE DEF x, y, u, v
<1>9. u - v = b - a \/ u - v = b - a - m
  BY <1>4, <1>7, <1>8
<1> QED BY <1>8, <1>9, Zenon DEF u, v

(* ... so they do not share a slot. *)
LEMMA OwnSlot ==
    ASSUME NEW m \in Nat \ {0}, NEW a \in Int, NEW b \in Int, a # b, a - b < m, b - a < m
    PROVE  a % m # b % m
<1>1. CASE a < b
  <2> DEFINE u == b % m
             v == a % m
  <2>0. a <= b /\ b - a < m
    BY <1>1
  <2>1. u - v = b - a \/ u - v = b - a - m
    BY <2>0, NextTurn, Zenon
  <2>2. u \in 0 .. m - 1 /\ v \in 0 .. m - 1
    BY Remainder
  <2> HIDE DEF u, v
  <2>3. u # v
    BY <1>1, <2>0, <2>1, <2>2
  <2> QED BY <2>3, Zenon DEF u, v
<1>2. CASE b < a
  <2> DEFINE u == a % m
             v == b % m
  <2>0. b <= a /\ a - b < m
    BY <1>2
  <2>1. u - v = a - b \/ u - v = a - b - m
    BY <2>0, NextTurn, Zenon
  <2>2. u \in 0 .. m - 1 /\ v \in 0 .. m - 1
    BY Remainder
  <2> HIDE DEF u, v
  <2>3. u # v
    BY <1>2, <2>0, <2>1, <2>2
  <2> QED BY <2>3, Zenon DEF u, v
<1> QED BY <1>1, <1>2

(* The number of a NACK, extended by the highest one. *)
LEMMA ExtendedIs ==
    ASSUME NEW s, s.extHighestSN \in Int, NEW n \in Int, n <= s.extHighestSN, s.extHighestSN - n < SNModulus
    PROVE  Extended(s, n % SNModulus) = n /\ Behind(s, n % SNModulus) = s.extHighestSN - n
<1> DEFINE h == s.extHighestSN
           M == SNModulus
<1>0. M \in Nat \ {0} /\ h \in Int
  BY SequencerAssumption
<1>1. /\ (h % M) - (n % M) = h - n \/ (h % M) - (n % M) = h - n - M
      /\ h % M \in 0 .. M - 1 /\ n % M \in 0 .. M - 1
  BY <1>0, NextTurn
<1> DEFINE x == h % M
           y == n % M
<1>2. Extended(s, n % SNModulus) = IF y > x THEN h - x + y - M ELSE h - x + y
  BY DEF Extended
<1>3. Behind(s, n % SNModulus) = (x - y) % M
  BY DEF Behind
<1>4. x - y = h - n \/ x - y = h - n - M
  BY <1>1, Zenon
<1>5. x \in 0 .. M - 1 /\ y \in 0 .. M - 1
  BY <1>1, Zenon
<1>6. h - n \in 0 .. M - 1
  BY <1>0
<1>7. (x - y) % M = h - n
  <2>2. \A k \in 0 .. M - 1 : k % M = k
    BY <1>0, Z3
  <2>3. \A k \in 0 .. M - 1 : (k - M) % M = k
    BY <1>0, Z3
  <2> QED BY <1>4, <1>6, <2>2, <2>3, Zenon
<1>8. (IF y > x THEN h - x + y - M ELSE h - x + y) = n
  <2> HIDE DEF h, M, x, y
  <2> QED BY <1>0, <1>4, <1>5, <1>6
<1> DEFINE z == IF y > x THEN h - x + y - M ELSE h - x + y
<1>9. Extended(s, n % SNModulus) = z /\ z = n
  BY <1>2, <1>8
<1> HIDE DEF x, y, z
<1>10. Extended(s, n % SNModulus) = n
  BY <1>9
<1>11. Behind(s, n % SNModulus) = h - n
  BY <1>3, <1>7
<1> QED BY <1>10, <1>11

-----------------------------------------------------------------------------
(* The map of the sequencer: offsets grow, and every closed range and the gap *)
(* behind it take at least two numbers. Until the map is full nothing is      *)
(* forgotten.                                                                 *)
SequencerMapOK(rs) ==
    /\ RangesOK(rs) /\ Len(rs) <= SequencerRanges + 1
    /\ \A i, j \in 1 .. Len(rs) : i < j =>
          /\ rs[i].value < rs[j].value
          /\ rs[i].start + 2 * (j - i) <= rs[j].start
    /\ Len(rs) <= SequencerRanges => rs[1].start = 0

(* A number that the map leaves out, rather than one that it has forgotten. *)
LeftOut(rs, n) == n >= rs[1].start /\ ~HasValue(rs, n)

LEMMA SequencerRangesType == SequencerRanges \in Nat \ {0} /\ 2 * SequencerRanges >= Slots
BY SequencerAssumption DEF SequencerRanges

(* Two ranges of the map. *)
LEMMA MapOrdered ==
    ASSUME NEW rs, SequencerMapOK(rs), NEW i \in 1 .. Len(rs), NEW j \in 1 .. Len(rs), i < j
    PROVE  rs[i].value < rs[j].value /\ rs[i].start + 2 * (j - i) <= rs[j].start
BY DEF SequencerMapOK

(* The map after padding, range by range: all but the last are those of the   *)
(* map before, the oldest ones dropped.                                       *)
Follows(rs, new, d, start, value) ==
    /\ d \in Nat /\ Len(new) \in Nat /\ Len(new) >= 2 /\ Len(new) - 1 + d <= Len(rs)
    /\ new[Len(new)].start = start /\ new[Len(new)].value = value
    /\ \A i \in 1 .. Len(new) - 1 : new[i].start = rs[i + d].start /\ new[i].value = rs[i + d].value
    /\ Len(new) <= SequencerRanges => d = 0 /\ Len(rs) <= SequencerRanges
    /\ \/ Len(new) + d = Len(rs) /\ rs[Len(rs)].start < start
       \/ Len(new) - 1 + d = Len(rs) /\ rs[Len(rs)].start + 2 <= start

LEMMA ExcludeFollows ==
    ASSUME NEW rs, SequencerMapOK(rs), NEW start \in Int, NEW end \in Int, start < end, start >= 1,
           Open(rs).start <= start
    PROVE  \E d \in Nat : Follows(rs, ExcludeRange(rs, SequencerRanges, start, end), d, end,
                                  Open(rs).value + (end - start))
<1> DEFINE value == Open(rs).value + (end - start)
           size  == SequencerRanges
<1>0. /\ RangesOK(rs) /\ Len(rs) \in Nat /\ Len(rs) >= 1 /\ Len(rs) <= size + 1 /\ Open(rs) = rs[Len(rs)]
      /\ Open(rs).start \in Int /\ Open(rs).value \in Int /\ value \in Int /\ start - 1 \in Int
      /\ size \in Nat \ {0}
  BY OpenIs, SequencerRangesType DEF SequencerMapOK
<1>a. CanExclude(rs, start)
  BY DEF CanExclude
<1>1. CASE Open(rs).start = start
  <2> DEFINE R   == [start : Int, end : Int, value : Int]
             top == [rs[Len(rs)] EXCEPT !.start = end, !.value = value]
             new == [rs EXCEPT ![Len(rs)] = top]
  <2>2. rs[Len(rs)] \in R /\ rs \in Seq(R)
    BY <1>0, OpenType
  <2>3. top \in R /\ top.start = end /\ top.value = value
    BY <1>0, <2>2
  <2>a. ExcludeRange(rs, size, start, end) = [rs EXCEPT ![Len(rs)].start = end, ![Len(rs)].value = value]
    BY <1>a, <1>1 DEF ExcludeRange
  <2>1. ExcludeRange(rs, size, start, end) = new
    BY <1>0, <2>2, <2>a
  <2> HIDE DEF R, top, value
  <2>4. /\ Len(new) = Len(rs) /\ new[Len(rs)] = top
        /\ \A i \in 1 .. Len(rs) - 1 : new[i] = rs[i]
    BY <1>0, <2>2, <2>3
  <2>5. Len(rs) >= 2
    <3>1. ~(Len(rs) = 1)
      BY <1>0, <1>1 DEF SequencerMapOK
    <3> DEFINE L == Len(rs)
    <3>2. L \in Int /\ L >= 1 /\ L # 1
      BY <1>0, <3>1
    <3> HIDE DEF L
    <3>3. L >= 2
      BY <3>2
    <3> QED BY <3>3 DEF L
  <2> HIDE DEF new, size
  <2>6. \A i \in 1 .. Len(new) - 1 : new[i].start = rs[i + 0].start /\ new[i].value = rs[i + 0].value
    <3> SUFFICES ASSUME NEW i \in 1 .. Len(rs) - 1 PROVE new[i] = rs[i + 0]
      BY <2>4
    <3>1. i + 0 = i
      BY <1>0
    <3> QED BY <2>4, <3>1
  <2>7. Follows(rs, new, 0, end, value)
    BY <1>0, <1>1, <2>3, <2>4, <2>5, <2>6 DEF Follows, size
  <2> QED BY <2>1, <2>7 DEF value, size
<1>2. CASE Open(rs).start # start
  <2> DEFINE new  == CloseAt(rs, size, start - 1, end, value)
             drop == IF Len(rs) > size THEN Len(rs) - size ELSE 0
  <2>1. ExcludeRange(rs, size, start, end) = new
    BY <1>a, <1>2 DEF ExcludeRange
  <2>2. drop \in Nat /\ (Len(rs) > size => drop = Len(rs) - size) /\ (Len(rs) <= size => drop = 0)
    BY <1>0
  <2> HIDE DEF drop, value
  <2>3. Closed(rs, new, drop, start - 1, end, value)
    BY <1>0, <2>2, CloseAtIs
  <2> HIDE DEF new, size
  <2>4. Len(new) = Len(rs) + 1 - drop /\ drop <= 1
    BY <1>0, <2>2, <2>3 DEF Closed
  <2>5. new[Len(new)].start = end /\ new[Len(new)].value = value
    BY <2>3 DEF Closed, OpenRange
  <2>6. \A i \in 1 .. Len(new) - 1 : new[i].start = rs[i + drop].start /\ new[i].value = rs[i + drop].value
    <3> SUFFICES ASSUME NEW i \in 1 .. Len(new) - 1
                 PROVE  new[i].start = rs[i + drop].start /\ new[i].value = rs[i + drop].value
      OBVIOUS
    <3>1. CASE i = Len(new) - 1
      <4>1. new[i].start = Open(rs).start /\ new[i].value = Open(rs).value
        BY <2>3, <3>1 DEF Closed
      <4>2. i + drop = Len(rs)
        BY <1>0, <2>2, <2>4, <3>1
      <4> QED BY <1>0, <4>1, <4>2
    <3>2. CASE i # Len(new) - 1
      <4>1. i \in 1 .. Len(new) - 2
        BY <1>0, <2>2, <2>4, <3>2
      <4> QED BY <2>3, <4>1 DEF Closed
    <3> QED BY <3>1, <3>2
  <2>7. Open(rs).start + 2 <= end
    BY <1>0, <1>2
  <2>8. Len(new) >= 2 /\ Len(new) \in Nat
    BY <1>0, <2>2, <2>4
  <2>9. Len(new) <= size => drop = 0 /\ Len(rs) <= size
    BY <1>0, <2>2, <2>4
  <2>10. Follows(rs, new, drop, end, value)
    BY <1>0, <2>2, <2>4, <2>5, <2>6, <2>7, <2>8, <2>9 DEF Follows, size
  <2> QED BY <2>1, <2>2, <2>10 DEF value, size
<1> QED BY <1>1, <1>2

(* The map after padding from start up to end. *)
LEMMA ExcludeMap ==
    ASSUME NEW rs, SequencerMapOK(rs), NEW start \in Int, NEW end \in Int, start < end, start >= 1,
           Open(rs).start <= start,
           NEW new, new = ExcludeRange(rs, SequencerRanges, start, end)
    PROVE  /\ SequencerMapOK(new)
           /\ Open(new).start = end /\ Open(new).value = Open(rs).value + (end - start)
           /\ \A k \in Int : k < start /\ HasValue(new, k)
                               => HasValue(rs, k) /\ GetValue(new, k) = GetValue(rs, k)
           /\ ~HasValue(new, end - 1)
           /\ \A k \in Int : LeftOut(new, k) => LeftOut(rs, k) \/ k \in start .. end - 1
<1> DEFINE value == Open(rs).value + (end - start)
           size  == SequencerRanges
<1>0. /\ RangesOK(rs) /\ Len(rs) \in Nat /\ Len(rs) >= 1 /\ Len(rs) <= size + 1 /\ Open(rs) = rs[Len(rs)]
      /\ Open(rs).start \in Int /\ Open(rs).value \in Int /\ value \in Int /\ start - 1 \in Int
      /\ size \in Nat \ {0}
      /\ \A i \in 1 .. Len(rs) : rs[i].start \in Int /\ rs[i].end \in Int /\ rs[i].value \in Int
  <2>1. RangesOK(rs) /\ Len(rs) <= size + 1
    BY DEF SequencerMapOK
  <2> QED BY <2>1, OpenIs, SequencerRangesType
<1>1. Moved(rs, new, size, start - 1, end, value)
  BY <1>0, ExcludeMoved
<1>2. PICK d \in Nat : Follows(rs, new, d, end, value)
  BY ExcludeFollows
<1> HIDE DEF value, size
<1>3. /\ RangesOK(new) /\ Len(new) <= size + 1 /\ Kept(rs, new, size, start - 1)
      /\ Open(new).start = end /\ Open(new).value = value
  BY <1>1 DEF Moved
<1>4. /\ Len(new) \in Nat /\ Len(new) >= 2 /\ Len(new) - 1 + d <= Len(rs)
      /\ \A i \in 1 .. Len(new) - 1 : i + d \in 1 .. Len(rs) /\ new[i].start = rs[i + d].start /\ new[i].value = rs[i + d].value
  BY <1>0, <1>2 DEF Follows
<1>b. \A i, j \in 1 .. Len(rs) : i < j => rs[i].value < rs[j].value /\ rs[i].start + 2 * (j - i) <= rs[j].start
  BY DEF SequencerMapOK
<1>5. ASSUME NEW i \in 1 .. Len(new), NEW j \in 1 .. Len(new), i < j
      PROVE  new[i].value < new[j].value /\ new[i].start + 2 * (j - i) <= new[j].start
  <2>1. i \in 1 .. Len(new) - 1 /\ i + d \in 1 .. Len(rs) /\ i + d \in Int
    BY <1>0, <1>4, <1>5
  <2>2. CASE j < Len(new)
    <3>1. j \in 1 .. Len(new) - 1 /\ j + d \in 1 .. Len(rs) /\ i + d < j + d
      BY <1>0, <1>4, <1>5, <2>2
    <3>2. rs[i + d].value < rs[j + d].value /\ rs[i + d].start + 2 * ((j + d) - (i + d)) <= rs[j + d].start
      BY <1>b, <2>1, <3>1
    <3>3. (j + d) - (i + d) = j - i
      BY <1>0
    <3> QED BY <1>4, <2>1, <3>1, <3>2, <3>3
  <2>3. CASE j = Len(new)
    <3>1. /\ new[j].start = end /\ new[j].value = value
          /\ \/ Len(new) + d = Len(rs) /\ rs[Len(rs)].start < end
             \/ Len(new) - 1 + d = Len(rs) /\ rs[Len(rs)].start + 2 <= end
      BY <1>2, <2>3 DEF Follows
    <3>2. \/ i + d = Len(rs)
          \/ /\ rs[i + d].value < rs[Len(rs)].value
             /\ rs[i + d].start + 2 * (Len(rs) - (i + d)) <= rs[Len(rs)].start
      <4>1. CASE i + d < Len(rs)
        <5>1. Len(rs) \in 1 .. Len(rs)
          BY <1>0
        <5> QED BY <1>b, <2>1, <4>1, <5>1
      <4>2. CASE ~(i + d < Len(rs))
        BY <1>0, <2>1, <4>2
      <4> QED BY <4>1, <4>2
    <3>3. rs[Len(rs)].value < value
      BY <1>0 DEF value
    <3> DEFINE s == rs[i + d].start
               v == rs[i + d].value
    <3>4. s \in Int /\ v \in Int /\ new[i].start = s /\ new[i].value = v
      BY <1>0, <1>4, <2>1
    <3>5. i + d = Len(rs) => s = rs[Len(rs)].start /\ v = rs[Len(rs)].value
      OBVIOUS
    <3>6. \/ i + d = Len(rs)
          \/ v < rs[Len(rs)].value /\ s + 2 * (Len(rs) - (i + d)) <= rs[Len(rs)].start
      BY <3>2
    <3> DEFINE t == rs[Len(rs)].start
               w == rs[Len(rs)].value
               L == Len(rs)
    <3>a. t \in Int /\ w \in Int /\ w < value /\ L \in Int /\ i + d \in Int /\ i + d <= L
      BY <1>0, <2>1, <3>3
    <3>b. value \in Int
      BY <1>0
    <3>c. (i + d = L => s = t /\ v = w) /\ (i + d = L \/ (v < w /\ s + 2 * (L - (i + d)) <= t))
      BY <3>5, <3>6
    <3>d. \/ Len(new) + d = L /\ t < end
          \/ Len(new) - 1 + d = L /\ t + 2 <= end
      BY <3>1
    <3>e. Len(new) \in Int /\ j = Len(new) /\ i \in Int /\ d \in Int /\ i < j
      BY <1>4, <1>5, <2>3
    <3> HIDE DEF s, v, t, w, L
    <3>7. v < value
      BY <3>4, <3>a, <3>b, <3>c
    <3>8. s + 2 * (j - i) <= end
      BY <3>4, <3>a, <3>c, <3>d, <3>e
    <3> QED BY <3>1, <3>4, <3>7, <3>8
  <2> QED BY <1>4, <2>2, <2>3
<1>6. Len(new) <= size => new[1].start = 0
  <2> SUFFICES ASSUME Len(new) <= size PROVE new[1].start = 0
    OBVIOUS
  <2>1. d = 0 /\ Len(rs) <= size
    BY <1>2 DEF Follows, size
  <2>2. 1 \in 1 .. Len(new) - 1 /\ 1 + 0 = 1
    BY <1>4
  <2>3. new[1].start = rs[1].start
    BY <1>4, <2>1, <2>2
  <2> QED BY <2>1, <2>3 DEF SequencerMapOK, size
<1>7. SequencerMapOK(new)
  BY <1>3, <1>5, <1>6 DEF SequencerMapOK, size
<1>8. \A k \in Int : k < start /\ HasValue(new, k) => HasValue(rs, k) /\ GetValue(new, k) = GetValue(rs, k)
  <2> SUFFICES ASSUME NEW k \in Int, k < start, HasValue(new, k)
               PROVE  HasValue(rs, k) /\ GetValue(new, k) = GetValue(rs, k)
    OBVIOUS
  <2>1. k <= start - 1
    OBVIOUS
  <2> QED BY <1>3, <2>1 DEF Kept
<1>9. ASSUME NEW k \in Int, LeftOut(new, k), ~(k \in start .. end - 1)
      PROVE  LeftOut(rs, k)
  <2>1. k >= new[1].start /\ ~HasValue(new, k)
    BY <1>9 DEF LeftOut
  <2>2. k < end
    BY <1>3, <2>1 DEF HasValue
  <2>3. k <= start - 1
    BY <1>9, <2>2
  <2> DEFINE f == new[1].start
             g == 1 + d
  <2>4. g \in 1 .. Len(rs) /\ f = rs[g].start /\ new[1].value = rs[g].value /\ f \in Int /\ rs[g].value \in Int
    <3>1. 1 \in 1 .. Len(new) - 1
      BY <1>4
    <3> QED BY <1>0, <1>4, <3>1
  <2> HIDE DEF f, g
  <2>5. HasValue(rs, f) /\ GetValue(rs, f) = rs[g].value
    <3>1. CASE g = Len(rs)
      <4>1. f >= Open(rs).start
        BY <1>0, <2>4, <3>1
      <4> QED BY <1>0, <3>1, <4>1 DEF HasValue, GetValue
    <3>2. CASE g # Len(rs)
      <4>1. g \in 1 .. Len(rs) - 1
        BY <1>0, <2>4, <3>2
      <4>2. rs[g].start <= rs[g].end
        BY <1>0, <4>1 DEF RangesOK
      <4>3. rs[g].start <= f /\ f <= rs[g].end
        BY <1>0, <2>4, <4>2
      <4> QED BY <1>0, <2>4, <4>1, <4>3, ClosedValue
    <3> QED BY <3>1, <3>2
  <2>6. f >= rs[1].start
    <3>1. CASE g = 1
      BY <2>4, <3>1
    <3>2. CASE g # 1
      <4>1. 1 \in 1 .. Len(rs) /\ 1 < g
        BY <1>0, <2>4, <3>2
      <4>2. rs[1].start + 2 * (g - 1) <= rs[g].start
        BY <1>b, <2>4, <4>1
      <4>3. rs[1].start \in Int
        BY <1>0, <4>1
      <4>4. g \in Int /\ rs[g].start \in Int /\ f \in Int /\ rs[g].start <= f
        BY <1>0, <2>4
      <4>5. \A x, y, z \in Int : x + 2 * (g - 1) <= y /\ y <= z => z >= x
        BY <4>1, <4>4
      <4> QED BY <4>2, <4>3, <4>4, <4>5, Zenon
    <3> QED BY <3>1, <3>2
  <2>7. ~HasValue(rs, k)
    <3> SUFFICES ASSUME HasValue(rs, k) PROVE FALSE
      OBVIOUS
    <3>1. Num(rs, k) < First(new)
      BY <1>3, <2>1, <2>3 DEF Kept
    <3>2. First(new) = Num(rs, f)
      BY <2>4, <2>5 DEF First, Num, f
    <3>3. Num(rs, k) \in Int /\ Num(rs, f) \in Int
      BY <1>0, <2>4, <2>5, ValueType
    <3>4. k = f \/ f < k
      BY <2>1, <2>4 DEF f
    <3>5. Num(rs, f) <= Num(rs, k)
      BY <1>0, <2>4, <2>5, <3>3, <3>4, NumIncreases
    <3> QED BY <3>1, <3>2, <3>3, <3>5
  <2>8. k >= rs[1].start
    <3>1. rs[1].start \in Int
      BY <1>0
    <3> QED BY <2>1, <2>4, <2>6, <3>1 DEF f
  <2> QED BY <2>7, <2>8 DEF LeftOut
<1>10. ~HasValue(new, end - 1)
  <2>1. end - 1 \in Int /\ start - 1 < end - 1 /\ end - 1 < end
    OBVIOUS
  <2> QED BY <1>1, <2>1 DEF Moved
<1> QED BY <1>3, <1>7, <1>8, <1>9, <1>10 DEF value

-----------------------------------------------------------------------------
(* The sequencer.                                                           *)

Sources == {Padding} \cup (Layers \X Nat \X Int)
Metas   == [source : Sources, target : Int]

SequencerType == [initialized : BOOLEAN, extStartSN : Int, extHighestSN : Int, snOffset : Int,
                  meta : [0 .. Slots - 1 -> Metas], ranges : Ranges]

(* The numbers after the highest one belong to the open range, whose offset   *)
(* the sequencer keeps.                                                       *)
SequencerOK(s) ==
    /\ s \in SequencerType
    /\ SequencerMapOK(s.ranges)
    /\ s.extHighestSN >= 0
    /\ Open(s.ranges).start <= s.extHighestSN + 1
    /\ Open(s.ranges).start = s.extHighestSN + 1 => ~HasValue(s.ranges, s.extHighestSN)
    /\ s.snOffset = Open(s.ranges).value
    /\ ~s.initialized => s = NewSequencer

(* If the number n is among those that own a slot, its slot holds x. *)
Holds(s, n, x) ==
    /\ n >= s.extStartSN /\ HasValue(s.ranges, n)
    /\ HighestAdjusted(s) - Num(s.ranges, n) < Slots
    => /\ n <= s.extHighestSN
       /\ s.meta[Num(s.ranges, n) % Slots] = [source |-> x, target |-> n % SNModulus]

LEMMA SequencerFields ==
    ASSUME NEW s, SequencerOK(s)
    PROVE  /\ s.extStartSN \in Int /\ s.extHighestSN \in Int /\ s.snOffset \in Int /\ s.initialized \in BOOLEAN
           /\ s.meta \in [0 .. Slots - 1 -> Metas] /\ RangesOK(s.ranges) /\ SequencerMapOK(s.ranges)
           /\ Open(s.ranges).start \in Int /\ Open(s.ranges).value = s.snOffset
           /\ HighestAdjusted(s) = s.extHighestSN - s.snOffset /\ HighestAdjusted(s) \in Int
<1>1. /\ s.extStartSN \in Int /\ s.extHighestSN \in Int /\ s.snOffset \in Int /\ s.initialized \in BOOLEAN
      /\ s.meta \in [0 .. Slots - 1 -> Metas]
  BY DEF SequencerOK, SequencerType
<1>2. RangesOK(s.ranges) /\ SequencerMapOK(s.ranges)
  BY DEF SequencerOK, SequencerMapOK
<1>3. Open(s.ranges).start \in Int /\ Open(s.ranges).value = s.snOffset
  BY <1>2, OpenIs DEF SequencerOK
<1> QED BY <1>1, <1>2, <1>3 DEF HighestAdjusted

(* Offsets grow with the numbers. *)
LEMMA ValueGrows ==
    ASSUME NEW rs, SequencerMapOK(rs), NEW k \in Int, HasValue(rs, k)
    PROVE  /\ GetValue(rs, k) \in Int
           /\ k < Open(rs).start => GetValue(rs, k) < Open(rs).value
           /\ k >= Open(rs).start => GetValue(rs, k) = Open(rs).value
<1>0. /\ RangesOK(rs) /\ Len(rs) \in Nat /\ Len(rs) >= 1 /\ Open(rs) = rs[Len(rs)]
      /\ Open(rs).start \in Int /\ Open(rs).value \in Int
  BY OpenIs DEF SequencerMapOK
<1>1. GetValue(rs, k) \in Int
  BY <1>0, ValueType
<1>2. ASSUME k < Open(rs).start PROVE GetValue(rs, k) < Open(rs).value
  <2>1. PICK i \in 1 .. Len(rs) - 1 : GetValue(rs, k) = rs[i].value
    BY <1>0, <1>2, ValueCases
  <2>2. i \in 1 .. Len(rs) /\ Len(rs) \in 1 .. Len(rs) /\ i < Len(rs)
    BY <1>0
  <2> QED BY <1>0, <2>1, <2>2, MapOrdered
<1>3. ASSUME k >= Open(rs).start PROVE GetValue(rs, k) = Open(rs).value
  BY <1>3 DEF GetValue
<1> QED BY <1>1, <1>2, <1>3

(* Positions: not above the highest, and no further from it than the numbers. *)
LEMMA Position ==
    ASSUME NEW s, SequencerOK(s), NEW n \in Int, HasValue(s.ranges, n), n <= s.extHighestSN
    PROVE  /\ Num(s.ranges, n) \in Int /\ Num(s.ranges, n) <= HighestAdjusted(s)
           /\ HighestAdjusted(s) - Num(s.ranges, n) <= s.extHighestSN - n
           /\ n < Open(s.ranges).start => HighestAdjusted(s) - Num(s.ranges, n) < s.extHighestSN - n
<1> DEFINE rs == s.ranges
           v  == GetValue(rs, n)
<1>0. /\ s.extHighestSN \in Int /\ s.snOffset \in Int /\ RangesOK(rs) /\ SequencerMapOK(rs)
      /\ Open(rs).start \in Int /\ Open(rs).value = s.snOffset
      /\ HighestAdjusted(s) = s.extHighestSN - s.snOffset
  BY SequencerFields
<1>1. /\ v \in Int /\ (n < Open(rs).start => v < s.snOffset) /\ (n >= Open(rs).start => v = s.snOffset)
  BY <1>0, ValueGrows
<1>2. Num(rs, n) = n - v
  BY DEF Num
<1>3. n < Open(rs).start => Num(rs, n) < Open(rs).start - s.snOffset
  BY <1>0, NumBelowOpen
<1>4. Open(rs).start <= s.extHighestSN + 1
  BY DEF SequencerOK
<1> HIDE DEF v, rs
<1>5. CASE n < Open(rs).start
  BY <1>0, <1>1, <1>2, <1>3, <1>4, <1>5 DEF rs
<1>6. CASE n >= Open(rs).start
  BY <1>0, <1>1, <1>2, <1>6 DEF rs
<1> QED BY <1>0, <1>5, <1>6

(* Different numbers have different positions. *)
LEMMA PositionsDiffer ==
    ASSUME NEW s, SequencerOK(s), NEW n \in Int, NEW k \in Int, n # k,
           HasValue(s.ranges, n), HasValue(s.ranges, k)
    PROVE  Num(s.ranges, n) # Num(s.ranges, k)
<1>1. RangesOK(s.ranges)
  BY SequencerFields
<1>2. Num(s.ranges, n) \in Int /\ Num(s.ranges, k) \in Int
  BY <1>1, ValueType
<1>3. n < k \/ k < n
  OBVIOUS
<1>4. n < k => Num(s.ranges, n) < Num(s.ranges, k)
  BY <1>1, NumIncreases
<1>5. k < n => Num(s.ranges, k) < Num(s.ranges, n)
  BY <1>1, NumIncreases
<1> QED BY <1>2, <1>3, <1>4, <1>5

(* A number from the highest on that is not left out has the current offset. *)
LEMMA AtTheTop ==
    ASSUME NEW s, SequencerOK(s), NEW n \in Int, n >= s.extHighestSN, ~LeftOut(s.ranges, n)
    PROVE  /\ n >= Open(s.ranges).start /\ HasValue(s.ranges, n)
           /\ Num(s.ranges, n) = n - s.snOffset
<1> DEFINE rs == s.ranges
           h  == s.extHighestSN
<1>0. /\ h \in Int /\ h >= 0 /\ RangesOK(rs) /\ SequencerMapOK(rs) /\ Open(rs).start \in Int
      /\ Open(rs).value = s.snOffset /\ Open(rs).start <= h + 1
      /\ Open(rs).start = h + 1 => ~HasValue(rs, h)
  BY SequencerFields DEF SequencerOK
<1>1. /\ Len(rs) \in Nat /\ Len(rs) >= 1 /\ Open(rs) = rs[Len(rs)] /\ rs[1].start \in Int
  BY <1>0, OpenIs
<1>2. n >= Open(rs).start
  <2> SUFFICES ASSUME ~(n >= Open(rs).start) PROVE FALSE
    OBVIOUS
  <2>1. n = h /\ Open(rs).start = h + 1 /\ ~HasValue(rs, n)
    BY <1>0
  <2>2. ~(n >= rs[1].start)
    BY <2>1 DEF LeftOut
  <2>3. Len(rs) = 1
    <3> SUFFICES ASSUME Len(rs) # 1 PROVE FALSE
      OBVIOUS
    <3> DEFINE L == Len(rs)
    <3>0. L \in Int /\ L >= 1 /\ L # 1
      BY <1>1
    <3> HIDE DEF L
    <3>1. 1 \in 1 .. L /\ L \in 1 .. L /\ 1 < L
      BY <3>0
    <3>2. rs[1].start + 2 * (L - 1) <= Open(rs).start
      BY <1>0, <1>1, <3>1, MapOrdered DEF L
    <3> HIDE DEF rs, h
    <3> QED BY <1>0, <1>1, <2>1, <2>2, <3>1, <3>2
  <2>4. rs[1].start = 0
    BY <1>0, <2>3, SequencerRangesType DEF SequencerMapOK
  <2> QED BY <1>0, <1>1, <2>1, <2>3, <2>4
<1>3. GetValue(rs, n) = s.snOffset
  BY <1>0, <1>2 DEF GetValue
<1> QED BY <1>2, <1>3 DEF HasValue, Num

LEMMA NewSequencerOK == SequencerOK(NewSequencer)
<1> DEFINE s == NewSequencer
           rs == ClearAndResetValue(0, 0)
<1>0. /\ s.initialized = FALSE /\ s.extStartSN = 0 /\ s.extHighestSN = 0 /\ s.snOffset = 0
      /\ s.ranges = rs /\ s.meta = [i \in 0 .. Slots - 1 |-> NoMeta]
  BY DEF NewSequencer
<1>1. RangesOK(rs) /\ Len(rs) = 1 /\ Open(rs).start = 0 /\ Open(rs).value = 0
  BY ClearOK
<1>2. NoMeta \in Metas
  BY DEF NoMeta, Metas, Sources, Padding
<1>3. s \in SequencerType
  <2>1. rs \in Ranges
    BY <1>1 DEF RangesOK
  <2> HIDE DEF rs
  <2> QED BY <1>2, <2>1 DEF SequencerType, NewSequencer, rs
<1>4. rs[1].start = 0
  BY <1>1, OpenIs
<1> HIDE DEF rs
<1>5. SequencerMapOK(rs)
  BY <1>1, <1>4, SequencerRangesType DEF SequencerMapOK
<1> QED BY <1>0, <1>1, <1>3, <1>5 DEF SequencerOK

(* The first number the sequencer sees. *)
LEMMA InitializedOK ==
    ASSUME NEW s0, SequencerOK(s0), NEW sn \in Int, sn >= 0
    PROVE  LET s == Initialized(s0, sn) IN
           /\ SequencerOK(s) /\ s.initialized = TRUE /\ s.ranges = s0.ranges
           /\ s0.initialized => s = s0
<1> DEFINE s == Initialized(s0, sn)
<1>0. s0.initialized \in BOOLEAN /\ s0 \in SequencerType
  BY SequencerFields DEF SequencerOK
<1>1. CASE s0.initialized
  BY <1>0, <1>1 DEF Initialized
<1>2. CASE ~s0.initialized
  <2> DEFINE t == [s0 EXCEPT !.initialized = TRUE, !.extStartSN = sn, !.extHighestSN = sn]
  <2>1. s0 = NewSequencer
    BY <1>2 DEF SequencerOK
  <2>2. /\ t \in SequencerType /\ t.initialized = TRUE /\ t.extStartSN = sn /\ t.extHighestSN = sn
        /\ t.snOffset = s0.snOffset /\ t.ranges = s0.ranges
    BY <1>0 DEF SequencerType
  <2>3. s0.snOffset = 0 /\ s0.ranges = ClearAndResetValue(0, 0)
    BY <2>1 DEF NewSequencer
  <2>4. RangesOK(s0.ranges) /\ Open(s0.ranges).start = 0 /\ Open(s0.ranges).value = 0
    BY <2>3, ClearOK
  <2>5. GetValue(t.ranges, t.extHighestSN + 1) = 0
    BY <2>2, <2>4 DEF GetValue
  <2>6. s = UpdateSNOffset(t)
    BY <1>2 DEF Initialized
  <2> HIDE DEF t
  <2>7. s = t
    <3>1. [t EXCEPT !.snOffset = 0] = t
      BY <2>2, <2>3 DEF SequencerType
    <3> QED BY <2>5, <2>6, <3>1 DEF UpdateSNOffset
  <2>8. SequencerMapOK(t.ranges)
    BY <2>2 DEF SequencerOK
  <2>9. SequencerOK(t)
    BY <2>2, <2>3, <2>4, <2>8 DEF SequencerOK
  <2> QED BY <1>2, <2>2, <2>7, <2>9
<1> QED BY <1>1, <1>2

(* The outcomes of push and pushPadding. *)
RecordedIn(s, sn, source) ==
    [s EXCEPT !.meta = [i \in 0 .. Slots - 1 |->
                          IF i = Adjusted(s, sn) % Slots THEN [source |-> source, target |-> sn % SNModulus]
                          ELSE IF i \in {a % Slots : a \in HighestAdjusted(s) + 1 .. Adjusted(s, sn) - 1}
                               THEN NoMeta ELSE s.meta[i]],
              !.extHighestSN = IF sn > s.extHighestSN THEN sn ELSE s.extHighestSN]

ClearedIn(s, first, last) ==
    [s EXCEPT !.meta = [i \in 0 .. Slots - 1 |->
                          IF i \in LateSlots(s, first, last) THEN NoMeta ELSE s.meta[i]]]

LeftOutOf(s, first, last) ==
    UpdateSNOffset([s EXCEPT !.ranges = ExcludeRange(s.ranges, SequencerRanges, first, last + 1),
                             !.extHighestSN = last])

(* The slot of the number n is not cleared by late padding. *)
Spared(s, first, last, n) ==
    n \notin first .. last /\ (s.extHighestSN - Slots \in first .. last => n # s.extHighestSN)

(* A packet is recorded under a number that is not left out: it has its slot  *)
(* and the other recent ones keep theirs.                                     *)
LEMMA RecordedOK ==
    ASSUME NEW s, SequencerOK(s), s.initialized, NEW sn \in Int, ~LeftOut(s.ranges, sn),
           NEW source \in Sources, NEW r,
           CanRecord(s, sn),
           r = RecordedIn(s, sn, source)
    PROVE  /\ SequencerOK(r) /\ r.initialized = TRUE /\ r.ranges = s.ranges
           /\ Holds(r, sn, source)
           /\ \A n \in Int : \A x : n # sn /\ Holds(s, n, x) => Holds(r, n, x)
<1> DEFINE rs == s.ranges
           h  == s.extHighestSN
           ha == HighestAdjusted(s)
           at == Adjusted(s, sn)
           top == IF sn > h THEN sn ELSE h
           new == [source |-> source, target |-> sn % SNModulus]
           skipped == {a % Slots : a \in ha + 1 .. at - 1}
           meta == [i \in 0 .. Slots - 1 |-> IF i = at % Slots THEN new
                                             ELSE IF i \in skipped THEN NoMeta ELSE s.meta[i]]
<1>0. /\ s.extStartSN \in Int /\ h \in Int /\ s.snOffset \in Int /\ s.initialized = TRUE
      /\ s.meta \in [0 .. Slots - 1 -> Metas] /\ RangesOK(rs) /\ SequencerMapOK(rs)
      /\ Open(rs).start \in Int /\ Open(rs).value = s.snOffset
      /\ ha = h - s.snOffset /\ ha \in Int
  BY SequencerFields
<1>1. r = [s EXCEPT !.meta = meta, !.extHighestSN = top]
  BY DEF RecordedIn
<1>2. Slots \in Nat \ {0} /\ SNModulus \in Nat \ {0}
  BY SequencerAssumption
<1>3. new \in Metas /\ NoMeta \in Metas
  <2>1. sn % SNModulus \in Int
    BY <1>2, Remainder
  <2> QED BY <2>1 DEF Metas, NoMeta, Sources, Padding
<1> HIDE DEF new, skipped, at, ha
<1>4. meta \in [0 .. Slots - 1 -> Metas]
  BY <1>0, <1>3
<1>5. top \in Int /\ top >= h /\ top >= sn /\ (top = sn \/ top = h)
  BY <1>0
<1> HIDE DEF meta, top
<1>6. /\ r \in SequencerType /\ r.initialized = TRUE /\ r.extStartSN = s.extStartSN /\ r.extHighestSN = top
      /\ r.snOffset = s.snOffset /\ r.ranges = rs /\ r.meta = meta
  <2>1. s \in SequencerType
    BY DEF SequencerOK
  <2> QED BY <1>0, <1>1, <1>4, <1>5, <2>1 DEF SequencerType
<1>7. SequencerOK(r)
  <2>1. h >= 0 /\ Open(rs).start <= h + 1 /\ (Open(rs).start = h + 1 => ~HasValue(rs, h))
    BY DEF SequencerOK
  <2>2. top >= 0 /\ Open(rs).start <= top + 1
    BY <1>0, <1>5, <2>1
  <2>3. Open(rs).start = top + 1 => ~HasValue(rs, top)
    <3>1. CASE top = h
      BY <2>1, <3>1
    <3>2. CASE top # h
      BY <1>0, <1>5, <2>1, <3>2
    <3> QED BY <3>1, <3>2
  <2> QED BY <1>0, <1>6, <2>2, <2>3 DEF SequencerOK
<1>8. HighestAdjusted(r) = top - s.snOffset /\ HighestAdjusted(r) \in Int /\ HighestAdjusted(r) >= ha
  BY <1>0, <1>5, <1>6 DEF HighestAdjusted
<1>9. HasValue(rs, sn) /\ at = Num(rs, sn) /\ at \in Int /\ at > ha - Slots
  <2>1. sn < h => HasValue(rs, sn) /\ at = Num(rs, sn)
    BY DEF CanRecord, at, Adjusted, Num
  <2>2. sn >= h => HasValue(rs, sn) /\ Num(rs, sn) = sn - s.snOffset
    BY AtTheTop
  <2>3. sn >= h => at = sn - s.snOffset
    BY <1>0 DEF at, Adjusted
  <2>4. HasValue(rs, sn) /\ at = Num(rs, sn)
    BY <1>0, <2>1, <2>2, <2>3
  <2>5. Num(rs, sn) \in Int
    BY <1>0, <2>4, ValueType
  <2>6. at - ha > -Slots
    BY DEF CanRecord, at, ha
  <2>7. at \in Int
    BY <2>4, <2>5
  <2> QED BY <1>0, <1>2, <2>4, <2>6, <2>7
<1>10. /\ sn > h => at = HighestAdjusted(r)
       /\ sn <= h => at <= ha /\ HighestAdjusted(r) = ha
  <2>1. ASSUME sn > h PROVE at = HighestAdjusted(r)
    <3>1. Num(rs, sn) = sn - s.snOffset
      <4>1. sn >= h
        BY <1>0, <2>1
      <4> QED BY <4>1, AtTheTop
    <3>2. top = sn
      BY <2>1 DEF top
    <3> QED BY <1>8, <1>9, <3>1, <3>2
  <2>2. ASSUME sn <= h PROVE at <= ha /\ HighestAdjusted(r) = ha
    <3>1. at <= ha
      BY <1>9, <2>2, Position DEF ha
    <3>2. top = h
      BY <1>0, <2>2 DEF top
    <3> QED BY <1>0, <1>8, <3>1, <3>2
  <2> QED BY <2>1, <2>2
<1>11. Holds(r, sn, source)
  <2>1. at % Slots \in 0 .. Slots - 1
    BY <1>2, <1>9, Remainder
  <2>2. meta[at % Slots] = new
    BY <2>1 DEF meta
  <2> QED BY <1>5, <1>6, <1>9, <2>2 DEF Holds, new
<1>12. ASSUME NEW n \in Int, NEW x, n # sn, Holds(s, n, x)
       PROVE  Holds(r, n, x)
  <2> SUFFICES ASSUME n >= s.extStartSN, HasValue(rs, n), HighestAdjusted(r) - Num(rs, n) < Slots
               PROVE  n <= top /\ meta[Num(rs, n) % Slots] = [source |-> x, target |-> n % SNModulus]
    BY <1>6 DEF Holds
  <2> DEFINE p == Num(rs, n)
             ra == HighestAdjusted(r)
  <2>1. p \in Int
    BY <1>0, ValueType
  <2> HIDE DEF p, ra
  <2>2. ra \in Int /\ ra >= ha /\ ra - p < Slots
    BY <1>8 DEF p, ra
  <2>3. ha - p < Slots
    BY <1>0, <1>2, <2>1, <2>2
  <2>4. n <= h /\ s.meta[p % Slots] = [source |-> x, target |-> n % SNModulus]
    BY <2>3, <1>12 DEF Holds, p, ha
  <2>5. p <= ha
    BY <2>4, Position DEF p, ha
  <2>6. p # at
    BY <1>9, <1>12, PositionsDiffer DEF p
  <2>7. at - p < Slots /\ p - at < Slots
    <3>1. CASE sn > h
      <4>1. at = ra
        BY <1>10, <3>1 DEF ra
      <4> QED BY <1>0, <1>2, <1>9, <2>1, <2>2, <2>5, <4>1
    <3>2. CASE ~(sn > h)
      <4>1. sn <= h
        BY <1>0, <3>2
      <4>2. at <= ha
        BY <1>10, <4>1
      <4>3. at > ha - Slots /\ at \in Int /\ ha \in Int /\ Slots \in Int
        BY <1>0, <1>2, <1>9
      <4> HIDE DEF at, ha
      <4> QED BY <2>1, <2>3, <2>5, <4>2, <4>3
    <3> QED BY <3>1, <3>2
  <2>8. p % Slots # at % Slots
    BY <1>2, <1>9, <2>1, <2>6, <2>7, OwnSlot
  <2>9. p % Slots \notin skipped
    <3> SUFFICES ASSUME NEW a \in ha + 1 .. at - 1 PROVE p % Slots # a % Slots
      BY DEF skipped
    <3>1. a \in Int /\ a >= ha + 1 /\ a <= at - 1
      BY <1>0, <1>9
    <3>a. ha \in Int /\ at \in Int /\ Slots \in Int /\ Slots > 0
      BY <1>0, <1>2, <1>9
    <3>2. a # p /\ a - p < Slots /\ p - a < Slots
      BY <2>1, <2>5, <2>7, <3>1, <3>a
    <3> QED BY <1>2, <2>1, <3>1, <3>2, OwnSlot
  <2>10. p % Slots \in 0 .. Slots - 1
    BY <1>2, <2>1, Remainder
  <2>11. meta[p % Slots] = s.meta[p % Slots]
    <3> DEFINE i == p % Slots
    <3>1. i \in 0 .. Slots - 1 /\ i # at % Slots /\ i \notin skipped
      BY <2>8, <2>9, <2>10
    <3> HIDE DEF i
    <3>2. meta[i] = s.meta[i]
      BY <3>1 DEF meta
    <3> QED BY <3>2 DEF i
  <2>12. n <= top
    BY <1>0, <1>5, <2>4
  <2> QED BY <2>4, <2>11, <2>12 DEF p
<1> QED BY <1>6, <1>7, <1>11, <1>12

LEMMA PushOK ==
    ASSUME NEW s0, SequencerOK(s0), NEW sn \in Int, sn >= 0, ~LeftOut(s0.ranges, sn), NEW source \in Sources
    PROVE  LET r == SequencerPush(s0, sn, source) IN
           /\ SequencerOK(r) /\ r.initialized = TRUE /\ r.ranges = s0.ranges
           /\ Holds(r, sn, source)
           /\ s0.initialized => \A n \in Int : \A x : n # sn /\ Holds(s0, n, x) => Holds(r, n, x)
<1> DEFINE s == Initialized(s0, sn)
           r == SequencerPush(s0, sn, source)
<1>1. /\ SequencerOK(s) /\ s.initialized = TRUE /\ s.ranges = s0.ranges
      /\ s0.initialized => s = s0
  BY InitializedOK
<1>2. r = IF ~CanRecord(s, sn) THEN s
          ELSE RecordedIn(s, sn, source)
  BY DEF SequencerPush, RecordedIn
<1> HIDE DEF s, r
<1>3. /\ SequencerOK(r) /\ r.initialized = TRUE /\ r.ranges = s.ranges
      /\ Holds(r, sn, source)
      /\ \A n \in Int : \A x : n # sn /\ Holds(s, n, x) => Holds(r, n, x)
  <2>1. CASE CanRecord(s, sn)
    <3>1. r = RecordedIn(s, sn, source)
      BY <1>2, <2>1, Zenon
    <3>2. SequencerOK(s) /\ s.initialized /\ ~LeftOut(s.ranges, sn)
      BY <1>1
    <3> QED BY <2>1, <3>1, <3>2, RecordedOK, Zenon
  <2>2. CASE ~CanRecord(s, sn)
    <3>1. r = s
      BY <1>2, <2>2
    <3>2. Holds(s, sn, source)
      <4> SUFFICES ASSUME sn >= s.extStartSN, HasValue(s.ranges, sn), HighestAdjusted(s) - Num(s.ranges, sn) < Slots
                   PROVE  FALSE
        BY DEF Holds
      <4>0. /\ s.extHighestSN \in Int /\ s.snOffset \in Int /\ RangesOK(s.ranges)
            /\ HighestAdjusted(s) = s.extHighestSN - s.snOffset
            /\ Slots \in Nat \ {0}
        BY <1>1, SequencerFields, SequencerAssumption
      <4>1. ~(Adjusted(s, sn) - HighestAdjusted(s) > -Slots)
        BY <2>2 DEF CanRecord
      <4>2. Num(s.ranges, sn) \in Int
        BY <4>0, ValueType
      <4>3. sn < s.extHighestSN => Adjusted(s, sn) = Num(s.ranges, sn)
        BY DEF Adjusted, Num
      <4>4. ~(sn < s.extHighestSN) => Adjusted(s, sn) = sn - s.snOffset
        BY DEF Adjusted
      <4> QED BY <4>0, <4>1, <4>2, <4>3, <4>4
    <3> QED BY <1>1, <3>1, <3>2
  <2> QED BY <2>1, <2>2
<1> QED BY <1>1, <1>3 DEF r

(* Padding pushed late clears its own slots, and that of the highest number   *)
(* if it is a full turn behind.                                               *)
LEMMA LatePaddingOK ==
    ASSUME NEW s, SequencerOK(s), s.initialized, NEW first \in Int, NEW last \in Int
    PROVE  LET r == ClearedIn(s, first, last) IN
           /\ SequencerOK(r) /\ r.initialized = TRUE /\ r.ranges = s.ranges
           /\ \A n \in Int : \A x : Spared(s, first, last, n) /\ Holds(s, n, x) => Holds(r, n, x)
<1> DEFINE rs == s.ranges
           h  == s.extHighestSN
           ha == HighestAdjusted(s)
           late == LateSlots(s, first, last)
           meta == [i \in 0 .. Slots - 1 |-> IF i \in late THEN NoMeta ELSE s.meta[i]]
<1>0. /\ s.extStartSN \in Int /\ h \in Int /\ s.snOffset \in Int /\ s.initialized = TRUE
      /\ s.meta \in [0 .. Slots - 1 -> Metas] /\ RangesOK(rs) /\ SequencerMapOK(rs)
      /\ Open(rs).start \in Int /\ Open(rs).value = s.snOffset
      /\ ha = h - s.snOffset /\ ha \in Int
  BY SequencerFields
<1>1. Slots \in Nat \ {0} /\ NoMeta \in Metas
  BY SequencerAssumption DEF NoMeta, Metas, Sources, Padding
<1> DEFINE r == ClearedIn(s, first, last)
<1>2. r = [s EXCEPT !.meta = meta]
  BY DEF ClearedIn
<1> HIDE DEF r
<1> HIDE DEF late
<1>3. meta \in [0 .. Slots - 1 -> Metas]
  BY <1>0, <1>1
<1> HIDE DEF meta
<1>4. /\ r \in SequencerType /\ r.initialized = TRUE /\ r.extStartSN = s.extStartSN /\ r.extHighestSN = h
      /\ r.snOffset = s.snOffset /\ r.ranges = rs /\ r.meta = meta
  <2>1. s \in SequencerType
    BY DEF SequencerOK
  <2> QED BY <1>0, <1>2, <1>3, <2>1 DEF SequencerType
<1>5. SequencerOK(r)
  BY <1>4 DEF SequencerOK
<1>6. HighestAdjusted(r) = ha
  BY <1>4 DEF HighestAdjusted, ha
<1>7. ASSUME NEW n \in Int, NEW x, n \notin first .. last, h - Slots \in first .. last => n # h, Holds(s, n, x)
      PROVE  Holds(r, n, x)
  <2> SUFFICES ASSUME n >= s.extStartSN, HasValue(rs, n), ha - Num(rs, n) < Slots
               PROVE  n <= h /\ meta[Num(rs, n) % Slots] = [source |-> x, target |-> n % SNModulus]
    BY <1>4, <1>6 DEF Holds
  <2> DEFINE p == Num(rs, n)
  <2>1. n <= h /\ s.meta[p % Slots] = [source |-> x, target |-> n % SNModulus]
    BY <1>7 DEF Holds, ha
  <2>2. p \in Int /\ p <= ha /\ ha - p < Slots
    BY <2>1, Position
  <2> HIDE DEF p, ha
  <2>3. p % Slots \notin late
    <3> SUFFICES ASSUME NEW k \in first .. last, k < h, k - h >= -Slots, HasValue(rs, k)
                 PROVE  p % Slots # (k - GetValue(rs, k)) % Slots
      BY DEF late, LateSlots
    <3> DEFINE q == Num(rs, k)
    <3>0. k \in Int /\ k <= h /\ k # n
      BY <1>0, <1>7
    <3>1. q \in Int /\ q <= ha /\ ha - q <= h - k /\ (k < Open(rs).start => ha - q < h - k)
      BY <3>0, Position DEF ha
    <3>2. q # p
      BY <3>0, PositionsDiffer DEF p
    <3> HIDE DEF q
    <3>a. h \in Int /\ ha \in Int /\ Slots \in Int /\ Slots > 0
      BY <1>0, <1>1 DEF ha
    <3>3. p - q < Slots
      <4>1. CASE ha - q < Slots
        BY <2>2, <3>1, <3>a, <4>1
      <4>2. CASE ~(ha - q < Slots)
        <5>0. Open(rs).start \in Int /\ k - h >= -Slots
          BY <1>0
        <5>a. ~(k < Open(rs).start)
          <6> SUFFICES ASSUME k < Open(rs).start PROVE FALSE
            OBVIOUS
          <6>1. ha - q < h - k /\ h - k <= Slots
            BY <3>0, <3>1, <3>a, <5>0
          <6> QED BY <3>0, <3>1, <3>a, <4>2, <6>1
        <5>b. h - k <= Slots /\ h - k >= Slots
          BY <3>0, <3>1, <3>a, <4>2, <5>0
        <5>1. k = h - Slots /\ k >= Open(rs).start
          BY <3>0, <3>a, <5>0, <5>a, <5>b
        <5>2. n # h
          BY <1>7, <5>1
        <5>3. h >= Open(rs).start /\ h \in Int
          BY <1>0, <3>0, <5>1
        <5>4. HasValue(rs, h) /\ Num(rs, h) = ha
          <6>1. HasValue(rs, h) /\ GetValue(rs, h) = s.snOffset
            BY <1>0, <5>3 DEF HasValue, GetValue
          <6> QED BY <1>0, <6>1 DEF Num, ha
        <5>5. p < ha
          <6>1. n < h
            BY <1>0, <2>1, <5>2
          <6> QED BY <1>0, <5>3, <5>4, <6>1, NumIncreases DEF p
        <5>6. ha - q <= Slots
          BY <3>0, <3>1, <3>a, <5>1
        <5> QED BY <2>2, <3>1, <3>a, <5>5, <5>6
      <4> QED BY <4>1, <4>2
    <3>4. q - p < Slots
      BY <2>2, <3>1, <3>a
    <3>5. p % Slots # q % Slots
      BY <1>1, <2>2, <3>1, <3>2, <3>3, <3>4, OwnSlot
    <3> QED BY <3>5 DEF q, Num
  <2>4. p % Slots \in 0 .. Slots - 1
    BY <1>1, <2>2, Remainder
  <2>5. meta[p % Slots] = s.meta[p % Slots]
    <3> DEFINE i == p % Slots
    <3>1. i \in 0 .. Slots - 1 /\ i \notin late
      BY <2>3, <2>4
    <3> HIDE DEF i
    <3>2. meta[i] = s.meta[i]
      BY <3>1 DEF meta
    <3> QED BY <3>2 DEF i
  <2> QED BY <2>1, <2>5 DEF p
<1> QED BY <1>4, <1>5, <1>7 DEF Spared, r

(* Padding pushed in order is left out. *)
LEMMA NextPaddingOK ==
    ASSUME NEW s, SequencerOK(s), s.initialized, NEW first \in Int, NEW last \in Int, first <= last,
           first > s.extHighestSN, NEW r,
           r = LeftOutOf(s, first, last)
    PROVE  /\ SequencerOK(r) /\ r.initialized = TRUE
           /\ \A k \in Int : LeftOut(r.ranges, k) => LeftOut(s.ranges, k) \/ k \in first .. last
           /\ \A n \in Int : \A x : n \notin first .. last /\ Holds(s, n, x) => Holds(r, n, x)
<1> DEFINE rs  == s.ranges
           h   == s.extHighestSN
           ha  == HighestAdjusted(s)
           end == last + 1
           new == ExcludeRange(rs, SequencerRanges, first, end)
           t   == [s EXCEPT !.ranges = new, !.extHighestSN = last]
           v   == s.snOffset + (end - first)
<1>0. /\ s.extStartSN \in Int /\ h \in Int /\ h >= 0 /\ s.snOffset \in Int /\ s.initialized = TRUE
      /\ RangesOK(rs) /\ SequencerMapOK(rs) /\ Open(rs).start <= h + 1
      /\ Open(rs).start \in Int /\ Open(rs).value = s.snOffset
      /\ ha = h - s.snOffset /\ ha \in Int
  BY SequencerFields DEF SequencerOK
<1>1. end \in Int /\ first < end /\ first >= 1 /\ Open(rs).start <= first
  BY <1>0
<1> HIDE DEF ha
<1>2. /\ SequencerMapOK(new) /\ Open(new).start = end /\ Open(new).value = Open(rs).value + (end - first)
      /\ \A k \in Int : k < first /\ HasValue(new, k) => HasValue(rs, k) /\ GetValue(new, k) = GetValue(rs, k)
      /\ ~HasValue(new, end - 1)
      /\ \A k \in Int : LeftOut(new, k) => LeftOut(rs, k) \/ k \in first .. end - 1
  <2> HIDE DEF end
  <2> QED BY <1>0, <1>1, ExcludeMap
<1>3. new \in Ranges /\ v \in Int /\ Open(new).value = v
  BY <1>0, <1>1, <1>2 DEF SequencerMapOK, RangesOK
<1> HIDE DEF new
<1>4. /\ t \in SequencerType /\ t.initialized = TRUE /\ t.extStartSN = s.extStartSN /\ t.extHighestSN = last
      /\ t.snOffset = s.snOffset /\ t.ranges = new /\ t.meta = s.meta
  <2>1. s \in SequencerType
    BY DEF SequencerOK
  <2> QED BY <1>0, <1>3, <2>1 DEF SequencerType
<1>5. r = UpdateSNOffset(t)
  BY DEF new, LeftOutOf
<1> HIDE DEF t
<1>6. HasValue(t.ranges, t.extHighestSN + 1) /\ GetValue(t.ranges, t.extHighestSN + 1) = v
  BY <1>1, <1>2, <1>3, <1>4 DEF HasValue, GetValue
<1>7. r = [t EXCEPT !.snOffset = v]
  BY <1>5, <1>6 DEF UpdateSNOffset
<1> HIDE DEF v
<1>8. /\ r \in SequencerType /\ r.initialized = TRUE /\ r.extStartSN = s.extStartSN /\ r.extHighestSN = last
      /\ r.snOffset = v /\ r.ranges = new /\ r.meta = s.meta
  BY <1>3, <1>4, <1>7 DEF SequencerType
<1>9. SequencerOK(r)
  <2>1. last >= 0 /\ end <= last + 1 /\ end - 1 = last
    BY <1>0, <1>1
  <2> QED BY <1>2, <1>3, <1>8, <2>1 DEF SequencerOK
<1>10. HighestAdjusted(r) = last - v /\ last - v \in Int /\ last - v >= ha
  BY <1>0, <1>1, <1>3, <1>8 DEF HighestAdjusted, v
<1>11. ASSUME NEW n \in Int, NEW x, n \notin first .. last, Holds(s, n, x)
       PROVE  Holds(r, n, x)
  <2> SUFFICES ASSUME n >= s.extStartSN, HasValue(new, n), HighestAdjusted(r) - Num(new, n) < Slots
               PROVE  n <= last /\ s.meta[Num(new, n) % Slots] = [source |-> x, target |-> n % SNModulus]
    BY <1>8 DEF Holds
  <2>1. n < first
    <3> SUFFICES ASSUME ~(n < first) PROVE FALSE
      OBVIOUS
    <3>1. n > last /\ n >= Open(rs).start /\ n > h
      BY <1>0, <1>1, <1>11
    <3>2. HasValue(rs, n) /\ Num(rs, n) = n - s.snOffset
      BY <1>0, <3>1 DEF HasValue, Num, GetValue
    <3>3. ha - Num(rs, n) < Slots
      <4>1. Slots \in Nat \ {0}
        BY SequencerAssumption
      <4>2. ha = h - s.snOffset
        BY <1>0
      <4>3. ha - Num(rs, n) = h - n
        BY <1>0, <3>2, <4>2
      <4> QED BY <1>0, <3>1, <4>1, <4>3
    <3>4. n <= h
      BY <1>11, <3>2, <3>3 DEF Holds, ha
    <3> QED BY <1>0, <3>1, <3>4
  <2>2. HasValue(rs, n) /\ GetValue(new, n) = GetValue(rs, n)
    BY <1>2, <2>1
  <2>3. Num(new, n) = Num(rs, n)
    BY <2>2 DEF Num
  <2>4. Num(rs, n) \in Int
    BY <1>0, <2>2, ValueType
  <2>5. ha - Num(rs, n) < Slots
    <3>1. Slots \in Nat
      BY SequencerAssumption
    <3> QED BY <1>0, <1>10, <2>3, <2>4, <3>1
  <2>6. n <= h /\ s.meta[Num(rs, n) % Slots] = [source |-> x, target |-> n % SNModulus]
    BY <1>11, <2>2, <2>5 DEF Holds, ha
  <2>7. n <= last
    BY <2>1
  <2> QED BY <2>3, <2>6, <2>7
<1>12. \A k \in Int : LeftOut(r.ranges, k) => LeftOut(rs, k) \/ k \in first .. last
  BY <1>1, <1>2, <1>8
<1> QED BY <1>8, <1>9, <1>11, <1>12

LEMMA PushPaddingOK ==
    ASSUME NEW s, SequencerOK(s), NEW first \in Int, NEW last \in Int, first <= last
    PROVE  LET r == SequencerPushPadding(s, first, last) IN
           /\ SequencerOK(r) /\ r.initialized = s.initialized
           /\ \A k \in Int : LeftOut(r.ranges, k) => LeftOut(s.ranges, k) \/ k \in first .. last
           /\ \A n \in Int : \A x : Spared(s, first, last, n) /\ Holds(s, n, x) => Holds(r, n, x)
<1> DEFINE r == SequencerPushPadding(s, first, last)
<1>0. /\ s.initialized \in BOOLEAN /\ s.extHighestSN \in Int /\ Open(s.ranges).start \in Int
      /\ Open(s.ranges).start <= s.extHighestSN + 1
  BY SequencerFields DEF SequencerOK
<1>1. CASE ~s.initialized
  BY <1>1 DEF SequencerPushPadding
<1>2. CASE s.initialized /\ first <= s.extHighestSN
  <2>1. r = ClearedIn(s, first, last)
    BY <1>2 DEF SequencerPushPadding, ClearedIn
  <2> HIDE DEF r
  <2>2. s.initialized = TRUE
    BY <1>0, <1>2
  <2>3. /\ SequencerOK(r) /\ r.initialized = TRUE /\ r.ranges = s.ranges
        /\ \A n \in Int : \A x : Spared(s, first, last, n) /\ Holds(s, n, x) => Holds(r, n, x)
    <3>1. s.initialized
      BY <1>2
    <3> QED BY <2>1, <3>1, LatePaddingOK
  <2> QED BY <2>2, <2>3 DEF r
<1>3. CASE s.initialized /\ ~(first <= s.extHighestSN)
  <2>0. CanExclude(s.ranges, first)
    BY <1>0, <1>3 DEF CanExclude
  <2>1. r = LeftOutOf(s, first, last)
    BY <1>3, <2>0 DEF SequencerPushPadding, LeftOutOf
  <2>2. s.initialized = TRUE /\ first > s.extHighestSN
    BY <1>0, <1>3
  <2> HIDE DEF r
  <2>3. /\ SequencerOK(r) /\ r.initialized = TRUE
        /\ \A k \in Int : LeftOut(r.ranges, k) => LeftOut(s.ranges, k) \/ k \in first .. last
        /\ \A n \in Int : \A x : n \notin first .. last /\ Holds(s, n, x) => Holds(r, n, x)
    <3>1. s.initialized
      BY <1>3
    <3> QED BY <2>1, <2>2, <3>1, NextPaddingOK, Zenon
  <2> QED BY <2>2, <2>3 DEF r, Spared
<1> QED BY <1>1, <1>2, <1>3

-----------------------------------------------------------------------------
(* What is recorded.                                                        *)

(* The numbers of a stream that has begun are positive. *)
Begun(m) == m.lastSN >= 1 /\ First(m.ranges) >= 1
BegunOK  == fwd.started => Begun(munger)

(* Packets that were sent are of the generations so far, and none of the      *)
(* current one was sent before the restart is over.                           *)
SentOK ==
    /\ gen \in Nat
    /\ \A n \in DOMAIN out :
         /\ n >= 1 /\ out[n] \in Sources
         /\ out[n] # Padding => out[n][2] <= gen /\ (restart # "no" => out[n][2] < gen)

(* A packet that waits to be recorded has a number under which it, or padding *)
(* instead of it, was sent.                                                   *)
FlightOK ==
    /\ flight \in [Layers -> [sn : Int, source : Sources]]
    /\ \A l \in Layers : flight[l] # NoFlight =>
         /\ flight[l].sn \in DOMAIN out /\ out[flight[l].sn] \in {flight[l].source, Padding}
         /\ flight[l].source # Padding /\ restart = "no"

Landed(n)   == \A l \in Layers : flight[l].sn # n
IsPad(n)    == n \in DOMAIN out /\ out[n] = Padding /\ Landed(n)
Recorded(n) == out[n] # Padding /\ out[n][2] = gen /\ Landed(n)

(* Only padding is left out by the sequencer, now or later. *)
PaddingOK ==
    /\ padder.pc = "push" => /\ padder.first \in Int /\ padder.last \in Int /\ padder.first <= padder.last
                             /\ \A n \in padder.first .. padder.last : IsPad(n)
    /\ \A n \in Int : LeftOut(seqr.ranges, n) => IsPad(n)

(* What was recorded is in its slot. *)
MetaOK ==
    \A n \in DOMAIN out : Recorded(n) => seqr.initialized /\ (n \notin wiped => Holds(seqr, n, out[n]))

RecordsInv == BegunOK /\ SentOK /\ FlightOK /\ PaddingOK /\ SequencerOK(seqr) /\ MetaOK

-----------------------------------------------------------------------------
(* Steps that send: they leave the sequencer alone.                         *)

(* What was sent stays, or becomes padding; new numbers are padding, or one   *)
(* is that of a packet which is then in flight.                               *)
SendsPadding ==
    /\ flight' = flight
    /\ \A n \in DOMAIN out' : n \notin DOMAIN out => out'[n] = Padding
    /\ \/ padder' = padder \/ padder'.pc # "push"
       \/ /\ padder'.first \in Int /\ padder'.last \in Int /\ padder'.first <= padder'.last
          /\ \A n \in padder'.first .. padder'.last : n \in DOMAIN out' /\ n \notin DOMAIN out

SendsPacket ==
    /\ padder' = padder /\ restart = "no"
    /\ \E l \in Layers, n \in DOMAIN out', x \in Sources :
         /\ flight[l] = NoFlight /\ flight' = [flight EXCEPT ![l] = [sn |-> n, source |-> x]]
         /\ n \notin DOMAIN out /\ DOMAIN out' = DOMAIN out \cup {n}
         /\ out'[n] = x /\ x # Padding /\ x[2] = gen

SendStep ==
    /\ seqr' = seqr /\ gen' = gen /\ wiped' = wiped
    /\ restart' = "no" <=> restart = "no"
    /\ \A n \in DOMAIN out : n \in DOMAIN out' /\ out'[n] \in {out[n], Padding}
    /\ \A n \in DOMAIN out' : n \notin DOMAIN out => n >= 1
    /\ SendsPadding \/ SendsPacket

LEMMA FlightFields ==
    ASSUME FlightOK, SentOK, DOMAIN out \subseteq Int, NEW l \in Layers
    PROVE  /\ flight[l].sn \in Int /\ flight[l].source \in Sources
           /\ flight[l].sn \in DOMAIN out \/ (flight[l].sn = 0 /\ flight[l] = NoFlight)
<1>1. flight[l] \in [sn : Int, source : Sources]
  BY DEF FlightOK
<1>2. CASE flight[l] = NoFlight
  BY <1>1, <1>2 DEF NoFlight
<1>3. CASE flight[l] # NoFlight
  BY <1>1, <1>3 DEF FlightOK
<1> QED BY <1>2, <1>3

LEMMA SendsPaddingKeeps ==
    ASSUME RecordsInv, DOMAIN out \subseteq Int, DOMAIN out' \subseteq Int, BegunOK', SendStep, SendsPadding
    PROVE  RecordsInv'
<1>0. SentOK /\ FlightOK /\ PaddingOK /\ SequencerOK(seqr) /\ MetaOK
  BY DEF RecordsInv
<1>1. /\ seqr' = seqr /\ gen' = gen /\ wiped' = wiped /\ flight' = flight
      /\ restart' = "no" <=> restart = "no"
      /\ \A n \in DOMAIN out : n \in DOMAIN out' /\ out'[n] \in {out[n], Padding}
      /\ \A n \in DOMAIN out' : n \notin DOMAIN out => n >= 1
      /\ \A n \in DOMAIN out' : n \notin DOMAIN out => out'[n] = Padding
  BY DEF SendStep, SendsPadding
<1>2. SentOK'
  <2>0. gen' \in Nat
    BY <1>0, <1>1 DEF SentOK
  <2> SUFFICES ASSUME NEW n \in DOMAIN out'
               PROVE  /\ n >= 1 /\ out'[n] \in Sources
                      /\ out'[n] # Padding => out'[n][2] <= gen /\ (restart' # "no" => out'[n][2] < gen)
    BY <1>1, <2>0 DEF SentOK
  <2>1. Padding \in Sources
    BY DEF Sources
  <2>2. CASE n \notin DOMAIN out
    BY <1>1, <2>1, <2>2
  <2>3. CASE n \in DOMAIN out
    <3>1. /\ n >= 1 /\ out[n] \in Sources
          /\ out[n] # Padding => out[n][2] <= gen /\ (restart # "no" => out[n][2] < gen)
      BY <1>0, <2>3 DEF SentOK
    <3>2. out'[n] = out[n] \/ out'[n] = Padding
      BY <1>1, <2>3
    <3> QED BY <1>1, <2>1, <3>1, <3>2
  <2> QED BY <2>2, <2>3
<1>3. FlightOK'
  <2>1. flight' \in [Layers -> [sn : Int, source : Sources]]
    BY <1>0, <1>1 DEF FlightOK
  <2> SUFFICES ASSUME NEW l \in Layers, flight[l] # NoFlight
               PROVE  /\ flight[l].sn \in DOMAIN out' /\ out'[flight[l].sn] \in {flight[l].source, Padding}
                      /\ flight[l].source # Padding /\ restart' = "no"
    BY <1>1, <2>1 DEF FlightOK
  <2>2. /\ flight[l].sn \in DOMAIN out /\ out[flight[l].sn] \in {flight[l].source, Padding}
        /\ flight[l].source # Padding /\ restart = "no"
    BY <1>0 DEF FlightOK
  <2> QED BY <1>1, <2>2
<1>4. \A n : Landed(n)' <=> Landed(n)
  BY <1>1 DEF Landed
<1>5. ASSUME NEW n, IsPad(n) PROVE IsPad(n)'
  BY <1>1, <1>4, <1>5 DEF IsPad
<1>6. PaddingOK'
  <2>1. \A n \in Int : LeftOut(seqr'.ranges, n) => IsPad(n)'
    BY <1>0, <1>1, <1>5 DEF PaddingOK
  <2>2. ASSUME padder'.pc = "push"
        PROVE  /\ padder'.first \in Int /\ padder'.last \in Int /\ padder'.first <= padder'.last
               /\ \A n \in padder'.first .. padder'.last : IsPad(n)'
    <3>1. CASE padder' = padder
      BY <1>0, <1>5, <2>2, <3>1 DEF PaddingOK
    <3>2. CASE /\ padder'.first \in Int /\ padder'.last \in Int /\ padder'.first <= padder'.last
               /\ \A n \in padder'.first .. padder'.last : n \in DOMAIN out' /\ n \notin DOMAIN out
      <4> SUFFICES ASSUME NEW n \in padder'.first .. padder'.last PROVE IsPad(n)'
        BY <3>2
      <4>1. n \in DOMAIN out' /\ n \notin DOMAIN out
        BY <3>2
      <4>2. out'[n] = Padding /\ n >= 1 /\ n \in Int
        BY <1>1, <4>1
      <4>3. Landed(n)
        BY <1>0, <4>1, <4>2, FlightFields DEF Landed
      <4> QED BY <1>4, <4>1, <4>2, <4>3 DEF IsPad
    <3> QED BY <2>2, <3>1, <3>2 DEF SendsPadding
  <2> QED BY <2>1, <2>2 DEF PaddingOK
<1>7. MetaOK'
  <2> SUFFICES ASSUME NEW n \in DOMAIN out', Recorded(n)'
               PROVE  seqr.initialized /\ (n \notin wiped => Holds(seqr, n, out'[n]))
    BY <1>1 DEF MetaOK, Holds, HighestAdjusted
  <2>1. out'[n] # Padding /\ out'[n][2] = gen /\ Landed(n)
    BY <1>1, <1>4 DEF Recorded
  <2>2. n \in DOMAIN out /\ out'[n] = out[n]
    BY <1>1, <2>1
  <2>3. Recorded(n)
    BY <2>1, <2>2 DEF Recorded
  <2> QED BY <1>0, <2>2, <2>3 DEF MetaOK
<1>8. SequencerOK(seqr')
  BY <1>0, <1>1
<1> QED BY <1>2, <1>3, <1>6, <1>7, <1>8 DEF RecordsInv

LEMMA SendsPacketKeeps ==
    ASSUME RecordsInv, DOMAIN out \subseteq Int, DOMAIN out' \subseteq Int, BegunOK', SendStep, SendsPacket
    PROVE  RecordsInv'
<1>0. SentOK /\ FlightOK /\ PaddingOK /\ SequencerOK(seqr) /\ MetaOK
  BY DEF RecordsInv
<1>1. /\ seqr' = seqr /\ gen' = gen /\ wiped' = wiped /\ padder' = padder
      /\ restart = "no" /\ restart' = "no"
      /\ \A n \in DOMAIN out : n \in DOMAIN out' /\ out'[n] \in {out[n], Padding}
      /\ \A n \in DOMAIN out' : n \notin DOMAIN out => n >= 1
  BY DEF SendStep, SendsPacket
<1>2. PICK l \in Layers, new \in DOMAIN out', x \in Sources :
         /\ flight[l] = NoFlight /\ flight' = [flight EXCEPT ![l] = [sn |-> new, source |-> x]]
         /\ new \notin DOMAIN out /\ DOMAIN out' = DOMAIN out \cup {new}
         /\ out'[new] = x /\ x # Padding /\ x[2] = gen
  BY DEF SendsPacket
<1>3. flight \in [Layers -> [sn : Int, source : Sources]] /\ new \in Int /\ new >= 1
  BY <1>0, <1>1, <1>2 DEF FlightOK
<1>4. /\ flight' \in [Layers -> [sn : Int, source : Sources]]
      /\ flight'[l].sn = new /\ flight'[l].source = x
      /\ \A k \in Layers : k # l => flight'[k] = flight[k]
  <2> DEFINE f == [sn |-> new, source |-> x]
  <2>1. f \in [sn : Int, source : Sources] /\ f.sn = new /\ f.source = x
    BY <1>3
  <2>2. flight' = [flight EXCEPT ![l] = f]
    BY <1>2
  <2> HIDE DEF f
  <2> QED BY <1>3, <2>1, <2>2
<1>5. SentOK'
  <2>0. gen' \in Nat /\ gen \in Int
    BY <1>0, <1>1 DEF SentOK
  <2> SUFFICES ASSUME NEW n \in DOMAIN out'
               PROVE  n >= 1 /\ out'[n] \in Sources /\ (out'[n] # Padding => out'[n][2] <= gen)
    BY <1>1, <2>0 DEF SentOK
  <2>1. Padding \in Sources
    BY DEF Sources
  <2>2. CASE n = new
    BY <1>2, <1>3, <2>0, <2>2
  <2>3. CASE n # new
    <3>0. n \in DOMAIN out
      BY <1>2, <2>3
    <3>1. n >= 1 /\ out[n] \in Sources /\ (out[n] # Padding => out[n][2] <= gen)
      BY <1>0, <3>0 DEF SentOK
    <3>2. out'[n] = out[n] \/ out'[n] = Padding
      BY <1>1, <3>0
    <3> QED BY <2>1, <3>1, <3>2
  <2> QED BY <2>2, <2>3
<1>6. FlightOK'
  <2> SUFFICES ASSUME NEW k \in Layers, flight'[k] # NoFlight
               PROVE  /\ flight'[k].sn \in DOMAIN out' /\ out'[flight'[k].sn] \in {flight'[k].source, Padding}
                      /\ flight'[k].source # Padding
    BY <1>1, <1>4 DEF FlightOK
  <2>1. CASE k = l
    BY <1>2, <1>4, <2>1
  <2>2. CASE k # l
    <3>1. /\ flight'[k] = flight[k] /\ flight[k] # NoFlight
      BY <1>4, <2>2
    <3>2. /\ flight[k].sn \in DOMAIN out /\ out[flight[k].sn] \in {flight[k].source, Padding}
          /\ flight[k].source # Padding
      BY <1>0, <3>1 DEF FlightOK
    <3> QED BY <1>1, <3>1, <3>2
  <2> QED BY <2>1, <2>2
<1>7. ASSUME NEW n \in DOMAIN out PROVE Landed(n)' <=> Landed(n)
  <2>1. n # new /\ n # 0
    BY <1>0, <1>2 DEF SentOK
  <2>2. flight[l].sn # n
    BY <1>2, <2>1 DEF NoFlight
  <2> QED BY <1>4, <2>1, <2>2 DEF Landed
<1>8. ASSUME NEW n, IsPad(n) PROVE IsPad(n)'
  BY <1>1, <1>7, <1>8 DEF IsPad
<1>9. PaddingOK'
  BY <1>0, <1>1, <1>8 DEF PaddingOK
<1>10. MetaOK'
  <2> SUFFICES ASSUME NEW n \in DOMAIN out', Recorded(n)'
               PROVE  seqr.initialized /\ (n \notin wiped => Holds(seqr, n, out'[n]))
    BY <1>1 DEF MetaOK, Holds, HighestAdjusted
  <2>1. out'[n] # Padding /\ out'[n][2] = gen /\ Landed(n)'
    BY <1>1 DEF Recorded
  <2>2. n # new
    BY <1>4, <2>1 DEF Landed
  <2>3. n \in DOMAIN out /\ out'[n] = out[n]
    BY <1>1, <1>2, <2>1, <2>2
  <2>4. Recorded(n)
    BY <1>7, <2>1, <2>3 DEF Recorded
  <2> QED BY <1>0, <2>3, <2>4 DEF MetaOK
<1>11. SequencerOK(seqr')
  BY <1>0, <1>1
<1> QED BY <1>5, <1>6, <1>9, <1>10, <1>11 DEF RecordsInv

-----------------------------------------------------------------------------
(* Steps of the sequencer and restarts.                                     *)

LEMMA RecordKeeps ==
    ASSUME RecordsInv, DOMAIN out \subseteq Int, NEW l \in Layers, Record(l)
    PROVE  RecordsInv'
<1>0. BegunOK /\ SentOK /\ FlightOK /\ PaddingOK /\ SequencerOK(seqr) /\ MetaOK
  BY DEF RecordsInv
<1> DEFINE sn == flight[l].sn
           x  == flight[l].source
<1>1. /\ munger' = munger /\ fwd' = fwd /\ restart' = restart /\ gen' = gen /\ padder' = padder
      /\ out' = out /\ wiped' = wiped
      /\ seqr' = SequencerPush(seqr, sn, x) /\ flight' = [flight EXCEPT ![l] = NoFlight]
      /\ flight[l] # NoFlight
  BY DEF Record, fwVars, srcVars, histVars
<1>2. /\ sn \in Int /\ x \in Sources /\ sn \in DOMAIN out /\ out[sn] \in {x, Padding} /\ sn >= 1
  <2>1. sn \in DOMAIN out /\ out[sn] \in {x, Padding}
    BY <1>0, <1>1 DEF FlightOK
  <2>2. sn \in Int /\ x \in Sources
    BY <1>0, FlightFields
  <2> QED BY <1>0, <2>1, <2>2 DEF SentOK
<1>3. ~LeftOut(seqr.ranges, sn)
  <2>1. ~Landed(sn)
    BY DEF Landed
  <2> QED BY <1>0, <1>2, <2>1 DEF PaddingOK, IsPad
<1> HIDE DEF sn, x
<1>4. /\ SequencerOK(seqr') /\ seqr'.initialized = TRUE /\ seqr'.ranges = seqr.ranges
      /\ Holds(seqr', sn, x)
      /\ seqr.initialized => \A n \in Int : \A y : n # sn /\ Holds(seqr, n, y) => Holds(seqr', n, y)
  <2>1. sn >= 0
    BY <1>2
  <2> QED BY <1>0, <1>1, <1>2, <1>3, <2>1, PushOK
<1>5. /\ flight \in [Layers -> [sn : Int, source : Sources]] /\ NoFlight \in [sn : Int, source : Sources]
  BY <1>0 DEF FlightOK, NoFlight, Sources, Padding
<1>6. /\ flight' \in [Layers -> [sn : Int, source : Sources]] /\ flight'[l] = NoFlight
      /\ \A k \in Layers : k # l => flight'[k] = flight[k]
  BY <1>1, <1>5
<1>7. FlightOK'
  <2> SUFFICES ASSUME NEW k \in Layers, flight'[k] # NoFlight
               PROVE  /\ flight'[k].sn \in DOMAIN out /\ out[flight'[k].sn] \in {flight'[k].source, Padding}
                      /\ flight'[k].source # Padding /\ restart = "no"
    BY <1>1, <1>6 DEF FlightOK
  <2>1. flight'[k] = flight[k]
    BY <1>6
  <2> QED BY <1>0, <2>1 DEF FlightOK
<1>8. SentOK'
  BY <1>0, <1>1 DEF SentOK
<1>9. ASSUME NEW n \in DOMAIN out PROVE Landed(n)' <=> (Landed(n) \/ (n = sn /\ Landed(n)'))
  <2>1. flight'[l].sn = 0 /\ n # 0
    BY <1>0, <1>6 DEF SentOK, NoFlight
  <2> QED BY <1>6, <2>1 DEF Landed, sn
<1>10. ASSUME NEW n, IsPad(n) PROVE IsPad(n)'
  BY <1>1, <1>9, <1>10 DEF IsPad
<1>11. PaddingOK'
  BY <1>0, <1>1, <1>4, <1>10 DEF PaddingOK
<1>12. MetaOK'
  <2> SUFFICES ASSUME NEW n \in DOMAIN out, Recorded(n)', n \notin wiped
               PROVE  Holds(seqr', n, out[n])
    BY <1>1, <1>4 DEF MetaOK, Holds, HighestAdjusted
  <2>1. out[n] # Padding /\ out[n][2] = gen /\ Landed(n)'
    BY <1>1 DEF Recorded
  <2>2. CASE n = sn
    BY <1>2, <1>4, <2>1, <2>2
  <2>3. CASE n # sn
    <3>1. Recorded(n)
      BY <1>9, <2>1, <2>3 DEF Recorded
    <3>2. seqr.initialized /\ Holds(seqr, n, out[n])
      BY <1>0, <3>1 DEF MetaOK
    <3>3. n \in Int
      OBVIOUS
    <3> QED BY <1>4, <2>3, <3>2, <3>3
  <2> QED BY <2>2, <2>3
<1>13. BegunOK'
  BY <1>0, <1>1 DEF BegunOK, Begun
<1> QED BY <1>4, <1>7, <1>8, <1>11, <1>12, <1>13 DEF RecordsInv

LEMMA PushPaddingKeeps ==
    ASSUME RecordsInv, DOMAIN out \subseteq Int, PushPadding
    PROVE  RecordsInv'
<1>0. BegunOK /\ SentOK /\ FlightOK /\ PaddingOK /\ SequencerOK(seqr) /\ MetaOK
  BY DEF RecordsInv
<1> DEFINE first == padder.first
           last  == padder.last
<1>1. /\ munger' = munger /\ fwd' = fwd /\ restart' = restart /\ gen' = gen /\ padder' = NoPadder
      /\ out' = out /\ flight' = flight /\ padder.pc = "push"
      /\ seqr' = SequencerPushPadding(seqr, first, last)
      /\ wiped' = IF seqr.extHighestSN - Slots \in first .. last THEN wiped \cup {seqr.extHighestSN} ELSE wiped
  BY DEF PushPadding, fwVars, srcVars
<1>2. first \in Int /\ last \in Int /\ first <= last /\ \A n \in first .. last : IsPad(n)
  BY <1>0, <1>1 DEF PaddingOK
<1> HIDE DEF first, last
<1>3. /\ SequencerOK(seqr') /\ seqr'.initialized = seqr.initialized
      /\ \A k \in Int : LeftOut(seqr'.ranges, k) => LeftOut(seqr.ranges, k) \/ k \in first .. last
      /\ \A n \in Int : \A x : Spared(seqr, first, last, n) /\ Holds(seqr, n, x) => Holds(seqr', n, x)
  BY <1>0, <1>1, <1>2, PushPaddingOK
<1>4. \A n : (IsPad(n)' <=> IsPad(n)) /\ (Recorded(n)' <=> Recorded(n))
  BY <1>1 DEF IsPad, Recorded, Landed
<1>5. PaddingOK'
  <2>1. padder'.pc # "push"
    BY <1>1 DEF NoPadder
  <2>2. \A n \in Int : LeftOut(seqr'.ranges, n) => IsPad(n)'
    BY <1>0, <1>2, <1>3, <1>4 DEF PaddingOK
  <2> QED BY <2>1, <2>2 DEF PaddingOK
<1>6. MetaOK'
  <2> SUFFICES ASSUME NEW n \in DOMAIN out, Recorded(n)
               PROVE  seqr.initialized /\ (n \notin wiped' => Holds(seqr', n, out[n]))
    BY <1>1, <1>3, <1>4 DEF MetaOK, Holds, HighestAdjusted
  <2>1. seqr.initialized /\ (n \notin wiped => Holds(seqr, n, out[n]))
    BY <1>0 DEF MetaOK
  <2>2. ASSUME n \notin wiped' PROVE Holds(seqr', n, out[n])
    <3>1. n \notin wiped /\ (seqr.extHighestSN - Slots \in first .. last => n # seqr.extHighestSN)
      BY <1>1, <2>2
    <3>2. n \notin first .. last
      BY <1>2 DEF IsPad, Recorded
    <3>3. Spared(seqr, first, last, n)
      BY <3>1, <3>2 DEF Spared
    <3>4. n \in Int /\ Holds(seqr, n, out[n])
      BY <2>1, <3>1
    <3> QED BY <1>3, <3>3, <3>4
  <2> QED BY <2>1, <2>2
<1>7. BegunOK' /\ SentOK' /\ FlightOK'
  BY <1>0, <1>1 DEF BegunOK, Begun, SentOK, FlightOK
<1> QED BY <1>3, <1>5, <1>6, <1>7 DEF RecordsInv

LEMMA FlushKeeps ==
    ASSUME RecordsInv, FlushSequencer
    PROVE  RecordsInv'
<1>0. BegunOK /\ SentOK /\ FlightOK /\ PaddingOK /\ SequencerOK(seqr) /\ MetaOK
  BY DEF RecordsInv
<1>1. /\ munger' = munger /\ fwd' = fwd /\ gen' = gen /\ padder' = padder
      /\ out' = out /\ flight' = flight /\ wiped' = wiped
      /\ restart = "flush" /\ restart' = "no" /\ seqr' = NewSequencer
  BY DEF FlushSequencer, SequencerFlush, fwVars, histVars
<1>2. SequencerOK(seqr')
  BY <1>1, NewSequencerOK
<1>3. \A n : (IsPad(n)' <=> IsPad(n)) /\ (Recorded(n)' <=> Recorded(n))
  BY <1>1 DEF IsPad, Recorded, Landed
<1>4. ASSUME NEW n \in Int PROVE ~LeftOut(seqr'.ranges, n)
  <2>1. seqr'.ranges = ClearAndResetValue(0, 0)
    BY <1>1 DEF NewSequencer
  <2>2. Len(seqr'.ranges) = 1 /\ RangesOK(seqr'.ranges)
    BY <2>1, ClearOK
  <2>3. Open(seqr'.ranges) = seqr'.ranges[1]
    BY <2>2 DEF Open
  <2> QED BY <2>3 DEF LeftOut, HasValue
<1>5. PaddingOK'
  BY <1>0, <1>1, <1>3, <1>4 DEF PaddingOK
<1>6. gen \in Nat /\ \A n \in DOMAIN out : out[n] # Padding => out[n][2] < gen
  BY <1>0, <1>1 DEF SentOK
<1>7. MetaOK'
  <2>1. \A n \in DOMAIN out : ~Recorded(n)
    BY <1>6 DEF Recorded
  <2> QED BY <1>1, <1>3, <2>1 DEF MetaOK
<1>8. \A l \in Layers : flight[l] = NoFlight
  BY <1>0, <1>1 DEF FlightOK
<1>9. FlightOK' /\ BegunOK' /\ SentOK'
  BY <1>0, <1>1, <1>8 DEF FlightOK, BegunOK, Begun, SentOK
<1> QED BY <1>2, <1>5, <1>7, <1>9 DEF RecordsInv

LEMMA RestartStreamsKeeps ==
    ASSUME RecordsInv, RestartStreams
    PROVE  RecordsInv'
<1>0. BegunOK /\ SentOK /\ FlightOK /\ PaddingOK /\ SequencerOK(seqr) /\ MetaOK
  BY DEF RecordsInv
<1>1. /\ munger' = munger /\ fwd' = fwd /\ gen' = gen + 1 /\ padder' = padder
      /\ out' = out /\ flight' = flight /\ wiped' = wiped /\ seqr' = seqr
      /\ restart = "no" /\ restart' = "forwarder" /\ \A l \in Layers : flight[l] = NoFlight
  BY DEF RestartStreams, fwVars, seqVars, histVars
<1>2. \A n : IsPad(n)' <=> IsPad(n)
  BY <1>1 DEF IsPad, Landed
<1>3. gen \in Nat /\ \A n \in DOMAIN out : n >= 1 /\ out[n] \in Sources /\ (out[n] # Padding => out[n][2] <= gen)
  BY <1>0 DEF SentOK
<1>4. ASSUME NEW n \in DOMAIN out, out[n] # Padding PROVE out[n][2] \in Nat
  <2>1. out[n] \in Layers \X Nat \X Int
    BY <1>3, <1>4 DEF Sources
  <2> QED BY <2>1
<1>5. \A n \in DOMAIN out : out[n] # Padding => out[n][2] < gen + 1 /\ out[n][2] <= gen + 1
  BY <1>3, <1>4
<1>6. SentOK'
  BY <1>1, <1>3, <1>5 DEF SentOK
<1>7. FlightOK'
  BY <1>0, <1>1 DEF FlightOK
<1>8. PaddingOK'
  BY <1>0, <1>1, <1>2 DEF PaddingOK
<1>9. MetaOK'
  <2>1. ASSUME NEW n \in DOMAIN out PROVE ~Recorded(n)'
    <3> SUFFICES ASSUME out[n] # Padding, out[n][2] = gen + 1 PROVE FALSE
      BY <1>1 DEF Recorded
    <3> QED BY <1>3, <1>4, <1>5
  <2> QED BY <1>1, <2>1 DEF MetaOK
<1>10. BegunOK' /\ SequencerOK(seqr')
  BY <1>0, <1>1 DEF BegunOK, Begun
<1> QED BY <1>6, <1>7, <1>8, <1>9, <1>10 DEF RecordsInv

-----------------------------------------------------------------------------
(* Steps of the forwarder.                                                  *)

(* After a reset the first number is not below the last one. *)
LEMMA FreshBegun ==
    ASSUME NEW m, NEW sn \in Int, Fresh(m, sn), m.lastSN >= 1
    PROVE  Begun(m)
<1> DEFINE rs == m.ranges
<1>1. /\ MungerOK(m) /\ m.highestIncoming = sn - 1 /\ Len(rs) = 1
      /\ \A k \in Int : HasValue(rs, k) => k >= sn
  BY DEF Fresh
<1>2. /\ RangesOK(rs) /\ m.snOffset = Open(rs).value /\ Open(rs).start <= m.highestIncoming + 1
      /\ m.lastSN <= m.highestIncoming + 1 - m.snOffset /\ m.lastSN \in Int /\ m.snOffset \in Int
  BY <1>1, MungerFields DEF MungerOK
<1>3. Open(rs) = rs[1] /\ Open(rs).start \in Int
  BY <1>1, <1>2, OpenIs
<1>4. Open(rs).start >= sn
  BY <1>1, <1>3 DEF HasValue
<1>5. First(rs) = Open(rs).start - m.snOffset
  BY <1>2, <1>3 DEF First
<1> HIDE DEF rs
<1>6. First(rs) >= 1
  BY <1>1, <1>2, <1>3, <1>4, <1>5
<1> QED BY <1>6 DEF Begun, rs

(* Changes of the map behind the last number. *)
LEMMA KeptBegun ==
    ASSUME NEW m, Begun(m), MungerOK(m), NEW r, MungerOK(r), r.lastSN >= m.lastSN, First(m.ranges) <= First(r.ranges)
    PROVE  Begun(r)
<1>1. m.lastSN \in Int /\ r.lastSN \in Int /\ RangesOK(m.ranges) /\ RangesOK(r.ranges)
  BY MungerFields DEF MungerOK
<1>2. ASSUME NEW rs, RangesOK(rs) PROVE First(rs) \in Int
  <2>1. 1 \in 1 .. Len(rs)
    BY <1>2, OpenIs
  <2>2. rs[1].start \in Int /\ rs[1].value \in Int
    BY <1>2, <2>1, OpenIs
  <2> QED BY <2>2 DEF First
<1>3. First(m.ranges) \in Int /\ First(r.ranges) \in Int
  BY <1>1, <1>2
<1> QED BY <1>1, <1>3 DEF Begun

(* A packet that is translated has a positive number. *)
LEMMA ProcessedBegun ==
    ASSUME NEW m, MungerOK(m), Begun(m), NEW sn \in Int, Processed(m, sn)
    PROVE  /\ Begun(munger')
           /\ \A n \in DOMAIN out' : n \notin DOMAIN out => n >= 1
<1>0. /\ m.lastSN \in Int /\ m.lastSN >= 1 /\ First(m.ranges) >= 1 /\ RangesOK(m.ranges)
  BY MungerFields DEF MungerOK, Begun
<1>1. CASE TakesNone(m, munger', sn) /\ out' = out
  <2>1. CASE LeavesOut(m, munger', sn)
    <3>1. MungerOK(munger') /\ munger'.lastSN = m.lastSN /\ First(m.ranges) <= First(munger'.ranges)
      BY <2>1 DEF LeavesOut, Excluded, Moved, Kept
    <3>2. munger'.lastSN >= m.lastSN
      BY <1>0, <3>1
    <3> QED BY <1>1, <3>1, <3>2, KeptBegun
  <2>2. CASE IsTooLate(m, munger', sn)
    BY <1>1, <2>2 DEF IsTooLate
  <2> QED BY <1>1, <2>1, <2>2 DEF TakesNone
<1>2. ASSUME NEW n \in Int, Takes(m, munger', sn, n), Sends(n) \/ (out' = out /\ n \in gaveUp')
      PROVE  /\ Begun(munger')
             /\ \A o \in DOMAIN out' : o \notin DOMAIN out => o >= 1
  <2>1. MungerOK(munger') /\ munger'.lastSN >= m.lastSN /\ munger'.ranges = m.ranges
    BY <1>2, TakesOK
  <2>2. munger'.lastSN \in Int
    BY <2>1, MungerFields DEF MungerOK
  <2>3. Begun(munger')
    BY <1>0, <2>1, <2>2 DEF Begun
  <2>4. n >= 1
    <3>1. CASE TakesNext(m, munger', sn, n)
      <4>1. PICK marker \in BOOLEAN : munger' = InOrder(m, sn, sn, marker)
        BY <3>1 DEF TakesNext
      <4>2. sn > m.highestIncoming /\ n = sn - m.snOffset
        BY <3>1 DEF TakesNext
      <4>3. munger'.lastSN = sn - m.snOffset
        BY <4>1, <4>2, InOrderOK
      <4> QED BY <1>0, <2>1, <2>2, <4>2, <4>3
    <3>2. CASE FillsHole(m, munger', sn, n)
      <4>1. HasValue(m.ranges, sn) /\ n = Num(m.ranges, sn)
        BY <3>2 DEF FillsHole, LateFound
      <4>2. First(m.ranges) \in Int /\ First(m.ranges) <= n
        BY <1>0, <4>1, NumFromFirst
      <4> QED BY <1>0, <4>2
    <3> QED BY <1>2, <3>1, <3>2 DEF Takes
  <2>5. DOMAIN out' \subseteq DOMAIN out \cup {n}
    BY <1>2 DEF Sends
  <2> QED BY <2>3, <2>4, <2>5
<1> QED BY <1>1, <1>2 DEF Processed

(* A filtered packet leaves padding in its place, or nothing. *)
OnlyPads ==
    \/ out' = out
    \/ \E n : SetOut(n, Padding)

LEMMA OnlyPadsKeeps ==
    ASSUME OnlyPads
    PROVE  /\ \A n \in DOMAIN out : n \in DOMAIN out' /\ out'[n] \in {out[n], Padding}
           /\ \A n \in DOMAIN out' : n \notin DOMAIN out => out'[n] = Padding
<1>1. CASE out' = out
  BY <1>1
<1>2. ASSUME NEW n, SetOut(n, Padding)
      PROVE  /\ \A o \in DOMAIN out : o \in DOMAIN out' /\ out'[o] \in {out[o], Padding}
             /\ \A o \in DOMAIN out' : o \notin DOMAIN out => out'[o] = Padding
  BY <1>2 DEF SetOut
<1> QED BY <1>1, <1>2 DEF OnlyPads

LEMMA ComesLeaves ==
    ASSUME NEW l, NEW sn, NEW payload, Comes(l, sn, payload)
    PROVE  /\ seqr' = seqr /\ gen' = gen /\ restart' = restart /\ restart = "no" /\ padder' = padder
           /\ l \in Layers /\ flight[l] = NoFlight
BY DEF Comes, seqVars, Streams, Layers

LEMMA DropSends ==
    ASSUME BegunOK, NEW l, NEW sn \in SNs, DropWhileMuted(l, sn)
    PROVE  SendStep /\ BegunOK'
<1>1. /\ Comes(l, sn, TRUE) /\ munger' = munger /\ fwd' = fwd /\ out' = out /\ flight' = flight /\ wiped' = wiped
  BY DEF DropWhileMuted, histVars
<1>2. seqr' = seqr /\ gen' = gen /\ restart' = restart /\ padder' = padder
  BY <1>1, ComesLeaves
<1>3. BegunOK'
  BY <1>1 DEF BegunOK, Begun
<1> QED BY <1>1, <1>2, <1>3 DEF SendStep, SendsPadding

LEMMA SwitchFailsSends ==
    ASSUME NumbersInv, BegunOK, NEW l, NEW sn \in SNs, NEW payload, Comes(l, sn, payload), SwitchFails(l, sn, payload)
    PROVE  SendStep /\ BegunOK'
<1>1. /\ munger' = munger /\ out' = out /\ flight' = flight /\ wiped' = wiped
  BY DEF SwitchFails, histVars
<1>2. seqr' = seqr /\ gen' = gen /\ restart' = restart /\ padder' = padder
  BY ComesLeaves
<1>3. fwd'.started = fwd.started
  <2>1. fwd \in Forwarder
    BY DEF NumbersInv, PacketTypeOK
  <2>2. PICK v \in Select(l, sn, payload) :
           fwd' = [fwd EXCEPT !.cur = IF v.cur # @ THEN @ ELSE NoLayer,
                              !.ref = @ \/ (fwd.started /\ StartAllowed(l, sn))]
    BY DEF SwitchFails
  <2> QED BY <2>1, <2>2 DEF Forwarder
<1>4. BegunOK'
  BY <1>1, <1>3 DEF BegunOK, Begun
<1> QED BY <1>1, <1>2, <1>4 DEF SendStep, SendsPadding

LEMMA NotSelectedSends ==
    ASSUME NumbersInv, BegunOK, NEW l, NEW sn \in SNs, NEW payload \in BOOLEAN, NEW marker \in BOOLEAN,
           Comes(l, sn, payload), NotSelected(l, sn, payload, marker)
    PROVE  SendStep /\ BegunOK'
<1>0. PacketTypeOK /\ MungerOK(munger) /\ l \in Streams /\ sn \in Int
  BY ComesIs DEF NumbersInv, PacketTypeOK
<1>1. /\ flight' = flight /\ wiped' = wiped
      /\ fwd'.started = fwd.started
      /\ \/ munger' = munger /\ out' = out
         \/ fwd.started /\ Processed(munger, sn)
  BY <1>0, NotSelectedCases DEF NotSelected
<1>2. seqr' = seqr /\ gen' = gen /\ restart' = restart /\ padder' = padder
  BY ComesLeaves
<1>3. OnlyPads
  BY DEF NotSelected, Filtered, OnlyPads
<1>4. /\ \A n \in DOMAIN out : n \in DOMAIN out' /\ out'[n] \in {out[n], Padding}
      /\ \A n \in DOMAIN out' : n \notin DOMAIN out => out'[n] = Padding
  BY <1>3, OnlyPadsKeeps
<1>5. CASE munger' = munger /\ out' = out
  <2>1. BegunOK'
    BY <1>1, <1>5 DEF BegunOK, Begun
  <2> QED BY <1>1, <1>2, <1>4, <1>5, <2>1 DEF SendStep, SendsPadding
<1>6. CASE fwd.started /\ Processed(munger, sn)
  <2>1. Begun(munger') /\ \A n \in DOMAIN out' : n \notin DOMAIN out => n >= 1
    BY <1>0, <1>6, ProcessedBegun DEF BegunOK
  <2>2. BegunOK'
    BY <2>1 DEF BegunOK, Begun
  <2> QED BY <1>1, <1>2, <1>4, <2>1, <2>2 DEF SendStep, SendsPadding
<1> QED BY <1>1, <1>5, <1>6

(* The munger that a selected packet meets: its number is positive and unused. *)
LEMMA SwitchedIs ==
    ASSUME NumbersInv, BegunOK, NEW l, NEW sn \in SNs, NEW payload, Comes(l, sn, payload),
           NEW m \in Switched(l, sn, sn)
    PROVE  /\ MungerOK(m) /\ Begun(m) /\ Unused(SNs, m, arrived[l], DOMAIN out)
           /\ \A n \in DOMAIN out : n <= m.highestIncoming - m.snOffset
<1>0. PacketTypeOK /\ NotStarted /\ NoneBeyond /\ LateAreUnused /\ SourceOK /\ MungerOK(munger)
  BY DEF NumbersInv, PacketTypeOK
<1>1. l # NoLayer /\ sn \in Int /\ restart = "no" /\ sn >= 1
  <2>1. l # NoLayer /\ sn \in Int /\ restart = "no"
    BY <1>0, ComesIs
  <2>2. FirstSN \in Nat /\ FirstSN >= 1 /\ sn >= FirstSN
    BY <1>0, SNsType
  <2> QED BY <2>1, <2>2
<1>2. munger.lastSN \in Int /\ SNs \in SUBSET Int /\ \A n \in DOMAIN out : n <= munger.lastSN
  BY <1>0, MungerFields, SNsType DEF NoneBeyond, MungerOK
<1>3. CASE fwd.lastSSRC = l
  <2>1. m = munger
    BY <1>3 DEF Switched
  <2>2. Synced(munger) /\ fwd.started
    BY <1>0, <1>1, <1>3 DEF SourceOK, NotStarted
  <2>3. \A n \in DOMAIN out : n <= munger.highestIncoming - munger.snOffset
    BY <1>2, <2>2 DEF Synced
  <2>4. Unused(SNs, munger, arrived[l], DOMAIN out)
    BY <1>0, <1>1, <1>3 DEF LateAreUnused
  <2> QED BY <1>0, <2>1, <2>2, <2>3, <2>4 DEF BegunOK
<1>4. CASE fwd.lastSSRC # l /\ fwd.started
  <2>1. PICK d \in 1 .. 2 : m = UpdateSnTsOffsets(munger, sn, sn, 1, d)
    BY <1>4 DEF Switched
  <2>2. Fresh(m, sn) /\ Synced(m) /\ m.lastSN = munger.lastSN
    <3>1. d \in Nat
      OBVIOUS
    <3> QED BY <1>0, <1>1, <2>1, <3>1, SwitchOK
  <2>3. MungerOK(m) /\ \A n \in DOMAIN out : n <= m.highestIncoming - m.snOffset
    BY <1>2, <2>2 DEF Fresh, Synced
  <2>4. Unused(SNs, m, arrived[l], DOMAIN out)
    BY <1>1, <1>2, <2>2, FreshUnused
  <2>5. m.lastSN >= 1
    BY <1>4, <2>2 DEF BegunOK, Begun
  <2> QED BY <1>1, <2>2, <2>3, <2>4, <2>5, FreshBegun
<1>5. CASE fwd.lastSSRC # l /\ ~fwd.started
  <2>1. m = SetLastSnTs(munger, sn, sn)
    BY <1>5 DEF Switched
  <2>2. Fresh(m, sn) /\ m.lastSN = sn
    BY <1>0, <1>1, <2>1, StartOK
  <2>3. DOMAIN out = {}
    <3>1. out = <<>>
      BY <1>0, <1>5 DEF NotStarted
    <3> QED BY <3>1
  <2>4. Unused(SNs, m, arrived[l], DOMAIN out)
    BY <1>1, <1>2, <2>2, FreshUnused
  <2>5. m.lastSN >= 1
    BY <1>1, <2>2
  <2> QED BY <1>1, <2>2, <2>3, <2>4, <2>5, FreshBegun DEF Fresh
<1> QED BY <1>3, <1>4, <1>5

LEMMA SelectedSends ==
    ASSUME NumbersInv, BegunOK, SentOK, FlightOK, NEW l, NEW sn \in SNs, NEW payload \in BOOLEAN, NEW marker \in BOOLEAN,
           Comes(l, sn, payload), Selected(l, sn, payload, marker)
    PROVE  SendStep /\ BegunOK'
<1>0. PacketTypeOK /\ sn \in Int /\ sn \in SNs \ arrived[l] /\ SNs \in SUBSET Int /\ DOMAIN out \in SUBSET Int
  BY ComesIs, SNsType DEF NumbersInv, PacketTypeOK
<1>1. /\ seqr' = seqr /\ gen' = gen /\ restart' = restart /\ restart = "no" /\ padder' = padder
      /\ l \in Layers /\ flight[l] = NoFlight
  BY ComesLeaves
<1>2. PICK m \in Switched(l, sn, sn) :
            \/ /\ ~HasNumber(m, sn, payload)
               /\ munger' = Translated(m, sn, sn, payload, marker)
               /\ flight' = flight /\ out' = out
            \/ /\ HasNumber(m, sn, payload) /\ Filtered(m, sn, sn, payload, marker) /\ flight' = flight
            \/ /\ HasNumber(m, sn, payload)
               /\ munger' = Translated(m, sn, sn, payload, marker)
               /\ TranslatedSN(m, sn) \in gaveUp'
               /\ flight' = flight /\ out' = out
            \/ /\ HasNumber(m, sn, payload)
               /\ munger' = Translated(m, sn, sn, payload, marker)
               /\ flight' = [flight EXCEPT ![l] = [sn |-> TranslatedSN(m, sn), source |-> Packet(l, sn)]]
               /\ SetOut(TranslatedSN(m, sn), Packet(l, sn))
  BY DEF Selected
<1>3. wiped' = wiped
  BY DEF Selected
<1>4. /\ MungerOK(m) /\ Begun(m) /\ Unused(SNs, m, arrived[l], DOMAIN out)
      /\ \A n \in DOMAIN out : n <= m.highestIncoming - m.snOffset
  BY <1>2, SwitchedIs
<1> DEFINE n == TranslatedSN(m, sn)
           r == Translated(m, sn, sn, payload, marker)
           x == Packet(l, sn)
<1>5. /\ HasNumber(m, sn, payload) => Takes(m, r, sn, n)
      /\ ~HasNumber(m, sn, payload) => TakesNone(m, r, sn)
  BY <1>0, <1>4, TranslatedIs
<1>6. x \in Sources /\ x # Padding /\ x[2] = gen
  <2>1. gen \in Nat
    BY DEF SentOK
  <2>2. <<l, gen, sn>> \in Layers \X Nat \X Int
    BY <1>0, <1>1, <2>1
  <2>3. <<l, gen, sn>> # <<>> /\ <<l, gen, sn>>[2] = gen
    OBVIOUS
  <2> QED BY <2>2, <2>3 DEF Packet, Sources, Padding
<1>7. Processed(m, sn) => BegunOK' /\ \A o \in DOMAIN out' : o \notin DOMAIN out => o >= 1
  BY <1>0, <1>4, ProcessedBegun DEF BegunOK, Begun
<1>8. CASE OnlyPads /\ flight' = flight /\ Processed(m, sn)
  BY <1>1, <1>3, <1>7, <1>8, OnlyPadsKeeps DEF SendStep, SendsPadding
<1> HIDE DEF n, r, x
<1>9. CASE ~HasNumber(m, sn, payload) /\ munger' = r /\ flight' = flight /\ out' = out
  BY <1>5, <1>8, <1>9 DEF OnlyPads, Processed
<1>10. CASE HasNumber(m, sn, payload) /\ Filtered(m, sn, sn, payload, marker) /\ flight' = flight
  <2>1. Processed(m, sn)
    BY <1>0, <1>4, <1>10, FilteredIs
  <2>2. OnlyPads
    BY <1>10 DEF Filtered, OnlyPads
  <2> QED BY <1>8, <1>10, <2>1, <2>2
<1>11. HasNumber(m, sn, payload) => n \in Int
  BY <1>0, <1>4, <1>5, TakesOK
<1>12. CASE HasNumber(m, sn, payload) /\ munger' = r /\ n \in gaveUp' /\ flight' = flight /\ out' = out
  BY <1>5, <1>8, <1>11, <1>12 DEF OnlyPads, Processed
<1>13. CASE /\ HasNumber(m, sn, payload) /\ munger' = r
            /\ flight' = [flight EXCEPT ![l] = [sn |-> n, source |-> x]] /\ SetOut(n, x)
  <2>1. Sends(n)
    BY <1>13, SetOutSends
  <2>2. Processed(m, sn)
    BY <1>5, <1>11, <1>13, <2>1 DEF Processed
  <2>3. n \notin DOMAIN out
    <3>1. Takes(m, r, sn, n)
      BY <1>5, <1>13
    <3> DEFINE used == DOMAIN out
               arr  == arrived[l]
    <3>2. /\ used \in SUBSET Int /\ SNs \in SUBSET Int /\ sn \in SNs \ arr
          /\ Unused(SNs, m, arr, used) /\ \A u \in used : u <= m.highestIncoming - m.snOffset
      BY <1>0, <1>4
    <3> HIDE DEF used, arr
    <3>3. n \notin used
      BY <1>4, <3>1, <3>2, TakesUnused
    <3> QED BY <3>3 DEF used
  <2>4. DOMAIN out' = DOMAIN out \cup {n} /\ out'[n] = x
    BY <1>13 DEF SetOut
  <2>5. \A o \in DOMAIN out : o \in DOMAIN out' /\ out'[o] \in {out[o], Padding}
    BY <2>1, <2>3 DEF Sends
  <2>6. SendsPacket
    BY <1>1, <1>6, <1>13, <2>3, <2>4 DEF SendsPacket
  <2> QED BY <1>1, <1>3, <1>7, <2>2, <2>5, <2>6 DEF SendStep
<1> QED BY <1>2, <1>9, <1>10, <1>12, <1>13 DEF n, r, x

(* Padding and blank frames take numbers above the last one. *)
LEMMA PadsSends ==
    ASSUME NumbersInv, BegunOK, NEW num \in Nat, Pads(num)
    PROVE  /\ Begun(munger')
           /\ \A n \in DOMAIN out : n \in DOMAIN out' /\ out'[n] \in {out[n], Padding}
           /\ \A n \in DOMAIN out' : n \notin DOMAIN out => n >= 1 /\ out'[n] = Padding
           /\ \A n \in (Started.lastSN + 1) .. (Started.lastSN + num) : n \in DOMAIN out' /\ n \notin DOMAIN out
<1> DEFINE new == (Started.lastSN + 1) .. (Started.lastSN + num)
<1>0. /\ MungerOK(Started) /\ Started.lastSN \in Int /\ \A n \in DOMAIN out : n <= Started.lastSN
      /\ fwd.started => Started = munger
      /\ ~fwd.started => Fresh(Started, FirstSN) /\ Started.lastSN = FirstSN
  BY StartedIs
<1>1. FirstSN \in Int /\ FirstSN >= 1
  BY SNsType DEF NumbersInv
<1>2. Begun(Started)
  <2>1. CASE fwd.started
    BY <1>0, <2>1 DEF BegunOK
  <2>2. CASE ~fwd.started
    BY <1>0, <1>1, <2>2, FreshBegun
  <2> QED BY <2>1, <2>2
<1>3. /\ munger'.lastSN = Started.lastSN + num /\ MungerOK(munger')
      /\ First(Started.ranges) <= First(munger'.ranges)
      /\ AddOut(Started.lastSN + 1, Started.lastSN + num)
  BY DEF Pads, Moved, Kept
<1>4. Begun(munger')
  <2>1. munger'.lastSN >= Started.lastSN
    BY <1>0, <1>3
  <2> QED BY <1>0, <1>2, <1>3, <2>1, KeptBegun
<1>5. out' = [n \in DOMAIN out \cup new |-> IF n \in new THEN Padding ELSE out[n]]
  BY <1>3 DEF AddOut
<1>6. \A n \in new : n \in Int /\ n > Started.lastSN /\ n >= 1
  BY <1>0, <1>2 DEF Begun
<1>7. \A n \in new : n \notin DOMAIN out
  BY <1>0, <1>6
<1> HIDE DEF new
<1>8. /\ \A n \in DOMAIN out : n \in DOMAIN out' /\ out'[n] \in {out[n], Padding}
      /\ \A n \in DOMAIN out' : n \notin DOMAIN out => n \in new /\ out'[n] = Padding
      /\ \A n \in new : n \in DOMAIN out'
  BY <1>5
<1> QED BY <1>4, <1>6, <1>7, <1>8 DEF new

LEMMA TakePaddingSends ==
    ASSUME NumbersInv, BegunOK, NEW num \in 1 .. 2, TakePadding(num)
    PROVE  SendStep /\ BegunOK'
<1>1. /\ seqr' = seqr /\ gen' = gen /\ restart' = restart /\ flight' = flight /\ wiped' = wiped
      /\ \/ /\ padder' = [pc |-> "push", first |-> Started.lastSN + 1, last |-> Started.lastSN + num]
            /\ AddOut(Started.lastSN + 1, Started.lastSN + num)
         \/ munger' = Started /\ padder' = NoPadder /\ out' = out
  BY DEF TakePadding, seqVars, srcVars
<1>2. Pads(num) \/ (munger' = Started /\ out' = out)
  BY TakePaddingCases
<1>3. /\ MungerOK(Started) /\ Started.lastSN \in Int /\ \A n \in DOMAIN out : n <= Started.lastSN
      /\ fwd.started => Started = munger
      /\ ~fwd.started => Fresh(Started, FirstSN) /\ Started.lastSN = FirstSN
  BY StartedIs
<1>4. FirstSN \in Int /\ FirstSN >= 1 /\ num \in Nat /\ num >= 1
  BY SNsType DEF NumbersInv
<1>5. Begun(Started)
  <2>1. CASE fwd.started
    BY <1>3, <2>1 DEF BegunOK
  <2>2. CASE ~fwd.started
    BY <1>3, <1>4, <2>2, FreshBegun
  <2> QED BY <2>1, <2>2
<1>6. CASE Pads(num) /\ padder' = [pc |-> "push", first |-> Started.lastSN + 1, last |-> Started.lastSN + num]
  <2>1. /\ Begun(munger')
        /\ \A n \in DOMAIN out : n \in DOMAIN out' /\ out'[n] \in {out[n], Padding}
        /\ \A n \in DOMAIN out' : n \notin DOMAIN out => n >= 1 /\ out'[n] = Padding
        /\ \A n \in (Started.lastSN + 1) .. (Started.lastSN + num) : n \in DOMAIN out' /\ n \notin DOMAIN out
    BY <1>4, <1>6, PadsSends
  <2>2. padder'.first = Started.lastSN + 1 /\ padder'.last = Started.lastSN + num
    BY <1>6
  <2>3. padder'.first \in Int /\ padder'.last \in Int /\ padder'.first <= padder'.last
    BY <1>3, <1>4, <2>2
  <2>4. SendsPadding
    BY <1>1, <2>1, <2>2, <2>3 DEF SendsPadding
  <2> QED BY <1>1, <2>1, <2>4 DEF SendStep, BegunOK, Begun
<1>7. CASE munger' = Started /\ padder' = NoPadder /\ out' = out
  <2>1. padder'.pc # "push"
    BY <1>7 DEF NoPadder
  <2>2. BegunOK'
    BY <1>5, <1>7 DEF BegunOK, Begun
  <2> QED BY <1>1, <1>7, <2>1, <2>2 DEF SendStep, SendsPadding
<1>9. ASSUME padder' = [pc |-> "push", first |-> Started.lastSN + 1, last |-> Started.lastSN + num],
             AddOut(Started.lastSN + 1, Started.lastSN + num), munger' = Started, out' = out
      PROVE  FALSE
  <2> DEFINE k == Started.lastSN + 1
  <2>1. k \in k .. (Started.lastSN + num) /\ k > Started.lastSN /\ k \in Int
    BY <1>3, <1>4
  <2>2. k \in DOMAIN out'
    BY <1>9, <2>1 DEF AddOut
  <2>3. k <= Started.lastSN
    BY <1>3, <1>9, <2>2
  <2> QED BY <1>3, <2>1, <2>3
<1> QED BY <1>1, <1>2, <1>6, <1>7, <1>9

LEMMA BlankFrameSends ==
    ASSUME NumbersInv, BegunOK, BlankFrame
    PROVE  SendStep /\ BegunOK'
<1>1. seqr' = seqr /\ gen' = gen /\ restart' = restart /\ flight' = flight /\ wiped' = wiped /\ padder' = padder
  BY DEF BlankFrame, seqVars, srcVars
<1>2. PICK num \in 1 .. 2 : Pads(num)
  BY BlankFrameCases
<1>3. /\ Begun(munger')
      /\ \A n \in DOMAIN out : n \in DOMAIN out' /\ out'[n] \in {out[n], Padding}
      /\ \A n \in DOMAIN out' : n \notin DOMAIN out => n >= 1 /\ out'[n] = Padding
  <2>1. num \in Nat
    OBVIOUS
  <2> QED BY <1>2, <2>1, PadsSends
<1> QED BY <1>1, <1>3 DEF SendStep, SendsPadding, BegunOK, Begun

LEMMA IdleSends ==
    ASSUME NumbersInv, BegunOK,
           \/ \E kind \in {"probe", "onMute"} : CheckPadding(kind)
           \/ (\E n \in DOMAIN out : GetExtPacketMetas(n))
           \/ Retransmit \/ NackDone \/ Control \/ RestartForwarder \/ UNCHANGED packetVars
    PROVE  SendStep /\ BegunOK'
<1>0. fwd \in Forwarder
  BY DEF NumbersInv, PacketTypeOK
<1> DEFINE Same == /\ seqr' = seqr /\ gen' = gen /\ wiped' = wiped /\ flight' = flight /\ out' = out
                   /\ munger' = munger /\ fwd'.started = fwd.started
                   /\ restart' = "no" <=> restart = "no"
                   /\ padder' = padder \/ padder'.pc # "push"
<1>1. ASSUME NEW kind \in {"probe", "onMute"}, CheckPadding(kind) PROVE Same
  <2>1. padder' = [padder EXCEPT !.pc = kind]
    BY <1>1 DEF CheckPadding
  <2>2. padder' = padder \/ padder'.pc # "push"
    BY <2>1
  <2> QED BY <1>1, <2>2 DEF CheckPadding, fwVars, seqVars, srcVars, histVars
<1>2. ASSUME NEW n \in DOMAIN out, GetExtPacketMetas(n) PROVE Same
  BY <1>2 DEF GetExtPacketMetas, fwVars, seqVars, srcVars, histVars
<1>3. ASSUME Retransmit PROVE Same
  BY <1>3 DEF Retransmit, fwVars, seqVars, srcVars, histVars
<1>4. ASSUME NackDone PROVE Same
  BY <1>4 DEF NackDone, fwVars, seqVars, srcVars, histVars
<1>5. ASSUME Control PROVE Same
  <2>1. fwd'.started = fwd.started
    BY <1>5, ControlSteps DEF Quiet
  <2> QED BY <1>5, <2>1 DEF Control, seqVars, srcVars
<1>6. ASSUME RestartForwarder PROVE Same
  <2>1. fwd'.started = fwd.started
    BY <1>6, RestartSteps DEF Quiet
  <2> QED BY <1>6, <2>1 DEF RestartForwarder, seqVars
<1>7. ASSUME UNCHANGED packetVars PROVE Same
  BY <1>7 DEF packetVars, fwVars, seqVars, srcVars, histVars
<1>8. Same
  BY <1>1, <1>2, <1>3, <1>4, <1>5, <1>6, <1>7
<1> HIDE DEF Same
<1>9. BegunOK'
  BY <1>8 DEF Same, BegunOK, Begun
<1>10. SendStep
  BY <1>8 DEF Same, SendStep, SendsPadding
<1> QED BY <1>9, <1>10

-----------------------------------------------------------------------------
(* Every step keeps the records.                                            *)

LEMMA RecordsInitially == PacketInit => RecordsInv
<1> SUFFICES ASSUME PacketInit PROVE RecordsInv
  OBVIOUS
<1>1. /\ out = <<>> /\ padder = NoPadder /\ gen = 0 /\ seqr = NewSequencer /\ wiped = {}
      /\ flight = [l \in Layers |-> NoFlight] /\ fwd.started = FALSE
  BY DEF PacketInit
<1>2. DOMAIN out = {} /\ padder.pc # "push"
  BY <1>1 DEF NoPadder
<1>3. BegunOK /\ SentOK /\ MetaOK
  BY <1>1, <1>2 DEF BegunOK, SentOK, MetaOK
<1>4. FlightOK
  <2>1. NoFlight \in [sn : Int, source : Sources]
    BY DEF NoFlight, Sources, Padding
  <2> QED BY <1>1, <2>1 DEF FlightOK
<1>5. ASSUME NEW n \in Int PROVE ~LeftOut(seqr.ranges, n)
  <2>1. seqr.ranges = ClearAndResetValue(0, 0)
    BY <1>1 DEF NewSequencer
  <2>2. Len(seqr.ranges) = 1 /\ RangesOK(seqr.ranges)
    BY <2>1, ClearOK
  <2>3. Open(seqr.ranges) = seqr.ranges[1]
    BY <2>2 DEF Open
  <2> QED BY <2>3 DEF LeftOut, HasValue
<1>6. PaddingOK
  BY <1>2, <1>5 DEF PaddingOK
<1>7. SequencerOK(seqr)
  BY <1>1, NewSequencerOK
<1> QED BY <1>3, <1>4, <1>6, <1>7 DEF RecordsInv

LEMMA RecordsNext ==
    ASSUME NumbersInv, RecordsInv, [PacketNext]_packetVars
    PROVE  RecordsInv'
<1>0. BegunOK /\ SentOK /\ FlightOK /\ DOMAIN out \subseteq Int
  BY DEF RecordsInv, NumbersInv, PacketTypeOK
<1>a. DOMAIN out' \subseteq Int
  <2>1. NumbersInv'
    BY NumbersNext
  <2> QED BY <2>1 DEF NumbersInv, PacketTypeOK
<1>b. SendStep /\ BegunOK' => RecordsInv'
  <2>1. SendStep => SendsPadding \/ SendsPacket
    BY DEF SendStep
  <2> QED BY <1>0, <1>a, <2>1, SendsPaddingKeeps, SendsPacketKeeps
<1>1. CASE WriteRTP
  <2>1. PICK l \in Layers, sn \in SNs :
            \/ DropWhileMuted(l, sn)
            \/ \E payload, marker \in BOOLEAN :
                 /\ Comes(l, sn, payload)
                 /\ \/ NotSelected(l, sn, payload, marker) \/ Selected(l, sn, payload, marker)
                    \/ SwitchFails(l, sn, payload)
    BY <1>1 DEF WriteRTP
  <2>2. CASE DropWhileMuted(l, sn)
    BY <1>0, <1>b, <2>2, DropSends
  <2>3. ASSUME NEW payload \in BOOLEAN, NEW marker \in BOOLEAN, Comes(l, sn, payload),
               \/ NotSelected(l, sn, payload, marker) \/ Selected(l, sn, payload, marker)
               \/ SwitchFails(l, sn, payload)
        PROVE  SendStep /\ BegunOK'
    BY <1>0, <2>3, NotSelectedSends, SelectedSends, SwitchFailsSends
  <2> QED BY <1>b, <2>1, <2>2, <2>3
<1>2. CASE \E l \in Layers : Record(l)
  BY <1>0, <1>2, RecordKeeps
<1>3. CASE \E num \in 1 .. 2 : TakePadding(num)
  BY <1>0, <1>b, <1>3, TakePaddingSends
<1>4. CASE PushPadding
  BY <1>0, <1>4, PushPaddingKeeps
<1>5. CASE BlankFrame
  BY <1>0, <1>b, <1>5, BlankFrameSends
<1>6. CASE FlushSequencer
  BY <1>6, FlushKeeps
<1>7. CASE RestartStreams
  BY <1>7, RestartStreamsKeeps
<1>8. CASE \/ \E kind \in {"probe", "onMute"} : CheckPadding(kind)
           \/ (\E n \in DOMAIN out : GetExtPacketMetas(n))
           \/ Retransmit \/ NackDone \/ Control \/ RestartForwarder \/ UNCHANGED packetVars
  BY <1>0, <1>b, <1>8, IdleSends
<1> QED BY <1>1, <1>2, <1>3, <1>4, <1>5, <1>6, <1>7, <1>8 DEF PacketNext

(* The invariant of the records: every packet of the current stream that was  *)
(* sent and recorded is in the slot of its number, for as long as the number  *)
(* is among those that own one.                                               *)
THEOREM RecordsInvariant == PacketSpec => [](NumbersInv /\ RecordsInv)
<1>1. NumbersInv /\ RecordsInv /\ [PacketNext]_packetVars => NumbersInv' /\ RecordsInv'
  BY NumbersNext, RecordsNext
<1> QED BY <1>1, NumbersInitially, RecordsInitially, PTL DEF PacketSpec

(* A number among the newest Slots that is not left out owns a slot. *)
LEMMA RecentOwnsSlot ==
    ASSUME NEW s, SequencerOK(s), NEW n \in Int, n >= 0, ~LeftOut(s.ranges, n),
           n <= s.extHighestSN, s.extHighestSN - n < Slots
    PROVE  HasValue(s.ranges, n)
<1> DEFINE rs == s.ranges
           h  == s.extHighestSN
<1>0. /\ h \in Int /\ SequencerMapOK(rs) /\ RangesOK(rs) /\ Open(rs).start \in Int /\ Open(rs).start <= h + 1
      /\ h >= 0
  BY SequencerFields DEF SequencerOK
<1>1. /\ Len(rs) \in Nat /\ Len(rs) >= 1 /\ Open(rs) = rs[Len(rs)]
  BY <1>0, OpenIs
<1>2. 1 \in 1 .. Len(rs) /\ Len(rs) \in 1 .. Len(rs)
  BY <1>1
<1>3. rs[1].start \in Int
  BY <1>0, <1>2, OpenIs
<1>4. /\ Slots \in Nat \ {0} /\ SequencerRanges \in Nat \ {0} /\ 2 * SequencerRanges >= Slots
  BY SequencerAssumption, SequencerRangesType
<1>5. Len(rs) <= SequencerRanges + 1 /\ (Len(rs) <= SequencerRanges => rs[1].start = 0)
  BY <1>0 DEF SequencerMapOK
<1> SUFFICES ASSUME ~HasValue(rs, n) PROVE FALSE
  OBVIOUS
<1>6. n < rs[1].start
  BY <1>3 DEF LeftOut
<1>7. CASE Len(rs) <= SequencerRanges
  BY <1>5, <1>6, <1>7
<1>8. CASE ~(Len(rs) <= SequencerRanges)
  <2> DEFINE L == Len(rs)
  <2>1. L = SequencerRanges + 1 /\ L \in Int /\ 1 < L
    BY <1>1, <1>4, <1>5, <1>8
  <2>2. rs[1].start + 2 * (L - 1) <= rs[L].start
    BY <1>0, <1>2, <2>1, MapOrdered
  <2>3. rs[L].start <= h + 1 /\ rs[L].start \in Int
    BY <1>0, <1>1
  <2> HIDE DEF L
  <2>4. 2 * (L - 1) >= Slots
    BY <1>4, <2>1
  <2>5. rs[1].start + Slots <= h + 1
    BY <1>0, <1>3, <1>4, <2>1, <2>2, <2>3, <2>4
  <2> QED BY <1>0, <1>3, <1>4, <1>6, <2>5
<1> QED BY <1>7, <1>8

(* What is looked up for a number not too far behind. *)
LEMMA LookupIs ==
    ASSUME NEW s, SequencerOK(s), s.initialized, NEW n \in Int, n <= s.extHighestSN,
           s.extHighestSN - n <= SNModulus \div 2
    PROVE  LET meta == s.meta[Num(s.ranges, n) % Slots] IN
           ExtPacketMeta(s, n % SNModulus)
             = IF /\ HasValue(s.ranges, n) /\ HighestAdjusted(s) - Num(s.ranges, n) \in 0 .. Slots - 1
                  /\ meta.target = n % SNModulus
               THEN meta ELSE NoMeta
<1>0. s.extHighestSN \in Int /\ SNModulus \in Nat /\ SNModulus >= 2
  BY SequencerFields, SequencerAssumption
<1>1. SNModulus \div 2 < SNModulus /\ SNModulus \div 2 \in Int
  BY <1>0
<1>2. s.extHighestSN - n < SNModulus
  BY <1>0, <1>1
<1>3. Extended(s, n % SNModulus) = n /\ Behind(s, n % SNModulus) = s.extHighestSN - n
  BY <1>0, <1>2, ExtendedIs
<1> DEFINE sn == n % SNModulus
<1>4. ExtPacketMeta(s, sn) = IF IsRecent(s, n) /\ s.meta[SlotOf(s, n)].target = sn THEN s.meta[SlotOf(s, n)] ELSE NoMeta
  BY <1>3 DEF ExtPacketMeta
<1> HIDE DEF sn
<1>5. ExtPacketMeta(s, sn) = LET meta == s.meta[Num(s.ranges, n) % Slots] IN
             IF /\ HasValue(s.ranges, n) /\ HighestAdjusted(s) - Num(s.ranges, n) \in 0 .. Slots - 1
                /\ meta.target = sn
             THEN meta ELSE NoMeta
  BY <1>4, Zenon DEF IsRecent, SlotOf, Num
<1> QED BY <1>5 DEF sn

LEMMA RecordedIsHeld ==
    ASSUME RecordsInv, DOMAIN out \subseteq Int, NEW n \in DOMAIN out, Recorded(n)
    PROVE  /\ n \in Int /\ n >= 1 /\ SequencerOK(seqr) /\ seqr.initialized /\ ~LeftOut(seqr.ranges, n)
           /\ n \notin wiped => Holds(seqr, n, out[n])
<1>1. SentOK /\ PaddingOK /\ SequencerOK(seqr) /\ MetaOK
  BY DEF RecordsInv
<1>2. n \in Int /\ n >= 1
  BY <1>1 DEF SentOK
<1>3. ~LeftOut(seqr.ranges, n)
  BY <1>1, <1>2 DEF PaddingOK, IsPad, Recorded
<1> QED BY <1>1, <1>2, <1>3 DEF MetaOK

LEMMA RecentFound ==
    ASSUME RecordsInv, DOMAIN out \subseteq Int
    PROVE  RecentIsFound
<1> SUFFICES ASSUME NEW n \in DOMAIN out,
                    n \notin wiped, out[n] # Padding, out[n][2] = gen, Landed(n),
                    n >= seqr.extStartSN, seqr.extHighestSN - n < Slots
             PROVE  ExtPacketMeta(seqr, n % SNModulus).source = out[n]
  BY DEF RecentIsFound, Landed
<1> DEFINE h  == seqr.extHighestSN
           ha == HighestAdjusted(seqr)
           p  == Num(seqr.ranges, n)
           sn == n % SNModulus
           at == p % Slots
<1>1. /\ n \in Int /\ n >= 1 /\ SequencerOK(seqr) /\ seqr.initialized /\ ~LeftOut(seqr.ranges, n)
      /\ Holds(seqr, n, out[n])
  <2>1. Recorded(n)
    BY DEF Recorded
  <2> QED BY <2>1, RecordedIsHeld
<1>2. /\ h \in Int /\ seqr.snOffset \in Int /\ ha = h - seqr.snOffset /\ ha \in Int
  BY <1>1, SequencerFields
<1>3. Slots \in Nat \ {0} /\ SNModulus \in Nat /\ 2 * Slots <= SNModulus
  BY SequencerAssumption
<1>4. n <= h
  <2> SUFFICES ASSUME ~(n <= h) PROVE FALSE
    OBVIOUS
  <2>1. n >= h /\ h - n < 0
    BY <1>1, <1>2
  <2>2. HasValue(seqr.ranges, n) /\ p = n - seqr.snOffset
    BY <1>1, <2>1, AtTheTop
  <2>3. ha - p < Slots
    BY <1>1, <1>2, <1>3, <2>1, <2>2
  <2> QED BY <1>1, <2>2, <2>3 DEF Holds
<1>5. HasValue(seqr.ranges, n)
  <2>1. n >= 0
    BY <1>1
  <2> QED BY <1>1, <1>4, <2>1, RecentOwnsSlot
<1>6. p \in Int /\ p <= ha /\ ha - p <= h - n
  BY <1>1, <1>4, <1>5, Position
<1>7. ha - p < Slots /\ ha - p \in 0 .. Slots - 1
  <2> HIDE DEF p, ha
  <2>1. ha - p < Slots
    BY <1>1, <1>2, <1>3, <1>6
  <2> QED BY <1>2, <1>3, <1>6, <2>1
<1>8. seqr.meta[at] = [source |-> out[n], target |-> sn]
  BY <1>1, <1>5, <1>7 DEF Holds
<1>9. h - n <= SNModulus \div 2
  BY <1>1, <1>2, <1>3
<1>10. ExtPacketMeta(seqr, sn) = IF /\ HasValue(seqr.ranges, n) /\ ha - p \in 0 .. Slots - 1
                                    /\ seqr.meta[at].target = sn
                                 THEN seqr.meta[at] ELSE NoMeta
  BY <1>1, <1>4, <1>9, LookupIs, Zenon
<1> HIDE DEF h, ha, p, sn, at
<1>11. ExtPacketMeta(seqr, sn) = [source |-> out[n], target |-> sn]
  BY <1>5, <1>7, <1>8, <1>10
<1>12. ExtPacketMeta(seqr, sn).source = out[n]
  BY <1>11
<1> QED BY <1>12 DEF sn

(* Sequencer: for any size of the ring, any stream and any number of          *)
(* paddings, late packets, restarts and NACKs, with the steps of the layers,  *)
(* the prober and the restart interleaved in any way: a recorded packet       *)
(* among the newest Slots numbers is found again by a NACK.                   *)
THEOREM RecentStaysFound == PacketSpec => []RecentIsFound
<1>1. NumbersInv /\ RecordsInv => RecentIsFound
  BY RecentFound DEF NumbersInv, PacketTypeOK
<1> QED BY <1>1, RecordsInvariant, PTL

(* Of what NackFindsWhatWasSent says, the part that does not depend on the    *)
(* sizes: the NACKed packet is of the current stream and was recorded, and    *)
(* its number is at most half a turn behind the highest.                      *)
RecordedIsWhatIsFound ==
    [][(/\ nacker.pc = "idle" /\ nacker'.pc = "read"
        /\ Recorded(nacker'.sn) /\ nacker'.sn \notin wiped
        /\ nacker'.sn >= seqr.extStartSN /\ nacker'.sn <= seqr.extHighestSN
        /\ seqr.extHighestSN - nacker'.sn <= SNModulus \div 2)
       => nacker'.source = out[nacker'.sn]]_packetVars

LEMMA NackStep ==
    ASSUME [PacketNext]_packetVars, nacker.pc = "idle", nacker'.pc = "read"
    PROVE  \E n \in DOMAIN out : GetExtPacketMetas(n)
<1>1. nacker' # nacker
  OBVIOUS
<1>2. ASSUME WriteRTP PROVE FALSE
  <2>1. \E l \in Layers, sn \in SNs, payload \in BOOLEAN : Comes(l, sn, payload)
    BY <1>2 DEF WriteRTP, DropWhileMuted
  <2> QED BY <1>1, <2>1 DEF Comes
<1>3. ASSUME NEW l \in Layers, Record(l) PROVE FALSE
  BY <1>1, <1>3 DEF Record
<1>4. ASSUME NEW kind, CheckPadding(kind) PROVE FALSE
  BY <1>1, <1>4 DEF CheckPadding
<1>5. ASSUME NEW num, TakePadding(num) PROVE FALSE
  BY <1>1, <1>5 DEF TakePadding
<1>6. ASSUME PushPadding \/ BlankFrame \/ Control PROVE FALSE
  BY <1>1, <1>6 DEF PushPadding, BlankFrame, Control
<1>7. ASSUME RestartStreams \/ RestartForwarder \/ FlushSequencer PROVE FALSE
  BY <1>1, <1>7 DEF RestartStreams, RestartForwarder, FlushSequencer
<1>8. ASSUME Retransmit \/ NackDone PROVE FALSE
  BY <1>8 DEF Retransmit, NackDone
<1>9. ASSUME UNCHANGED packetVars PROVE FALSE
  BY <1>1, <1>9 DEF packetVars
<1> QED BY <1>2, <1>3, <1>4, <1>5, <1>6, <1>7, <1>8, <1>9 DEF PacketNext

(* Sequencer: the look-up for a NACK never takes another packet for one that  *)
(* was recorded, although slots are shared and numbers come back after a full *)
(* turn: it returns what was sent under the number, or nothing.               *)
THEOREM RecordedIsNotMistaken == PacketSpec => RecordedIsWhatIsFound
<1>1. ASSUME NumbersInv, RecordsInv, [PacketNext]_packetVars,
             nacker.pc = "idle", nacker'.pc = "read", Recorded(nacker'.sn), nacker'.sn \notin wiped,
             nacker'.sn >= seqr.extStartSN, nacker'.sn <= seqr.extHighestSN,
             seqr.extHighestSN - nacker'.sn <= SNModulus \div 2
      PROVE  nacker'.source = out[nacker'.sn]
  <2>1. PICK n \in DOMAIN out : GetExtPacketMetas(n)
    BY <1>1, NackStep
  <2>2. ExtPacketMeta(seqr, n % SNModulus) # NoMeta /\ nacker'.sn = n
        /\ nacker'.source = ExtPacketMeta(seqr, n % SNModulus).source
    BY <2>1 DEF GetExtPacketMetas
  <2>3. DOMAIN out \subseteq Int
    BY <1>1 DEF NumbersInv, PacketTypeOK
  <2>4. /\ n \in Int /\ SequencerOK(seqr) /\ seqr.initialized /\ Holds(seqr, n, out[n])
    BY <1>1, <2>2, <2>3, RecordedIsHeld
  <2> DEFINE meta == seqr.meta[Num(seqr.ranges, n) % Slots]
             recent == HasValue(seqr.ranges, n) /\ HighestAdjusted(seqr) - Num(seqr.ranges, n) \in 0 .. Slots - 1
             sn == n % SNModulus
  <2>5. ExtPacketMeta(seqr, sn) = IF recent /\ meta.target = sn THEN meta ELSE NoMeta
    BY <1>1, <2>2, <2>4, LookupIs, Zenon
  <2>6. recent => meta = [source |-> out[n], target |-> sn]
    <3> HAVE recent
    <3>1. HighestAdjusted(seqr) - Num(seqr.ranges, n) < Slots
      BY SequencerAssumption
    <3> QED BY <1>1, <2>2, <2>4, <3>1 DEF Holds
  <2> HIDE DEF meta, recent, sn
  <2>7. ExtPacketMeta(seqr, sn) = [source |-> out[n], target |-> sn]
    BY <2>2, <2>5, <2>6 DEF sn
  <2>8. ExtPacketMeta(seqr, sn).source = out[n]
    BY <2>7
  <2> QED BY <2>2, <2>8 DEF sn
<1>2. NumbersInv /\ RecordsInv /\ [PacketNext]_packetVars
        => [(/\ nacker.pc = "idle" /\ nacker'.pc = "read"
             /\ Recorded(nacker'.sn) /\ nacker'.sn \notin wiped
             /\ nacker'.sn >= seqr.extStartSN /\ nacker'.sn <= seqr.extHighestSN
             /\ seqr.extHighestSN - nacker'.sn <= SNModulus \div 2)
            => nacker'.source = out[nacker'.sn]]_packetVars
  BY <1>1
<1> QED BY <1>2, RecordsInvariant, PTL DEF PacketSpec, RecordedIsWhatIsFound

-----------------------------------------------------------------------------
(* What the slots hold, whatever their age.                                 *)

(* x was sent under the number m; where the selector can be that of VP9, the  *)
(* number may have been spent on padding again.                               *)
WasSent(again, m, x) == m \in DOMAIN out /\ (out[m] = x \/ (again /\ out[m] = Padding))

(* A slot holds a packet that was sent under a number its target stands for.  *)
SlotsInv(again) ==
    /\ \A l \in Layers : flight[l] # NoFlight => WasSent(again, flight[l].sn, flight[l].source)
    /\ \A i \in 0 .. Slots - 1 : seqr.meta[i] # NoMeta =>
         \E m \in DOMAIN out : seqr.meta[i].target = m % SNModulus /\ WasSent(again, m, seqr.meta[i].source)

(* Only VP9 without descriptors selects like VP9. *)
IsVP9      == scope.codec = "VP9"
SelectorOK == ~IsVP9 => fwd.selector # "vp9"

LEMMA SelectorStays ==
    ASSUME NumbersInv, SelectorOK, [PacketNext]_packetVars
    PROVE  SelectorOK' /\ IsVP9' = IsVP9
<1>0. /\ fwd \in Forwarder /\ scope \in Scopes
      /\ \A x : [fwd EXCEPT !.started = x].selector = fwd.selector
  BY DEF NumbersInv, PacketTypeOK, Forwarder
<1>a. ASSUME scope' = scope, fwd'.selector = fwd.selector \/ (~IsVP9 => fwd'.selector # "vp9")
      PROVE  SelectorOK' /\ IsVP9' = IsVP9
  BY <1>a DEF SelectorOK, IsVP9
<1>1. CASE WriteRTP
  <2>1. PICK l \in Layers, sn \in SNs :
            \/ DropWhileMuted(l, sn)
            \/ \E payload, marker \in BOOLEAN :
                 /\ Comes(l, sn, payload)
                 /\ \/ NotSelected(l, sn, payload, marker) \/ Selected(l, sn, payload, marker)
                    \/ SwitchFails(l, sn, payload)
    BY <1>1 DEF WriteRTP
  <2>2. CASE DropWhileMuted(l, sn)
    BY <1>a, <2>2 DEF DropWhileMuted, Comes
  <2>3. ASSUME NEW payload \in BOOLEAN, NEW marker \in BOOLEAN, Comes(l, sn, payload),
               NotSelected(l, sn, payload, marker)
        PROVE  SelectorOK' /\ IsVP9' = IsVP9
    <3>1. PICK c : fwd' = [fwd EXCEPT !.cur = c, !.selector = NextSelector(payload)]
      BY <2>3 DEF NotSelected
    <3>2. fwd'.selector = NextSelector(payload)
      BY <1>0, <3>1 DEF Forwarder
    <3>3. NextSelector(payload) = fwd.selector \/ (~IsVP9 => NextSelector(payload) # "vp9")
      BY DEF NextSelector, IsVP9
    <3>4. scope' = scope
      BY <2>3 DEF Comes
    <3> QED BY <1>a, <3>2, <3>3, <3>4
  <2>4. ASSUME NEW payload \in BOOLEAN, NEW marker \in BOOLEAN, Comes(l, sn, payload),
               Selected(l, sn, payload, marker)
        PROVE  SelectorOK' /\ IsVP9' = IsVP9
    <3>1. PICK c : fwd' = [fwd EXCEPT !.cur = c, !.started = TRUE, !.lastSSRC = l, !.ref = TRUE]
      BY <2>4 DEF Selected
    <3>2. fwd'.selector = fwd.selector
      BY <1>0, <3>1 DEF Forwarder
    <3> QED BY <1>a, <2>4, <3>2 DEF Comes
  <2>5. ASSUME NEW payload \in BOOLEAN, Comes(l, sn, payload), SwitchFails(l, sn, payload)
        PROVE  SelectorOK' /\ IsVP9' = IsVP9
    <3>1. PICK c, r : fwd' = [fwd EXCEPT !.cur = c, !.ref = r]
      BY <2>5 DEF SwitchFails
    <3>2. fwd'.selector = fwd.selector
      BY <1>0, <3>1 DEF Forwarder
    <3> QED BY <1>a, <2>5, <3>2 DEF Comes
  <2> QED BY <2>1, <2>2, <2>3, <2>4, <2>5
<1>2. CASE Control
  <2>1. \/ fwd' = fwd \/ \E t : fwd' = [fwd EXCEPT !.target = t]
        \/ \E t : fwd' = [fwd EXCEPT !.cur = NoLayer, !.lastSSRC = NoLayer, !.target = t]
    BY <1>2 DEF Control, Mute, Unmute, SetTargetLayer, Resync
  <2>2. fwd'.selector = fwd.selector
    BY <1>0, <2>1 DEF Forwarder
  <2> QED BY <1>2, <1>a, <2>2 DEF Control
<1>3. CASE RestartForwarder
  <2>1. fwd'.selector = Selector
    BY <1>0, <1>3 DEF RestartForwarder, Forwarder
  <2> QED BY <1>0, <1>3, <1>a, <2>1, SelectorIs DEF RestartForwarder, IsVP9
<1>4. CASE \E num \in 1 .. 2 : TakePadding(num)
  BY <1>0, <1>4, <1>a DEF TakePadding
<1>5. CASE \/ \E l \in Layers : Record(l)
           \/ \E kind \in {"probe", "onMute"} : CheckPadding(kind)
           \/ (\E n \in DOMAIN out : GetExtPacketMetas(n))
           \/ PushPadding \/ BlankFrame \/ Retransmit \/ NackDone \/ RestartStreams \/ FlushSequencer \/ UNCHANGED packetVars
  BY <1>5, <1>a DEF Record, CheckPadding, GetExtPacketMetas, PushPadding, BlankFrame, Retransmit, NackDone,
              RestartStreams, FlushSequencer, packetVars, fwVars
<1> QED BY <1>1, <1>2, <1>3, <1>4, <1>5 DEF PacketNext

(* What a step does to the numbers that were sent, and to the sequencer. *)
SlotsStep ==
    \/ SendStep
    \/ \E l \in Layers : Record(l)
    \/ PushPadding \/ FlushSequencer \/ RestartStreams

LEMMA SlotsSteps ==
    ASSUME NumbersInv, RecordsInv, [PacketNext]_packetVars
    PROVE  SlotsStep
<1>0. BegunOK /\ SentOK /\ FlightOK /\ DOMAIN out \subseteq Int
  BY DEF RecordsInv, NumbersInv, PacketTypeOK
<1>1. CASE WriteRTP
  <2>1. PICK l \in Layers, sn \in SNs :
            \/ DropWhileMuted(l, sn)
            \/ \E payload, marker \in BOOLEAN :
                 /\ Comes(l, sn, payload)
                 /\ \/ NotSelected(l, sn, payload, marker) \/ Selected(l, sn, payload, marker)
                    \/ SwitchFails(l, sn, payload)
    BY <1>1 DEF WriteRTP
  <2>2. CASE DropWhileMuted(l, sn)
    BY <1>0, <2>2, DropSends DEF SlotsStep
  <2>3. ASSUME NEW payload \in BOOLEAN, NEW marker \in BOOLEAN, Comes(l, sn, payload),
               \/ NotSelected(l, sn, payload, marker) \/ Selected(l, sn, payload, marker)
               \/ SwitchFails(l, sn, payload)
        PROVE  SendStep
    BY <1>0, <2>3, NotSelectedSends, SelectedSends, SwitchFailsSends
  <2> QED BY <2>1, <2>2, <2>3 DEF SlotsStep
<1>2. CASE (\E l \in Layers : Record(l)) \/ PushPadding \/ FlushSequencer \/ RestartStreams
  BY <1>2 DEF SlotsStep
<1>3. CASE \E num \in 1 .. 2 : TakePadding(num)
  BY <1>0, <1>3, TakePaddingSends DEF SlotsStep
<1>4. CASE BlankFrame
  BY <1>0, <1>4, BlankFrameSends DEF SlotsStep
<1>5. CASE \/ \E kind \in {"probe", "onMute"} : CheckPadding(kind)
           \/ (\E n \in DOMAIN out : GetExtPacketMetas(n))
           \/ Retransmit \/ NackDone \/ Control \/ RestartForwarder \/ UNCHANGED packetVars
  BY <1>0, <1>5, IdleSends DEF SlotsStep
<1> QED BY <1>1, <1>2, <1>3, <1>4, <1>5 DEF PacketNext

(* What was sent stays sent. *)
LEMMA SentStaysSent ==
    ASSUME NumbersInv, RecordsInv, [PacketNext]_packetVars, NEW again \in BOOLEAN, OutOfSync => again,
           NEW m, NEW x, WasSent(again, m, x)
    PROVE  m \in DOMAIN out' /\ (out'[m] = x \/ (again /\ out'[m] = Padding))
<1>0. fwd \in Forwarder /\ m \in DOMAIN out
  BY DEF NumbersInv, PacketTypeOK, WasSent
<1>1. CASE ~OutOfSync
  <2>1. m \in DOMAIN out' /\ out'[m] = out[m]
    BY <1>0, <1>1, NumbersNext DEF NumbersStep
  <2> QED BY <2>1 DEF WasSent
<1>2. CASE OutOfSync
  <2>1. m \in DOMAIN out' /\ out'[m] \in {out[m], Padding}
    <3>1. CASE SendStep
      BY <1>0, <3>1 DEF SendStep
    <3>2. CASE \/ \E l \in Layers : Record(l)
               \/ PushPadding \/ FlushSequencer \/ RestartStreams
      BY <1>0, <3>2 DEF Record, PushPadding, FlushSequencer, RestartStreams, histVars
    <3> QED BY <3>1, <3>2, SlotsSteps DEF SlotsStep
  <2> QED BY <1>2, <2>1 DEF WasSent
<1> QED BY <1>1, <1>2

LEMMA PushSlots ==
    ASSUME NEW s, SequencerOK(s), NEW sn, NEW x, NEW i \in 0 .. Slots - 1
    PROVE  SequencerPush(s, sn, x).meta[i] \in {s.meta[i], NoMeta, [source |-> x, target |-> sn % SNModulus]}
<1> DEFINE s1 == Initialized(s, sn)
           at == Adjusted(s1, sn)
           skipped == {a % Slots : a \in HighestAdjusted(s1) + 1 .. at - 1}
           r  == [s1 EXCEPT !.meta = [j \in 0 .. Slots - 1 |->
                                IF j = at % Slots THEN [source |-> x, target |-> sn % SNModulus]
                                ELSE IF j \in skipped THEN NoMeta ELSE s1.meta[j]],
                   !.extHighestSN = IF sn > s1.extHighestSN THEN sn ELSE s1.extHighestSN]
<1>1. s \in SequencerType
  BY DEF SequencerOK
<1>2. s1.meta = s.meta /\ DOMAIN s1 = DOMAIN s
  BY <1>1 DEF Initialized, UpdateSNOffset, SequencerType
<1>3. SequencerPush(s, sn, x) = IF ~CanRecord(s1, sn) THEN s1 ELSE r
  BY DEF SequencerPush
<1>4. "meta" \in DOMAIN s1
  BY <1>1, <1>2 DEF SequencerType
<1> HIDE DEF s1, at, skipped
<1>5. r.meta[i] \in {s1.meta[i], NoMeta, [source |-> x, target |-> sn % SNModulus]}
  BY <1>4
<1> HIDE DEF r
<1> QED BY <1>2, <1>3, <1>5

LEMMA PaddingSlots ==
    ASSUME NEW s, SequencerOK(s), NEW first, NEW last, NEW i \in 0 .. Slots - 1
    PROVE  SequencerPushPadding(s, first, last).meta[i] \in {s.meta[i], NoMeta}
<1>1. s \in SequencerType
  BY DEF SequencerOK
<1> DEFINE late == [s EXCEPT !.meta = [j \in 0 .. Slots - 1 |->
                                     IF j \in LateSlots(s, first, last) THEN NoMeta ELSE s.meta[j]]]
           far  == [s EXCEPT !.ranges = ExcludeRange(s.ranges, SequencerRanges, first, last + 1),
                             !.extHighestSN = last]
           next == UpdateSNOffset(far)
<1>2. late.meta[i] \in {s.meta[i], NoMeta}
  BY <1>1 DEF SequencerType
<1>3. next.meta = s.meta
  BY <1>1 DEF UpdateSNOffset, SequencerType
<1>4. SequencerPushPadding(s, first, last) \in {s, late, next}
  BY DEF SequencerPushPadding
<1> HIDE DEF late, next, far
<1> QED BY <1>2, <1>3, <1>4

LEMMA SlotsNext ==
    ASSUME NumbersInv, RecordsInv, [PacketNext]_packetVars, NEW again \in BOOLEAN, OutOfSync => again,
           SlotsInv(again)
    PROVE  SlotsInv(again)'
<1>0. /\ SlotsStep /\ SequencerOK(seqr) /\ FlightOK /\ SentOK
      /\ flight \in [Layers -> [sn : Int, source : Sources]]
  BY SlotsSteps DEF RecordsInv, FlightOK
<1> DEFINE Sent(m, x)    == m \in DOMAIN out' /\ (out'[m] = x \/ (again /\ out'[m] = Padding))
           Stands(t, x)  == \E m \in DOMAIN out' : t = m % SNModulus /\ Sent(m, x)
<1>1. \A m, x : WasSent(again, m, x) => Sent(m, x)
  BY SentStaysSent
<1>2. \A l \in Layers : flight[l] # NoFlight => Sent(flight[l].sn, flight[l].source)
  BY <1>1 DEF SlotsInv
<1>3. \A i \in 0 .. Slots - 1 : seqr.meta[i] # NoMeta => Stands(seqr.meta[i].target, seqr.meta[i].source)
  <2> SUFFICES ASSUME NEW i \in 0 .. Slots - 1, seqr.meta[i] # NoMeta
               PROVE  Stands(seqr.meta[i].target, seqr.meta[i].source)
    OBVIOUS
  <2>1. PICK m \in DOMAIN out : seqr.meta[i].target = m % SNModulus /\ WasSent(again, m, seqr.meta[i].source)
    BY DEF SlotsInv
  <2>2. Sent(m, seqr.meta[i].source)
    BY <1>1, <2>1
  <2> QED BY <2>1, <2>2
<1> SUFFICES /\ \A l \in Layers : flight'[l] # NoFlight => Sent(flight'[l].sn, flight'[l].source)
             /\ \A i \in 0 .. Slots - 1 :
                  seqr'.meta[i] # NoMeta => Stands(seqr'.meta[i].target, seqr'.meta[i].source)
  BY Zenon DEF SlotsInv, WasSent, Layers, NoFlight, NoMeta, Padding
<1> HIDE DEF Stands
<1>4. CASE SendStep
  <2>1. seqr' = seqr
    BY <1>4 DEF SendStep
  <2>2. ASSUME NEW l \in Layers, flight'[l] # NoFlight PROVE Sent(flight'[l].sn, flight'[l].source)
    <3>1. CASE flight' = flight
      BY <1>2, <2>2, <3>1
    <3>2. CASE SendsPacket
      <4>1. PICK l2 \in Layers, n \in DOMAIN out', x \in Sources :
              flight' = [flight EXCEPT ![l2] = [sn |-> n, source |-> x]] /\ out'[n] = x
        BY <3>2 DEF SendsPacket
      <4>2. CASE l = l2
        <5>1. flight'[l].sn = n /\ flight'[l].source = x
          BY <1>0, <4>1, <4>2
        <5> QED BY <4>1, <5>1
      <4>3. CASE l # l2
        <5>1. flight'[l] = flight[l]
          BY <1>0, <4>1, <4>3
        <5> QED BY <1>2, <2>2, <5>1
      <4> QED BY <4>2, <4>3
    <3> QED BY <1>4, <3>1, <3>2 DEF SendStep, SendsPadding
  <2> QED BY <1>3, <2>1, <2>2
<1>5. ASSUME NEW l \in Layers, Record(l)
      PROVE  /\ \A k \in Layers : flight'[k] # NoFlight => Sent(flight'[k].sn, flight'[k].source)
             /\ \A i \in 0 .. Slots - 1 :
                  seqr'.meta[i] # NoMeta => Stands(seqr'.meta[i].target, seqr'.meta[i].source)
  <2>1. /\ flight[l] # NoFlight /\ flight' = [flight EXCEPT ![l] = NoFlight]
        /\ seqr' = SequencerPush(seqr, flight[l].sn, flight[l].source)
    BY <1>5 DEF Record
  <2>2. ASSUME NEW k \in Layers, flight'[k] # NoFlight PROVE Sent(flight'[k].sn, flight'[k].source)
    <3>1. flight'[k] = flight[k]
      BY <1>0, <2>1, <2>2
    <3> QED BY <1>2, <2>2, <3>1
  <2>3. Sent(flight[l].sn, flight[l].source)
    BY <1>2, <2>1
  <2>4. Stands(flight[l].sn % SNModulus, flight[l].source)
    BY <2>3 DEF Stands
  <2>5. ASSUME NEW i \in 0 .. Slots - 1, seqr'.meta[i] # NoMeta
        PROVE  Stands(seqr'.meta[i].target, seqr'.meta[i].source)
    <3> DEFINE new == [source |-> flight[l].source, target |-> flight[l].sn % SNModulus]
    <3>1. seqr'.meta[i] \in {seqr.meta[i], NoMeta, new}
      BY <1>0, <2>1, PushSlots
    <3>2. CASE seqr'.meta[i] = seqr.meta[i]
      BY <1>3, <2>5, <3>2
    <3>3. CASE seqr'.meta[i] = new
      <4>1. seqr'.meta[i].target = flight[l].sn % SNModulus /\ seqr'.meta[i].source = flight[l].source
        BY <3>3
      <4> QED BY <2>4, <4>1
    <3> QED BY <2>5, <3>1, <3>2, <3>3
  <2> QED BY <2>2, <2>5
<1>6. CASE PushPadding
  <2>1. flight' = flight /\ seqr' = SequencerPushPadding(seqr, padder.first, padder.last)
    BY <1>6 DEF PushPadding
  <2>2. \A i \in 0 .. Slots - 1 : seqr'.meta[i] \in {seqr.meta[i], NoMeta}
    BY <1>0, <2>1, PaddingSlots
  <2>3. ASSUME NEW i \in 0 .. Slots - 1, seqr'.meta[i] # NoMeta PROVE seqr'.meta[i] = seqr.meta[i]
    BY <2>2, <2>3
  <2> QED BY <1>2, <1>3, <2>1, <2>3
<1>7. CASE FlushSequencer
  <2>1. flight' = flight /\ seqr' = NewSequencer
    BY <1>7 DEF FlushSequencer, SequencerFlush
  <2>2. \A i \in 0 .. Slots - 1 : seqr'.meta[i] = NoMeta
    BY <2>1 DEF NewSequencer
  <2> QED BY <1>2, <2>1, <2>2
<1>8. CASE RestartStreams
  <2>1. flight' = flight /\ seqr' = seqr
    BY <1>8 DEF RestartStreams, seqVars
  <2> QED BY <1>2, <1>3, <2>1
<1> QED BY <1>0, <1>4, <1>5, <1>6, <1>7, <1>8 DEF SlotsStep

LEMMA SlotsInitially ==
    ASSUME PacketInit, NEW again \in BOOLEAN
    PROVE  SlotsInv(again)
<1>1. flight = [l \in Layers |-> NoFlight] /\ seqr = NewSequencer
  BY DEF PacketInit
<1>2. \A i \in 0 .. Slots - 1 : seqr.meta[i] = NoMeta
  BY <1>1 DEF NewSequencer
<1> QED BY <1>1, <1>2 DEF SlotsInv

(* The invariant of the slots: whatever the sequencer holds, however old, was *)
(* sent under a number that has the target's 16 bits.                         *)
THEOREM SlotsInvariant == PacketSpec => [](NumbersInv /\ RecordsInv /\ SelectorOK /\ SlotsInv(IsVP9))
<1>1. ASSUME NumbersInv, RecordsInv, SelectorOK, SlotsInv(IsVP9), [PacketNext]_packetVars
      PROVE  SelectorOK' /\ SlotsInv(IsVP9)'
  <2>1. SelectorOK' /\ IsVP9' = IsVP9
    BY <1>1, SelectorStays
  <2>2. PICK again \in BOOLEAN : again = IsVP9
    BY DEF IsVP9
  <2>3. OutOfSync => again
    BY <1>1, <2>2 DEF OutOfSync, SelectorOK
  <2>4. SlotsInv(again)'
    BY <1>1, <2>2, <2>3, SlotsNext
  <2> QED BY <2>1, <2>2, <2>4
<1>2. PacketInit => SelectorOK /\ SlotsInv(IsVP9)
  <2> SUFFICES ASSUME PacketInit PROVE SelectorOK /\ SlotsInv(IsVP9)
    OBVIOUS
  <2>1. SelectorOK
    BY SelectorIs DEF PacketInit, SelectorOK, IsVP9
  <2>2. IsVP9 \in BOOLEAN
    BY DEF IsVP9
  <2> QED BY <2>1, <2>2, SlotsInitially
<1> QED BY <1>1, <1>2, RecordsInvariant, PTL DEF PacketSpec

(* What a NACK is answered with comes from a slot. *)
LEMMA AnswerIsSent ==
    ASSUME NumbersInv, RecordsInv, [PacketNext]_packetVars, nacker.pc = "idle", nacker'.pc = "read",
           NEW again \in BOOLEAN, SlotsInv(again)
    PROVE  /\ nacker'.sn \in DOMAIN out
           /\ \E m \in DOMAIN out : m % SNModulus = nacker'.sn % SNModulus /\ WasSent(again, m, nacker'.source)
<1>1. PICK n \in DOMAIN out : GetExtPacketMetas(n)
  BY NackStep
<1> DEFINE sn   == n % SNModulus
           k    == Extended(seqr, sn)
           meta == seqr.meta[SlotOf(seqr, k)]
<1>2. /\ ExtPacketMeta(seqr, sn) # NoMeta /\ nacker'.sn = n
      /\ nacker'.source = ExtPacketMeta(seqr, sn).source
  BY <1>1 DEF GetExtPacketMetas
<1>3. ExtPacketMeta(seqr, sn) = meta /\ IsRecent(seqr, k) /\ meta.target = sn
  BY <1>2, Zenon DEF ExtPacketMeta
<1>4. SlotOf(seqr, k) \in 0 .. Slots - 1
  <2>1. SequencerOK(seqr) /\ n \in Int
    BY DEF RecordsInv, NumbersInv, PacketTypeOK
  <2>2. seqr.extHighestSN \in Int /\ RangesOK(seqr.ranges) /\ SNModulus \in Nat \ {0} /\ Slots \in Nat \ {0}
    BY <2>1, SequencerFields, SequencerAssumption
  <2>3. sn \in Int /\ seqr.extHighestSN % SNModulus \in Int
    <3>1. \A i \in 0 .. SNModulus - 1 : i \in Int
      OBVIOUS
    <3>2. sn \in 0 .. SNModulus - 1 /\ seqr.extHighestSN % SNModulus \in 0 .. SNModulus - 1
      BY <2>1, <2>2, Remainder, Zenon
    <3> QED BY <3>1, <3>2, Zenon
  <2>4. k \in Int
    <3> HIDE DEF sn
    <3> DEFINE top == seqr.extHighestSN % SNModulus
    <3>1. k = IF sn > top THEN seqr.extHighestSN - top + sn - SNModulus ELSE seqr.extHighestSN - top + sn
      BY DEF Extended
    <3> HIDE DEF top, k
    <3>2. top \in Int
      BY <2>3 DEF top
    <3> QED BY <2>2, <2>3, <3>1, <3>2
  <2> HIDE DEF k
  <2>5. Num(seqr.ranges, k) \in Int
    BY <1>3, <2>2, <2>4, ValueType DEF IsRecent
  <2>6. SlotOf(seqr, k) = Num(seqr.ranges, k) % Slots
    BY DEF SlotOf, Num
  <2> QED BY <2>2, <2>5, <2>6, Remainder
<1> HIDE DEF k
<1>5. meta # NoMeta
  BY <1>2, <1>3
<1>6. PICK m \in DOMAIN out : meta.target = m % SNModulus /\ WasSent(again, m, meta.source)
  BY <1>4, <1>5 DEF SlotsInv
<1>7. m % SNModulus = nacker'.sn % SNModulus
  BY <1>2, <1>3, <1>6
<1>8. nacker'.source = meta.source
  BY <1>2, <1>3
<1> HIDE DEF meta
<1>9. WasSent(again, m, nacker'.source)
  BY <1>6, <1>8
<1> QED BY <1>2, <1>7, <1>9

(* The answer to a NACK, whatever is NACKed and however late: a packet that   *)
(* was sent under the number's 16 bits.                                       *)
AnswersWereSent ==
    [][nacker.pc = "idle" /\ nacker'.pc = "read" =>
        \E m \in DOMAIN out : m % SNModulus = nacker'.sn % SNModulus /\ WasSent(IsVP9, m, nacker'.source)]_packetVars

(* Sequencer: no stale or half-written slot is ever taken for an answer; at   *)
(* worst it is of another turn of the numbers.                                *)
THEOREM AnswersAreOfTheirNumber == PacketSpec => AnswersWereSent
<1>1. ASSUME NumbersInv, RecordsInv, SlotsInv(IsVP9), [PacketNext]_packetVars,
             nacker.pc = "idle", nacker'.pc = "read"
      PROVE  \E m \in DOMAIN out : m % SNModulus = nacker'.sn % SNModulus /\ WasSent(IsVP9, m, nacker'.source)
  <2>1. PICK again \in BOOLEAN : again = IsVP9
    BY DEF IsVP9
  <2>2. \E m \in DOMAIN out : m % SNModulus = nacker'.sn % SNModulus /\ WasSent(again, m, nacker'.source)
    BY <1>1, <2>1, AnswerIsSent
  <2> QED BY <2>1, <2>2
<1>2. NumbersInv /\ RecordsInv /\ SlotsInv(IsVP9) /\ [PacketNext]_packetVars
        => [nacker.pc = "idle" /\ nacker'.pc = "read" =>
              \E m \in DOMAIN out : m % SNModulus = nacker'.sn % SNModulus /\ WasSent(IsVP9, m, nacker'.source)]_packetVars
  BY <1>1
<1> QED BY <1>2, SlotsInvariant, PTL DEF PacketSpec, AnswersWereSent

(* The numbers have not come round yet, and the selector is not that of VP9.  *)
FirstTurn ==
    /\ \A a, b \in DOMAIN out : a - b < SNModulus
    /\ fwd.selector # "vp9"

(* Sequencer: in the first turn of the numbers the packet found for a NACK is *)
(* the one that was sent under that number, also where it is not recorded,    *)
(* was wiped or is of a stream before a restart.                              *)
THEOREM NacksFindWhatWasSent == PacketSpec /\ []FirstTurn => NackFindsWhatWasSent
<1>1. ASSUME NumbersInv, RecordsInv, SlotsInv(FALSE), FirstTurn, [PacketNext]_packetVars,
             nacker.pc = "idle", nacker'.pc = "read"
      PROVE  nacker'.source = out[nacker'.sn]
  <2>1. PICK m \in DOMAIN out : m % SNModulus = nacker'.sn % SNModulus /\ WasSent(FALSE, m, nacker'.source)
    BY <1>1, AnswerIsSent
  <2>2. nacker'.sn \in DOMAIN out /\ DOMAIN out \subseteq Int
    BY <1>1, AnswerIsSent DEF NumbersInv, PacketTypeOK
  <2>3. m - nacker'.sn < SNModulus /\ nacker'.sn - m < SNModulus
    BY <1>1, <2>2 DEF FirstTurn
  <2>4. SNModulus \in Nat \ {0}
    BY SequencerAssumption
  <2>5. m = nacker'.sn
    BY <2>1, <2>2, <2>3, <2>4, OwnSlot
  <2> QED BY <2>1, <2>5 DEF WasSent
<1>2. NumbersInv /\ RecordsInv /\ SlotsInv(FALSE) /\ FirstTurn /\ [PacketNext]_packetVars
        => [nacker.pc = "idle" /\ nacker'.pc = "read" => nacker'.source = out[nacker'.sn]]_packetVars
  BY <1>1
<1>3. NumbersInv /\ RecordsInv /\ SlotsInv(FALSE) /\ FirstTurn /\ [PacketNext]_packetVars => SlotsInv(FALSE)'
  BY SlotsNext DEF OutOfSync, FirstTurn
<1>4. PacketInit => SlotsInv(FALSE)
  BY SlotsInitially
<1> QED BY <1>2, <1>3, <1>4, SlotsInvariant, PTL DEF PacketSpec, NackFindsWhatWasSent

=============================================================================
