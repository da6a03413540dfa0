-------------------------- MODULE MediaTrackProofs --------------------------
(***************************************************************************)
(* Proofs about a published track for every set of codecs, peers and       *)
(* layers and every number of calls, packets and restarts: a codec         *)
(* regression leaves no wish behind, a restart of the receiver leaves      *)
(* every layer served and writes no packet the DownTracks were not told    *)
(* of; first for the two parts, then for the track that composes them.     *)
(***************************************************************************)
EXTENDS MediaTrack, SequenceTheorems, WellFoundedInduction, TLAPS

USE DynacastAssumption, RestartAssumption

-----------------------------------------------------------------------------
(* Dynacast: what a call that is under way looks like, by its next step.    *)

RegressTasks(pc) == [pc : {pc}, from : Codecs \ {RegressionTarget}, to : {RegressionTarget}]
TodoTasks        == [pc : {"reset", "clear", "stop"}, todo : SUBSET Codecs]
RecordTasks      == [pc : {"record"}, codec : Codecs, peer : Peers, quality : Qualities]
TargetTasks      == [pc : {"lookup"}, codec : {RegressionTarget}, next : RegressTasks("mark")]
LookupTasks      == [pc : {"lookup"}, codec : Codecs,
                     next : {Idle} \union RecordTasks \union TargetTasks \union RegressTasks("mark")]
ComputeTasks     == [pc : {"compute"}, codec : Codecs, force : BOOLEAN, todo : SUBSET Codecs]
StoreTasks       == [pc : {"store"}, codec : Codecs, quality : Qualities, next : {Idle} \union TodoTasks]
PlainTasks       == [pc : {"idle", "close", "unmute"}]
UpdateTasks      == [pc : {"update"}, force : BOOLEAN,
                     next : PlainTasks \union TodoTasks \union RegressTasks("regress")]
ReplaceTasks     == [pc : {"replace"}, codec : {RegressionTarget}, moved : [Peers -> Qualities]]
ExpiredTasks     == [pc : {"expired"}, codec : Codecs]

Tasks == PlainTasks \union LookupTasks \union RecordTasks \union ComputeTasks \union StoreTasks
         \union UpdateTasks \union RegressTasks("mark") \union RegressTasks("regress")
         \union ReplaceTasks \union TodoTasks \union ExpiredTasks

Levels == Qualities \union {Absent}

QualityRecord == [exists : BOOLEAN, wishes : [Peers -> Qualities], max : Qualities, initialized : BOOLEAN,
                  timer : BOOLEAN, regressTo : {"none", RegressionTarget}]

ManagerRecord == [max : [Codecs -> Levels], committed : [Codecs -> Levels], regressed : SUBSET Codecs,
                  pending : BOOLEAN, stopped : BOOLEAN, closed : BOOLEAN]

DynacastTypeOK ==
    /\ dscope \in DynacastScope
    /\ mgr \in ManagerRecord
    /\ quality \in [Codecs -> QualityRecord]
    /\ debounce \in BOOLEAN /\ muted \in BOOLEAN
    /\ notices \in Seq([Codecs -> Levels])
    /\ heard \in [Codecs -> Levels] /\ told \in [Codecs -> Levels]
    /\ threads \in [Goroutines -> Tasks]
    /\ wants \in [Peers -> [Codecs -> Qualities]]
    /\ overtaken \subseteq Codecs
    /\ ncalls \in Nat

(* The codec others are regressed to is never regressed itself, so a wish     *)
(* that moves to it stays there.                                              *)
TargetStays == RegressionTarget \notin mgr.regressed /\ quality[RegressionTarget].regressTo = "none"

(* The inductive invariant of dynacast. *)
DynacastInv == DynacastTypeOK /\ TargetStays /\ NobodyLeftBehind

-----------------------------------------------------------------------------
(* Lemmas about tasks and qualities.                                        *)

(* The order of the natural numbers, as WFMin wants it. *)
LEMMA LessIsWellFounded ==
    IsWellFoundedOn({ss \in Nat \X Nat : ss[1] < ss[2]}, Nat)
  BY NatLessThanWellFounded, Zenon DEF OpToRel

(* A bounded set of numbers has a maximum: MaxWish is a quality. *)
LEMMA MaxOfBounded ==
    ASSUME NEW n \in Nat, NEW S \in SUBSET (0 .. n), S # {}
    PROVE  Max(S) \in 0 .. n
  <1> DEFINE T == {n - x : x \in S}
             R == {ss \in Nat \X Nat : ss[1] < ss[2]}
  <1>1. T \subseteq Nat /\ T # {}
    <2>1. \A y \in T : y \in Nat
      OBVIOUS
    <2>2. PICK x \in S : TRUE
      OBVIOUS
    <2>3. n - x \in T
      BY <2>2
    <2> QED
      BY <2>1, <2>3
  <1>2. PICK m \in T : \A y \in T : ~(<<y, m>> \in R)
    <2> HIDE DEF T
    <2> QED
      BY <1>1, LessIsWellFounded, WFMin
  <1>3. \A y \in T : m <= y
    <2>1. SUFFICES ASSUME NEW y \in T PROVE m <= y
      OBVIOUS
    <2>2. y \in Nat /\ m \in Nat
      BY <1>1, <1>2
    <2>3. <<y, m>> \in R <=> y < m
      BY <2>2
    <2> QED
      BY <1>2, <2>1, <2>2, <2>3
  <1>4. PICK x \in S : m = n - x
    BY <1>2
  <1>5. \A y \in S : x >= y
    BY <1>3, <1>4
  <1> QED
    BY <1>4, <1>5 DEF Max

LEMMA MaxWishType ==
    ASSUME quality \in [Codecs -> QualityRecord], NEW c \in Codecs
    PROVE  MaxWish(c) \in Qualities
  <1> DEFINE S == {OffQuality} \union {quality[c].wishes[p] : p \in Peers}
  <1>1. quality[c].wishes \in [Peers -> 0 .. TopQuality]
    BY DEF QualityRecord, Qualities, OffQuality
  <1>2. S \in SUBSET (0 .. TopQuality) /\ S # {}
    BY <1>1 DEF OffQuality
  <1> QED
    BY <1>2, MaxOfBounded DEF MaxWish, Qualities, OffQuality

(* The step a call is at says which values it carries. *)
LEMMA TaskShapes ==
    ASSUME NEW k \in Tasks
    PROVE  /\ k.pc = "lookup"  => k \in LookupTasks
           /\ k.pc = "record"  => k \in RecordTasks
           /\ k.pc = "compute" => k \in ComputeTasks
           /\ k.pc = "store"   => k \in StoreTasks
           /\ k.pc = "update"  => k \in UpdateTasks
           /\ k.pc = "mark"    => k \in RegressTasks("mark")
           /\ k.pc = "regress" => k \in RegressTasks("regress")
           /\ k.pc = "replace" => k \in ReplaceTasks
           /\ k.pc = "expired" => k \in ExpiredTasks
           /\ k.pc \in {"reset", "clear", "stop"} => k \in TodoTasks
  BY DEF Tasks, PlainTasks, LookupTasks, RecordTasks, ComputeTasks, StoreTasks, UpdateTasks,
         RegressTasks, ReplaceTasks, TodoTasks, ExpiredTasks

(* A thread that gets its next task leaves the type of threads alone. *)
LEMMA GotoType ==
    ASSUME DynacastTypeOK, NEW t, NEW k \in Tasks, Goto(t, k)
    PROVE  threads' \in [Goroutines -> Tasks]
  BY DEF DynacastTypeOK, Goto

LEMMA NoWishesType == OffQuality \in Qualities /\ NoWishes \in [Peers -> Qualities]
  BY DEF NoWishes, Qualities, OffQuality

LEMMA IdleIsTask == Idle \in PlainTasks /\ Idle \in Tasks
  BY DEF Idle, PlainTasks, Tasks

-----------------------------------------------------------------------------
(* Each step of a call keeps the invariant.                                 *)

LEMMA LookupInv ==
    ASSUME DynacastInv, NEW t \in Goroutines, Lookup(t)
    PROVE  DynacastInv'
  <1> USE DEF DynacastInv
  <1>1. threads[t] \in LookupTasks
    BY TaskShapes DEF DynacastTypeOK, Lookup, At
  <1>2. threads[t].next \in Tasks
    <2>1. TargetTasks \subseteq LookupTasks
      BY DEF TargetTasks, LookupTasks
    <2>2. threads[t].next \in {Idle} \union RecordTasks \union TargetTasks \union RegressTasks("mark")
      BY <1>1 DEF LookupTasks
    <2> QED
      BY <2>1, <2>2, IdleIsTask DEF Tasks
  <1>3. threads' \in [Goroutines -> Tasks]
    BY <1>2, IdleIsTask, GotoType DEF Lookup
  <1>4. threads[t].codec \in Codecs
    BY <1>1 DEF LookupTasks
  <1> DEFINE c == threads[t].codec
             video == ~dscope.audio
             fresh == [NoQuality EXCEPT !.exists = TRUE, !.timer = video]
  <1>5. /\ fresh \in QualityRecord
        /\ fresh.regressTo = "none"
    <2>1. video \in BOOLEAN
      OBVIOUS
    <2> HIDE DEF video
    <2> QED
      BY <2>1, NoWishesType DEF QualityRecord, NoQuality
  <1>6. quality' \in [Codecs -> QualityRecord]
    BY <1>4, <1>5 DEF Lookup, Created, DynacastTypeOK
  <1>7. \A d \in Codecs : quality'[d] = quality[d] \/ quality'[d].regressTo = "none"
    BY <1>4, <1>5 DEF Lookup, Created, DynacastTypeOK
  <1>8. DynacastTypeOK'
    BY <1>3, <1>6 DEF DynacastTypeOK, Lookup
  <1> QED
    BY <1>7, <1>8 DEF TargetStays, NobodyLeftBehind, Lookup

LEMMA RecordInv ==
    ASSUME DynacastInv, NEW t \in Goroutines, Record(t)
    PROVE  DynacastInv'
  <1> USE DEF DynacastInv
  <1> DEFINE k == threads[t]
             r == quality[k.codec].regressTo
  <1>1. k \in RecordTasks
    BY TaskShapes DEF DynacastTypeOK, Record, At
  <1>2. k.codec \in Codecs /\ k.peer \in Peers /\ k.quality \in Qualities
    BY <1>1 DEF RecordTasks
  <1>3. CASE r # "none"
    <2>1. r = RegressionTarget
      BY <1>2, <1>3 DEF DynacastTypeOK, QualityRecord
    <2>2. [k EXCEPT !.codec = r] \in Tasks
      BY <1>1, <2>1 DEF RecordTasks, Tasks
    <2>3. threads' \in [Goroutines -> Tasks]
      BY <1>3, <2>2, IdleIsTask, GotoType DEF Record
    <2> QED
      BY <1>3, <2>3 DEF Record, DynacastTypeOK, TargetStays, NobodyLeftBehind
  <1>4. CASE r = "none"
    <2>1. [pc |-> "compute", codec |-> k.codec, force |-> FALSE, todo |-> {}] \in Tasks
      BY <1>2 DEF Tasks, ComputeTasks
    <2>2. threads' \in [Goroutines -> Tasks]
      BY <1>4, <2>1, GotoType DEF Record
    <2>3. quality' = [quality EXCEPT ![k.codec].wishes[k.peer] = k.quality]
      BY <1>4 DEF Record
    <2> HIDE DEF k
    <2>4. quality' \in [Codecs -> QualityRecord]
      BY <1>2, <2>3, ZenonT(60) DEF DynacastTypeOK, QualityRecord
    <2>5. \A d \in Codecs : /\ quality'[d].regressTo = quality[d].regressTo
                            /\ quality'[d].regressTo # "none" => quality'[d] = quality[d]
      BY <1>2, <1>4, <2>3 DEF DynacastTypeOK, QualityRecord
    <2>6. DynacastTypeOK'
      BY <2>2, <2>4 DEF DynacastTypeOK, Record
    <2> QED
      BY <2>5, <2>6 DEF TargetStays, NobodyLeftBehind, Record
  <1> QED
    BY <1>3, <1>4

LEMMA ComputeInv ==
    ASSUME DynacastInv, NEW t \in Goroutines, Compute(t)
    PROVE  DynacastInv'
  <1> USE DEF DynacastInv
  <1> DEFINE k == threads[t]
             c == k.codec
             after == IF k.todo = {} THEN Idle ELSE [pc |-> "clear", todo |-> k.todo]
             same == MaxWish(c) = quality[c].max /\ quality[c].initialized /\ ~k.force
  <1>1. k \in ComputeTasks
    BY TaskShapes DEF DynacastTypeOK, Compute, At
  <1>2. c \in Codecs /\ k.todo \in SUBSET Codecs
    BY <1>1 DEF ComputeTasks
  <1>3. after \in {Idle} \union TodoTasks
    BY <1>2 DEF TodoTasks
  <1>4. after \in Tasks
    BY <1>3, IdleIsTask DEF Tasks
  <1>5. MaxWish(c) \in Qualities
    BY <1>2, MaxWishType DEF DynacastTypeOK
  <1>6. CASE same
    <2>1. threads' \in [Goroutines -> Tasks] /\ UNCHANGED quality
      BY <1>4, <1>6, GotoType DEF Compute
    <2> QED
      BY <2>1 DEF Compute, DynacastTypeOK, TargetStays, NobodyLeftBehind
  <1>7. CASE ~same
    <2> DEFINE store == [pc |-> "store", codec |-> c, quality |-> MaxWish(c), next |-> after]
    <2>1. store \in Tasks
      <3> HIDE DEF after, c
      <3> QED
        BY <1>2, <1>3, <1>5 DEF Tasks, StoreTasks
    <2>2. quality' = [quality EXCEPT ![c].initialized = TRUE, ![c].max = MaxWish(c)] /\ Goto(t, store)
      BY <1>7 DEF Compute
    <2>3. threads' \in [Goroutines -> Tasks]
      BY <2>1, <2>2, GotoType
    <2> HIDE DEF c
    <2>4. quality' \in [Codecs -> QualityRecord]
      BY <1>2, <1>5, <2>2, ZenonT(60) DEF DynacastTypeOK, QualityRecord
    <2>5. \A d \in Codecs : quality'[d].regressTo = quality[d].regressTo /\ quality'[d].wishes = quality[d].wishes
      BY <1>2, <2>2 DEF DynacastTypeOK, QualityRecord
    <2>6. DynacastTypeOK'
      BY <2>3, <2>4 DEF DynacastTypeOK, Compute
    <2> QED
      BY <2>5, <2>6 DEF TargetStays, NobodyLeftBehind, Compute
  <1> QED
    BY <1>6, <1>7

LEMMA StoreInv ==
    ASSUME DynacastInv, NEW t \in Goroutines, Store(t)
    PROVE  DynacastInv'
  <1> USE DEF DynacastInv
  <1> DEFINE k == threads[t]
  <1>1. k \in StoreTasks
    BY TaskShapes DEF DynacastTypeOK, Store, At
  <1>2. k.codec \in Codecs /\ k.quality \in Qualities /\ k.next \in {Idle} \union TodoTasks
    BY <1>1 DEF StoreTasks
  <1>3. Update(FALSE, k.next) \in Tasks
    BY <1>2, IdleIsTask DEF Update, Tasks, UpdateTasks
  <1>4. threads' \in [Goroutines -> Tasks]
    BY <1>3, GotoType DEF Store
  <1>5. mgr' = IF k.codec \in mgr.regressed THEN mgr ELSE [mgr EXCEPT !.max[k.codec] = k.quality]
    BY DEF Store
  <1>6. overtaken' \subseteq Codecs
    BY <1>2 DEF Store, DynacastTypeOK
  <1> HIDE DEF k
  <1>7. mgr' \in ManagerRecord
    BY <1>2, <1>5 DEF DynacastTypeOK, ManagerRecord, Levels
  <1>8. /\ mgr'.regressed = mgr.regressed
        /\ \A c \in mgr.regressed : mgr'.max[c] = mgr.max[c]
    BY <1>2, <1>5 DEF DynacastTypeOK, ManagerRecord
  <1>9. DynacastTypeOK'
    BY <1>4, <1>6, <1>7 DEF DynacastTypeOK, Store
  <1> QED
    BY <1>8, <1>9 DEF TargetStays, NobodyLeftBehind, Store

LEMMA UpdateInv ==
    ASSUME DynacastInv, NEW t \in Goroutines, UpdateStep(t)
    PROVE  DynacastInv'
  <1> USE DEF DynacastInv
  <1>1. threads[t] \in UpdateTasks
    BY TaskShapes DEF DynacastTypeOK, UpdateStep, At
  <1>2. threads[t].next \in Tasks
    BY <1>1 DEF UpdateTasks, Tasks
  <1>3. threads' \in [Goroutines -> Tasks]
    BY <1>2, GotoType DEF UpdateStep
  <1>4. mgr.max \in [Codecs -> Levels]
    BY DEF DynacastTypeOK, ManagerRecord
  <1>5. \/ mgr' = mgr
        \/ mgr' = [mgr EXCEPT !.pending = TRUE]
        \/ mgr' = Committed
    BY DEF UpdateStep
  <1>6. mgr' \in ManagerRecord /\ mgr'.regressed = mgr.regressed /\ mgr'.max = mgr.max
    BY <1>4, <1>5 DEF DynacastTypeOK, ManagerRecord, Committed
  <1>7. debounce' \in BOOLEAN
    BY DEF UpdateStep, DynacastTypeOK
  <1>8. notices' \in Seq([Codecs -> Levels])
    <2>1. notices' = notices \/ notices' = Append(notices, mgr.max)
      BY DEF UpdateStep, Enqueue
    <2> DEFINE L == [Codecs -> Levels]
    <2>2. notices \in Seq(L) /\ mgr.max \in L
      BY <1>4 DEF DynacastTypeOK
    <2> HIDE DEF L
    <2>3. Append(notices, mgr.max) \in Seq(L)
      BY <2>2, AppendProperties
    <2>4. notices' \in Seq(L)
      BY <2>1, <2>2, <2>3
    <2> QED
      BY <2>4 DEF L
  <1>9. DynacastTypeOK'
    BY <1>3, <1>6, <1>7, <1>8 DEF DynacastTypeOK, UpdateStep
  <1> QED
    BY <1>6, <1>9 DEF TargetStays, NobodyLeftBehind, UpdateStep

LEMMA MarkInv ==
    ASSUME DynacastInv, NEW t \in Goroutines, Mark(t)
    PROVE  DynacastInv'
  <1> USE DEF DynacastInv
  <1> DEFINE k == threads[t]
             task == Update(FALSE, [pc |-> "regress", from |-> k.from, to |-> k.to])
  <1>1. k \in RegressTasks("mark")
    BY TaskShapes DEF DynacastTypeOK, Mark, At
  <1>2. k.from \in Codecs \ {RegressionTarget} /\ k.to = RegressionTarget
    BY <1>1 DEF RegressTasks
  <1>3. task \in Tasks
    BY <1>2 DEF Tasks, Update, UpdateTasks, RegressTasks
  <1>4. threads' \in [Goroutines -> Tasks]
    BY <1>3, IdleIsTask, GotoType DEF Mark
  <1>5. CASE mgr.closed
    BY <1>4, <1>5 DEF Mark, DynacastTypeOK, TargetStays, NobodyLeftBehind
  <1>6. CASE ~mgr.closed
    <2>1. mgr' = [mgr EXCEPT !.regressed = @ \union {k.from}, !.max[k.from] = OffQuality,
                             !.max[k.to] = IF @ = Absent THEN TopQuality ELSE @]
      BY <1>6 DEF Mark
    <2> HIDE DEF k
    <2>2. mgr.max \in [Codecs -> Levels] /\ mgr.regressed \subseteq Codecs
      BY DEF DynacastTypeOK, ManagerRecord
    <2>3. /\ mgr'.max \in [Codecs -> Levels]
          /\ mgr'.max[k.from] = OffQuality
          /\ \A c \in Codecs \ {k.from, RegressionTarget} : mgr'.max[c] = mgr.max[c]
      <3>1. mgr'.max = [mgr.max EXCEPT ![k.from] = OffQuality, ![k.to] = IF @ = Absent THEN TopQuality ELSE @]
        BY <2>1 DEF DynacastTypeOK, ManagerRecord
      <3> QED
        BY <1>2, <2>2, <3>1 DEF Levels, Qualities, OffQuality
    <2>4. mgr' \in ManagerRecord /\ mgr'.regressed = mgr.regressed \union {k.from}
      BY <1>2, <2>1, <2>2, <2>3 DEF DynacastTypeOK, ManagerRecord
    <2>5. DynacastTypeOK'
      BY <1>4, <2>4 DEF DynacastTypeOK, Mark
    <2> QED
      BY <1>2, <2>2, <2>3, <2>4, <2>5 DEF TargetStays, NobodyLeftBehind, Mark
  <1> QED
    BY <1>5, <1>6

LEMMA RegressToInv ==
    ASSUME DynacastInv, NEW t \in Goroutines, RegressTo(t)
    PROVE  DynacastInv'
  <1> USE DEF DynacastInv
  <1> DEFINE k == threads[t]
             moved == IF dscope.audio THEN NoWishes ELSE quality[k.from].wishes
             task == [pc |-> "replace", codec |-> k.to, moved |-> moved]
  <1>1. k \in RegressTasks("regress")
    BY TaskShapes DEF DynacastTypeOK, RegressTo, At
  <1>2. k.from \in Codecs \ {RegressionTarget} /\ k.to = RegressionTarget
    BY <1>1 DEF RegressTasks
  <1>3. NoWishes \in [Peers -> Qualities]
    BY NoWishesType
  <1>4. moved \in [Peers -> Qualities]
    BY <1>2, <1>3 DEF DynacastTypeOK, QualityRecord
  <1>5. task \in Tasks
    <2> HIDE DEF moved, k
    <2> QED
      BY <1>2, <1>4 DEF Tasks, ReplaceTasks
  <1>6. threads' \in [Goroutines -> Tasks]
    BY <1>5, GotoType DEF RegressTo
  <1>7. quality' = [quality EXCEPT ![k.from].regressTo = k.to, ![k.from].timer = FALSE,
                                   ![k.from].wishes = IF dscope.audio THEN @ ELSE NoWishes]
    BY DEF RegressTo
  <1> HIDE DEF k
  <1> DEFINE q == quality[k.from]
             new == [q EXCEPT !.regressTo = k.to, !.timer = FALSE,
                              !.wishes = IF dscope.audio THEN q.wishes ELSE NoWishes]
  <1>a. q \in QualityRecord
    BY <1>2 DEF DynacastTypeOK
  <1>b. new \in QualityRecord /\ (~dscope.audio => new.wishes = NoWishes)
    <2> HIDE DEF q
    <2> QED
      BY <1>2, <1>3, <1>a DEF QualityRecord
  <1>8. quality' = [quality EXCEPT ![k.from] = new] /\ quality' \in [Codecs -> QualityRecord]
    BY <1>2, <1>7, <1>b DEF DynacastTypeOK
  <1>9. /\ ~dscope.audio => quality'[k.from].wishes = NoWishes
        /\ \A c \in Codecs \ {k.from} : quality'[c] = quality[c]
    <2> HIDE DEF new
    <2> QED
      BY <1>2, <1>8, <1>b DEF DynacastTypeOK
  <1>10. DynacastTypeOK'
    BY <1>6, <1>8 DEF DynacastTypeOK, RegressTo
  <1> QED
    BY <1>2, <1>9, <1>10 DEF TargetStays, NobodyLeftBehind, RegressTo

LEMMA ReplaceInv ==
    ASSUME DynacastInv, NEW t \in Goroutines, Replace(t)
    PROVE  DynacastInv'
  <1> USE DEF DynacastInv
  <1> DEFINE k == threads[t]
             both(w) == [p \in Peers |-> IF k.moved[p] > w[p] THEN k.moved[p] ELSE w[p]]
  <1>1. k \in ReplaceTasks
    BY TaskShapes DEF DynacastTypeOK, Replace, At
  <1>2. k.codec = RegressionTarget /\ k.moved \in [Peers -> Qualities]
    BY <1>1 DEF ReplaceTasks
  <1>3. [pc |-> "reset", todo |-> {k.codec}] \in Tasks
    BY <1>2 DEF Tasks, TodoTasks
  <1>4. threads' \in [Goroutines -> Tasks]
    BY <1>3, GotoType DEF Replace
  <1>5. quality' = [quality EXCEPT ![RegressionTarget].wishes = both(@)]
    BY <1>2 DEF Replace
  <1> HIDE DEF k
  <1>6. quality[RegressionTarget].wishes \in [Peers -> Qualities]
    BY DEF DynacastTypeOK, QualityRecord
  <1>7. both(quality[RegressionTarget].wishes) \in [Peers -> Qualities]
    BY <1>2, <1>6
  <1> HIDE DEF both
  <1>8. quality' \in [Codecs -> QualityRecord]
    BY <1>5, <1>7, ZenonT(60) DEF DynacastTypeOK, QualityRecord
  <1>9. /\ quality'[RegressionTarget].regressTo = quality[RegressionTarget].regressTo
        /\ \A c \in Codecs \ {RegressionTarget} : quality'[c] = quality[c]
    BY <1>5 DEF DynacastTypeOK, QualityRecord
  <1>10. DynacastTypeOK'
    BY <1>4, <1>8 DEF DynacastTypeOK, Replace
  <1> QED
    BY <1>9, <1>10 DEF TargetStays, NobodyLeftBehind, Replace

(* A step that regresses no codec and leaves the wishes alone. *)
LEMMA SameWishes ==
    ASSUME DynacastInv, DynacastTypeOK', dscope' = dscope,
           mgr'.regressed = mgr.regressed, mgr'.max = mgr.max,
           \A c \in Codecs : quality'[c].regressTo = quality[c].regressTo /\ quality'[c].wishes = quality[c].wishes
    PROVE  DynacastInv'
  BY DEF DynacastInv, TargetStays, NobodyLeftBehind

LEMMA ResetInv ==
    ASSUME DynacastInv, NEW t \in Goroutines, Reset(t)
    PROVE  DynacastInv'
  <1> DEFINE k == threads[t]
             video == ~dscope.audio
  <1>1. k \in TodoTasks
    BY TaskShapes DEF DynacastInv, DynacastTypeOK, Reset, At
  <1>2. PICK c \in k.todo :
           /\ quality' = [quality EXCEPT ![c].initialized = FALSE, ![c].timer = video]
           /\ Goto(t, IF k.todo = {c} THEN Idle ELSE [k EXCEPT !.todo = @ \ {c}])
    BY DEF Reset
  <1>3. c \in Codecs /\ [k EXCEPT !.todo = @ \ {c}] \in TodoTasks
    BY <1>1, <1>2 DEF TodoTasks
  <1>4. threads' \in [Goroutines -> Tasks]
    BY <1>2, <1>3, IdleIsTask, GotoType DEF Tasks, DynacastInv
  <1>5. video \in BOOLEAN
    OBVIOUS
  <1> HIDE DEF video, k
  <1>6. quality' \in [Codecs -> QualityRecord]
    BY <1>2, <1>3, <1>5, ZenonT(60) DEF DynacastInv, DynacastTypeOK, QualityRecord
  <1>7. \A d \in Codecs : quality'[d].regressTo = quality[d].regressTo /\ quality'[d].wishes = quality[d].wishes
    BY <1>2, <1>3 DEF DynacastInv, DynacastTypeOK, QualityRecord
  <1>8. DynacastTypeOK'
    BY <1>4, <1>6 DEF DynacastInv, DynacastTypeOK, Reset
  <1> QED
    BY <1>7, <1>8, SameWishes DEF Reset

LEMMA ClearNodesInv ==
    ASSUME DynacastInv, NEW t \in Goroutines, ClearNodes(t)
    PROVE  DynacastInv'
  <1> USE DEF DynacastInv
  <1> DEFINE k == threads[t]
             off(w) == [p \in Peers |-> IF p \in Nodes THEN OffQuality ELSE w[p]]
  <1>1. k \in TodoTasks
    BY TaskShapes DEF DynacastTypeOK, ClearNodes, At
  <1>2. PICK c \in k.todo :
           /\ quality' = [quality EXCEPT ![c].wishes = off(@)]
           /\ wants' = [p \in Peers |-> IF p \in Nodes THEN [wants[p] EXCEPT ![c] = OffQuality] ELSE wants[p]]
           /\ Goto(t, [pc |-> "compute", codec |-> c, force |-> FALSE, todo |-> k.todo \ {c}])
    BY DEF ClearNodes
  <1>3. c \in Codecs /\ [pc |-> "compute", codec |-> c, force |-> FALSE, todo |-> k.todo \ {c}] \in Tasks
    BY <1>1, <1>2 DEF TodoTasks, ComputeTasks, Tasks
  <1>4. threads' \in [Goroutines -> Tasks]
    BY <1>2, <1>3, GotoType
  <1>5. wants' \in [Peers -> [Codecs -> Qualities]]
    BY <1>2, <1>3, NoWishesType DEF DynacastTypeOK
  <1>6. quality[c].wishes \in [Peers -> Qualities]
    BY <1>3 DEF DynacastTypeOK, QualityRecord
  <1>7. off(quality[c].wishes) \in [Peers -> Qualities] /\ off(NoWishes) = NoWishes
    BY <1>6, NoWishesType DEF NoWishes
  <1> HIDE DEF off, k
  <1>8. quality' \in [Codecs -> QualityRecord]
    BY <1>2, <1>3, <1>7 DEF DynacastTypeOK, QualityRecord
  <1>9. /\ quality'[c].wishes = off(quality[c].wishes) /\ quality'[c].regressTo = quality[c].regressTo
        /\ \A d \in Codecs \ {c} : quality'[d] = quality[d]
    BY <1>2, <1>3 DEF DynacastTypeOK, QualityRecord
  <1>10. DynacastTypeOK'
    BY <1>4, <1>5, <1>8 DEF DynacastTypeOK, ClearNodes
  <1> QED
    BY <1>3, <1>7, <1>9, <1>10 DEF TargetStays, NobodyLeftBehind, ClearNodes

LEMMA CloseManagerInv ==
    ASSUME DynacastInv, NEW t \in Goroutines, CloseManager(t)
    PROVE  DynacastInv'
  <1>1. [pc |-> "stop", todo |-> Existing] \in Tasks
    BY DEF Tasks, TodoTasks, Existing
  <1>2. threads' \in [Goroutines -> Tasks]
    BY <1>1, GotoType DEF CloseManager, DynacastInv
  <1>3. mgr' \in ManagerRecord /\ mgr'.regressed = mgr.regressed /\ mgr'.max = mgr.max
    BY DEF CloseManager, DynacastInv, DynacastTypeOK, ManagerRecord
  <1>4. DynacastTypeOK'
    BY <1>2, <1>3 DEF DynacastInv, DynacastTypeOK, CloseManager
  <1> QED
    BY <1>3, <1>4, SameWishes DEF CloseManager

LEMMA StopTimersInv ==
    ASSUME DynacastInv, NEW t \in Goroutines, StopTimers(t)
    PROVE  DynacastInv'
  <1>1. threads' \in [Goroutines -> Tasks]
    BY IdleIsTask, GotoType DEF StopTimers, DynacastInv
  <1>2. \A d \in Codecs : quality'[d] = quality[d] \/ quality'[d] = [quality[d] EXCEPT !.timer = FALSE]
    BY DEF StopTimers
  <1>3. quality' \in [Codecs -> QualityRecord]
    BY ZenonT(60) DEF StopTimers, DynacastInv, DynacastTypeOK, QualityRecord
  <1>4. \A d \in Codecs : quality'[d].regressTo = quality[d].regressTo /\ quality'[d].wishes = quality[d].wishes
    <2>1. SUFFICES ASSUME NEW d \in Codecs
                   PROVE  quality'[d].regressTo = quality[d].regressTo /\ quality'[d].wishes = quality[d].wishes
      OBVIOUS
    <2>2. quality[d] \in QualityRecord
      BY DEF DynacastInv, DynacastTypeOK
    <2>3. CASE quality'[d] = [quality[d] EXCEPT !.timer = FALSE]
      BY <2>2, <2>3 DEF QualityRecord
    <2> QED
      BY <1>2, <2>3
  <1>5. DynacastTypeOK'
    BY <1>1, <1>3 DEF DynacastInv, DynacastTypeOK, StopTimers
  <1> QED
    BY <1>4, <1>5, SameWishes DEF StopTimers

LEMMA UnmuteInv ==
    ASSUME DynacastInv, NEW t \in Goroutines, Unmute(t)
    PROVE  DynacastInv'
  <1>1. threads' \in [Goroutines -> Tasks]
    BY IdleIsTask, GotoType DEF Unmute, DynacastInv
  <1>2. DynacastTypeOK'
    BY <1>1 DEF DynacastInv, DynacastTypeOK, Unmute
  <1> QED
    BY <1>2, SameWishes DEF Unmute

(* A timer that is stopped or fires touches neither wishes nor regression. *)
LEMMA TimerOff ==
    ASSUME DynacastInv, NEW c \in Codecs, quality' = [quality EXCEPT ![c].timer = FALSE]
    PROVE  /\ quality' \in [Codecs -> QualityRecord]
           /\ \A d \in Codecs : quality'[d].regressTo = quality[d].regressTo /\ quality'[d].wishes = quality[d].wishes
  BY ZenonT(60) DEF DynacastInv, DynacastTypeOK, QualityRecord

LEMMA ExpiredInv ==
    ASSUME DynacastInv, NEW t \in Goroutines, Expired(t)
    PROVE  DynacastInv'
  <1> DEFINE c == threads[t].codec
  <1>1. c \in Codecs
    BY TaskShapes DEF DynacastInv, DynacastTypeOK, Expired, At, ExpiredTasks
  <1>2. [pc |-> "compute", codec |-> c, force |-> TRUE, todo |-> {}] \in Tasks
    BY <1>1 DEF Tasks, ComputeTasks
  <1>3. threads' \in [Goroutines -> Tasks]
    BY <1>2, GotoType DEF Expired, DynacastInv
  <1>4. quality' = [quality EXCEPT ![c].timer = FALSE]
    BY DEF Expired
  <1> HIDE DEF c
  <1>5. DynacastTypeOK'
    BY <1>1, <1>3, <1>4, TimerOff DEF DynacastInv, DynacastTypeOK, Expired
  <1> QED
    BY <1>1, <1>4, <1>5, TimerOff, SameWishes DEF Expired

LEMMA TimerFiresInv ==
    ASSUME DynacastInv, NEW c \in Codecs, TimerFires(c)
    PROVE  DynacastInv'
  <1>1. [pc |-> "expired", codec |-> c] \in Tasks
    BY DEF Tasks, ExpiredTasks
  <1>2. threads' \in [Goroutines -> Tasks]
    BY <1>1, GotoType DEF TimerFires, DynacastInv
  <1>3. DynacastTypeOK'
    BY <1>2, TimerOff DEF DynacastInv, DynacastTypeOK, TimerFires
  <1> QED
    BY <1>3, TimerOff, SameWishes DEF TimerFires

LEMMA DebounceFiresInv ==
    ASSUME DynacastInv, DebounceFires
    PROVE  DynacastInv'
  <1>1. Update(TRUE, Idle) \in Tasks
    BY IdleIsTask DEF Tasks, UpdateTasks, Update
  <1>2. threads' \in [Goroutines -> Tasks]
    BY <1>1, GotoType DEF DebounceFires, DynacastInv
  <1>3. DynacastTypeOK'
    BY <1>2 DEF DynacastInv, DynacastTypeOK, DebounceFires
  <1> QED
    BY <1>3, SameWishes DEF DebounceFires

LEMMA DeliverInv ==
    ASSUME DynacastInv, Deliver
    PROVE  DynacastInv'
  <1>1. /\ notices' \in Seq([Codecs -> Levels])
        /\ heard' \in [Codecs -> Levels] /\ told' \in [Codecs -> Levels]
    BY DEF DynacastInv, DynacastTypeOK, Deliver
  <1>2. DynacastTypeOK'
    BY <1>1 DEF DynacastInv, DynacastTypeOK, Deliver
  <1> QED
    BY <1>2, SameWishes DEF Deliver

(* A call that begins has its first task; it touches no quality, and of the   *)
(* manager only what was committed and whether its queue was stopped.         *)
LEMMA CallInv ==
    ASSUME DynacastInv, Call
    PROVE  DynacastInv'
  <1> USE DEF DynacastInv
  <1>1. CASE \E c \in dscope.codecs : AddCodec(c)
    <2>1. PICK c \in dscope.codecs : AddCodec(c)
      BY <1>1
    <2>2. c \in Codecs
      BY DEF DynacastTypeOK, DynacastScope
    <2>3. [pc |-> "lookup", codec |-> c, next |-> Idle] \in Tasks
      BY <2>2 DEF Tasks, LookupTasks
    <2>4. threads' \in [Goroutines -> Tasks]
      BY <2>1, <2>3, GotoType DEF AddCodec
    <2>5. DynacastTypeOK'
      BY <2>1, <2>4 DEF DynacastTypeOK, AddCodec, BeginCall
    <2> QED
      BY <2>1, <2>5, SameWishes DEF AddCodec, BeginCall
  <1>2. CASE \E p \in dscope.peers, c \in dscope.codecs, q \in Qualities : Notify(p, c, q)
    <2>1. PICK p \in dscope.peers, c \in dscope.codecs, q \in Qualities : Notify(p, c, q)
      BY <1>2
    <2>2. c \in Codecs /\ p \in Peers
      BY DEF DynacastTypeOK, DynacastScope
    <2> DEFINE record == [pc |-> "record", codec |-> c, peer |-> p, quality |-> q]
    <2>3. record \in RecordTasks
      BY <2>2 DEF RecordTasks
    <2>4. [pc |-> "lookup", codec |-> c, next |-> record] \in Tasks
      <3> HIDE DEF record
      <3> QED
        BY <2>2, <2>3 DEF Tasks, LookupTasks
    <2>5. threads' \in [Goroutines -> Tasks]
      BY <2>1, <2>4, GotoType DEF Notify
    <2>6. wants' \in [Peers -> [Codecs -> Qualities]]
      BY <2>1, <2>2 DEF DynacastTypeOK, Notify
    <2>7. DynacastTypeOK'
      BY <2>1, <2>5, <2>6 DEF DynacastTypeOK, Notify, BeginCall
    <2> QED
      BY <2>1, <2>7, SameWishes DEF Notify, BeginCall
  <1>3. CASE \E from \in Codecs : HandleCodecRegression(from)
    <2>1. PICK from \in Codecs : HandleCodecRegression(from)
      BY <1>3
    <2> DEFINE mark == [pc |-> "mark", from |-> from, to |-> RegressionTarget]
               target == [pc |-> "lookup", codec |-> RegressionTarget, next |-> mark]
    <2>2. mark \in RegressTasks("mark")
      BY <2>1 DEF RegressTasks, HandleCodecRegression
    <2>3. target \in TargetTasks
      <3> HIDE DEF mark
      <3> QED
        BY <2>2 DEF TargetTasks
    <2>4. [pc |-> "lookup", codec |-> from, next |-> target] \in Tasks
      <3> HIDE DEF target
      <3> QED
        BY <2>3 DEF Tasks, LookupTasks
    <2>5. threads' \in [Goroutines -> Tasks]
      BY <2>1, <2>4, GotoType DEF HandleCodecRegression
    <2>6. DynacastTypeOK'
      BY <2>1, <2>5 DEF DynacastTypeOK, HandleCodecRegression, BeginCall
    <2> QED
      BY <2>1, <2>6, SameWishes DEF HandleCodecRegression, BeginCall
  <1>4. CASE RestartDynacast
    <2>1. [pc |-> "reset", todo |-> Existing] \in Tasks
      BY DEF Tasks, TodoTasks, Existing
    <2>2. threads' \in [Goroutines -> Tasks]
      BY <1>4, <2>1, IdleIsTask, GotoType DEF RestartDynacast
    <2>3. Nothing \in [Codecs -> Levels]
      BY DEF Nothing, Levels
    <2>4. mgr' \in ManagerRecord /\ mgr'.regressed = mgr.regressed /\ mgr'.max = mgr.max
      BY <1>4, <2>3 DEF RestartDynacast, DynacastTypeOK, ManagerRecord
    <2>5. DynacastTypeOK'
      BY <1>4, <2>2, <2>4 DEF DynacastTypeOK, RestartDynacast, BeginCall
    <2> QED
      BY <1>4, <2>4, <2>5, SameWishes DEF RestartDynacast, BeginCall
  <1>5. CASE ClearSubscriberNodes
    <2>1. [pc |-> "clear", todo |-> Existing] \in Tasks
      BY DEF Tasks, TodoTasks, Existing
    <2>2. threads' \in [Goroutines -> Tasks]
      BY <1>5, <2>1, IdleIsTask, GotoType DEF ClearSubscriberNodes
    <2>3. DynacastTypeOK'
      BY <1>5, <2>2 DEF DynacastTypeOK, ClearSubscriberNodes, BeginCall
    <2> QED
      BY <1>5, <2>3, SameWishes DEF ClearSubscriberNodes, BeginCall
  <1>6. CASE ResendCommittedQuality
    <2>1. notices' = notices \/ notices' = Append(notices, mgr.committed)
      BY <1>6 DEF ResendCommittedQuality, Enqueue
    <2>2. notices' \in Seq([Codecs -> Levels])
      <3>1. mgr.committed \in [Codecs -> Levels]
        BY DEF DynacastTypeOK, ManagerRecord
      <3> QED
        BY <2>1, <3>1, SMTT(40) DEF DynacastTypeOK
    <2>3. DynacastTypeOK'
      BY <1>6, <2>2 DEF DynacastTypeOK, ResendCommittedQuality, BeginCall
    <2> QED
      BY <1>6, <2>3, SameWishes DEF ResendCommittedQuality, BeginCall
  <1>7. CASE \E m \in BOOLEAN : SetMuted(m)
    <2>1. PICK m \in BOOLEAN : SetMuted(m)
      BY <1>7
    <2>2. Update(TRUE, [pc |-> "unmute"]) \in Tasks
      BY DEF Tasks, UpdateTasks, Update, PlainTasks
    <2>3. threads' \in [Goroutines -> Tasks] /\ muted' \in BOOLEAN
      BY <2>1, <2>2, GotoType DEF SetMuted, DynacastTypeOK
    <2>4. DynacastTypeOK'
      BY <2>1, <2>3 DEF DynacastTypeOK, SetMuted, BeginCall
    <2> QED
      BY <2>1, <2>4, SameWishes DEF SetMuted, BeginCall
  <1>8. CASE CloseDynacast
    <2>1. [pc |-> "close"] \in Tasks
      BY DEF Tasks, PlainTasks
    <2>2. threads' \in [Goroutines -> Tasks]
      BY <1>8, <2>1, GotoType DEF CloseDynacast
    <2>3. mgr' \in ManagerRecord /\ mgr'.regressed = mgr.regressed /\ mgr'.max = mgr.max
      BY <1>8 DEF CloseDynacast, DynacastTypeOK, ManagerRecord
    <2>4. DynacastTypeOK'
      BY <1>8, <2>2, <2>3 DEF DynacastTypeOK, CloseDynacast, BeginCall
    <2> QED
      BY <1>8, <2>3, <2>4, SameWishes DEF CloseDynacast, BeginCall
  <1> QED
    BY <1>1, <1>2, <1>3, <1>4, <1>5, <1>6, <1>7, <1>8 DEF Call

LEMMA DynacastInitInv ==
    ASSUME DynacastInit
    PROVE  DynacastInv
  <1>1. Nothing \in [Codecs -> Levels] /\ NoQuality \in QualityRecord
    BY NoWishesType DEF Nothing, Levels, NoQuality, QualityRecord
  <1>2. DynacastTypeOK
    <2>1. mgr \in ManagerRecord
      BY <1>1 DEF DynacastInit, ManagerRecord
    <2>2. /\ quality \in [Codecs -> QualityRecord] /\ threads \in [Goroutines -> Tasks]
          /\ wants \in [Peers -> [Codecs -> Qualities]]
      BY <1>1, IdleIsTask, NoWishesType DEF DynacastInit
    <2>3. notices \in Seq([Codecs -> Levels])
      BY DEF DynacastInit
    <2> QED
      BY <1>1, <2>1, <2>2, <2>3 DEF DynacastTypeOK, DynacastInit
  <1> QED
    BY <1>2 DEF DynacastInv, DynacastInit, TargetStays, NobodyLeftBehind, NoQuality

LEMMA DynacastStepInv ==
    ASSUME DynacastInv, [DynacastNext]_dynacastVars
    PROVE  DynacastInv'
  <1>1. CASE UNCHANGED dynacastVars
    BY <1>1 DEF dynacastVars, DynacastInv, DynacastTypeOK, TargetStays, NobodyLeftBehind
  <1>2. ASSUME NEW t \in Goroutines, Step(t) PROVE DynacastInv'
    BY <1>2, LookupInv, RecordInv, ComputeInv, StoreInv, UpdateInv, MarkInv, RegressToInv, ReplaceInv,
       ResetInv, ClearNodesInv, CloseManagerInv, StopTimersInv, UnmuteInv, ExpiredInv DEF Step
  <1> QED
    BY <1>1, <1>2, CallInv, TimerFiresInv, DebounceFiresInv, DeliverInv DEF DynacastNext

-----------------------------------------------------------------------------
(* The receiver: types.                                                     *)

ForwarderRecord == [gen : Nat, group : Nat, pc : {"check", "read", "write"}, packet : Nat]

RestarterRecord == [pc : {"idle", "collect", "mark", "wait", "restart", "signal", "generation", "finish"},
                    detected : BOOLEAN, todo : SUBSET UpLayers]

RestartTypeOK ==
    /\ rscope \in RestartScope
    /\ rcv \in [gen : Nat, inProgress : BOOLEAN, group : Nat, closed : BOOLEAN]
    /\ buf \in [UpLayers -> {"none", "added", "open", "closed"}]
    /\ pending \in [UpLayers -> BOOLEAN]
    /\ epoch \in [UpLayers -> Nat] /\ synced \in [UpLayers -> Nat] /\ received \in [UpLayers -> Nat]
    /\ queue \in [UpLayers -> Seq(Nat)]
    /\ forwarders \in [UpLayers -> Seq(ForwarderRecord)]
    /\ restarter \in RestarterRecord
    /\ detected \in Nat /\ asked \in Nat /\ found \in Nat

(* The goroutines of a layer. *)
Forwarder(l) == ToSet(forwarders[l])

(* The flag is set while restartInternal runs. *)
FlagIsRestarter == rcv.inProgress <=> restarter.pc # "idle"

(* All goroutines belong to the current wait group, so that the restart that  *)
(* waits for it waits for all of them; from then on there is none.            *)
AllAreAwaited ==
    /\ \A l \in UpLayers : \A f \in Forwarder(l) : f.group = rcv.group
    /\ restarter.pc \in {"restart", "signal", "generation", "finish"} => \A l \in UpLayers : Forwarder(l) = {}

(* Outside a restart every goroutine is of the current generation, and a      *)
(* buffer that is open has one.                                               *)
ServedNow ==
    ~rcv.inProgress => \A l \in UpLayers : /\ \A f \in Forwarder(l) : f.gen = rcv.gen
                                           /\ buf[l] = "open" => Forwarder(l) # {}

(* Without detected restarts a buffer holds packets of its current epoch      *)
(* only, which is the one the DownTracks know until the buffers begin again.  *)
EpochsAgree ==
    found = 0 => \A l \in UpLayers :
        /\ \A i \in 1 .. Len(queue[l]) : queue[l][i] = epoch[l]
        /\ restarter.pc \notin {"restart", "signal"} => epoch[l] = synced[l]
        /\ \A f \in Forwarder(l) : f.pc = "write" => f.packet = synced[l]

(* The inductive invariant of the receiver. *)
RestartInv == RestartTypeOK /\ FlagIsRestarter /\ AllAreAwaited /\ ServedNow /\ EpochsAgree

-----------------------------------------------------------------------------
(* Lemmas about the sequences of goroutines.                                *)

LEMMA AppendSet ==
    ASSUME NEW S, NEW s \in Seq(S), NEW e \in S
    PROVE  Append(s, e) \in Seq(S) /\ ToSet(Append(s, e)) = ToSet(s) \union {e}
  BY DEF ToSet

LEMMA RemoveSet ==
    ASSUME NEW S, NEW s \in Seq(S), NEW i \in 1 .. Len(s)
    PROVE  RemoveAt(s, i) \in Seq(S) /\ ToSet(RemoveAt(s, i)) \subseteq ToSet(s)
  <1> DEFINE a == SubSeq(s, 1, i - 1)
             b == SubSeq(s, i + 1, Len(s))
  <1>1. a \in Seq(S) /\ Len(a) = i - 1 /\ \A j \in 1 .. Len(a) : a[j] = s[j]
    OBVIOUS
  <1>2. b \in Seq(S) /\ Len(b) = Len(s) - i /\ \A j \in 1 .. Len(b) : b[j] = s[i + j]
    OBVIOUS
  <1> HIDE DEF a, b
  <1>3. a \o b \in Seq(S) /\ Len(a \o b) = Len(s) - 1
    <2>1. a \o b \in Seq(S) /\ Len(a \o b) = Len(a) + Len(b)
      BY <1>1, <1>2, ConcatProperties
    <2> QED
      BY <1>1, <1>2, <2>1
  <1>4. ASSUME NEW j \in 1 .. Len(a \o b) PROVE \E m \in 1 .. Len(s) : (a \o b)[j] = s[m]
    <2>1. CASE j <= Len(a)
      BY <1>1, <1>2, <2>1
    <2>2. CASE j > Len(a)
      <3>1. (a \o b)[j] = b[j - Len(a)] /\ j - Len(a) \in 1 .. Len(b)
        BY <1>1, <1>2, <1>3, <2>2
      <3> QED
        BY <1>1, <1>2, <3>1
    <2> QED
      BY <1>1, <2>1, <2>2
  <1>5. ToSet(a \o b) \subseteq ToSet(s)
    <2>1. DOMAIN (a \o b) = 1 .. Len(a \o b) /\ DOMAIN s = 1 .. Len(s)
      BY <1>3
    <2> QED
      BY <1>4, <2>1 DEF ToSet
  <1> QED
    BY <1>3, <1>5 DEF RemoveAt, a, b

LEMMA ReplaceSet ==
    ASSUME NEW S, NEW s \in Seq(S), NEW i \in 1 .. Len(s), NEW e \in S
    PROVE  /\ [s EXCEPT ![i] = e] \in Seq(S)
           /\ ToSet([s EXCEPT ![i] = e]) \subseteq ToSet(s) \union {e}
           /\ ToSet([s EXCEPT ![i] = e]) # {}
  BY DEF ToSet

LEMMA HeadTailSet ==
    ASSUME NEW S, NEW s \in Seq(S), s # <<>>
    PROVE  /\ Head(s) \in ToSet(s)
           /\ Tail(s) \in Seq(S) /\ ToSet(Tail(s)) \subseteq ToSet(s)
  <1>1. Len(s) > 0 /\ Head(s) = s[1] /\ DOMAIN s = 1 .. Len(s)
    OBVIOUS
  <1>2. /\ Tail(s) \in Seq(S) /\ DOMAIN Tail(s) = 1 .. Len(s) - 1
        /\ \A j \in 1 .. Len(s) - 1 : Tail(s)[j] = s[j + 1] /\ j + 1 \in 1 .. Len(s)
    BY <1>1
  <1> QED
    BY <1>1, <1>2 DEF ToSet

LEMMA ElementOf ==
    ASSUME NEW S, NEW s \in Seq(S)
    PROVE  /\ ToSet(s) \subseteq S
           /\ \A i \in 1 .. Len(s) : s[i] \in ToSet(s)
           /\ \A e \in ToSet(s) : \E i \in 1 .. Len(s) : s[i] = e
  BY DEF ToSet

(* Goroutines that are started. *)
LEMMA StartedForwarders ==
    ASSUME RestartTypeOK, NEW layers, StartForwarders(layers)
    PROVE  /\ forwarders' \in [UpLayers -> Seq(ForwarderRecord)]
           /\ \A l \in UpLayers : ToSet(forwarders'[l]) =
                  IF l \in layers THEN ToSet(forwarders[l]) \union {NewForwarder} ELSE ToSet(forwarders[l])
  <1>1. NewForwarder \in ForwarderRecord
    BY DEF NewForwarder, ForwarderRecord, RestartTypeOK
  <1>2. ASSUME NEW l \in UpLayers
        PROVE  /\ Append(forwarders[l], NewForwarder) \in Seq(ForwarderRecord)
               /\ ToSet(Append(forwarders[l], NewForwarder)) = ToSet(forwarders[l]) \union {NewForwarder}
    BY <1>1, AppendSet DEF RestartTypeOK
  <1> QED
    BY <1>2 DEF StartForwarders, RestartTypeOK

(* A goroutine that takes a step, or ends. *)
LEMMA ForwarderMoves ==
    ASSUME RestartTypeOK, NEW l \in UpLayers, NEW i \in 1 .. Len(forwarders[l]), NEW g \in ForwarderRecord,
           forwarders' = [forwarders EXCEPT ![l] = [@ EXCEPT ![i] = g]]
    PROVE  /\ forwarders' \in [UpLayers -> Seq(ForwarderRecord)]
           /\ ToSet(forwarders'[l]) \subseteq ToSet(forwarders[l]) \union {g} /\ ToSet(forwarders'[l]) # {}
           /\ \A m \in UpLayers \ {l} : forwarders'[m] = forwarders[m]
  <1> DEFINE s == forwarders[l]
  <1>1. s \in Seq(ForwarderRecord)
    BY DEF RestartTypeOK
  <1>2. forwarders'[l] = [s EXCEPT ![i] = g] /\ \A m \in UpLayers \ {l} : forwarders'[m] = forwarders[m]
    BY DEF RestartTypeOK
  <1>3. /\ [s EXCEPT ![i] = g] \in Seq(ForwarderRecord)
        /\ ToSet([s EXCEPT ![i] = g]) \subseteq ToSet(s) \union {g}
        /\ ToSet([s EXCEPT ![i] = g]) # {}
    BY <1>1, ReplaceSet
  <1>4. forwarders' \in [UpLayers -> Seq(ForwarderRecord)]
    BY <1>3 DEF RestartTypeOK
  <1> QED
    BY <1>2, <1>3, <1>4

LEMMA ForwarderEnds ==
    ASSUME RestartTypeOK, NEW l \in UpLayers, NEW i \in 1 .. Len(forwarders[l]), Stop(l, i)
    PROVE  /\ forwarders' \in [UpLayers -> Seq(ForwarderRecord)]
           /\ ToSet(forwarders'[l]) \subseteq ToSet(forwarders[l])
           /\ \A m \in UpLayers \ {l} : forwarders'[m] = forwarders[m]
  <1> DEFINE s == forwarders[l]
  <1>1. s \in Seq(ForwarderRecord)
    BY DEF RestartTypeOK
  <1>2. forwarders'[l] = RemoveAt(s, i) /\ \A m \in UpLayers \ {l} : forwarders'[m] = forwarders[m]
    BY DEF RestartTypeOK, Stop
  <1>3. RemoveAt(s, i) \in Seq(ForwarderRecord) /\ ToSet(RemoveAt(s, i)) \subseteq ToSet(s)
    BY <1>1, RemoveSet
  <1>4. forwarders' \in [UpLayers -> Seq(ForwarderRecord)]
    BY <1>3 DEF RestartTypeOK, Stop
  <1> QED
    BY <1>2, <1>3, <1>4

-----------------------------------------------------------------------------
(* Each step of the receiver keeps the invariant.                           *)

LEMMA AddBufferInv ==
    ASSUME RestartInv, NEW l \in UpLayers, AddBuffer(l)
    PROVE  RestartInv'
  <1>1. RestartTypeOK'
    BY DEF RestartInv, RestartTypeOK, AddBuffer, bufVars, rcountVars
  <1>2. \A m \in UpLayers : buf'[m] = "open" => buf[m] = "open"
    BY DEF RestartInv, RestartTypeOK, AddBuffer
  <1> QED
    BY <1>1, <1>2 DEF RestartInv, AddBuffer, bufVars, rcountVars, FlagIsRestarter, AllAreAwaited, ServedNow,
                      EpochsAgree, Forwarder

LEMMA StartBufferInv ==
    ASSUME RestartInv, NEW l \in UpLayers, StartBuffer(l)
    PROVE  RestartInv'
  <1> USE DEF RestartInv
  <1> DEFINE layers == IF rcv.inProgress THEN {} ELSE {l}
  <1>1. /\ forwarders' \in [UpLayers -> Seq(ForwarderRecord)]
        /\ \A m \in UpLayers : ToSet(forwarders'[m]) =
               IF m \in layers THEN ToSet(forwarders[m]) \union {NewForwarder} ELSE ToSet(forwarders[m])
    BY StartedForwarders DEF StartBuffer
  <1>2. RestartTypeOK'
    BY <1>1 DEF RestartTypeOK, StartBuffer, bufVars, rcountVars
  <1>3. \A m \in UpLayers \ {l} : buf'[m] = buf[m]
    BY DEF RestartTypeOK, StartBuffer
  <1>a. NewForwarder.gen = rcv.gen /\ NewForwarder.group = rcv.group /\ NewForwarder.pc = "check"
    BY DEF NewForwarder
  <1>b. UNCHANGED <<rcv, restarter, epoch, queue, synced, found>>
    BY DEF StartBuffer, bufVars, rcountVars
  <1>4. AllAreAwaited'
    BY <1>1, <1>a, <1>b DEF AllAreAwaited, Forwarder, FlagIsRestarter
  <1>5. ServedNow'
    BY <1>1, <1>3, <1>a, <1>b DEF ServedNow, Forwarder
  <1>6. EpochsAgree'
    BY <1>1, <1>a, <1>b DEF EpochsAgree, Forwarder
  <1> QED
    BY <1>2, <1>4, <1>5, <1>6 DEF FlagIsRestarter, StartBuffer

LEMMA ArriveInv ==
    ASSUME RestartInv, NEW l \in UpLayers, Arrive(l)
    PROVE  RestartInv'
  <1> USE DEF RestartInv
  <1>1. RestartTypeOK'
    BY DEF RestartTypeOK, Arrive
  <1>2. \A m \in UpLayers \ {l} : queue'[m] = queue[m]
    BY DEF RestartTypeOK, Arrive
  <1>3. queue'[l] = Append(queue[l], epoch[l])
    BY DEF RestartTypeOK, Arrive
  <1>4. (\A i \in 1 .. Len(queue[l]) : queue[l][i] = epoch[l])
           => \A i \in 1 .. Len(queue'[l]) : queue'[l][i] = epoch[l]
    BY <1>3 DEF RestartTypeOK
  <1>5. EpochsAgree'
    BY <1>2, <1>4 DEF EpochsAgree, Forwarder, Arrive
  <1> QED
    BY <1>1, <1>5 DEF Arrive, FlagIsRestarter, AllAreAwaited, ServedNow, Forwarder

LEMMA DetectRestartInv ==
    ASSUME RestartInv, NEW l \in UpLayers, DetectRestart(l)
    PROVE  RestartInv'
  <1>1. RestartTypeOK'
    BY DEF RestartInv, RestartTypeOK, DetectRestart
  <1>2. found' # 0
    BY DEF RestartInv, RestartTypeOK, DetectRestart
  <1> QED
    BY <1>1, <1>2 DEF RestartInv, DetectRestart, FlagIsRestarter, AllAreAwaited, ServedNow, EpochsAgree, Forwarder

(* What remains of a goroutine that took a step, and of those beside it. *)
LEMMA ForwardersKept ==
    ASSUME RestartInv, RestartTypeOK', NEW l \in UpLayers, NEW i \in 1 .. Len(forwarders[l]),
           UNCHANGED <<rcv, buf, restarter, synced, epoch, found>>,
           \A m \in UpLayers \ {l} : forwarders'[m] = forwarders[m] /\ queue'[m] = queue[m],
           \A f \in ToSet(forwarders'[l]) :
               \/ f \in ToSet(forwarders[l])
               \/ /\ f.group = forwarders[l][i].group /\ f.gen = forwarders[l][i].gen
                  /\ f.pc = "write" /\ found = 0 => f.packet = epoch[l],
           found = 0 => \A j \in 1 .. Len(queue'[l]) : queue'[l][j] = epoch[l],
           ~rcv.inProgress /\ buf[l] = "open" => ToSet(forwarders'[l]) # {}
    PROVE  RestartInv'
  <1> USE DEF RestartInv
  <1>1. forwarders[l][i] \in ToSet(forwarders[l]) /\ ToSet(forwarders[l]) # {}
    BY ElementOf DEF RestartTypeOK
  <1>2. restarter.pc \notin {"restart", "signal", "generation", "finish"}
    BY <1>1 DEF AllAreAwaited, Forwarder
  <1>3. AllAreAwaited'
    BY <1>1, <1>2 DEF AllAreAwaited, Forwarder
  <1>4. ServedNow'
    BY <1>1 DEF ServedNow, Forwarder
  <1>5. EpochsAgree'
    BY <1>2 DEF EpochsAgree, Forwarder
  <1> QED
    BY <1>3, <1>4, <1>5 DEF FlagIsRestarter

LEMMA CheckGenerationInv ==
    ASSUME RestartInv, NEW l \in UpLayers, NEW i \in 1 .. Len(forwarders[l]), CheckGeneration(l, i)
    PROVE  RestartInv'
  <1> DEFINE f == forwarders[l][i]
  <1>1. f \in ForwarderRecord /\ f \in ToSet(forwarders[l])
    BY ElementOf DEF RestartInv, RestartTypeOK
  <1>2. UNCHANGED <<rscope, rcv, buf, pending, epoch, queue, restarter, detected, synced, received, asked, found>>
    BY DEF CheckGeneration, bufVars, rcountVars
  <1>3. CASE f.gen = rcv.gen
    <2> DEFINE g == [f EXCEPT !.pc = "read"]
    <2>1. g \in ForwarderRecord /\ g.group = f.group /\ g.gen = f.gen /\ g.pc = "read"
      BY <1>1 DEF ForwarderRecord
    <2>2. forwarders' = [forwarders EXCEPT ![l] = [@ EXCEPT ![i] = g]]
      BY <1>3 DEF CheckGeneration, SetPC
    <2> HIDE DEF g, f
    <2>3. /\ forwarders' \in [UpLayers -> Seq(ForwarderRecord)]
          /\ ToSet(forwarders'[l]) \subseteq ToSet(forwarders[l]) \union {g} /\ ToSet(forwarders'[l]) # {}
          /\ \A m \in UpLayers \ {l} : forwarders'[m] = forwarders[m]
      BY <2>1, <2>2, ForwarderMoves DEF RestartInv
    <2>4. RestartTypeOK'
      BY <1>2, <2>3 DEF RestartInv, RestartTypeOK
    <2>5. found = 0 => \A j \in 1 .. Len(queue'[l]) : queue'[l][j] = epoch[l]
      BY <1>2 DEF RestartInv, EpochsAgree
    <2> QED
      BY <1>2, <2>1, <2>3, <2>4, <2>5, ForwardersKept DEF f
  <1>4. CASE f.gen # rcv.gen
    <2>1. /\ forwarders' \in [UpLayers -> Seq(ForwarderRecord)]
          /\ ToSet(forwarders'[l]) \subseteq ToSet(forwarders[l])
          /\ \A m \in UpLayers \ {l} : forwarders'[m] = forwarders[m]
      BY <1>4, ForwarderEnds DEF RestartInv, CheckGeneration
    <2>2. rcv.inProgress
      BY <1>1, <1>4 DEF RestartInv, ServedNow, Forwarder
    <2>3. RestartTypeOK'
      BY <1>2, <2>1 DEF RestartInv, RestartTypeOK
    <2>4. found = 0 => \A j \in 1 .. Len(queue'[l]) : queue'[l][j] = epoch[l]
      BY <1>2 DEF RestartInv, EpochsAgree
    <2> QED
      BY <1>2, <2>1, <2>2, <2>3, <2>4, ForwardersKept
  <1> QED
    BY <1>3, <1>4

LEMMA ReadExtendedInv ==
    ASSUME RestartInv, NEW l \in UpLayers, NEW i \in 1 .. Len(forwarders[l]), ReadExtended(l, i)
    PROVE  RestartInv'
  <1> DEFINE f == forwarders[l][i]
  <1>1. f \in ForwarderRecord /\ f \in ToSet(forwarders[l])
    BY ElementOf DEF RestartInv, RestartTypeOK
  <1>2. UNCHANGED <<rscope, rcv, buf, epoch, restarter, detected, synced, received, asked, found>>
    BY DEF ReadExtended, bufVars, rcountVars
  <1>3. CASE buf[l] = "closed" /\ Stop(l, i) /\ UNCHANGED bufVars
    <2>1. /\ forwarders' \in [UpLayers -> Seq(ForwarderRecord)]
          /\ ToSet(forwarders'[l]) \subseteq ToSet(forwarders[l])
          /\ \A m \in UpLayers \ {l} : forwarders'[m] = forwarders[m]
      BY <1>3, ForwarderEnds DEF RestartInv
    <2>2. RestartTypeOK'
      BY <1>2, <1>3, <2>1 DEF RestartInv, RestartTypeOK, bufVars
    <2>3. /\ \A m \in UpLayers : queue'[m] = queue[m]
          /\ found = 0 => \A j \in 1 .. Len(queue'[l]) : queue'[l][j] = epoch[l]
      BY <1>3 DEF RestartInv, EpochsAgree, bufVars
    <2> QED
      BY <1>2, <1>3, <2>1, <2>2, <2>3, ForwardersKept
  <1>4. CASE /\ pending' = [pending EXCEPT ![l] = FALSE]
             /\ SetPC(l, i, "check") /\ UNCHANGED queue
    <2> DEFINE g == [f EXCEPT !.pc = "check"]
    <2>1. g \in ForwarderRecord /\ g.group = f.group /\ g.gen = f.gen /\ g.pc = "check"
      BY <1>1 DEF ForwarderRecord
    <2>2. forwarders' = [forwarders EXCEPT ![l] = [@ EXCEPT ![i] = g]]
      BY <1>4 DEF SetPC
    <2> HIDE DEF g, f
    <2>3. /\ forwarders' \in [UpLayers -> Seq(ForwarderRecord)]
          /\ ToSet(forwarders'[l]) \subseteq ToSet(forwarders[l]) \union {g} /\ ToSet(forwarders'[l]) # {}
          /\ \A m \in UpLayers \ {l} : forwarders'[m] = forwarders[m]
      BY <2>1, <2>2, ForwarderMoves DEF RestartInv
    <2>4. RestartTypeOK'
      BY <1>2, <1>4, <2>3 DEF RestartInv, RestartTypeOK
    <2>5. found = 0 => \A j \in 1 .. Len(queue'[l]) : queue'[l][j] = epoch[l]
      BY <1>4 DEF RestartInv, EpochsAgree
    <2>6. UNCHANGED <<rcv, buf, restarter, synced, epoch, found>>
      BY <1>2
    <2>7. \A m \in UpLayers \ {l} : forwarders'[m] = forwarders[m] /\ queue'[m] = queue[m]
      BY <1>4, <2>3
    <2>8. \A h \in ToSet(forwarders'[l]) :
               \/ h \in ToSet(forwarders[l])
               \/ /\ h.group = forwarders[l][i].group /\ h.gen = forwarders[l][i].gen
                  /\ h.pc = "write" /\ found = 0 => h.packet = epoch[l]
      BY <2>1, <2>3 DEF f
    <2> QED
      BY <2>3, <2>4, <2>5, <2>6, <2>7, <2>8, ForwardersKept
  <1>5. CASE /\ queue[l] # <<>>
             /\ forwarders' = [forwarders EXCEPT ![l][i] = [@ EXCEPT !.pc = "write", !.packet = Head(queue[l])]]
             /\ queue' = [queue EXCEPT ![l] = Tail(@)]
             /\ UNCHANGED pending
    <2> DEFINE g == [f EXCEPT !.pc = "write", !.packet = Head(queue[l])]
    <2>1. /\ queue[l] \in Seq(Nat) /\ Head(queue[l]) \in ToSet(queue[l])
          /\ Tail(queue[l]) \in Seq(Nat) /\ ToSet(Tail(queue[l])) \subseteq ToSet(queue[l])
      BY <1>5, HeadTailSet DEF RestartInv, RestartTypeOK
    <2>2. /\ g \in ForwarderRecord /\ g.group = f.group /\ g.gen = f.gen /\ g.pc = "write"
          /\ g.packet = Head(queue[l])
      BY <1>1, <2>1, ElementOf DEF ForwarderRecord
    <2>3. forwarders' = [forwarders EXCEPT ![l] = [@ EXCEPT ![i] = g]]
      BY <1>5
    <2> HIDE DEF g, f
    <2>4. /\ forwarders' \in [UpLayers -> Seq(ForwarderRecord)]
          /\ ToSet(forwarders'[l]) \subseteq ToSet(forwarders[l]) \union {g} /\ ToSet(forwarders'[l]) # {}
          /\ \A m \in UpLayers \ {l} : forwarders'[m] = forwarders[m]
      BY <2>2, <2>3, ForwarderMoves DEF RestartInv
    <2>5. /\ queue' \in [UpLayers -> Seq(Nat)] /\ queue'[l] = Tail(queue[l])
          /\ \A m \in UpLayers \ {l} : queue'[m] = queue[m]
      BY <1>5, <2>1 DEF RestartInv, RestartTypeOK
    <2>6. RestartTypeOK'
      BY <1>2, <1>5, <2>4, <2>5 DEF RestartInv, RestartTypeOK
    <2>7. found = 0 => /\ \A j \in 1 .. Len(queue'[l]) : queue'[l][j] = epoch[l]
                       /\ g.packet = epoch[l]
      <3>1. found = 0 => \A e \in ToSet(queue[l]) : e = epoch[l]
        BY <2>1, ElementOf DEF RestartInv, EpochsAgree
      <3> QED
        BY <2>1, <2>2, <2>5, <3>1, ElementOf, SMTT(40)
    <2>8. UNCHANGED <<rcv, buf, restarter, synced, epoch, found>>
      BY <1>2
    <2>9. \A m \in UpLayers \ {l} : forwarders'[m] = forwarders[m] /\ queue'[m] = queue[m]
      BY <2>4, <2>5
    <2>10. \A h \in ToSet(forwarders'[l]) :
               \/ h \in ToSet(forwarders[l])
               \/ /\ h.group = forwarders[l][i].group /\ h.gen = forwarders[l][i].gen
                  /\ h.pc = "write" /\ found = 0 => h.packet = epoch[l]
      BY <2>2, <2>4, <2>7 DEF f
    <2>11. found = 0 => \A j \in 1 .. Len(queue'[l]) : queue'[l][j] = epoch[l]
      BY <2>7
    <2> QED
      BY <2>4, <2>6, <2>8, <2>9, <2>10, <2>11, ForwardersKept
  <1> QED
    BY <1>3, <1>4, <1>5 DEF ReadExtended, bufVars

LEMMA BroadcastInv ==
    ASSUME RestartInv, NEW l \in UpLayers, NEW i \in 1 .. Len(forwarders[l]), Broadcast(l, i)
    PROVE  RestartInv'
  <1> DEFINE f == forwarders[l][i]
             g == [f EXCEPT !.pc = "check", !.packet = 0]
  <1>1. f \in ForwarderRecord
    BY ElementOf DEF RestartInv, RestartTypeOK
  <1>2. UNCHANGED <<rscope, rcv, buf, pending, epoch, queue, restarter, detected, synced, received, asked, found>>
    BY DEF Broadcast, bufVars, rcountVars
  <1>3. g \in ForwarderRecord /\ g.group = f.group /\ g.gen = f.gen /\ g.pc = "check"
    BY <1>1 DEF ForwarderRecord
  <1>4. forwarders' = [forwarders EXCEPT ![l] = [@ EXCEPT ![i] = g]]
    BY DEF Broadcast
  <1> HIDE DEF g, f
  <1>5. /\ forwarders' \in [UpLayers -> Seq(ForwarderRecord)]
        /\ ToSet(forwarders'[l]) \subseteq ToSet(forwarders[l]) \union {g} /\ ToSet(forwarders'[l]) # {}
        /\ \A m \in UpLayers \ {l} : forwarders'[m] = forwarders[m]
    BY <1>3, <1>4, ForwarderMoves DEF RestartInv
  <1>6. RestartTypeOK'
    BY <1>2, <1>5 DEF RestartInv, RestartTypeOK
  <1>7. found = 0 => \A j \in 1 .. Len(queue'[l]) : queue'[l][j] = epoch[l]
    BY <1>2 DEF RestartInv, EpochsAgree
  <1>8. UNCHANGED <<rcv, buf, restarter, synced, epoch, found>>
    BY <1>2
  <1>9. \A m \in UpLayers \ {l} : forwarders'[m] = forwarders[m] /\ queue'[m] = queue[m]
    BY <1>2, <1>5
  <1>10. \A h \in ToSet(forwarders'[l]) :
               \/ h \in ToSet(forwarders[l])
               \/ /\ h.group = forwarders[l][i].group /\ h.gen = forwarders[l][i].gen
                  /\ h.pc = "write" /\ found = 0 => h.packet = epoch[l]
    BY <1>3, <1>5 DEF f
  <1> QED
    BY <1>5, <1>6, <1>7, <1>8, <1>9, <1>10, ForwardersKept

LEMMA BeginInv ==
    ASSUME RestartInv, NEW d \in BOOLEAN, Begin(d), detected' \in Nat, asked' \in Nat,
           UNCHANGED <<rscope, buf, pending, epoch, queue, forwarders, synced, received, found>>
    PROVE  RestartInv'
  <1> USE DEF RestartInv
  <1>1. CASE rcv.closed \/ rcv.inProgress
    <2>1. UNCHANGED <<rcv, restarter>>
      BY <1>1 DEF Begin
    <2> QED
      BY <2>1 DEF RestartTypeOK, FlagIsRestarter, AllAreAwaited, ServedNow, EpochsAgree, Forwarder
  <1>2. CASE ~rcv.closed /\ ~rcv.inProgress
    <2>1. /\ rcv' = [rcv EXCEPT !.inProgress = TRUE, !.gen = @ + 1]
          /\ restarter' = [pc |-> IF d THEN "wait" ELSE "collect", detected |-> d, todo |-> {}]
      BY <1>2 DEF Begin
    <2>2. /\ rcv' \in [gen : Nat, inProgress : BOOLEAN, group : Nat, closed : BOOLEAN]
          /\ rcv'.inProgress = TRUE /\ rcv'.group = rcv.group
      <3> DEFINE next == rcv.gen + 1
      <3>1. next \in Nat
        BY DEF RestartTypeOK
      <3>2. rcv' = [rcv EXCEPT !.inProgress = TRUE, !.gen = next]
        BY <2>1
      <3> HIDE DEF next
      <3> QED
        BY <3>1, <3>2 DEF RestartTypeOK
    <2>3. restarter' \in RestarterRecord /\ restarter'.pc \in {"wait", "collect"}
      BY <2>1 DEF RestarterRecord
    <2>4. restarter.pc = "idle"
      BY <1>2 DEF FlagIsRestarter
    <2>5. RestartTypeOK'
      BY <2>2, <2>3 DEF RestartTypeOK
    <2> QED
      BY <2>2, <2>3, <2>4, <2>5 DEF FlagIsRestarter, AllAreAwaited, ServedNow, EpochsAgree, Forwarder
  <1> QED
    BY <1>1, <1>2

LEMMA RestartCallsInv ==
    ASSUME RestartInv, Restart \/ OnStreamRestart
    PROVE  RestartInv'
  <1>1. CASE Restart
    <2>1. asked' \in Nat /\ detected' \in Nat
      BY <1>1 DEF Restart, RestartInv, RestartTypeOK
    <2> QED
      BY <1>1, <2>1, BeginInv DEF Restart, bufVars
  <1>2. CASE OnStreamRestart
    <2>1. asked' \in Nat /\ detected' \in Nat
      BY <1>2 DEF OnStreamRestart, RestartInv, RestartTypeOK, rcountVars
    <2> QED
      BY <1>2, <2>1, BeginInv DEF OnStreamRestart, bufVars, rcountVars
  <1> QED
    BY <1>1, <1>2

(* The steps of restartInternal before the goroutines have stopped. *)
LEMMA StoppingInv ==
    ASSUME RestartInv, CollectBuffers \/ Marked \/ (\E l \in UpLayers : MarkForRestart(l))
    PROVE  RestartInv'
  <1> USE DEF RestartInv
  <1>1. /\ restarter' \in RestarterRecord /\ restarter.pc \in {"collect", "mark"}
        /\ restarter'.pc \in {"mark", "wait"} /\ pending' \in [UpLayers -> BOOLEAN]
    <2>0. CASE CollectBuffers
      BY <2>0 DEF CollectBuffers, Buffers, RestartTypeOK, RestarterRecord, bufVars
    <2>1. CASE Marked
      BY <2>1 DEF Marked, RestartTypeOK, RestarterRecord, bufVars
    <2>2. ASSUME NEW l \in UpLayers, MarkForRestart(l)
          PROVE  /\ restarter' \in RestarterRecord /\ restarter.pc = "mark" /\ restarter'.pc = "mark"
                 /\ pending' \in [UpLayers -> BOOLEAN]
      BY <2>2 DEF MarkForRestart, RestartTypeOK, RestarterRecord
    <2> QED
      BY <2>0, <2>1, <2>2
  <1>2. UNCHANGED <<rscope, rcv, buf, epoch, queue, forwarders, detected, synced, received, asked, found>>
    BY DEF CollectBuffers, Marked, MarkForRestart, bufVars, rcountVars
  <1>3. RestartTypeOK'
    BY <1>1, <1>2 DEF RestartTypeOK
  <1> QED
    BY <1>1, <1>2, <1>3 DEF FlagIsRestarter, AllAreAwaited, ServedNow, EpochsAgree, Forwarder

(* All goroutines are of the wait group, so none is left. *)
LEMMA ForwardersStoppedInv ==
    ASSUME RestartInv, ForwardersStopped
    PROVE  RestartInv'
  <1> USE DEF RestartInv
  <1>1. restarter' \in RestarterRecord /\ restarter.pc = "wait" /\ restarter'.pc \in {"signal", "restart"}
    BY DEF ForwardersStopped, RestartTypeOK, RestarterRecord, Buffers
  <1>2. UNCHANGED <<rscope, rcv, buf, pending, epoch, queue, forwarders, detected, synced, received, asked, found>>
    BY DEF ForwardersStopped, bufVars, rcountVars
  <1>3. ASSUME NEW l \in UpLayers PROVE ToSet(forwarders[l]) = {}
    <2>1. SUFFICES ASSUME NEW f \in ToSet(forwarders[l]) PROVE FALSE
      OBVIOUS
    <2>2. PICK i \in 1 .. Len(forwarders[l]) : forwarders[l][i] = f
      BY <2>1, ElementOf DEF RestartTypeOK
    <2> QED
      BY <2>1, <2>2 DEF ForwardersStopped, Stopped, AllAreAwaited, Forwarder
  <1>4. RestartTypeOK'
    BY <1>1, <1>2 DEF RestartTypeOK
  <1> QED
    BY <1>1, <1>2, <1>3, <1>4 DEF FlagIsRestarter, AllAreAwaited, ServedNow, EpochsAgree, Forwarder

LEMMA RestartStreamInv ==
    ASSUME RestartInv, NEW l \in UpLayers, RestartStream(l)
    PROVE  RestartInv'
  <1> USE DEF RestartInv
  <1>1. restarter' \in RestarterRecord /\ restarter.pc = "restart" /\ restarter'.pc = "restart"
    BY DEF RestartStream, RestartTypeOK, RestarterRecord
  <1>2. UNCHANGED <<rscope, rcv, buf, pending, forwarders, detected, synced, received, asked, found>>
    BY DEF RestartStream, rcountVars
  <1>3. epoch' \in [UpLayers -> Nat] /\ queue' \in [UpLayers -> Seq(Nat)]
    BY DEF RestartStream, RestartTypeOK
  <1>4. /\ Len(queue'[l]) = 0
        /\ \A m \in UpLayers \ {l} : queue'[m] = queue[m] /\ epoch'[m] = epoch[m]
    BY DEF RestartStream, RestartTypeOK
  <1>5. RestartTypeOK'
    BY <1>1, <1>2, <1>3 DEF RestartTypeOK
  <1>6. EpochsAgree'
    BY <1>1, <1>2, <1>4 DEF EpochsAgree, AllAreAwaited, Forwarder
  <1> QED
    BY <1>1, <1>2, <1>5, <1>6 DEF FlagIsRestarter, AllAreAwaited, ServedNow, Forwarder

(* The DownTracks are told the epochs the buffers are in. *)
LEMMA SignalInv ==
    ASSUME RestartInv, Restarted \/ SignalDownTracks
    PROVE  RestartInv'
  <1> USE DEF RestartInv
  <1>1. CASE Restarted
    <2>1. restarter' \in RestarterRecord /\ restarter.pc = "restart" /\ restarter'.pc = "signal"
      BY <1>1 DEF Restarted, RestartTypeOK, RestarterRecord
    <2>2. UNCHANGED <<rscope, rcv, buf, pending, epoch, queue, forwarders, detected, synced, received, asked, found>>
      BY <1>1 DEF Restarted, bufVars, rcountVars
    <2>3. RestartTypeOK'
      BY <2>1, <2>2 DEF RestartTypeOK
    <2> QED
      BY <2>1, <2>2, <2>3 DEF FlagIsRestarter, AllAreAwaited, ServedNow, EpochsAgree, Forwarder
  <1>2. CASE SignalDownTracks
    <2>1. restarter' \in RestarterRecord /\ restarter.pc = "signal" /\ restarter'.pc = "generation"
      BY <1>2 DEF SignalDownTracks, RestartTypeOK, RestarterRecord
    <2>2. /\ UNCHANGED <<rscope, rcv, buf, pending, epoch, queue, forwarders, detected, received, asked, found>>
          /\ synced' = epoch
      BY <1>2 DEF SignalDownTracks, bufVars, rcountVars
    <2>3. RestartTypeOK'
      BY <2>1, <2>2 DEF RestartTypeOK
    <2> QED
      BY <2>1, <2>2, <2>3 DEF FlagIsRestarter, AllAreAwaited, ServedNow, EpochsAgree, Forwarder
  <1> QED
    BY <1>1, <1>2

LEMMA NewGenerationInv ==
    ASSUME RestartInv, NewGeneration
    PROVE  RestartInv'
  <1> USE DEF RestartInv
  <1>1. restarter' \in RestarterRecord /\ restarter.pc = "generation" /\ restarter'.pc = "finish"
    BY DEF NewGeneration, RestartTypeOK, RestarterRecord
  <1>2. UNCHANGED <<rscope, buf, pending, epoch, queue, forwarders, detected, synced, received, asked, found>>
    BY DEF NewGeneration, bufVars, rcountVars
  <1>3. /\ rcv' \in [gen : Nat, inProgress : BOOLEAN, group : Nat, closed : BOOLEAN]
        /\ rcv'.inProgress = rcv.inProgress
    <2> DEFINE gen == rcv.gen + 1
               group == rcv.group + 1
    <2>1. gen \in Nat /\ group \in Nat
      BY DEF RestartTypeOK
    <2>2. rcv' = [rcv EXCEPT !.gen = gen, !.group = group]
      BY DEF NewGeneration
    <2> HIDE DEF gen, group
    <2> QED
      BY <2>1, <2>2 DEF RestartTypeOK
  <1>4. RestartTypeOK'
    BY <1>1, <1>2, <1>3 DEF RestartTypeOK
  <1> QED
    BY <1>1, <1>2, <1>3, <1>4 DEF FlagIsRestarter, AllAreAwaited, ServedNow, EpochsAgree, Forwarder

(* Every buffer that is in place gets a goroutine of the new generation. *)
LEMMA RestartForwardersInv ==
    ASSUME RestartInv, RestartForwarders
    PROVE  RestartInv'
  <1> USE DEF RestartInv
  <1>1. restarter' \in RestarterRecord /\ restarter.pc = "finish" /\ restarter'.pc = "idle"
    BY DEF RestartForwarders, NoRestart, RestarterRecord
  <1>2. UNCHANGED <<rscope, buf, pending, epoch, queue, detected, synced, received, asked, found>>
    BY DEF RestartForwarders, bufVars, rcountVars
  <1>3. /\ rcv' \in [gen : Nat, inProgress : BOOLEAN, group : Nat, closed : BOOLEAN]
        /\ rcv'.gen = rcv.gen /\ rcv'.group = rcv.group /\ ~rcv'.inProgress
    BY DEF RestartForwarders, RestartTypeOK
  <1>4. /\ forwarders' \in [UpLayers -> Seq(ForwarderRecord)]
        /\ \A l \in UpLayers : ToSet(forwarders'[l]) =
               IF l \in Buffers THEN ToSet(forwarders[l]) \union {NewForwarder} ELSE ToSet(forwarders[l])
    BY StartedForwarders DEF RestartForwarders
  <1>5. \A l \in UpLayers : ToSet(forwarders'[l]) = IF l \in Buffers THEN {NewForwarder} ELSE {}
    BY <1>1, <1>4 DEF AllAreAwaited, Forwarder
  <1>6. NewForwarder.gen = rcv.gen /\ NewForwarder.group = rcv.group /\ NewForwarder.pc = "check"
    BY DEF NewForwarder
  <1>7. RestartTypeOK'
    BY <1>1, <1>2, <1>3, <1>4 DEF RestartTypeOK
  <1>8. AllAreAwaited'
    BY <1>1, <1>3, <1>5, <1>6 DEF AllAreAwaited, Forwarder
  <1>9. ServedNow'
    BY <1>2, <1>3, <1>5, <1>6 DEF ServedNow, Forwarder, Buffers
  <1>10. EpochsAgree'
    BY <1>1, <1>2, <1>5, <1>6 DEF EpochsAgree, Forwarder
  <1> QED
    BY <1>1, <1>3, <1>7, <1>8, <1>9, <1>10 DEF FlagIsRestarter

LEMMA CloseReceiverInv ==
    ASSUME RestartInv, CloseReceiver
    PROVE  RestartInv'
  <1> USE DEF RestartInv
  <1>1. UNCHANGED <<rscope, pending, epoch, queue, forwarders, restarter, detected, synced, received, asked, found>>
    BY DEF CloseReceiver, bufVars, rcountVars
  <1>2. /\ rcv' \in [gen : Nat, inProgress : BOOLEAN, group : Nat, closed : BOOLEAN]
        /\ rcv'.gen = rcv.gen /\ rcv'.group = rcv.group /\ rcv'.inProgress = rcv.inProgress
    BY DEF CloseReceiver, RestartTypeOK
  <1>3. /\ buf' \in [UpLayers -> {"none", "added", "open", "closed"}]
        /\ \A l \in UpLayers : buf'[l] # "open"
    BY DEF CloseReceiver, RestartTypeOK, Buffers
  <1>4. RestartTypeOK'
    BY <1>1, <1>2, <1>3 DEF RestartTypeOK
  <1> QED
    BY <1>1, <1>2, <1>3, <1>4 DEF FlagIsRestarter, AllAreAwaited, ServedNow, EpochsAgree, Forwarder

LEMMA RestartInitInv ==
    ASSUME RestartInit
    PROVE  RestartInv
  <1>1. RestartTypeOK
    BY DEF RestartInit, RestartTypeOK, NoRestart, RestarterRecord
  <1>2. \A l \in UpLayers : ToSet(forwarders[l]) = {} /\ Len(queue[l]) = 0
    BY DEF RestartInit, ToSet
  <1>3. FlagIsRestarter
    BY DEF FlagIsRestarter, RestartInit, NoRestart
  <1> QED
    BY <1>1, <1>2, <1>3 DEF RestartInv, AllAreAwaited, ServedNow, EpochsAgree, Forwarder, RestartInit, NoRestart

LEMMA ReceiverStepInv ==
    ASSUME RestartInv, ReceiverNext
    PROVE  RestartInv'
  <1>1. ASSUME NEW l \in UpLayers, AddBuffer(l) \/ StartBuffer(l) \/ Arrive(l) \/ DetectRestart(l)
        PROVE  RestartInv'
    BY <1>1, AddBufferInv, StartBufferInv, ArriveInv, DetectRestartInv
  <1>2. ASSUME Forward PROVE RestartInv'
    BY <1>2, CheckGenerationInv, ReadExtendedInv, BroadcastInv DEF Forward
  <1>3. ASSUME RestartStep PROVE RestartInv'
    BY <1>3, StoppingInv, ForwardersStoppedInv, RestartStreamInv, SignalInv, NewGenerationInv,
       RestartForwardersInv DEF RestartStep
  <1> QED
    BY <1>1, <1>2, <1>3, RestartCallsInv DEF ReceiverNext

LEMMA RestartUnchanged ==
    ASSUME RestartInv, UNCHANGED restartVars
    PROVE  RestartInv'
  BY DEF restartVars, bufVars, rcountVars, RestartInv, RestartTypeOK, FlagIsRestarter, AllAreAwaited, ServedNow,
         EpochsAgree, Forwarder

(* The invariant says what the properties say. *)
LEMMA RestartInvImplies ==
    ASSUME RestartInv
    PROVE  LayersAreServed /\ ResyncBeforePackets
  <1> USE DEF RestartInv
  <1>1. ASSUME ~rcv.inProgress, NEW l \in UpLayers, buf[l] = "open" PROVE Running(l) # {}
    <2>1. PICK f \in ToSet(forwarders[l]) : f.gen = rcv.gen
      BY <1>1 DEF ServedNow, Forwarder
    <2>2. PICK i \in 1 .. Len(forwarders[l]) : forwarders[l][i] = f
      BY <2>1, ElementOf DEF RestartTypeOK
    <2> QED
      BY <2>1, <2>2 DEF Running
  <1>2. ASSUME found = 0, NEW l \in UpLayers, NEW i \in 1 .. Len(forwarders[l]), forwarders[l][i].pc = "write"
        PROVE  forwarders[l][i].packet = synced[l]
    <2>1. forwarders[l][i] \in ToSet(forwarders[l])
      BY ElementOf DEF RestartTypeOK
    <2> QED
      BY <1>2, <2>1 DEF EpochsAgree, Forwarder
  <1> QED
    BY <1>1, <1>2 DEF LayersAreServed, ResyncBeforePackets

-----------------------------------------------------------------------------
(* The track: its two parts run beside each other.                          *)

LEMMA TrackStepInv ==
    ASSUME DynacastInv, RestartInv, [TrackNext]_trackVars
    PROVE  DynacastInv' /\ RestartInv'
  <1>1. CASE UNCHANGED trackVars
    BY <1>1, DynacastStepInv, RestartUnchanged DEF trackVars
  <1>2. CASE DynacastNext /\ UNCHANGED restartVars
    BY <1>2, DynacastStepInv, RestartUnchanged
  <1>3. CASE ReceiverNext /\ UNCHANGED dynacastVars
    BY <1>3, DynacastStepInv, ReceiverStepInv
  <1>4. CASE CloseTrack
    BY <1>4, DynacastStepInv, CloseReceiverInv DEF CloseTrack
  <1> QED
    BY <1>1, <1>2, <1>3, <1>4 DEF TrackNext

(* Both inductive invariants hold of the track for every number of layers,    *)
(* codecs, peers, packets, restarts and calls.                                *)
THEOREM TrackInvariant == TrackSpec => [](DynacastInv /\ RestartInv)
  <1>1. TrackInit => DynacastInv /\ RestartInv
    BY DynacastInitInv, RestartInitInv DEF TrackInit
  <1>2. DynacastInv /\ RestartInv /\ [TrackNext]_trackVars => (DynacastInv /\ RestartInv)'
    BY TrackStepInv
  <1> QED
    BY <1>1, <1>2, PTL DEF TrackSpec

(* Whatever peers, restarts, regressions, timers and the close of the track   *)
(* do in whatever order, a codec that was regressed keeps no wish and stays   *)
(* off (dynacastmanagervideo.go, dynacastqualityvideo.go).                    *)
THEOREM RegressionLeavesNobody == TrackSpec => []NobodyLeftBehind
  <1>1. DynacastInv => NobodyLeftBehind
    BY DEF DynacastInv
  <1> QED
    BY <1>1, TrackInvariant, PTL

(* However AddUpTrack, restarts from outside and detected restarts            *)
(* interleave, an open buffer has a goroutine of the current generation as    *)
(* soon as no restart runs (receiver_base.go).                                *)
THEOREM EveryLayerIsServed == TrackSpec => []LayersAreServed
  BY TrackInvariant, RestartInvImplies, PTL

(* Without detected restarts no packet is written to the DownTracks before    *)
(* they were told to resynchronise to its stream (receiver_base.go).          *)
THEOREM DownTracksAreTold == TrackSpec => []ResyncBeforePackets
  BY TrackInvariant, RestartInvImplies, PTL

=============================================================================
