--------------------- MODULE SubscriptionManagerProofs ---------------------
(***************************************************************************)
(* Proofs about SubscriptionManager for every number of tracks, MediaTrack *)
(* objects, subscribed tracks, queue capacity and limit.                   *)
(***************************************************************************)
EXTENDS SubscriptionManager, FiniteSetTheorems, TLAPS

(***************************************************************************)
(* Type correctness.                                                       *)
(***************************************************************************)

(* NoDT is a well-formed record: some track and the first MediaTrack object. *)
LEMMA NoDTType == NoDT \in DTType
  BY BoundsAssumption DEF NoDT, DTType, Gens, DTStates

(* Idle is a well-formed worker. *)
LEMMA IdleType == Idle \in WorkerType
  BY BoundsAssumption DEF Idle, WorkerPCs, WorkerType, Gens

(* CloseWithFlush keeps the subscribed tracks well-formed. *)
LEMMA CloseOfType ==
  ASSUME PubTypeOK, NEW ids, NEW resume \in BOOLEAN
  PROVE  CloseOf(ids, resume) \in [SubIDs -> DTType]
  <1> SUFFICES ASSUME NEW i \in SubIDs
                PROVE  CloseOf(ids, resume)[i] \in DTType
    BY DEF CloseOf
  <1>1. dts[i] \in DTType
    BY DEF PubTypeOK, DTType
  <1>2. [dts[i] EXCEPT !.state = "closing", !.resume = resume] \in DTType
    BY <1>1 DEF DTType, DTStates
  <1> QED
    BY <1>1, <1>2 DEF CloseOf

(* queueReconcile respects the capacity of the channel. *)
LEMMA QueueType ==
  ASSUME TypeOK, NEW x \in Tracks \cup {All}, QueueReconcile(x)
  PROVE  /\ queue' \in Seq(Tracks \cup {All})
         /\ Len(queue') <= QueueCap
         /\ overflow' \in BOOLEAN
  <1>1. /\ queue \in Seq(Tracks \cup {All}) /\ Len(queue) <= QueueCap /\ QueueCap \in Nat
        /\ overflow \in BOOLEAN
    BY ParamAssumption DEF TypeOK
  <1>2. CASE Len(queue) < QueueCap
    <2>1. queue' = Append(queue, x) /\ overflow' = overflow
      BY <1>2 DEF QueueReconcile
    <2> QED
      BY <1>1, <1>2, <2>1
  <1>3. CASE ~(Len(queue) < QueueCap)
    <2>1. queue' = queue /\ overflow' = TRUE
      BY <1>3 DEF QueueReconcile
    <2> QED
      BY <1>1, <2>1
  <1> QED
    BY <1>2, <1>3

(* Replacing an entry keeps the entries and the observer goroutines well-formed. *)
LEMMA SetSubType ==
  ASSUME TypeOK, NEW t \in Tracks, NEW s \in SubType, SetSub(t, s)
  PROVE  /\ sub' \in [Tracks -> SubType]
         /\ dropping' \in SUBSET (NoteKinds \X Tracks \X Nat)
  <1>1. sub[t] \in SubType
    BY DEF TypeOK
  <1>2. DropsOf(t, sub[t], s) \subseteq (NoteKinds \X Tracks \X Nat)
    BY <1>1 DEF DropsOf, SubType, NoteKinds
  <1> QED
    BY <1>2 DEF SetSub, TypeOK

(* The updates of an entry yield entries. *)
LEMMA EntryTypes ==
  ASSUME NEW s \in SubType
  PROVE  /\ NewSub \in SubType
         /\ NoSub \in SubType
         /\ SetDesiredTrue(s) \in SubType
         /\ SetDesiredFalse(s) \in SubType
         /\ Failed(s) \in SubType
         /\ \A p \in BOOLEAN : WithPermission(s, p) \in SubType
  <1>1. NewSub \in SubType
    BY BoundsAssumption DEF NewSub, SubType
  <1>2. NoSub \in SubType
    BY <1>1 DEF NoSub, SubType
  <1>3. SetDesiredTrue(s) \in SubType
    <2> DEFINE b == s.desired /\ s.tried
               a == [s EXCEPT !.desired = TRUE]
               c == [a EXCEPT !.kept = FALSE]
               d == [c EXCEPT !.age = 0]
    <2>1. b \in BOOLEAN
      OBVIOUS
    <2>2. SetDesiredTrue(s) = [d EXCEPT !.tried = b]
      BY DEF SetDesiredTrue, SubType
    <2>3. a \in SubType
      BY DEF SubType
    <2> HIDE DEF a
    <2>4. c \in SubType
      BY <2>3 DEF SubType
    <2> HIDE DEF c
    <2>5. d \in SubType
      BY <2>4 DEF SubType
    <2> HIDE DEF b, d
    <2> QED
      BY <2>1, <2>2, <2>5 DEF SubType
  <1>4. SetDesiredFalse(s) \in SubType
    BY DEF SetDesiredFalse, SubType
  <1>5. Failed(s) \in SubType
    <2> DEFINE a == IF s.tried THEN s.age ELSE 0
    <2>1. a \in 0 .. 2
      BY DEF SubType
    <2>2. Failed(s) = [s EXCEPT !.tried = TRUE, !.age = a]
      BY DEF Failed
    <2> HIDE DEF a
    <2> QED
      BY <2>1, <2>2 DEF SubType
  <1>6. ASSUME NEW p \in BOOLEAN PROVE WithPermission(s, p) \in SubType
    <2> DEFINE a == IF p THEN 0 ELSE s.age
               r == IF p THEN "yes" ELSE "no"
    <2>1. a \in 0 .. 2 /\ r \in {"yes", "no"}
      BY DEF SubType
    <2>2. WithPermission(s, p) = s \/ WithPermission(s, p) = [s EXCEPT !.perm = r, !.age = a]
      BY DEF WithPermission
    <2> HIDE DEF a, r
    <2> QED
      BY <2>1, <2>2 DEF SubType
  <1> QED
    BY <1>1, <1>2, <1>3, <1>4, <1>5, <1>6

(* Moving on keeps the worker well-formed. *)
LEMMA GotoType ==
  ASSUME TypeOK, NEW pc \in WorkerPCs, Goto(pc)
  PROVE  worker' \in WorkerType
  <1>1. worker \in WorkerType
    BY DEF TypeOK
  <1>2. CASE pc = "next"
    BY <1>1, <1>2, IdleType DEF Goto, WorkerType
  <1>3. CASE pc # "next"
    BY <1>1, <1>3 DEF Goto, WorkerType
  <1> QED
    BY <1>2, <1>3

(* A failed attempt keeps the entry and the worker well-formed. *)
LEMMA AttemptFailedType ==
  ASSUME TypeOK, AttemptFailed
  PROVE  /\ sub' \in [Tracks -> SubType]
         /\ dropping' \in SUBSET (NoteKinds \X Tracks \X Nat)
         /\ worker' \in WorkerType
  <1>1. worker.t \in Tracks
    BY DEF TypeOK, WorkerType
  <1>2. Failed(sub[worker.t]) \in SubType
    BY <1>1, EntryTypes DEF TypeOK
  <1>3. SetSub(worker.t, Failed(sub[worker.t])) /\ Goto("next")
    BY DEF AttemptFailed
  <1> QED
    BY <1>1, <1>2, <1>3, SetSubType, GotoType DEF WorkerPCs

-----------------------------------------------------------------------------
(* Steps of the client, one lemma per group of actions. *)

USE DEF pubVars, obsVars, dtVars, subVars, qVars, accVars, envVars

(* A step of the manager alone leaves the publishing side as it is. *)
LEMMA PubFrame ==
  ASSUME PubTypeOK, UNCHANGED <<pubVars, obsVars, dtVars>>
  PROVE  PubTypeOK'
  BY DEF PubTypeOK

(* A step that changes no more of the publishing side than the subscribed tracks. *)
LEMMA DtsFrame ==
  ASSUME PubTypeOK, UNCHANGED <<pubVars, obsVars, nst, senders, cached>>,
         dts' \in [SubIDs -> DTType]
  PROVE  PubTypeOK'
  BY DEF PubTypeOK

(* The client's calls keep the types. *)
LEMMA ClientTypes ==
  ASSUME TypeOK, NEW t \in Tracks,
         \/ SubscribeToTrack(t) \/ ClientUnsubscribe(t) \/ UpdateSubscribedTrackSettings(t)
         \/ ClearAllSubscriptions
  PROVE  TypeOK'
  <1> USE DEF SubscribeToTrack, ClientUnsubscribe, UpdateSubscribedTrackSettings,
              ClearAllSubscriptions
  <1> sub[t] \in SubType /\ NewSub \in SubType
    BY EntryTypes DEF TypeOK
  <1>a. PubTypeOK'
    BY PubFrame DEF TypeOK
  <1>b. ops' \in 0 .. MaxOps
    BY ParamAssumption DEF TypeOK
  <1>1. CASE SubscribeToTrack(t)
    <2> DEFINE s == SetDesiredTrue(IF sub[t].present THEN sub[t] ELSE NewSub)
    <2>1. s \in SubType
      BY EntryTypes
    <2>2. SetSub(t, s) /\ QueueReconcile(t)
      BY <1>1
    <2> HIDE DEF s
    <2> QED
      BY <1>a, <1>b, <1>1, <2>1, <2>2, SetSubType, QueueType DEF TypeOK
  <1>2. CASE ClientUnsubscribe(t)
    <2>1. CASE sub[t].present /\ sub[t].desired
      <3>1. SetDesiredFalse(sub[t]) \in SubType
        BY EntryTypes
      <3>2. SetSub(t, SetDesiredFalse(sub[t])) /\ QueueReconcile(t)
        BY <1>2, <2>1 DEF UnsubscribeFromTrack
      <3> QED
        BY <1>a, <1>b, <1>2, <3>1, <3>2, SetSubType, QueueType DEF TypeOK
    <2>2. CASE ~(sub[t].present /\ sub[t].desired)
      BY <1>a, <1>b, <1>2, <2>2 DEF UnsubscribeFromTrack, TypeOK
    <2> QED
      BY <2>1, <2>2
  <1>3. CASE UpdateSubscribedTrackSettings(t)
    <2> DEFINE s == IF sub[t].present THEN sub[t] ELSE NewSub
               b == s.kept \/ ~s.desired
    <2>1. s \in SubType /\ b \in BOOLEAN
      OBVIOUS
    <2>2. SetSub(t, [s EXCEPT !.kept = b])
      BY <1>3
    <2> HIDE DEF s, b
    <2>3. [s EXCEPT !.kept = b] \in SubType
      BY <2>1 DEF SubType
    <2> QED
      BY <1>a, <1>b, <1>3, <2>2, <2>3, SetSubType DEF TypeOK
  <1>4. CASE ClearAllSubscriptions
    <2>1. \A u \in Tracks : SetDesiredFalse(sub[u]) \in SubType
      BY EntryTypes DEF TypeOK
    <2>2. sub' \in [Tracks -> SubType]
      BY <1>4, <2>1
    <2>3. \A u \in Tracks :
            DropsOf(u, sub[u], SetDesiredFalse(sub[u])) \subseteq (NoteKinds \X Tracks \X Nat)
      BY DEF TypeOK, DropsOf, SubType, NoteKinds
    <2>4. dropping' \in SUBSET (NoteKinds \X Tracks \X Nat)
      BY <1>4, <2>3 DEF TypeOK
    <2>5. QueueReconcile(All)
      BY <1>4
    <2> QED
      BY <1>a, <1>b, <1>4, <2>2, <2>4, <2>5, QueueType DEF TypeOK
  <1> QED
    BY <1>1, <1>2, <1>3, <1>4

(* The steps of SetPermission keep the types. *)
LEMMA PermissionTypes ==
  ASSUME TypeOK, SetPermission \/ ApplyGrant \/ ApplyRevoke
  PROVE  TypeOK'
  <1>1. CASE SetPermission
    <2>1. perms' \in 0 .. MaxPerm
      BY <1>1, ParamAssumption DEF SetPermission, TypeOK
    <2> QED
      BY <1>1, <2>1, PubFrame DEF SetPermission, TypeOK
  <1>2. CASE ApplyGrant
    BY <1>2, PubFrame, QueueType DEF ApplyGrant, TypeOK
  <1>3. CASE ApplyRevoke
    BY <1>3, DtsFrame, CloseOfType DEF ApplyRevoke, TypeOK
  <1> QED
    BY <1>1, <1>2, <1>3

(* The end of the session keeps the types. *)
LEMMA SessionTypes ==
  ASSUME TypeOK, ParticipantClosed \/ StartClose \/ WorkerExit \/ \E r \in BOOLEAN : FinishClose(r)
  PROVE  TypeOK'
  <1>1. CASE ParticipantClosed \/ StartClose
    BY <1>1, PubFrame DEF ParticipantClosed, StartClose, TypeOK
  <1>2. CASE WorkerExit
    BY <1>2, PubFrame, GotoType DEF WorkerExit, WorkerPCs, TypeOK
  <1>3. CASE \E r \in BOOLEAN : FinishClose(r)
    <2> PICK r \in BOOLEAN : FinishClose(r)
      BY <1>3
    <2> DEFINE cleared(u) == [sub[u] EXCEPT !.changed = 0, !.removed = 0,
                                            !.desired = @ /\ sub[u].st = 0]
    <2>1. \A u \in Tracks : cleared(u) \in SubType
      <3> TAKE u \in Tracks
      <3> DEFINE b == sub[u].desired /\ sub[u].st = 0
                 d == [sub[u] EXCEPT !.changed = 0, !.removed = 0]
      <3>1. sub[u] \in SubType /\ b \in BOOLEAN
        BY DEF TypeOK
      <3>2. cleared(u) = [d EXCEPT !.desired = b]
        BY <3>1 DEF SubType
      <3>3. d \in SubType
        BY <3>1 DEF SubType
      <3> HIDE DEF b, d
      <3> QED
        BY <3>1, <3>2, <3>3 DEF SubType
    <2>2. sub' = [u \in Tracks |-> cleared(u)]
          /\ dropping' = dropping \cup UNION {DropsOf(u, sub[u], cleared(u)) : u \in Tracks}
      BY DEF FinishClose
    <2> HIDE DEF cleared
    <2>3. sub' \in [Tracks -> SubType]
      BY <2>1, <2>2
    <2>4. \A u \in Tracks : DropsOf(u, sub[u], cleared(u)) \subseteq (NoteKinds \X Tracks \X Nat)
      BY DEF TypeOK, DropsOf, SubType, NoteKinds
    <2>5. dropping' \in SUBSET (NoteKinds \X Tracks \X Nat)
      BY <2>2, <2>4 DEF TypeOK
    <2> QED
      BY <2>3, <2>5, DtsFrame, CloseOfType DEF FinishClose, TypeOK
  <1> QED
    BY <1>1, <1>2, <1>3

(* The goroutines that call back into the manager keep the types. *)
LEMMA CallbackTypes ==
  ASSUME TypeOK,
         NEW t \in Tracks, NEW g \in Gens, NEW i \in SubIDs, NEW ok \in BOOLEAN, NEW o,
         \/ RemoveSubscriber(t, g) \/ DelayedReconcile(t) \/ RemoveObserver(o)
         \/ TrackChanged(t) \/ TrackRemoved(t) \/ HandleSourceTrackRemoved(t)
         \/ Bound(i, ok) \/ BindCallback(i, ok) \/ Age(t)
  PROVE  TypeOK'
  <1> sub[t] \in SubType /\ dts[i] \in DTType
    BY DEF TypeOK, PubTypeOK
  <1>1. CASE RemoveSubscriber(t, g)
    <2>1. pending' \in [Tracks -> [Gens -> 0 .. MaxPending]]
      BY <1>1, ParamAssumption DEF RemoveSubscriber, TypeOK
    <2> QED
      BY <1>1, <2>1, DtsFrame, CloseOfType DEF RemoveSubscriber, TypeOK
  <1>2. CASE DelayedReconcile(t)
    BY <1>2, PubFrame, QueueType DEF DelayedReconcile, TypeOK
  <1>3. CASE RemoveObserver(o)
    <2>1. PubTypeOK'
      BY <1>3 DEF RemoveObserver, TypeOK, PubTypeOK
    <2> QED
      BY <1>3, <2>1 DEF RemoveObserver, TypeOK
  <1>4. CASE TrackChanged(t)
    <2>1. PubTypeOK'
      BY <1>4 DEF TrackChanged, TypeOK, PubTypeOK
    <2> QED
      BY <1>4, <2>1, QueueType DEF TrackChanged, TypeOK
  <1>5. CASE TrackRemoved(t)
    <2>1. PubTypeOK'
      BY <1>5, SMTT(40) DEF TrackRemoved, TypeOK, PubTypeOK, NoteKinds
    <2> QED
      BY <1>5, <2>1 DEF TrackRemoved, TypeOK
  <1>6. CASE Bound(i, ok)
    <2>1. dts' \in [SubIDs -> DTType]
      BY <1>6 DEF Bound, BindDownTrack, TypeOK, PubTypeOK, DTType
    <2> QED
      BY <1>6, <2>1, DtsFrame DEF Bound, BindDownTrack, TypeOK
  <1>7. CASE BindCallback(i, ok)
    <2> DEFINE u == dts[i].t
    <2>1. u \in Tracks /\ sub[u] \in SubType
      BY DEF DTType, TypeOK
    <2>2. CASE ok
      <3> DEFINE b == sub[u].bound \/ dts[i].entry
      <3>1. b \in BOOLEAN
        OBVIOUS
      <3>2. sub' = [sub EXCEPT ![u] = [sub[u] EXCEPT !.bound = b]] /\ UNCHANGED <<dropping, qVars>>
        BY <1>7, <2>2, <2>1 DEF BindCallback, TypeOK, SubType
      <3> HIDE DEF b, u
      <3>3. [sub[u] EXCEPT !.bound = b] \in SubType
        BY <2>1, <3>1 DEF SubType
      <3> QED
        BY <1>7, <2>1, <3>2, <3>3, PubFrame DEF BindCallback, TypeOK
    <2>3. CASE ~ok
      <3>1. UnsubscribeFromTrack(u)
        BY <1>7, <2>3 DEF BindCallback
      <3>2. SetDesiredFalse(sub[u]) \in SubType
        BY <2>1, EntryTypes
      <3> HIDE DEF u
      <3>3. CASE UNCHANGED <<subVars, qVars>>
        BY <1>7, <3>3, PubFrame DEF BindCallback, TypeOK
      <3>4. CASE SetSub(u, SetDesiredFalse(sub[u])) /\ QueueReconcile(u)
        BY <1>7, <2>1, <3>2, <3>4, PubFrame, SetSubType, QueueType DEF BindCallback, TypeOK
      <3> QED
        BY <3>1, <3>3, <3>4 DEF UnsubscribeFromTrack
    <2> QED
      BY <2>2, <2>3
  <1>8. CASE Age(t)
    <2>1. sub' \in [Tracks -> SubType]
      <3>1. CASE sub[t].age < 2 /\ sub' = [sub EXCEPT ![t].age = @ + 1]
        <4> DEFINE a == sub[t].age + 1
        <4>1. a \in 0 .. 2 /\ sub' = [sub EXCEPT ![t] = [sub[t] EXCEPT !.age = a]]
          BY <3>1 DEF SubType, TypeOK
        <4> HIDE DEF a
        <4>2. [sub[t] EXCEPT !.age = a] \in SubType
          BY <4>1 DEF SubType
        <4> QED
          BY <4>1, <4>2 DEF TypeOK
      <3>2. CASE sub' = [sub EXCEPT ![t].kept = FALSE]
        <4>1. [sub[t] EXCEPT !.kept = FALSE] \in SubType
          BY DEF SubType
        <4> QED
          BY <3>2, <4>1 DEF TypeOK
      <3> QED
        BY <1>8, <3>1, <3>2 DEF Age
    <2> QED
      BY <1>8, <2>1, PubFrame DEF Age, TypeOK
  <1>9. CASE HandleSourceTrackRemoved(t)
    <2>1. PubTypeOK'
      BY <1>9 DEF HandleSourceTrackRemoved, TypeOK, PubTypeOK
    <2> DEFINE c == [sub[t] EXCEPT !.changed = 0, !.removed = 0]
               s == [c EXCEPT !.desired = FALSE]
    <2>2. c \in SubType
      BY DEF SubType
    <2>3. SetSub(t, s) \/ UNCHANGED subVars
      BY <1>9 DEF HandleSourceTrackRemoved, SubType
    <2> HIDE DEF c
    <2>4. s \in SubType
      BY <2>2 DEF SubType
    <2> HIDE DEF s
    <2> QED
      BY <1>9, <2>1, <2>3, <2>4, SetSubType DEF HandleSourceTrackRemoved, TypeOK
  <1> QED
    BY <1>1, <1>2, <1>3, <1>4, <1>5, <1>6, <1>7, <1>8, <1>9

(* The steps of a closing subscribed track keep the types. *)
LEMMA CloseTypes ==
  ASSUME TypeOK, NEW i \in SubIDs, TrackClose(i)
  PROVE  TypeOK'
  <1> DEFINE t == dts[i].t
  <1> USE DEF smVars
  <1>t. dts[i] \in DTType /\ t \in Tracks /\ sub[t] \in SubType
    BY DEF TypeOK, PubTypeOK, DTType
  <1>c. ClosedDT(i) \in DTType
    BY <1>t, NoDTType DEF ClosedDT, DTType, DTStates
  <1>1. CASE OnDownTrackClose(i) /\ UNCHANGED <<pubVars, obsVars, smVars>>
    <2>1. PubTypeOK'
      <3>1. [dts[i] EXCEPT !.state = "gone"] \in DTType
        BY <1>t DEF DTType, DTStates
      <3>2. dts' \in [SubIDs -> DTType]
        BY <1>1, <3>1 DEF OnDownTrackClose, TypeOK, PubTypeOK
      <3>3. cached' \in [Tracks -> 0 .. MaxSubs]
        BY <1>1, <1>t, BoundsAssumption DEF OnDownTrackClose, TypeOK, PubTypeOK, SubIDs
      <3> QED
        BY <1>1, <3>2, <3>3 DEF OnDownTrackClose, TypeOK, PubTypeOK
    <2> QED
      BY <1>1, <2>1 DEF TypeOK
  <1>2. CASE DefaultOnClose(i) /\ UNCHANGED <<pubVars, obsVars, smVars>>
    <2>1. PubTypeOK'
      BY <1>2, <1>c DEF DefaultOnClose, TypeOK, PubTypeOK
    <2> QED
      BY <1>2, <2>1 DEF TypeOK
  <1>3. CASE UnsetSubscribedTrack(i)
    <2>1. AfterUnset(i) \in DTType
      BY <1>t, <1>c DEF AfterUnset, DTType, DTStates
    <2>2. dts' \in [SubIDs -> DTType]
      BY <1>3, <2>1 DEF UnsetSubscribedTrack, TypeOK, PubTypeOK
    <2>3. sub' \in [Tracks -> SubType]
      <3> DEFINE s == [sub[t] EXCEPT !.st = 0]
      <3>1. s \in SubType
        BY <1>t, BoundsAssumption DEF SubType
      <3>2. sub' = [sub EXCEPT ![t] = [s EXCEPT !.bound = FALSE]]
        BY <1>3, <1>t DEF UnsetSubscribedTrack, TypeOK, SubType
      <3> HIDE DEF s, t
      <3>3. [s EXCEPT !.bound = FALSE] \in SubType
        BY <3>1 DEF SubType
      <3> QED
        BY <1>t, <3>2, <3>3 DEF TypeOK
    <2> QED
      BY <1>3, <2>2, <2>3, DtsFrame DEF UnsetSubscribedTrack, TypeOK
  <1>4. CASE ClearNotifiers(i)
    <2>1. dts' \in [SubIDs -> DTType]
      BY <1>4, <1>t DEF ClearNotifiers, CloseStep, TypeOK, PubTypeOK, DTType, DTStates
    <2> DEFINE s == [sub[t] EXCEPT !.changed = 0, !.removed = 0]
    <2>2. s \in SubType
      BY <1>t DEF SubType
    <2>3. SetSub(t, s) \/ UNCHANGED subVars
      BY <1>4 DEF ClearNotifiers
    <2> HIDE DEF s, t
    <2> QED
      BY <1>t, <1>4, <2>1, <2>2, <2>3, SetSubType, DtsFrame DEF ClearNotifiers, TypeOK
  <1>5. CASE DecrementCount(i)
    <2>1. dts' \in [SubIDs -> DTType]
      <3> DEFINE k == KindOf[dts[i].t]
                 b == Limit[k] > 0 /\ count[k] = Limit[k]
                 d == [dts[i] EXCEPT !.state = "unmark"]
      <3>1. b \in BOOLEAN
        OBVIOUS
      <3>2. d \in DTType
        BY <1>t DEF DTType, DTStates
      <3>3. dts' = [dts EXCEPT ![i] = [d EXCEPT !.relieve = b]]
        BY <1>5, <1>t DEF DecrementCount, TypeOK, PubTypeOK, DTType
      <3> HIDE DEF b, d
      <3>4. [d EXCEPT !.relieve = b] \in DTType
        BY <3>1, <3>2 DEF DTType
      <3> QED
        BY <3>3, <3>4 DEF TypeOK, PubTypeOK
    <2>2. count' \in [Kinds -> Int]
      BY <1>5, <1>t, ParamAssumption DEF DecrementCount, TypeOK
    <2> QED
      BY <1>5, <2>1, <2>2, DtsFrame DEF DecrementCount, TypeOK
  <1>6. CASE UnmarkSubscribedTo(i)
    <2>1. dts' \in [SubIDs -> DTType]
      BY <1>6, <1>t DEF UnmarkSubscribedTo, CloseStep, TypeOK, PubTypeOK, DTType, DTStates
    <2> QED
      BY <1>6, <2>1, DtsFrame DEF UnmarkSubscribedTo, TypeOK
  <1>7. CASE FinishTrackClose(i)
    <2>1. PubTypeOK'
      BY <1>7, <1>c DEF FinishTrackClose, TypeOK, PubTypeOK
    <2>2. sub' \in [Tracks -> SubType]
      <3>1. [sub[t] EXCEPT !.age = 0] \in SubType
        BY <1>t DEF SubType
      <3> QED
        BY <1>7, <1>t, <3>1 DEF FinishTrackClose, TypeOK
    <2> DEFINE x == IF dts[i].relieve THEN All ELSE dts[i].t
    <2>3. x \in Tracks \cup {All} /\ QueueReconcile(x)
      BY <1>7, <1>t DEF FinishTrackClose
    <2> HIDE DEF x
    <2> QED
      BY <1>7, <2>1, <2>2, <2>3, QueueType DEF FinishTrackClose, TypeOK
  <1> QED
    BY <1>1, <1>2, <1>3, <1>4, <1>5, <1>6, <1>7 DEF TrackClose

(* GetTrackInfo returns 0 or one of the objects of the track. *)
LEMMA ResolvedType ==
  ASSUME PubTypeOK, NEW t \in Tracks
  PROVE  Resolved(t) \in {0} \cup Gens
  <1>1. EarliestOpen(t) \subseteq Gens
    BY DEF EarliestOpen, PubTypeOK
  <1> QED
    BY <1>1 DEF Resolved

(* The worker's steps up to the decision to subscribe keep the types. *)
LEMMA ReconcileTypes ==
  ASSUME TypeOK, Tick \/ Dequeue \/ NextEntry \/ ReconcileSubscription \/ Cleanup
  PROVE  TypeOK'
  <1> worker \in WorkerType /\ worker.t \in Tracks
    BY DEF TypeOK, WorkerType
  <1>n. NeedsReconcile \in SUBSET Tracks
    BY DEF NeedsReconcile
  <1>1. CASE Tick
    <2>1. worker' \in WorkerType
      BY <1>n, <1>1 DEF Tick, WorkerType, WorkerPCs
    <2> QED
      BY <1>1, <2>1, PubFrame DEF Tick, TypeOK
  <1>2. CASE Dequeue
    <2>1. queue \in Seq(Tracks \cup {All}) /\ queue # <<>> /\ Len(queue) <= QueueCap /\ QueueCap \in Nat
      BY <1>2, ParamAssumption DEF Dequeue, TypeOK
    <2>2. queue' \in Seq(Tracks \cup {All}) /\ Len(queue') <= QueueCap
      <3>1. queue' = Tail(queue)
        BY <1>2 DEF Dequeue
      <3> QED
        BY <2>1, <3>1
    <2>3. worker' \in WorkerType
      <3> DEFINE w == IF Head(queue) \in {t \in Tracks : sub[t].present}
                      THEN {Head(queue)} ELSE NeedsReconcile
      <3>1. w \in SUBSET Tracks
        BY <1>n
      <3>2. worker' = [worker EXCEPT !.pc = "next", !.tail = TRUE, !.todo = w]
        BY <1>2 DEF Dequeue
      <3> HIDE DEF w
      <3> QED
        BY <3>1, <3>2 DEF WorkerType, WorkerPCs
    <2> QED
      BY <1>2, <2>2, <2>3, PubFrame DEF Dequeue, TypeOK
  <1>3. CASE NextEntry
    <2>1. worker' \in WorkerType /\ overflow' \in BOOLEAN
      <3>1. CASE \E t \in worker.todo :
                   worker' = [worker EXCEPT !.pc = "reconcile", !.t = t, !.todo = @ \ {t}]
        BY <3>1, <1>3 DEF NextEntry, WorkerType, WorkerPCs, TypeOK
      <3>2. CASE worker' = [worker EXCEPT !.todo = NeedsReconcile, !.tail = FALSE]
        BY <3>2, <1>3, <1>n DEF NextEntry, WorkerType, TypeOK
      <3>3. CASE worker' = Idle
        BY <3>3, <1>3, IdleType DEF NextEntry, TypeOK
      <3> QED
        BY <1>3, <3>1, <3>2, <3>3 DEF NextEntry
    <2> QED
      BY <1>3, <2>1, PubFrame DEF NextEntry, TypeOK
  <1>4. CASE ReconcileSubscription
    <2>1. worker' \in WorkerType
      BY <1>4, GotoType DEF ReconcileSubscription, WorkerPCs
    <2>2. delayed' \in SUBSET Tracks
      BY <1>4 DEF ReconcileSubscription, TypeOK
    <2>3. pending' \in [Tracks -> [Gens -> 0 .. MaxPending]]
      <3> DEFINE g == dts[sub[worker.t].st].g
      <3>1. \/ UNCHANGED pending
            \/ /\ sub[worker.t].st # 0
               /\ pending[worker.t][g] < MaxPending
               /\ pending' = [pending EXCEPT ![worker.t][g] = @ + 1]
        BY <1>4 DEF ReconcileSubscription, NeedsUnsubscribe
      <3>2. sub[worker.t].st # 0 => g \in Gens
        BY DEF TypeOK, PubTypeOK, SubType, SubIDs, DTType
      <3> HIDE DEF g
      <3>3. CASE UNCHANGED pending
        BY <3>3 DEF TypeOK
      <3>4. CASE ~UNCHANGED pending
        <4> DEFINE n == pending[worker.t][g] + 1
        <4>1. g \in Gens /\ pending[worker.t][g] \in 0 .. MaxPending
          BY <3>1, <3>2, <3>4 DEF TypeOK
        <4>2. n \in 0 .. MaxPending /\ pending' = [pending EXCEPT ![worker.t][g] = n]
          BY <3>1, <3>4, <4>1, ParamAssumption
        <4> HIDE DEF n
        <4> QED
          BY <4>1, <4>2 DEF TypeOK
      <3> QED
        BY <3>3, <3>4
    <2> QED
      BY <1>4, <2>1, <2>2, <2>3, PubFrame DEF ReconcileSubscription, TypeOK
  <1>5. CASE Cleanup
    <2> DEFINE t == worker.t
    <2>1. worker' \in WorkerType
      BY <1>5, GotoType DEF Cleanup, WorkerPCs
    <2>2. sub' \in [Tracks -> SubType]
      BY <1>5, EntryTypes DEF Cleanup, TypeOK
    <2>3. dropping' \in SUBSET (NoteKinds \X Tracks \X Nat)
      <3>1. t \in Tracks /\ sub[t] \in SubType
        BY DEF TypeOK
      <3>2. \/ dropping' = dropping
            \/ dropping' = dropping \cup DropsOf(t, sub[t], NoSub)
        BY <1>5 DEF Cleanup
      <3> HIDE DEF t
      <3>3. DropsOf(t, sub[t], NoSub) \subseteq (NoteKinds \X Tracks \X Nat)
        BY <3>1 DEF DropsOf, SubType, NoteKinds
      <3> QED
        BY <3>2, <3>3 DEF TypeOK
    <2>4. dts' \in [SubIDs -> DTType]
      <3>1. ASSUME NEW i \in SubIDs
            PROVE  dts[i] \in DTType /\ [dts[i] EXCEPT !.entry = FALSE] \in DTType
        <4>1. dts[i] \in DTType
          BY DEF TypeOK, PubTypeOK
        <4> QED
          BY <4>1 DEF DTType
      <3>2. \/ dts' = dts
            \/ dts' = [i \in SubIDs |-> IF dts[i].t = t THEN [dts[i] EXCEPT !.entry = FALSE]
                                        ELSE dts[i]]
        BY <1>5 DEF Cleanup
      <3> QED
        BY <3>1, <3>2 DEF TypeOK, PubTypeOK
    <2> QED
      BY <1>5, <2>1, <2>2, <2>3, <2>4, DtsFrame DEF Cleanup, TypeOK
  <1> QED
    BY <1>1, <1>2, <1>3, <1>4, <1>5

(* The resolution of the track keeps the types. *)
LEMMA ResolveTypes ==
  ASSUME TypeOK, Resolve
  PROVE  TypeOK'
  <1> DEFINE t  == worker.t
             g  == Resolved(t)
             s0 == sub[t]
             rm == IF g # 0 THEN epoch[t] ELSE s0.removed
             s1 == [s0 EXCEPT !.changed = epoch[t], !.removed = rm]
             s2 == [s1 EXCEPT !.kind = TRUE]
             s3 == WithPermission(s2, permitted[t])
             obs == {<<"changed", t, epoch[t]>> : x \in {y \in {1} : s0.changed # epoch[t]}}
                    \cup {<<"removed", t, epoch[t]>> : x \in {y \in {1} : g # 0 /\ s0.removed # epoch[t]}}
  <1>1. t \in Tracks /\ worker \in WorkerType
    BY DEF TypeOK, WorkerType
  <1>2. g \in {0} \cup Gens
    BY <1>1, ResolvedType DEF TypeOK
  <1>3. s0 \in SubType /\ epoch[t] \in Nat /\ permitted[t] \in BOOLEAN
    BY <1>1 DEF TypeOK, PubTypeOK
  <1>4. rm \in Nat
    BY <1>3 DEF SubType
  <1>5. obs \subseteq (NoteKinds \X Tracks \X Nat)
    BY <1>1, <1>3 DEF NoteKinds
  <1>6. /\ observers' = observers \/ observers' = observers \cup obs
        /\ \/ UNCHANGED qVars
           \/ QueueReconcile(t)
        /\ \/ SetSub(t, Failed(s0)) /\ Goto("next")
           \/ SetSub(t, SetDesiredFalse(Failed(s1))) /\ Goto("next")
           \/ SetSub(t, Failed(s1)) /\ Goto("next")
           \/ SetSub(t, Failed(s2)) /\ Goto("next")
           \/ SetSub(t, Failed(s3)) /\ Goto("next")
           \/ SetSub(t, s3) /\ worker' = [worker EXCEPT !.pc = "add", !.g = g] /\ g # 0
    BY DEF Resolve
  <1> HIDE DEF t, g, s0, rm, obs
  <1>7. s1 \in SubType
    BY <1>3, <1>4 DEF SubType
  <1> HIDE DEF s1
  <1>8. s2 \in SubType
    BY <1>7 DEF SubType
  <1> HIDE DEF s2
  <1>9. s3 \in SubType
    BY <1>3, <1>8, EntryTypes
  <1> HIDE DEF s3
  <1>10. /\ Failed(s0) \in SubType /\ Failed(s1) \in SubType /\ Failed(s2) \in SubType
         /\ Failed(s3) \in SubType
    BY <1>3, <1>7, <1>8, <1>9, EntryTypes
  <1>11. SetDesiredFalse(Failed(s1)) \in SubType
    BY <1>10, EntryTypes
  <1>12. /\ sub' \in [Tracks -> SubType]
         /\ dropping' \in SUBSET (NoteKinds \X Tracks \X Nat)
    BY <1>1, <1>3, <1>6, <1>9, <1>10, <1>11, SetSubType
  <1>13. worker' \in WorkerType
    <2>1. CASE Goto("next")
      BY <2>1, GotoType DEF WorkerPCs
    <2>2. CASE worker' = [worker EXCEPT !.pc = "add", !.g = g] /\ g # 0
      BY <1>1, <1>2, <2>2 DEF WorkerType, WorkerPCs
    <2> QED
      BY <1>6, <2>1, <2>2
  <1>14. /\ queue' \in Seq(Tracks \cup {All}) /\ Len(queue') <= QueueCap /\ overflow' \in BOOLEAN
    BY <1>1, <1>6, QueueType DEF TypeOK
  <1>15. PubTypeOK'
    BY <1>5, <1>6 DEF Resolve, TypeOK, PubTypeOK
  <1> QED
    BY <1>12, <1>13, <1>14, <1>15 DEF Resolve, TypeOK

(* The worker's steps from the resolution of the track on keep the types, if  *)
(* the worker holds a subscribed track while it adds one.                     *)
LEMMA SubscribeTypes ==
  ASSUME TypeOK, worker.pc \in Adding => worker.i \in SubIDs,
         \/ Resolve \/ AddSubscriber \/ InsertSubscriber \/ RecheckOpen \/ Install
         \/ SetSubscribedTrack \/ IncrementCount \/ RecheckCanSubscribe \/ MarkSubscribedTo
  PROVE  TypeOK'
  <1> worker \in WorkerType /\ worker.t \in Tracks /\ sub[worker.t] \in SubType
    BY DEF TypeOK, WorkerType
  <1>1. CASE Resolve
    BY <1>1, ResolveTypes
  <1>2. CASE AddSubscriber
    <2>1. /\ sub' \in [Tracks -> SubType] /\ worker' \in WorkerType
          /\ dropping' \in SUBSET (NoteKinds \X Tracks \X Nat)
      <3>1. CASE AttemptFailed
        BY <3>1, AttemptFailedType
      <3>2. CASE (Goto("mark") \/ Goto("insert")) /\ UNCHANGED subVars
        BY <3>2, GotoType DEF WorkerPCs, TypeOK
      <3> QED
        BY <1>2, <3>1, <3>2 DEF AddSubscriber
    <2> QED
      BY <1>2, <2>1, PubFrame DEF AddSubscriber, TypeOK
  <1>3. CASE InsertSubscriber
    <2> DEFINE i == nst + 1
    <2>1. /\ infos' = infos /\ mstate' = mstate /\ resuming' = resuming /\ permitted' = permitted
          /\ revoking' = revoking /\ epoch' = epoch /\ observers' = observers /\ notes' = notes
      BY <1>3 DEF InsertSubscriber
    <2>2. CASE "fail" \in inputs /\ senders' \in {senders, senders \ {<<worker.t, cached[worker.t]>>}}
               /\ AttemptFailed /\ UNCHANGED <<dts, nst, cached>>
      <3>1. PubTypeOK'
        BY <2>1, <2>2 DEF TypeOK, PubTypeOK
      <3> QED
        BY <1>3, <2>2, <3>1, AttemptFailedType DEF InsertSubscriber, TypeOK
    <2>3. CASE /\ nst < MaxSubs /\ nst' = i
               /\ dts' = [dts EXCEPT ![i] = [NoDT EXCEPT !.t = worker.t, !.g = worker.g, !.state = "live"]]
               /\ senders' = (senders \ {<<worker.t, cached[worker.t]>>}) \cup {<<worker.t, i>>}
               /\ cached' \in {cached, [cached EXCEPT ![worker.t] = 0]}
               /\ worker' = [worker EXCEPT !.pc = "post", !.i = i]
               /\ UNCHANGED subVars
      <3>1. i \in SubIDs /\ i \in 0 .. MaxSubs
        BY <2>3, BoundsAssumption, SMTT(40) DEF SubIDs, TypeOK, PubTypeOK
      <3> HIDE DEF i
      <3>2. [NoDT EXCEPT !.t = worker.t, !.g = worker.g, !.state = "live"] \in DTType
        BY NoDTType DEF DTType, WorkerType, DTStates
      <3>3. dts' \in [SubIDs -> DTType] /\ nst' \in 0 .. MaxSubs
        BY <2>3, <3>1, <3>2 DEF TypeOK, PubTypeOK
      <3>4. senders' \in SUBSET (Tracks \X SubIDs)
        BY <2>3, <3>1 DEF TypeOK, PubTypeOK
      <3>5. cached' \in [Tracks -> 0 .. MaxSubs]
        <4>1. 0 \in 0 .. MaxSubs /\ cached \in [Tracks -> 0 .. MaxSubs]
          BY BoundsAssumption DEF TypeOK, PubTypeOK
        <4>2. [cached EXCEPT ![worker.t] = 0] \in [Tracks -> 0 .. MaxSubs]
          BY <4>1
        <4> QED
          BY <2>3, <4>1, <4>2
      <3>6. PubTypeOK'
        BY <2>1, <3>3, <3>4, <3>5 DEF TypeOK, PubTypeOK
      <3>7. worker' \in WorkerType
        BY <2>3, <3>1 DEF WorkerType, WorkerPCs
      <3> QED
        BY <1>3, <2>3, <3>6, <3>7 DEF InsertSubscriber, TypeOK
    <2> QED
      BY <1>3, <2>2, <2>3 DEF InsertSubscriber
  <1>4. CASE RecheckOpen
    <2> DEFINE r == resuming[worker.t][worker.g]
               i == worker.i
    <2>0. r \in BOOLEAN /\ i \in SubIDs
      BY <1>4 DEF RecheckOpen, At, Adding, TypeOK, PubTypeOK, WorkerType
    <2>1. CASE dts' = CloseOf({i}, r) /\ UNCHANGED cached /\ AttemptFailed
      <3> HIDE DEF r, i
      <3> QED
        BY <1>4, <2>0, <2>1, AttemptFailedType, CloseOfType, DtsFrame DEF RecheckOpen, TypeOK
    <2>2. CASE UNCHANGED <<dts, cached, subVars>> /\ Goto("install")
      BY <1>4, <2>2, PubFrame, GotoType DEF RecheckOpen, TypeOK, WorkerPCs
    <2>3. CASE /\ dts' = [dts EXCEPT ![i] = ClosedDT(i)] /\ cached' = [cached EXCEPT ![worker.t] = i]
               /\ AttemptFailed
      <3>1. ClosedDT(i) \in DTType
        BY <2>0, NoDTType DEF ClosedDT, DTType, DTStates, TypeOK, PubTypeOK
      <3>2. i \in 0 .. MaxSubs
        BY <2>0, BoundsAssumption DEF SubIDs
      <3> HIDE DEF i
      <3>3. dts' \in [SubIDs -> DTType] /\ cached' \in [Tracks -> 0 .. MaxSubs]
        BY <2>0, <2>3, <3>1, <3>2 DEF TypeOK, PubTypeOK
      <3>4. PubTypeOK'
        BY <1>4, <3>3 DEF RecheckOpen, pubVars, obsVars, TypeOK, PubTypeOK
      <3> QED
        BY <1>4, <2>3, <3>4, AttemptFailedType DEF RecheckOpen, TypeOK
    <2> QED
      BY <1>4, <2>1, <2>2, <2>3 DEF RecheckOpen
  <1>5. CASE Install
    <2>1. worker' \in WorkerType
      BY <1>5, GotoType DEF Install, WorkerPCs
    <2>2. dts' \in [SubIDs -> DTType]
      <3> DEFINE i == worker.i
                 d == [dts[i] EXCEPT !.cb = "manager"]
      <3>1. i \in SubIDs /\ dts[i] \in DTType
        BY <1>5 DEF Install, At, Adding, TypeOK, PubTypeOK
      <3>2. dts' = [dts EXCEPT ![i] = [d EXCEPT !.entry = TRUE]]
        BY <1>5, <3>1 DEF Install, TypeOK, PubTypeOK, DTType
      <3> HIDE DEF i
      <3>3. d \in DTType
        BY <3>1 DEF DTType
      <3> HIDE DEF d
      <3>4. [d EXCEPT !.entry = TRUE] \in DTType
        BY <3>3 DEF DTType
      <3> QED
        BY <3>1, <3>2, <3>4 DEF TypeOK, PubTypeOK
    <2>3. binds' \in SUBSET (SubIDs \X BOOLEAN)
      <3>1. worker.i \in SubIDs
        BY <1>5 DEF Install, At, Adding
      <3>2. binds' = binds \/ binds' = binds \cup {<<worker.i, TRUE>>}
        BY <1>5 DEF Install
      <3>3. <<worker.i, TRUE>> \in SubIDs \X BOOLEAN
        BY <3>1
      <3> QED
        BY <3>2, <3>3 DEF TypeOK
    <2> QED
      BY <1>5, <2>1, <2>2, <2>3, DtsFrame DEF Install, TypeOK
  <1>6. CASE SetSubscribedTrack
    <2>1. worker' \in WorkerType
      BY <1>6, GotoType DEF SetSubscribedTrack, WorkerPCs
    <2>2. sub' \in [Tracks -> SubType]
      <3> DEFINE s == [sub[worker.t] EXCEPT !.st = worker.i]
      <3>1. s \in SubType
        BY DEF SubType, WorkerType
      <3>2. sub' = [sub EXCEPT ![worker.t] = [s EXCEPT !.bound = FALSE]]
        BY <1>6 DEF SetSubscribedTrack, TypeOK, SubType
      <3> HIDE DEF s
      <3>3. [s EXCEPT !.bound = FALSE] \in SubType
        BY <3>1 DEF SubType
      <3> QED
        BY <3>2, <3>3 DEF TypeOK
    <2> QED
      BY <1>6, <2>1, <2>2, PubFrame DEF SetSubscribedTrack, TypeOK
  <1>7. CASE IncrementCount
    <2>1. count' \in [Kinds -> Int]
      BY <1>7, ParamAssumption DEF IncrementCount, TypeOK
    <2> QED
      BY <1>7, <2>1, GotoType, PubFrame DEF IncrementCount, TypeOK, WorkerPCs
  <1>8. CASE RecheckCanSubscribe
    <2>1. CASE Goto("mark") /\ UNCHANGED <<dts, subVars>>
      BY <1>8, <2>1, GotoType, PubFrame DEF RecheckCanSubscribe, TypeOK, WorkerPCs
    <2>2. CASE dts' = CloseOf({worker.i}, FALSE) /\ AttemptFailed
      BY <1>8, <2>2, AttemptFailedType, CloseOfType, DtsFrame DEF RecheckCanSubscribe, TypeOK
    <2> QED
      BY <1>8, <2>1, <2>2 DEF RecheckCanSubscribe
  <1>9. CASE MarkSubscribedTo
    <2>1. [sub[worker.t] EXCEPT !.tried = FALSE] \in SubType
      BY DEF SubType
    <2>2. sub' \in [Tracks -> SubType]
      BY <1>9, <2>1 DEF MarkSubscribedTo, TypeOK
    <2> QED
      BY <1>9, <2>2, GotoType, PubFrame DEF MarkSubscribedTo, TypeOK, WorkerPCs
  <1> QED
    BY <1>1, <1>2, <1>3, <1>4, <1>5, <1>6, <1>7, <1>8, <1>9

(* Steps of the publisher keep the types of the publishing side. *)
LEMMA PublisherTypes ==
  ASSUME TypeOK, NEW t \in Tracks, (Publisher(t) /\ UNCHANGED smVars) \/ ChangePermission(t)
  PROVE  TypeOK'
  <1> USE DEF smVars
  <1>n. Notified("changed", t) \in SUBSET (NoteKinds \X Tracks)
        /\ Notified("removed", t) \in SUBSET (NoteKinds \X Tracks)
    BY DEF Notified, TypeOK, PubTypeOK, NoteKinds
  <1>r. ASSUME NEW g \in Gens, RemoveTrack(t, g)
        PROVE  /\ infos' \in [Tracks -> SUBSET Gens]
               /\ notes' \in SUBSET (NoteKinds \X Tracks)
               /\ epoch' \in [Tracks -> Nat]
    <2>1. infos' = infos \/ infos' = [infos EXCEPT ![t] = @ \ {g}]
      BY <1>r DEF RemoveTrack
    <2>2. notes' = notes \/ notes' = Notified("removed", t)
      BY <1>r DEF RemoveTrack
    <2>3. epoch' = epoch \/ epoch' = [epoch EXCEPT ![t] = @ + 1]
      BY <1>r DEF RemoveTrack
    <2>4. infos' \in [Tracks -> SUBSET Gens]
      <3>1. infos \in [Tracks -> SUBSET Gens] /\ infos[t] \ {g} \in SUBSET Gens
        BY DEF TypeOK, PubTypeOK
      <3>2. [infos EXCEPT ![t] = @ \ {g}] \in [Tracks -> SUBSET Gens]
        BY <3>1
      <3> QED
        BY <2>1, <3>1, <3>2
    <2>5. notes' \in SUBSET (NoteKinds \X Tracks)
      BY <2>2, <1>n DEF TypeOK, PubTypeOK
    <2>6. epoch' \in [Tracks -> Nat]
      <3>1. epoch \in [Tracks -> Nat] /\ epoch[t] + 1 \in Nat
        BY DEF TypeOK, PubTypeOK
      <3>2. [epoch EXCEPT ![t] = @ + 1] \in [Tracks -> Nat]
        BY <3>1
      <3> QED
        BY <2>3, <3>1, <3>2
    <2> QED
      BY <2>4, <2>5, <2>6
  <1>1. CASE AddTrack(t) /\ UNCHANGED smVars
    <2>1. /\ mstate' \in [Tracks -> [Gens -> {"new", "open", "closing", "cleared", "closed"}]]
          /\ infos' \in [Tracks -> SUBSET Gens]
      <3> PICK g \in Gens : /\ mstate' = [mstate EXCEPT ![t][g] = "open"]
                            /\ infos' = [infos EXCEPT ![t] = @ \cup {g}]
        BY <1>1 DEF AddTrack
      <3>1. mstate' \in [Tracks -> [Gens -> {"new", "open", "closing", "cleared", "closed"}]]
        BY DEF TypeOK, PubTypeOK
      <3>2. infos' \in [Tracks -> SUBSET Gens]
        BY DEF TypeOK, PubTypeOK
      <3> QED
        BY <3>1, <3>2
    <2>2. PubTypeOK'
      BY <1>1, <1>n, <2>1 DEF AddTrack, TypeOK, PubTypeOK
    <2> QED
      BY <1>1, <2>2 DEF TypeOK
  <1>2. CASE (\E g \in Gens, r \in BOOLEAN : SetClosing(t, g, r)) /\ UNCHANGED smVars
    <2>1. /\ mstate' \in [Tracks -> [Gens -> {"new", "open", "closing", "cleared", "closed"}]]
          /\ resuming' \in [Tracks -> [Gens -> BOOLEAN]]
      <3> PICK g \in Gens, r \in BOOLEAN : /\ mstate' = [mstate EXCEPT ![t][g] = "closing"]
                                         /\ resuming' = [resuming EXCEPT ![t][g] = r]
        BY <1>2 DEF SetClosing
      <3>1. mstate' \in [Tracks -> [Gens -> {"new", "open", "closing", "cleared", "closed"}]]
        BY DEF TypeOK, PubTypeOK
      <3>2. resuming' \in [Tracks -> [Gens -> BOOLEAN]]
        BY DEF TypeOK, PubTypeOK
      <3> QED
        BY <3>1, <3>2
    <2>2. PubTypeOK'
      BY <1>2, <2>1, ZenonT(60) DEF SetClosing, TypeOK, PubTypeOK
    <2> QED
      BY <1>2, <2>2 DEF TypeOK
  <1>3. CASE (\E g \in Gens : RemoveParticipant(t, g)) /\ UNCHANGED smVars
    <2>1. PubTypeOK'
      BY <1>3, <1>r DEF RemoveParticipant, TypeOK, PubTypeOK
    <2> QED
      BY <1>3, <2>1 DEF TypeOK
  <1>4. CASE (\E g \in Gens : ClearAllReceivers(t, g)) /\ UNCHANGED smVars
    <2> PICK g \in Gens : ClearAllReceivers(t, g)
      BY <1>4
    <2>1. resuming[t][g] \in BOOLEAN
      BY DEF TypeOK, PubTypeOK
    <2>2. dts' \in [SubIDs -> DTType]
      BY <2>1, CloseOfType DEF ClearAllReceivers, TypeOK
    <2>3. mstate' \in [Tracks -> [Gens -> {"new", "open", "closing", "cleared", "closed"}]]
      BY DEF ClearAllReceivers, TypeOK, PubTypeOK
    <2>4. PubTypeOK'
      BY <2>2, <2>3 DEF ClearAllReceivers, TypeOK, PubTypeOK
    <2> QED
      BY <1>4, <2>4 DEF TypeOK
  <1>5. CASE (\E g \in Gens : CloseMediaTrack(t, g)) /\ UNCHANGED smVars
    <2> PICK g \in Gens : CloseMediaTrack(t, g)
      BY <1>5
    <2>1. mstate' \in [Tracks -> [Gens -> {"new", "open", "closing", "cleared", "closed"}]]
      BY DEF CloseMediaTrack, TypeOK, PubTypeOK
    <2>2. PubTypeOK'
      BY <2>1, <1>r DEF CloseMediaTrack, TypeOK, PubTypeOK
    <2> QED
      BY <1>5, <2>2 DEF TypeOK
  <1>6. CASE MaybeRevokeSubscriptions(t) /\ UNCHANGED smVars
    <2>1. dts' \in [SubIDs -> DTType]
      BY <1>6, CloseOfType DEF MaybeRevokeSubscriptions, TypeOK, PubTypeOK
    <2>2. PubTypeOK'
      BY <1>6, <1>n, <2>1 DEF MaybeRevokeSubscriptions, TypeOK, PubTypeOK
    <2> QED
      BY <1>6, <2>2 DEF TypeOK
  <1>7. CASE ChangePermission(t)
    <2>1. PubTypeOK'
      BY <1>7 DEF ChangePermission, UpdateSubscriptionPermission, TypeOK, PubTypeOK
    <2>2. perms' \in 0 .. MaxPerm
      BY <1>7, ParamAssumption DEF ChangePermission, TypeOK
    <2> QED
      BY <1>7, <2>1, <2>2 DEF ChangePermission, TypeOK
  <1> QED
    BY <1>1, <1>2, <1>3, <1>4, <1>5, <1>6, <1>7 DEF Publisher

(* There are tracks, MediaTrack objects and subscribed tracks. *)
LEMMA SomeIDs == (\E t \in Tracks : TRUE) /\ 1 \in Gens /\ 1 \in SubIDs
  BY BoundsAssumption DEF Gens, SubIDs

(* Every step keeps the types, given who holds the subscribed tracks. *)
LEMMA TypeStep ==
  ASSUME TypeOK, worker.pc \in Adding => worker.i \in SubIDs, [Next]_vars
  PROVE  TypeOK'
  <1>1. CASE Worker
    BY <1>1, ReconcileTypes, SubscribeTypes DEF Worker
  <1>2. CASE WorkerExit \/ \E r \in BOOLEAN : FinishClose(r)
    BY <1>2, SessionTypes
  <1>3. CASE \E t \in Tracks : Publisher(t) /\ UNCHANGED smVars
    BY <1>3, PublisherTypes
  <1>4. CASE Goroutine
    <2>1. CASE \E i \in SubIDs : TrackClose(i)
      BY <2>1, CloseTypes
    <2>2. CASE ApplyGrant \/ ApplyRevoke
      BY <2>2, PermissionTypes
    <2>3. CASE \E t \in Tracks, g \in Gens : RemoveSubscriber(t, g)
      BY <2>3, CallbackTypes, SomeIDs
    <2>4. CASE \E t \in Tracks : \/ DelayedReconcile(t) \/ TrackChanged(t)
                               \/ TrackRemoved(t) \/ HandleSourceTrackRemoved(t)
      BY <2>4, CallbackTypes, SomeIDs
    <2>5. CASE \E o \in dropping : RemoveObserver(o)
      BY <2>5, CallbackTypes, SomeIDs
    <2>6. CASE \E b \in binds : BindCallback(b[1], b[2])
      <3>1. \A b \in binds : b[1] \in SubIDs /\ b[2] \in BOOLEAN
        BY DEF TypeOK
      <3> QED
        BY <2>6, <3>1, CallbackTypes, SomeIDs
    <2> QED
      BY <1>4, <2>1, <2>2, <2>3, <2>4, <2>5, <2>6 DEF Goroutine
  <1>5. CASE Environment
    <2>1. CASE \/ \E t \in Tracks : \/ SubscribeToTrack(t) \/ ClientUnsubscribe(t)
                                    \/ UpdateSubscribedTrackSettings(t)
               \/ ClearAllSubscriptions
      BY <2>1, ClientTypes, BoundsAssumption
    <2>2. CASE \/ \E t \in Tracks : Age(t)
               \/ \E i \in SubIDs, ok \in BOOLEAN : Bound(i, ok)
      BY <2>2, CallbackTypes, SomeIDs
    <2>3. CASE \E t \in Tracks : ChangePermission(t)
      BY <2>3, PublisherTypes
    <2>4. CASE SetPermission
      BY <2>4, PermissionTypes
    <2>5. CASE ParticipantClosed \/ StartClose
      BY <2>5, SessionTypes
    <2> QED
      BY <1>5, <2>1, <2>2, <2>3, <2>4, <2>5 DEF Environment
  <1>6. CASE UNCHANGED vars
    BY <1>6, PubFrame DEF vars, sysVars, smVars, TypeOK
  <1> QED
    BY <1>1, <1>2, <1>3, <1>4, <1>5, <1>6 DEF Next, Step

-----------------------------------------------------------------------------
(* Who holds a subscribed track: Ownership is inductive, given the types.   *)

(* No entry loses its place in the map or its recorded track. *)
SubKept == \A t \in Tracks : /\ sub'[t].st = sub[t].st
                             /\ sub[t].present => sub'[t].present

(* Subscribed tracks only move on towards their close. *)
DtsKept == \A i \in SubIDs :
              /\ dts'[i].t = dts[i].t
              /\ dts'[i].state = "none" <=> dts[i].state = "none"
              /\ dts'[i].state = "live" => dts[i].state = "live"
              /\ dts'[i].state \in {"live", "closing", "gone"} =>
                   /\ dts[i].state \in {"live", "closing", "gone"}
                   /\ dts'[i].cb = dts[i].cb
                   /\ dts'[i].entry = dts[i].entry

(* The worker stays where it is, or moves without a subscribed track in hand. *)
WorkerKept ==
  \/ worker' = worker
  \/ /\ worker.pc \notin Adding \cup {"done"}
     /\ worker'.pc \notin Adding
     /\ worker'.pc \in {"subscribe", "add", "insert"} =>
          sub'[worker'.t].present /\ sub'[worker'.t].st = 0

(* Steps of that kind preserve Ownership. *)
LEMMA OwnershipFrame ==
  ASSUME TypeOK, TypeOK', Ownership, SubKept, DtsKept, WorkerKept,
         UNCHANGED <<nst, session, canSubscribe, setPerm>>
  PROVE  Ownership'
  <1>t. worker.t \in Tracks /\ worker'.t \in Tracks /\ \A i \in SubIDs : dts[i].t \in Tracks
    BY DEF TypeOK, PubTypeOK, WorkerType, DTType
  <1>0. nst \in Nat /\ nst <= MaxSubs /\ \A k \in 1 .. nst : k \in SubIDs
    BY BoundsAssumption DEF TypeOK, PubTypeOK, SubIDs
  <1>w. worker' = worker \/ (worker.pc \notin Adding \cup {"done"} /\ worker'.pc \notin Adding)
    BY DEF WorkerKept
  <1>1. ASSUME NEW i \in SubIDs
        PROVE  /\ (dts'[i].cb = "manager" /\ dts'[i].state \in {"live", "closing", "gone"}) =>
                    /\ dts'[i].entry
                    /\ \/ sub'[dts'[i].t].present /\ sub'[dts'[i].t].st = i
                       \/ worker'.pc = "record" /\ worker'.i = i
               /\ (dts'[i].cb = "default" /\ dts'[i].state = "live") =>
                    worker'.pc \in {"post", "install"} /\ worker'.i = i
               /\ (~canSubscribe' /\ setPerm' = "none" /\ dts'[i].state = "live") =>
                    worker'.pc \in Adding /\ worker'.i = i
               /\ session' = "closed" => dts'[i].state # "live"
               /\ i > nst' => dts'[i].state = "none"
    BY <1>1, <1>t, <1>w DEF Ownership, SubKept, DtsKept, Adding
  <1>2. \A t \in Tracks : ~sub'[t].present => sub'[t].st = 0
    BY DEF Ownership, SubKept
  <1>3. worker'.pc \in {"subscribe", "add", "insert", "post", "install", "record"} =>
          sub'[worker'.t].present /\ sub'[worker'.t].st = 0
    BY <1>t DEF Ownership, SubKept, WorkerKept, Adding
  <1>4. worker'.pc \in Adding =>
          /\ worker'.i \in 1 .. nst' /\ dts'[worker'.i].t = worker'.t
          /\ dts'[worker'.i].state # "none"
    BY <1>0, <1>w DEF Ownership, DtsKept
  <1>5. session' = "closed" => worker'.pc = "done"
    BY <1>w DEF Ownership
  <1>6. setPerm' = "grant" => canSubscribe'
    BY DEF Ownership
  <1> QED
    BY <1>1, <1>2, <1>3, <1>4, <1>5, <1>6 DEF Ownership

(* CloseWithFlush only moves subscribed tracks towards their close. *)
LEMMA CloseOfKept ==
  ASSUME TypeOK, NEW ids, NEW r \in BOOLEAN, dts' = CloseOf(ids, r)
  PROVE  /\ DtsKept
         /\ \A i \in SubIDs : i \in ids => dts'[i].state # "live"
  <1> SUFFICES ASSUME NEW i \in SubIDs
               PROVE  /\ dts'[i].t = dts[i].t
                      /\ dts'[i].cb = dts[i].cb
                      /\ dts'[i].entry = dts[i].entry
                      /\ \/ dts'[i].state = dts[i].state
                         \/ dts[i].state = "live" /\ dts'[i].state = "closing"
                      /\ i \in ids => dts'[i].state # "live"
    BY DEF DtsKept
  <1>1. dts[i] \in DTType
    BY DEF TypeOK, PubTypeOK
  <1>2. dts'[i] = IF i \in ids /\ dts[i].state = "live"
                  THEN [dts[i] EXCEPT !.state = "closing", !.resume = r] ELSE dts[i]
    BY DEF CloseOf
  <1> QED
    BY <1>1, <1>2 DEF DTType

(* Replacing an entry by one that is as present and records the same. *)
LEMMA SetSubKept ==
  ASSUME TypeOK, NEW t \in Tracks, NEW s, s.st = sub[t].st, sub[t].present => s.present,
         sub' = [sub EXCEPT ![t] = s]
  PROVE  SubKept
  BY DEF SubKept, TypeOK

(* The updates of an entry keep its place and its record. *)
LEMMA UpdatesKeep ==
  ASSUME NEW s \in SubType
  PROVE  /\ SetDesiredTrue(s).st = s.st /\ SetDesiredTrue(s).present = s.present
         /\ SetDesiredFalse(s).st = s.st /\ SetDesiredFalse(s).present = s.present
         /\ Failed(s).st = s.st /\ Failed(s).present = s.present
         /\ \A p \in BOOLEAN : WithPermission(s, p).st = s.st /\ WithPermission(s, p).present = s.present
         /\ NewSub.st = 0 /\ NewSub.present
  BY DEF SubType, SetDesiredTrue, SetDesiredFalse, Failed, WithPermission, NewSub

(* Where Goto leads. *)
LEMMA GotoKept ==
  ASSUME TypeOK, NEW pc \in WorkerPCs, Goto(pc)
  PROVE  /\ worker'.pc = pc
         /\ pc # "next" => worker'.t = worker.t /\ worker'.i = worker.i
  BY IdleType DEF Goto, WorkerType, TypeOK

(* Nothing of what Ownership is about changes. *)
LEMMA DtsSame == ASSUME TypeOK, UNCHANGED dts PROVE DtsKept
  BY DEF DtsKept
LEMMA SubSame == ASSUME TypeOK, UNCHANGED sub PROVE SubKept
  BY DEF SubKept

(* The client's calls preserve Ownership. *)
LEMMA ClientOwnership ==
  ASSUME TypeOK, TypeOK', Ownership, NEW t \in Tracks,
         \/ SubscribeToTrack(t) \/ ClientUnsubscribe(t) \/ UpdateSubscribedTrackSettings(t)
         \/ ClearAllSubscriptions
  PROVE  Ownership' /\ SubKept
  <1> USE DEF SubscribeToTrack, ClientUnsubscribe, UpdateSubscribedTrackSettings,
              ClearAllSubscriptions
  <1>a. sub[t] \in SubType /\ NewSub \in SubType /\ (~sub[t].present => sub[t].st = 0)
    BY EntryTypes DEF TypeOK, Ownership
  <1>b. DtsKept /\ WorkerKept /\ UNCHANGED <<nst, session, canSubscribe, setPerm>>
    BY DtsSame DEF WorkerKept
  <1>1. CASE SubscribeToTrack(t)
    <2> DEFINE s == SetDesiredTrue(IF sub[t].present THEN sub[t] ELSE NewSub)
    <2>1. sub' = [sub EXCEPT ![t] = s]
      BY <1>1 DEF SetSub
    <2>2. s.st = sub[t].st /\ s.present
      BY <1>a, UpdatesKeep
    <2> HIDE DEF s
    <2> QED
      BY <1>b, <2>1, <2>2, SetSubKept, OwnershipFrame
  <1>2. CASE ClientUnsubscribe(t)
    <2>1. sub' = sub \/ sub' = [sub EXCEPT ![t] = SetDesiredFalse(sub[t])]
      BY <1>2 DEF UnsubscribeFromTrack, SetSub
    <2>2. SubKept
      BY <1>a, <2>1, UpdatesKeep, SetSubKept, SubSame
    <2> QED
      BY <1>b, <2>2, OwnershipFrame
  <1>3. CASE UpdateSubscribedTrackSettings(t)
    <2> DEFINE u == IF sub[t].present THEN sub[t] ELSE NewSub
               s == [u EXCEPT !.kept = u.kept \/ ~u.desired]
    <2>1. sub' = [sub EXCEPT ![t] = s]
      BY <1>3 DEF SetSub
    <2>2. u \in SubType /\ u.st = sub[t].st /\ u.present
      BY <1>a, UpdatesKeep
    <2> HIDE DEF u
    <2>3. s.st = sub[t].st /\ s.present
      BY <2>2 DEF SubType
    <2> HIDE DEF s
    <2> QED
      BY <1>b, <2>1, <2>3, SetSubKept, OwnershipFrame
  <1>4. CASE ClearAllSubscriptions
    <2>1. \A u \in Tracks : sub'[u] = SetDesiredFalse(sub[u])
      BY <1>4
    <2>2. SubKept
      BY <2>1, UpdatesKeep DEF SubKept, TypeOK
    <2> QED
      BY <1>b, <2>2, OwnershipFrame
  <1> QED
    BY <1>1, <1>2, <1>3, <1>4

(* The goroutines that call back into the manager preserve Ownership. *)
LEMMA CallbackOwnership ==
  ASSUME TypeOK, TypeOK', Ownership,
         NEW t \in Tracks, NEW g \in Gens, NEW i \in SubIDs, NEW ok \in BOOLEAN, NEW o,
         \/ RemoveSubscriber(t, g) \/ DelayedReconcile(t) \/ RemoveObserver(o)
         \/ TrackChanged(t) \/ TrackRemoved(t) \/ HandleSourceTrackRemoved(t)
         \/ Bound(i, ok) \/ BindCallback(i, ok) \/ Age(t)
  PROVE  Ownership' /\ SubKept
  <1> USE DEF RemoveSubscriber, DelayedReconcile, RemoveObserver, TrackChanged, TrackRemoved,
              HandleSourceTrackRemoved, Bound, BindDownTrack, BindCallback, Age
  <1>a. sub[t] \in SubType /\ dts[i] \in DTType
    BY DEF TypeOK, PubTypeOK
  <1>b. WorkerKept /\ UNCHANGED <<nst, session, canSubscribe, setPerm>>
    BY DEF WorkerKept
  <1>1. DtsKept
    <2>1. CASE RemoveSubscriber(t, g)
      BY <2>1, CloseOfKept
    <2>2. CASE Bound(i, ok)
      BY <1>a, <2>2, ZenonT(60) DEF DtsKept, TypeOK, PubTypeOK, DTType
    <2>3. CASE UNCHANGED dts
      BY <2>3, DtsSame
    <2> QED
      BY <2>1, <2>2, <2>3
  <1>2. SubKept
    <2>1. CASE HandleSourceTrackRemoved(t)
      <3> DEFINE s == [sub[t] EXCEPT !.desired = FALSE, !.changed = 0, !.removed = 0]
      <3>1. sub' = sub \/ sub' = [sub EXCEPT ![t] = s]
        BY <2>1 DEF SetSub
      <3>2. s.st = sub[t].st /\ s.present = sub[t].present
        BY <1>a DEF SubType
      <3> HIDE DEF s
      <3> QED
        BY <3>1, <3>2, SetSubKept, SubSame
    <2>2. CASE BindCallback(i, ok)
      <3> DEFINE u == dts[i].t
      <3>1. u \in Tracks /\ sub[u] \in SubType
        BY <1>a DEF DTType, TypeOK
      <3>2. \/ sub' = sub
            \/ sub' = [sub EXCEPT ![u].bound = @ \/ dts[i].entry]
            \/ sub' = [sub EXCEPT ![u] = SetDesiredFalse(sub[u])]
        BY <2>2 DEF UnsubscribeFromTrack, SetSub
      <3> HIDE DEF u
      <3> QED
        <4> DEFINE s == [sub[u] EXCEPT !.bound = @ \/ dts[i].entry]
        <4>1. s.st = sub[u].st /\ s.present = sub[u].present
          BY <3>1 DEF SubType
        <4>2. \/ sub' = sub \/ sub' = [sub EXCEPT ![u] = s]
              \/ sub' = [sub EXCEPT ![u] = SetDesiredFalse(sub[u])]
          BY <3>2
        <4> HIDE DEF s
        <4>3. CASE sub' = sub
          BY <4>3, SubSame
        <4>4. CASE sub' = [sub EXCEPT ![u] = s]
          BY <3>1, <4>1, <4>4, SetSubKept
        <4>5. CASE sub' = [sub EXCEPT ![u] = SetDesiredFalse(sub[u])]
          BY <3>1, <4>5, UpdatesKeep, SetSubKept
        <4> QED
          BY <4>2, <4>3, <4>4, <4>5
    <2>3. CASE Age(t)
      <3> DEFINE a == [sub[t] EXCEPT !.age = @ + 1]
                 k == [sub[t] EXCEPT !.kept = FALSE]
      <3>1. a.st = sub[t].st /\ a.present = sub[t].present /\ k.st = sub[t].st
            /\ k.present = sub[t].present
        BY <1>a DEF SubType
      <3>2. sub' = [sub EXCEPT ![t] = a] \/ sub' = [sub EXCEPT ![t] = k]
        BY <2>3
      <3> HIDE DEF a, k
      <3> QED
        BY <3>1, <3>2, SetSubKept
    <2>4. CASE UNCHANGED sub
      BY <2>4, SubSame
    <2> QED
      BY <2>1, <2>2, <2>3, <2>4
  <1> QED
    BY <1>b, <1>1, <1>2, OwnershipFrame

(* Steps of the publisher only ever close subscribed tracks. *)
LEMMA PublisherCloses ==
  ASSUME TypeOK, NEW t \in Tracks, (Publisher(t) /\ UNCHANGED smVars) \/ ChangePermission(t)
  PROVE  /\ UNCHANGED <<sub, count, worker, nst, session, canSubscribe, setPerm>>
         /\ \/ UNCHANGED dts
            \/ \E ids \in SUBSET SubIDs, r \in BOOLEAN : dts' = CloseOf(ids, r)
  <1>1. CASE ChangePermission(t)
    BY <1>1 DEF ChangePermission, UpdateSubscriptionPermission
  <1>2. CASE Publisher(t) /\ UNCHANGED smVars
    <2>1. CASE \E g \in Gens : ClearAllReceivers(t, g)
      <3> PICK g \in Gens : ClearAllReceivers(t, g)
        BY <2>1
      <3>1. InMap(t, g) \in SUBSET SubIDs /\ resuming[t][g] \in BOOLEAN
        BY DEF InMap, TypeOK, PubTypeOK
      <3>2. dts' = CloseOf(InMap(t, g), resuming[t][g]) /\ UNCHANGED nst
        BY DEF ClearAllReceivers
      <3> QED
        BY <1>2, <3>1, <3>2 DEF smVars
    <2>2. CASE MaybeRevokeSubscriptions(t)
      <3> DEFINE ids == UNION {InMap(t, g) : g \in {h \in Gens : mstate[t][h] # "closed"}}
      <3>1. ids \in SUBSET SubIDs
        BY DEF InMap
      <3>2. dts' = dts \/ dts' = CloseOf(ids, FALSE)
        BY <2>2 DEF MaybeRevokeSubscriptions
      <3> HIDE DEF ids
      <3> QED
        BY <1>2, <2>2, <3>1, <3>2 DEF MaybeRevokeSubscriptions, smVars
    <2>3. CASE \/ AddTrack(t)
               \/ \E g \in Gens : \/ \E r \in BOOLEAN : SetClosing(t, g, r)
                                   \/ RemoveParticipant(t, g) \/ CloseMediaTrack(t, g)
      BY <1>2, <2>3 DEF AddTrack, SetClosing, RemoveParticipant, CloseMediaTrack, smVars
    <2> QED
      BY <1>2, <2>1, <2>2, <2>3 DEF Publisher
  <1> QED
    BY <1>1, <1>2

(* They preserve Ownership. *)
LEMMA PublisherOwnership ==
  ASSUME TypeOK, TypeOK', Ownership, NEW t \in Tracks,
         (Publisher(t) /\ UNCHANGED smVars) \/ ChangePermission(t)
  PROVE  Ownership'
  <1>1. /\ UNCHANGED <<sub, worker, nst, session, canSubscribe, setPerm>>
        /\ \/ UNCHANGED dts
           \/ \E ids \in SUBSET SubIDs, r \in BOOLEAN : dts' = CloseOf(ids, r)
    BY PublisherCloses
  <1>2. DtsKept
    BY <1>1, CloseOfKept, DtsSame
  <1>3. SubKept /\ WorkerKept
    BY <1>1, SubSame DEF WorkerKept
  <1> QED
    BY <1>1, <1>2, <1>3, OwnershipFrame

(* A grant that is revoked takes every recorded track with it; what is left   *)
(* is in the hands of the worker, which checks the grant again.               *)
LEMMA PermissionOwnership ==
  ASSUME TypeOK, TypeOK', Ownership, SetPermission \/ ApplyGrant \/ ApplyRevoke
  PROVE  Ownership'
  <1>1. CASE SetPermission
    BY <1>1 DEF SetPermission, Ownership, TypeOK
  <1>2. CASE ApplyGrant
    BY <1>2 DEF ApplyGrant, Ownership
  <1>3. CASE ApplyRevoke
    <2>1. DtsKept /\ \A i \in SubIDs : i \in Recorded => dts'[i].state # "live"
      BY <1>3, CloseOfKept DEF ApplyRevoke
    <2>2. UNCHANGED <<sub, worker, nst, session, canSubscribe>> /\ setPerm' = "none"
      BY <1>3 DEF ApplyRevoke
    <2>3. ASSUME NEW i \in SubIDs, dts'[i].state = "live"
          PROVE  worker.pc \in {"post", "install", "record"} /\ worker.i = i
      <3>1. dts[i].state = "live" /\ i \notin Recorded /\ dts[i].t \in Tracks
            /\ dts[i].cb \in {"default", "manager"}
        BY <2>1, <2>3 DEF DtsKept, TypeOK, PubTypeOK, DTType
      <3>2. ~(sub[dts[i].t].present /\ sub[dts[i].t].st = i)
        BY <3>1 DEF Recorded
      <3> QED
        BY <3>1, <3>2 DEF Ownership
    <2>4. \A k \in 1 .. nst : k \in SubIDs
      BY BoundsAssumption DEF TypeOK, PubTypeOK, SubIDs
    <2> QED
      BY <2>1, <2>2, <2>3, <2>4 DEF Ownership, DtsKept, Adding
  <1> QED
    BY <1>1, <1>2, <1>3

(* Close leaves every entry in its place, with its record. *)
LEMMA FinishCloseKept ==
  ASSUME TypeOK, NEW r \in BOOLEAN, FinishClose(r)
  PROVE  SubKept
  <1>1. \A t \in Tracks : sub'[t] = [sub[t] EXCEPT !.changed = 0, !.removed = 0,
                                                  !.desired = @ /\ sub[t].st = 0]
    BY DEF FinishClose
  <1> SUFFICES ASSUME NEW t \in Tracks
               PROVE  sub'[t].st = sub[t].st /\ sub'[t].present = sub[t].present
    BY DEF SubKept
  <1>2. sub[t] \in SubType
    BY DEF TypeOK
  <1> QED
    BY <1>1, <1>2 DEF SubType

(* When the session has closed, the worker is gone and nothing is live. *)
LEMMA SessionOwnership ==
  ASSUME TypeOK, TypeOK', Ownership,
         ParticipantClosed \/ StartClose \/ WorkerExit \/ \E r \in BOOLEAN : FinishClose(r)
  PROVE  Ownership'
  <1>1. CASE ParticipantClosed \/ StartClose
    BY <1>1 DEF ParticipantClosed, StartClose, Ownership
  <1>2. CASE WorkerExit
    <2>1. worker'.pc = "done" /\ worker.pc = "idle"
      BY <1>2, GotoKept DEF WorkerExit, At, WorkerPCs
    <2>2. WorkerKept /\ SubKept /\ DtsKept
      BY <1>2, <2>1, SubSame, DtsSame DEF WorkerExit, WorkerKept, Adding
    <2> QED
      BY <1>2, <2>2, OwnershipFrame DEF WorkerExit
  <1>3. CASE \E r \in BOOLEAN : FinishClose(r)
    <2> PICK r \in BOOLEAN : FinishClose(r)
      BY <1>3
    <2>1. DtsKept /\ \A i \in SubIDs : i \in Recorded => dts'[i].state # "live"
      BY CloseOfKept DEF FinishClose
    <2>2. UNCHANGED <<worker, nst, canSubscribe, setPerm>> /\ worker.pc = "done"
      BY DEF FinishClose, At
    <2>3. SubKept
      BY FinishCloseKept
    <2>4. ASSUME NEW i \in SubIDs
          PROVE  dts'[i].state # "live"
      <3>1. SUFFICES ASSUME dts'[i].state = "live" PROVE FALSE
        OBVIOUS
      <3>2. dts[i].state = "live" /\ i \notin Recorded /\ dts[i].t \in Tracks
            /\ dts[i].cb \in {"default", "manager"}
        BY <2>1, <3>1 DEF DtsKept, TypeOK, PubTypeOK, DTType
      <3>3. ~(sub[dts[i].t].present /\ sub[dts[i].t].st = i)
        BY <3>2 DEF Recorded
      <3> QED
        BY <2>2, <3>2, <3>3 DEF Ownership
    <2>5. ASSUME NEW i \in SubIDs, dts'[i].cb = "manager",
                 dts'[i].state \in {"live", "closing", "gone"}
          PROVE  dts'[i].entry /\ sub'[dts'[i].t].present /\ sub'[dts'[i].t].st = i
      <3>1. dts[i].t \in Tracks
        BY DEF TypeOK, PubTypeOK, DTType
      <3> QED
        BY <2>1, <2>2, <2>3, <2>5, <3>1 DEF Ownership, DtsKept, SubKept
    <2>6. \A i \in SubIDs : i > nst => dts'[i].state = "none"
      BY <2>1 DEF Ownership, DtsKept
    <2>7. \A t \in Tracks : ~sub'[t].present => sub'[t].st = 0
      BY <2>3 DEF Ownership, SubKept
    <2>8. setPerm' = "grant" => canSubscribe'
      BY <2>2 DEF Ownership
    <2> QED
      BY <2>2, <2>4, <2>5, <2>6, <2>7, <2>8 DEF Ownership, Adding
  <1> QED
    BY <1>1, <1>2, <1>3

(* The close callback takes the record of its own track away, and nothing else. *)
LEMMA UnsetClears ==
  ASSUME TypeOK, Ownership, NEW i \in SubIDs, UnsetSubscribedTrack(i)
  PROVE  /\ dts[i].cb = "manager" /\ dts[i].state = "gone"
         /\ \/ sub[dts[i].t].present /\ sub[dts[i].t].st = i
            \/ worker.pc = "record" /\ worker.i = i
         /\ \A j \in SubIDs : j # i => dts'[j] = dts[j]
         /\ dts'[i].t = dts[i].t
         /\ dts'[i].state = IF sub[dts[i].t].st = 0 THEN "closed" ELSE "notifiers"
         /\ \A u \in Tracks : /\ sub'[u].present = sub[u].present
                              /\ u # dts[i].t => sub'[u].st = sub[u].st
                              /\ u = dts[i].t => sub'[u].st = 0
  <1> DEFINE t == dts[i].t
  <1>a. dts[i] \in DTType /\ t \in Tracks /\ sub[t] \in SubType
    BY DEF TypeOK, PubTypeOK, DTType
  <1>c. ClosedDT(i).t = t /\ ClosedDT(i).state = "closed"
    BY NoDTType DEF ClosedDT, DTType
  <1>1. dts[i].cb = "manager" /\ dts[i].state = "gone"
    BY DEF UnsetSubscribedTrack
  <1>2. \/ sub[t].present /\ sub[t].st = i
        \/ worker.pc = "record" /\ worker.i = i
    BY <1>1 DEF Ownership
  <1>3. \A j \in SubIDs : j # i => dts'[j] = dts[j]
    BY DEF UnsetSubscribedTrack, TypeOK, PubTypeOK
  <1>4. dts'[i].t = t /\ dts'[i].state = IF sub[t].st = 0 THEN "closed" ELSE "notifiers"
    BY <1>a, <1>c DEF UnsetSubscribedTrack, AfterUnset, TypeOK, PubTypeOK, DTType
  <1>5. \A u \in Tracks : /\ sub'[u].present = sub[u].present
                          /\ u # t => sub'[u].st = sub[u].st
                          /\ u = t => sub'[u].st = 0
    <2> DEFINE s == [sub[t] EXCEPT !.st = 0, !.bound = FALSE]
    <2>1. s.present = sub[t].present /\ s.st = 0
      BY <1>a DEF SubType
    <2>2. sub' = [sub EXCEPT ![t] = s]
      BY <1>a DEF UnsetSubscribedTrack, TypeOK, SubType
    <2> HIDE DEF s, t
    <2> QED
      BY <1>a, <2>1, <2>2 DEF TypeOK
  <1> QED
    BY <1>1, <1>2, <1>3, <1>4, <1>5

(* The other steps of a close leave the records alone. *)
LEMMA CloseKeepsRecords ==
  ASSUME TypeOK, NEW i \in SubIDs, TrackClose(i), ~UnsetSubscribedTrack(i)
  PROVE  SubKept
  <1> DEFINE t == dts[i].t
  <1>a. t \in Tracks /\ sub[t] \in SubType
    BY DEF TypeOK, PubTypeOK, DTType
  <1>1. CASE ClearNotifiers(i)
    <2> DEFINE s == [sub[t] EXCEPT !.changed = 0, !.removed = 0]
    <2>1. s.st = sub[t].st /\ s.present = sub[t].present
      BY <1>a DEF SubType
    <2>2. sub' = sub \/ sub' = [sub EXCEPT ![t] = s]
      BY <1>1 DEF ClearNotifiers, SetSub
    <2> HIDE DEF s, t
    <2> QED
      BY <1>a, <2>1, <2>2, SetSubKept, SubSame
  <1>2. CASE FinishTrackClose(i)
    <2> DEFINE s == [sub[t] EXCEPT !.age = 0]
    <2>1. s.st = sub[t].st /\ s.present = sub[t].present
      BY <1>a DEF SubType
    <2>2. sub' = sub \/ sub' = [sub EXCEPT ![t] = s]
      BY <1>2 DEF FinishTrackClose
    <2> HIDE DEF s, t
    <2> QED
      BY <1>a, <2>1, <2>2, SetSubKept, SubSame
  <1>3. CASE UNCHANGED sub
    BY <1>3, SubSame
  <1> QED
    BY <1>1, <1>2, <1>3 DEF TrackClose, DecrementCount, UnmarkSubscribedTo, smVars

(* The close callback finds its own track recorded, so that it clears no other. *)
LEMMA CloseOwnership ==
  ASSUME TypeOK, TypeOK', Ownership, NEW i \in SubIDs, TrackClose(i)
  PROVE  Ownership'
  <1> DEFINE t == dts[i].t
  <1>a. dts[i] \in DTType /\ t \in Tracks /\ sub[t] \in SubType
    BY DEF TypeOK, PubTypeOK, DTType
  <1>b. UNCHANGED <<worker, nst, session, canSubscribe, setPerm>>
    BY DEF TrackClose, OnDownTrackClose, DefaultOnClose, UnsetSubscribedTrack, ClearNotifiers,
           DecrementCount, UnmarkSubscribedTo, FinishTrackClose, smVars
  <1>c. ClosedDT(i).t = t /\ ClosedDT(i).state = "closed"
    BY NoDTType DEF ClosedDT, DTType
  <1>1. CASE UnsetSubscribedTrack(i)
    <2>1. dts[i].state = "gone"
      BY <1>1, UnsetClears
    <2>2. \/ sub[t].present /\ sub[t].st = i
          \/ worker.pc = "record" /\ worker.i = i
      BY <1>1, UnsetClears
    <2>3. \A j \in SubIDs : j # i => dts'[j] = dts[j]
      BY <1>1, UnsetClears
    <2>4. dts'[i].t = t /\ dts'[i].state \in {"closed", "notifiers"}
      BY <1>1, UnsetClears
    <2>5. \A u \in Tracks : /\ sub'[u].present = sub[u].present
                            /\ u # t => sub'[u].st = sub[u].st
                            /\ u = t => sub'[u].st = 0
      BY <1>1, UnsetClears
    <2>6. ASSUME NEW j \in SubIDs, dts'[j].cb = "manager",
                 dts'[j].state \in {"live", "closing", "gone"}
          PROVE  /\ dts'[j].entry
                 /\ \/ sub'[dts'[j].t].present /\ sub'[dts'[j].t].st = j
                    \/ worker'.pc = "record" /\ worker'.i = j
      <3>1. j # i /\ dts'[j] = dts[j] /\ dts[j].t \in Tracks
        BY <2>3, <2>4, <2>6 DEF TypeOK, PubTypeOK, DTType
      <3>2. /\ dts[j].entry
            /\ \/ sub[dts[j].t].present /\ sub[dts[j].t].st = j
               \/ worker.pc = "record" /\ worker.i = j
        BY <2>6, <3>1 DEF Ownership
      <3>3. CASE worker.pc = "record" /\ worker.i = j
        BY <1>b, <3>1, <3>2, <3>3
      <3>4. CASE sub[dts[j].t].present /\ sub[dts[j].t].st = j
        <4>1. j # 0
          BY DEF SubIDs
        <4>2. dts[j].t # t
          <5>1. SUFFICES ASSUME dts[j].t = t PROVE FALSE
            OBVIOUS
          <5>2. worker.pc = "record" /\ worker.i = i
            BY <2>2, <3>1, <3>4, <5>1
          <5>3. worker.t = t /\ sub[worker.t].st = 0
            BY <5>2 DEF Ownership, Adding
          <5> QED
            BY <3>4, <4>1, <5>1, <5>3
        <4> QED
          BY <2>5, <3>1, <3>2, <3>4, <4>2
      <3> QED
        BY <3>2, <3>3, <3>4
    <2>7. ASSUME NEW j \in SubIDs, dts'[j].state = "live"
          PROVE  dts[j] = dts'[j]
      BY <2>3, <2>4, <2>7
    <2>8. \A j \in SubIDs : j > nst => dts'[j].state = "none"
      BY <2>1, <2>3 DEF Ownership
    <2>9. worker.t \in Tracks /\ \A k \in 1 .. nst : k \in SubIDs
      BY BoundsAssumption DEF TypeOK, PubTypeOK, SubIDs, WorkerType
    <2>10. worker.pc \in Adding =>
             worker.i \in 1 .. nst /\ dts'[worker.i].t = worker.t /\ dts'[worker.i].state # "none"
      BY <2>3, <2>4, <2>9 DEF Ownership
    <2>11. worker.pc \in {"subscribe", "add", "insert", "post", "install", "record"} =>
             sub'[worker.t].present /\ sub'[worker.t].st = 0
      BY <2>5, <2>9 DEF Ownership
    <2>12. \A u \in Tracks : ~sub'[u].present => sub'[u].st = 0
      BY <2>5 DEF Ownership
    <2> QED
      BY <1>b, <2>6, <2>7, <2>8, <2>10, <2>11, <2>12 DEF Ownership
  <1>2. CASE ~UnsetSubscribedTrack(i)
    <2>1. SubKept
      BY <1>2, CloseKeepsRecords
    <2>2. DtsKept
      <3>1. \A j \in SubIDs : j # i => dts'[j] = dts[j]
        BY <1>2 DEF TrackClose, OnDownTrackClose, DefaultOnClose, ClearNotifiers, CloseStep,
                    DecrementCount, UnmarkSubscribedTo, FinishTrackClose, TypeOK, PubTypeOK
      <3>2. /\ dts'[i].t = t
            /\ dts[i].state # "none" /\ dts'[i].state \notin {"none", "live", "closing"}
            /\ dts'[i].state = "gone" => /\ dts[i].state = "closing"
                                         /\ dts'[i].cb = dts[i].cb /\ dts'[i].entry = dts[i].entry
        <4>1. CASE dts' = [dts EXCEPT ![i] = ClosedDT(i)] /\ dts[i].state # "none"
          BY <1>a, <1>c, <4>1 DEF TypeOK, PubTypeOK
        <4>2. CASE OnDownTrackClose(i)
          BY <1>a, <4>2 DEF OnDownTrackClose, TypeOK, PubTypeOK, DTType
        <4>3. CASE ClearNotifiers(i) \/ UnmarkSubscribedTo(i)
          BY <1>a, <4>3 DEF ClearNotifiers, UnmarkSubscribedTo, CloseStep, TypeOK, PubTypeOK, DTType
        <4>4. CASE DecrementCount(i)
          <5> DEFINE k == KindOf[t]
                     b == Limit[k] > 0 /\ count[k] = Limit[k]
          <5>1. dts[i].state = "dec" /\ dts' = [dts EXCEPT ![i] = [dts[i] EXCEPT !.state = "unmark", !.relieve = b]]
            BY <1>a, <4>4 DEF DecrementCount, TypeOK, PubTypeOK, DTType
          <5> HIDE DEF b
          <5> QED
            BY <1>a, <5>1 DEF TypeOK, PubTypeOK, DTType
        <4> QED
          BY <1>2, <4>1, <4>2, <4>3, <4>4 DEF TrackClose, DefaultOnClose, FinishTrackClose
      <3> QED
        BY <3>1, <3>2 DEF DtsKept
    <2> QED
      BY <1>b, <2>1, <2>2, OwnershipFrame DEF WorkerKept
  <1> QED
    BY <1>1, <1>2

(* The worker takes up an entry only if it records nothing, and deletes only  *)
(* entries that record nothing.                                               *)
LEMMA ReconcileOwnership ==
  ASSUME TypeOK, TypeOK', Ownership, Tick \/ Dequeue \/ NextEntry \/ ReconcileSubscription \/ Cleanup
  PROVE  Ownership'
  <1>a. worker \in WorkerType /\ worker.t \in Tracks /\ sub[worker.t] \in SubType
    BY DEF TypeOK, WorkerType
  <1>1. CASE Tick \/ Dequeue \/ NextEntry
    <2>1. worker'.pc \in {"next", "reconcile", "idle"} /\ worker.pc \in {"idle", "next"}
      <3>1. CASE Tick
        BY <1>a, <3>1 DEF Tick, At, WorkerType
      <3>2. CASE Dequeue
        <4>1. PICK todo : worker' = [worker EXCEPT !.pc = "next", !.tail = TRUE, !.todo = todo]
          BY <3>2 DEF Dequeue
        <4> QED
          BY <1>a, <3>2, <4>1 DEF Dequeue, At, WorkerType
      <3>3. CASE NextEntry
        <4>1. CASE worker' = Idle
          BY <3>3, <4>1 DEF NextEntry, At, Idle
        <4>2. CASE \/ \E t \in worker.todo :
                        worker' = [worker EXCEPT !.pc = "reconcile", !.t = t, !.todo = @ \ {t}]
                   \/ worker' = [worker EXCEPT !.todo = NeedsReconcile, !.tail = FALSE]
          BY <1>a, <3>3, <4>2 DEF NextEntry, At, WorkerType
        <4> QED
          BY <3>3, <4>1, <4>2 DEF NextEntry
      <3> QED
        BY <1>1, <3>1, <3>2, <3>3
    <2>2. UNCHANGED <<sub, dts, nst, session, canSubscribe, setPerm>>
      BY <1>1 DEF Tick, Dequeue, NextEntry
    <2> QED
      BY <2>1, <2>2, SubSame, DtsSame, OwnershipFrame DEF WorkerKept, Adding
  <1>2. CASE ReconcileSubscription
    <2>1. UNCHANGED <<sub, dts, nst, session, canSubscribe, setPerm>> /\ worker.pc = "reconcile"
      BY <1>2 DEF ReconcileSubscription, At
    <2>2. \/ worker'.pc \in {"next", "cleanup"}
          \/ worker'.pc = "subscribe" /\ worker'.t = worker.t /\ NeedsSubscribe(sub[worker.t])
      BY <1>2, GotoKept DEF ReconcileSubscription, WorkerPCs
    <2> QED
      BY <2>1, <2>2, SubSame, DtsSame, OwnershipFrame DEF WorkerKept, Adding, NeedsSubscribe
  <1>3. CASE Cleanup
    <2> DEFINE t == worker.t
    <2>1. worker.pc = "cleanup" /\ worker'.pc = "next" /\ UNCHANGED <<nst, session, canSubscribe, setPerm>>
      BY <1>3, GotoKept DEF Cleanup, At, WorkerPCs
    <2>2. CASE ~NeedsCleanup(sub[t])
      <3>1. UNCHANGED <<sub, dts>>
        BY <1>3, <2>2 DEF Cleanup
      <3> QED
        BY <2>1, <3>1, SubSame, DtsSame, OwnershipFrame DEF WorkerKept, Adding
    <2>3. CASE NeedsCleanup(sub[t])
      <3>1. sub[t].st = 0
        BY <2>3 DEF NeedsCleanup
      <3>2. \A u \in Tracks : sub'[u] = IF u = t THEN NoSub ELSE sub[u]
        BY <1>3, <2>3 DEF Cleanup, TypeOK
      <3>3. NoSub.st = 0
        BY DEF NoSub, NewSub
      <3>4. ASSUME NEW i \in SubIDs
            PROVE  /\ dts'[i].t = dts[i].t /\ dts'[i].state = dts[i].state /\ dts'[i].cb = dts[i].cb
                   /\ dts[i].t # t => dts'[i].entry = dts[i].entry
        <4>1. dts'[i] = IF dts[i].t = t THEN [dts[i] EXCEPT !.entry = FALSE] ELSE dts[i]
          BY <1>3, <2>3 DEF Cleanup
        <4>2. dts[i] \in DTType
          BY DEF TypeOK, PubTypeOK
        <4> QED
          BY <4>1, <4>2 DEF DTType
      <3>5. ASSUME NEW i \in SubIDs, dts'[i].cb = "manager",
                   dts'[i].state \in {"live", "closing", "gone"}
            PROVE  dts'[i].entry /\ sub'[dts'[i].t].present /\ sub'[dts'[i].t].st = i
        <4>1. dts[i].entry /\ sub[dts[i].t].present /\ sub[dts[i].t].st = i /\ dts[i].t \in Tracks
          BY <2>1, <3>4, <3>5 DEF Ownership, TypeOK, PubTypeOK, DTType
        <4>2. dts[i].t # t
          BY <3>1, <4>1 DEF SubIDs
        <4> QED
          BY <3>2, <3>4, <4>1, <4>2
      <3>6. ASSUME NEW i \in SubIDs
            PROVE  /\ (dts'[i].cb = "default" /\ dts'[i].state = "live") => FALSE
                   /\ (~canSubscribe' /\ setPerm' = "none" /\ dts'[i].state = "live") => FALSE
                   /\ session' = "closed" => dts'[i].state # "live"
                   /\ i > nst' => dts'[i].state = "none"
        BY <2>1, <3>4 DEF Ownership, Adding
      <3>7. \A u \in Tracks : ~sub'[u].present => sub'[u].st = 0
        BY <3>2, <3>3 DEF Ownership
      <3>8. session' # "closed" /\ (setPerm' = "grant" => canSubscribe')
        BY <2>1 DEF Ownership
      <3> QED
        BY <2>1, <3>5, <3>6, <3>7, <3>8 DEF Ownership, Adding
    <2> QED
      BY <2>2, <2>3
  <1> QED
    BY <1>1, <1>2, <1>3

(* A failed attempt keeps the entries' places and records. *)
LEMMA AttemptFailedKept ==
  ASSUME TypeOK, AttemptFailed
  PROVE  SubKept /\ worker'.pc = "next"
  <1>1. worker.t \in Tracks /\ sub[worker.t] \in SubType
    BY DEF TypeOK, WorkerType
  <1>2. sub' = [sub EXCEPT ![worker.t] = Failed(sub[worker.t])] /\ Goto("next")
    BY DEF AttemptFailed, SetSub
  <1>3. worker'.pc = "next"
    BY <1>2, GotoKept DEF WorkerPCs
  <1> QED
    BY <1>1, <1>2, <1>3, UpdatesKeep, SetSubKept

(* The resolution of the track keeps the entries' places and records. *)
LEMMA ResolveKept ==
  ASSUME TypeOK, Resolve
  PROVE  /\ SubKept
         /\ worker.pc = "subscribe"
         /\ worker'.pc = "next" \/ (worker'.pc = "add" /\ worker'.t = worker.t)
  <1> DEFINE t  == worker.t
             g  == Resolved(t)
             s0 == sub[t]
             rm == IF g # 0 THEN epoch[t] ELSE s0.removed
             s1 == [s0 EXCEPT !.changed = epoch[t], !.removed = rm]
             s2 == [s1 EXCEPT !.kind = TRUE]
             s3 == WithPermission(s2, permitted[t])
  <1>1. t \in Tracks /\ worker \in WorkerType /\ s0 \in SubType /\ epoch[t] \in Nat
        /\ permitted[t] \in BOOLEAN
    BY DEF TypeOK, PubTypeOK, WorkerType
  <1>2. \/ sub' = [sub EXCEPT ![t] = Failed(s0)] /\ Goto("next")
        \/ sub' = [sub EXCEPT ![t] = SetDesiredFalse(Failed(s1))] /\ Goto("next")
        \/ sub' = [sub EXCEPT ![t] = Failed(s1)] /\ Goto("next")
        \/ sub' = [sub EXCEPT ![t] = Failed(s2)] /\ Goto("next")
        \/ sub' = [sub EXCEPT ![t] = Failed(s3)] /\ Goto("next")
        \/ sub' = [sub EXCEPT ![t] = s3] /\ worker' = [worker EXCEPT !.pc = "add", !.g = g]
    BY DEF Resolve, SetSub
  <1>3. worker.pc = "subscribe"
    BY DEF Resolve, At
  <1>4. rm \in Nat
    BY <1>1 DEF SubType
  <1> HIDE DEF t, g, s0, rm
  <1>5. s1 \in SubType /\ s1.st = s0.st /\ s1.present = s0.present
    BY <1>1, <1>4 DEF SubType
  <1> HIDE DEF s1
  <1>6. s2 \in SubType /\ s2.st = s0.st /\ s2.present = s0.present
    BY <1>5 DEF SubType
  <1> HIDE DEF s2
  <1>7. s3 \in SubType /\ s3.st = s0.st /\ s3.present = s0.present
    BY <1>1, <1>6, EntryTypes, UpdatesKeep
  <1> HIDE DEF s3
  <1>8. /\ Failed(s0).st = s0.st /\ Failed(s0).present = s0.present
        /\ Failed(s1) \in SubType /\ Failed(s1).st = s0.st /\ Failed(s1).present = s0.present
        /\ Failed(s2).st = s0.st /\ Failed(s2).present = s0.present
        /\ Failed(s3).st = s0.st /\ Failed(s3).present = s0.present
    BY <1>1, <1>5, <1>6, <1>7, EntryTypes, UpdatesKeep
  <1>9. SetDesiredFalse(Failed(s1)).st = s0.st /\ SetDesiredFalse(Failed(s1)).present = s0.present
    BY <1>8, UpdatesKeep
  <1>10. s0 = sub[t] /\ t = worker.t
    BY DEF s0, t
  <1>11. SubKept
    BY <1>1, <1>2, <1>7, <1>8, <1>9, <1>10, SetSubKept
  <1>12. worker'.pc = "next" \/ (worker'.pc = "add" /\ worker'.t = worker.t)
    BY <1>1, <1>2, GotoKept DEF WorkerPCs, WorkerType
  <1> QED
    BY <1>3, <1>11, <1>12

(* Ownership gives the type lemmas what they need of the worker. *)
LEMMA WorkerHoldsTrack ==
  ASSUME TypeOK, Ownership
  PROVE  worker.pc \in Adding => worker.i \in SubIDs
  BY BoundsAssumption DEF Ownership, TypeOK, PubTypeOK, SubIDs

(* The second look at the source track: nothing, a close that somebody else   *)
(* ends, or one to resume that is over at once.                               *)
LEMMA RecheckOpenDoes ==
  ASSUME TypeOK, Ownership, RecheckOpen
  PROVE  /\ worker.pc = "post" /\ worker.i \in SubIDs /\ dts[worker.i].t = worker.t
         /\ \/ /\ AttemptFailed /\ UNCHANGED cached
               /\ \E r \in BOOLEAN : /\ dts' = CloseOf({worker.i}, r)
                                     /\ r => dts[worker.i].state # "live"
            \/ /\ AttemptFailed /\ dts[worker.i].state = "live"
               /\ cached' = [cached EXCEPT ![worker.t] = worker.i]
               /\ \A j \in SubIDs : j # worker.i => dts'[j] = dts[j]
               /\ dts'[worker.i].t = dts[worker.i].t /\ dts'[worker.i].g = dts[worker.i].g
               /\ dts'[worker.i].state = "closed" /\ ~dts'[worker.i].resume
            \/ UNCHANGED <<dts, cached, subVars>> /\ Goto("install")
  <1> DEFINE i == worker.i
             r == resuming[worker.t][worker.g]
  <1>1. worker.pc = "post"
    BY DEF RecheckOpen, At
  <1>2. i \in SubIDs /\ dts[i].t = worker.t /\ dts[i] \in DTType
    <2>1. i \in SubIDs
      BY <1>1, WorkerHoldsTrack DEF Adding
    <2> QED
      BY <1>1, <2>1 DEF Ownership, Adding, TypeOK, PubTypeOK
  <1>3. r \in BOOLEAN
    BY DEF TypeOK, PubTypeOK, WorkerType
  <1>4. ClosedDT(i).t = dts[i].t /\ ClosedDT(i).g = dts[i].g /\ ClosedDT(i).state = "closed"
        /\ ~ClosedDT(i).resume
    BY <1>2, NoDTType DEF ClosedDT, NoDT, DTType
  <1>5. CASE mstate[worker.t][worker.g] = "open"
    BY <1>1, <1>2, <1>5 DEF RecheckOpen
  <1>6. CASE mstate[worker.t][worker.g] # "open" /\ r /\ dts[i].state = "live"
    <2>1. /\ dts' = [dts EXCEPT ![i] = ClosedDT(i)] /\ cached' = [cached EXCEPT ![worker.t] = i]
          /\ AttemptFailed
      BY <1>6 DEF RecheckOpen
    <2> HIDE DEF i, r
    <2>2. dts'[i] = ClosedDT(i) /\ \A j \in SubIDs : j # i => dts'[j] = dts[j]
      BY <1>2, <2>1 DEF TypeOK, PubTypeOK
    <2> QED
      BY <1>1, <1>2, <1>4, <1>6, <2>1, <2>2 DEF i
  <1>7. CASE mstate[worker.t][worker.g] # "open" /\ ~(r /\ dts[i].state = "live")
    <2>1. dts' = CloseOf({i}, r) /\ cached' = cached /\ AttemptFailed
      BY <1>7 DEF RecheckOpen
    <2> HIDE DEF i, r
    <2> QED
      BY <1>1, <1>2, <1>3, <1>7, <2>1 DEF i
  <1> QED
    BY <1>5, <1>6, <1>7

(* The track the worker adds is in its hands until it is recorded with its    *)
(* close callback; a track that fails a re-check is closed.                   *)
LEMMA SubscribeOwnership ==
  ASSUME TypeOK, TypeOK', Ownership,
         \/ Resolve \/ AddSubscriber \/ InsertSubscriber \/ RecheckOpen \/ Install
         \/ SetSubscribedTrack \/ IncrementCount \/ RecheckCanSubscribe \/ MarkSubscribedTo
  PROVE  Ownership'
  <1>a. worker \in WorkerType /\ worker.t \in Tracks /\ sub[worker.t] \in SubType
    BY DEF TypeOK, WorkerType
  <1>b. nst \in Nat /\ \A k \in 1 .. nst : k \in SubIDs /\ k # 0
    BY BoundsAssumption DEF TypeOK, PubTypeOK, SubIDs
  <1>c. UNCHANGED <<session, canSubscribe, setPerm>>
    BY DEF Resolve, AddSubscriber, InsertSubscriber, RecheckOpen, Install, SetSubscribedTrack,
           IncrementCount, RecheckCanSubscribe, MarkSubscribedTo
  <1>1. CASE Resolve
    <2>1. UNCHANGED <<dts, nst>>
      BY <1>1 DEF Resolve
    <2>2. sub'[worker.t].present /\ sub'[worker.t].st = 0
      BY <1>1, <1>a, ResolveKept DEF Ownership, SubKept
    <2>3. WorkerKept
      BY <1>1, <2>2, ResolveKept DEF WorkerKept, Adding
    <2> QED
      BY <1>1, <1>c, <2>1, <2>3, ResolveKept, DtsSame, OwnershipFrame
  <1>2. CASE AddSubscriber
    <2>1. UNCHANGED <<dts, nst>> /\ worker.pc = "add"
      BY <1>2 DEF AddSubscriber, At
    <2>2. CASE AttemptFailed
      BY <1>c, <2>1, <2>2, AttemptFailedKept, DtsSame, OwnershipFrame DEF WorkerKept, Adding
    <2>3. CASE (Goto("mark") \/ Goto("insert")) /\ UNCHANGED sub
      <3>1. worker'.pc \in {"mark", "insert"} /\ worker'.t = worker.t
        BY <2>3, GotoKept DEF WorkerPCs
      <3>2. WorkerKept
        BY <2>1, <2>3, <3>1 DEF WorkerKept, Adding, Ownership
      <3> QED
        BY <1>c, <2>1, <2>3, <3>2, SubSame, DtsSame, OwnershipFrame
    <2> QED
      BY <1>2, <2>2, <2>3 DEF AddSubscriber
  <1>3. CASE InsertSubscriber
    <2>0. worker.pc = "insert"
      BY <1>3 DEF InsertSubscriber, At
    <2>1. CASE AttemptFailed /\ UNCHANGED <<dts, nst>>
      BY <1>c, <2>0, <2>1, AttemptFailedKept, DtsSame, OwnershipFrame DEF WorkerKept, Adding
    <2>2. CASE /\ nst < MaxSubs /\ nst' = nst + 1
               /\ dts' = [dts EXCEPT ![nst + 1] = [NoDT EXCEPT !.t = worker.t, !.g = worker.g,
                                                               !.state = "live"]]
               /\ worker' = [worker EXCEPT !.pc = "post", !.i = nst + 1]
               /\ UNCHANGED sub
      <3> DEFINE n == nst + 1
      <3>1. n \in SubIDs /\ n \in 1 .. nst'
        BY <1>b, <2>2, BoundsAssumption DEF SubIDs
      <3>2. worker'.pc = "post" /\ worker'.i = n /\ worker'.t = worker.t
        BY <1>a, <2>2 DEF WorkerType
      <3>3. /\ dts'[n].t = worker.t /\ dts'[n].state = "live" /\ dts'[n].cb = "default"
            /\ \A j \in SubIDs : j # n => dts'[j] = dts[j]
        BY <2>2, <3>1, NoDTType DEF NoDT, DTType, TypeOK, PubTypeOK
      <3> HIDE DEF n
      <3>4. ASSUME NEW j \in SubIDs, j # n
            PROVE  /\ (dts[j].cb = "default" /\ dts[j].state = "live") => FALSE
                   /\ (~canSubscribe /\ setPerm = "none" /\ dts[j].state = "live") => FALSE
                   /\ (dts[j].cb = "manager" /\ dts[j].state \in {"live", "closing", "gone"}) =>
                        dts[j].entry /\ sub[dts[j].t].present /\ sub[dts[j].t].st = j
        BY <2>0, <3>4 DEF Ownership, Adding
      <3>5. \A j \in SubIDs : j > nst' => dts'[j].state = "none"
        BY <1>b, <2>2, <3>1, <3>3 DEF Ownership, SubIDs
      <3>6. session' # "closed"
        BY <1>c, <2>0 DEF Ownership
      <3>7. sub'[worker'.t].present /\ sub'[worker'.t].st = 0
        BY <2>0, <2>2, <3>2 DEF Ownership
      <3>8. (\A t \in Tracks : ~sub'[t].present => sub'[t].st = 0) /\ (setPerm' = "grant" => canSubscribe')
        BY <1>c, <2>2 DEF Ownership
      <3> QED
        BY <1>c, <2>2, <3>1, <3>2, <3>3, <3>4, <3>5, <3>6, <3>7, <3>8 DEF Ownership, Adding
    <2> QED
      BY <1>3, <2>1, <2>2 DEF InsertSubscriber
  <1>4. CASE RecheckOpen \/ RecheckCanSubscribe
    <2> DEFINE i == worker.i
    <2>0. UNCHANGED nst /\ worker.pc \in {"post", "recheck"} /\ i \in SubIDs
          /\ session # "closed"
      BY <1>4, <1>b DEF RecheckOpen, RecheckCanSubscribe, At, Ownership, Adding
    <2>1. CASE AttemptFailed /\ DtsKept /\ dts'[i].state # "live"
      <3>1. DtsKept /\ dts'[i].state # "live"
        BY <2>1
      <3>2. SubKept /\ worker'.pc = "next"
        BY <2>1, AttemptFailedKept
      <3>3. ASSUME NEW j \in SubIDs
            PROVE  /\ (dts'[j].cb = "manager" /\ dts'[j].state \in {"live", "closing", "gone"}) =>
                        dts'[j].entry /\ sub'[dts'[j].t].present /\ sub'[dts'[j].t].st = j
                   /\ (dts'[j].cb = "default" /\ dts'[j].state = "live") => FALSE
                   /\ (~canSubscribe /\ setPerm = "none" /\ dts'[j].state = "live") => FALSE
                   /\ j > nst => dts'[j].state = "none"
        <4>1. dts[j].t \in Tracks
          BY DEF TypeOK, PubTypeOK, DTType
        <4> QED
          BY <2>0, <3>1, <3>2, <3>3, <4>1 DEF Ownership, DtsKept, SubKept, Adding
      <3>4. \A t \in Tracks : ~sub'[t].present => sub'[t].st = 0
        BY <3>2 DEF Ownership, SubKept
      <3>5. setPerm' = "grant" => canSubscribe'
        BY <1>c DEF Ownership
      <3> QED
        BY <1>c, <2>0, <3>2, <3>3, <3>4, <3>5 DEF Ownership, Adding
    <2>2. CASE Goto("install") /\ UNCHANGED <<dts, sub>> /\ worker.pc = "post"
      <3>1. worker'.pc = "install" /\ worker'.t = worker.t /\ worker'.i = i
        BY <2>2, GotoKept DEF WorkerPCs
      <3> QED
        BY <1>c, <2>0, <2>2, <3>1 DEF Ownership, Adding
    <2>3. CASE Goto("mark") /\ UNCHANGED <<dts, sub>> /\ worker.pc = "recheck" /\ canSubscribe
      <3>1. worker'.pc = "mark"
        BY <2>3, GotoKept DEF WorkerPCs
      <3> QED
        BY <1>c, <2>0, <2>3, <3>1 DEF Ownership, Adding
    <2>4. CASE RecheckOpen
      <3>1. CASE AttemptFailed /\ \E r \in BOOLEAN : dts' = CloseOf({i}, r)
        BY <2>0, <2>1, <3>1, CloseOfKept
      <3>2. CASE /\ AttemptFailed /\ dts[i].state = "live"
                 /\ \A j \in SubIDs : j # i => dts'[j] = dts[j]
                 /\ dts'[i].t = dts[i].t /\ dts'[i].state = "closed"
        <4>1. DtsKept
          BY <3>2 DEF DtsKept
        <4> QED
          BY <2>1, <3>2, <4>1
      <3>3. CASE Goto("install") /\ UNCHANGED <<dts, sub>>
        BY <2>2, <2>4, <3>3, RecheckOpenDoes
      <3> QED
        BY <2>4, <3>1, <3>2, <3>3, RecheckOpenDoes DEF subVars
    <2>5. CASE RecheckCanSubscribe
      BY <2>0, <2>1, <2>3, <2>5, CloseOfKept DEF RecheckCanSubscribe, At, subVars
    <2> QED
      BY <1>4, <2>4, <2>5
  <1>5. CASE Install
    <2> DEFINE i == worker.i
    <2>1. worker'.pc = "record" /\ worker'.t = worker.t /\ worker'.i = i /\ worker.pc = "install"
          /\ UNCHANGED <<nst, sub>>
      BY <1>5, GotoKept DEF Install, At, WorkerPCs
    <2>2. i \in SubIDs /\ i \in 1 .. nst /\ dts[i].t = worker.t /\ dts[i].state # "none" /\ session # "closed"
      BY <1>b, <2>1 DEF Ownership, Adding
    <2>3. /\ \A j \in SubIDs : j # i => dts'[j] = dts[j]
          /\ dts'[i].t = dts[i].t /\ dts'[i].state = dts[i].state /\ dts'[i].entry
      BY <1>5, <2>2 DEF Install, TypeOK, PubTypeOK, DTType
    <2> HIDE DEF i
    <2>4. ASSUME NEW j \in SubIDs
          PROVE  /\ (dts'[j].cb = "manager" /\ dts'[j].state \in {"live", "closing", "gone"}) =>
                      /\ dts'[j].entry
                      /\ \/ sub'[dts'[j].t].present /\ sub'[dts'[j].t].st = j
                         \/ j = i
                 /\ (j # i /\ dts'[j].cb = "default" /\ dts'[j].state = "live") => FALSE
                 /\ (~canSubscribe /\ setPerm = "none" /\ dts'[j].state = "live") => j = i
                 /\ j > nst => dts'[j].state = "none"
      BY <2>1, <2>2, <2>3, <2>4 DEF Ownership, Adding, i
    <2>5. dts'[i].cb = "manager"
      BY <1>5, <2>2 DEF Install, TypeOK, PubTypeOK, DTType, i
    <2> QED
      BY <1>c, <2>1, <2>2, <2>3, <2>4, <2>5 DEF Ownership, Adding
  <1>6. CASE SetSubscribedTrack
    <2> DEFINE i == worker.i
               t == worker.t
    <2>1. worker'.pc = "inc" /\ worker'.t = t /\ worker'.i = i /\ worker.pc = "record"
          /\ UNCHANGED <<nst, dts>>
      BY <1>6, GotoKept DEF SetSubscribedTrack, At, WorkerPCs
    <2>2. i \in SubIDs /\ i \in 1 .. nst /\ dts[i].t = t /\ dts[i].state # "none" /\ session # "closed"
          /\ sub[t].present /\ sub[t].st = 0
      BY <1>b, <2>1 DEF Ownership, Adding
    <2>3. /\ \A u \in Tracks : u # t => sub'[u] = sub[u]
          /\ sub'[t].st = i /\ sub'[t].present
      BY <1>6, <1>a, <2>2 DEF SetSubscribedTrack, TypeOK, SubType
    <2>4. ASSUME NEW j \in SubIDs, dts[j].cb = "manager", dts[j].state \in {"live", "closing", "gone"}
          PROVE  dts[j].entry /\ sub'[dts[j].t].present /\ sub'[dts[j].t].st = j
      <3>1. dts[j].entry /\ (j = i \/ (sub[dts[j].t].present /\ sub[dts[j].t].st = j))
        BY <2>1, <2>4 DEF Ownership
      <3>2. dts[j].t \in Tracks /\ j # 0
        <4>1. dts[j] \in DTType
          BY DEF TypeOK, PubTypeOK
        <4>2. dts[j].t \in Tracks
          BY <4>1 DEF DTType
        <4>3. j # 0
          BY DEF SubIDs
        <4> QED
          BY <4>2, <4>3
      <3> HIDE DEF i, t
      <3>3. CASE j = i
        BY <2>2, <2>3, <3>1, <3>3
      <3>4. CASE j # i
        <4>1. dts[j].t # t
          BY <2>2, <3>1, <3>2, <3>4
        <4> QED
          BY <2>3, <3>1, <3>2, <3>4, <4>1
      <3> QED
        BY <3>3, <3>4
    <2>5. ASSUME NEW j \in SubIDs
          PROVE  /\ (dts[j].cb = "default" /\ dts[j].state = "live") => FALSE
                 /\ (~canSubscribe /\ setPerm = "none" /\ dts[j].state = "live") => j = i
                 /\ j > nst => dts[j].state = "none"
      BY <2>1 DEF Ownership, Adding
    <2>6. (\A u \in Tracks : ~sub'[u].present => sub'[u].st = 0) /\ (setPerm' = "grant" => canSubscribe')
      BY <1>c, <2>3 DEF Ownership
    <2> HIDE DEF i, t
    <2> QED
      BY <1>c, <2>1, <2>2, <2>4, <2>5, <2>6 DEF Ownership, Adding
  <1>7. CASE IncrementCount
    <2>1. worker'.pc = "recheck" /\ worker'.t = worker.t /\ worker'.i = worker.i /\ worker.pc = "inc"
          /\ UNCHANGED <<nst, dts, sub>>
      BY <1>7, GotoKept DEF IncrementCount, At, WorkerPCs
    <2> QED
      BY <1>c, <2>1 DEF Ownership, Adding
  <1>8. CASE MarkSubscribedTo
    <2>1. worker'.pc = "next" /\ worker.pc = "mark" /\ UNCHANGED <<nst, dts>>
      BY <1>8, GotoKept DEF MarkSubscribedTo, At, WorkerPCs
    <2>2. SubKept
      <3> DEFINE s == [sub[worker.t] EXCEPT !.tried = FALSE]
      <3>1. s.st = sub[worker.t].st /\ s.present = sub[worker.t].present
        BY <1>a DEF SubType
      <3>2. sub' = [sub EXCEPT ![worker.t] = s]
        BY <1>8 DEF MarkSubscribedTo
      <3> HIDE DEF s
      <3> QED
        BY <1>a, <3>1, <3>2, SetSubKept
    <2> QED
      BY <1>c, <2>1, <2>2, DtsSame, OwnershipFrame DEF WorkerKept, Adding
  <1> QED
    BY <1>1, <1>2, <1>3, <1>4, <1>5, <1>6, <1>7, <1>8

(* Every step preserves Ownership. *)
LEMMA OwnershipStep ==
  ASSUME TypeOK, TypeOK', Ownership, [Next]_vars
  PROVE  Ownership'
  <1>1. CASE Worker
    BY <1>1, ReconcileOwnership, SubscribeOwnership DEF Worker
  <1>2. CASE WorkerExit \/ \E r \in BOOLEAN : FinishClose(r)
    BY <1>2, SessionOwnership
  <1>3. CASE \E t \in Tracks : Publisher(t) /\ UNCHANGED smVars
    BY <1>3, PublisherOwnership
  <1>4. CASE Goroutine
    <2>1. CASE \E i \in SubIDs : TrackClose(i)
      BY <2>1, CloseOwnership
    <2>2. CASE ApplyGrant \/ ApplyRevoke
      BY <2>2, PermissionOwnership
    <2>3. CASE \E t \in Tracks, g \in Gens : RemoveSubscriber(t, g)
      BY <2>3, CallbackOwnership, SomeIDs
    <2>4. CASE \E t \in Tracks : \/ DelayedReconcile(t) \/ TrackChanged(t)
                               \/ TrackRemoved(t) \/ HandleSourceTrackRemoved(t)
      BY <2>4, CallbackOwnership, SomeIDs
    <2>5. CASE \E o \in dropping : RemoveObserver(o)
      BY <2>5, CallbackOwnership, SomeIDs
    <2>6. CASE \E b \in binds : BindCallback(b[1], b[2])
      <3>1. \A b \in binds : b[1] \in SubIDs /\ b[2] \in BOOLEAN
        BY DEF TypeOK
      <3> QED
        BY <2>6, <3>1, CallbackOwnership, SomeIDs
    <2> QED
      BY <1>4, <2>1, <2>2, <2>3, <2>4, <2>5, <2>6 DEF Goroutine
  <1>5. CASE Environment
    <2>1. CASE \/ \E t \in Tracks : \/ SubscribeToTrack(t) \/ ClientUnsubscribe(t)
                                    \/ UpdateSubscribedTrackSettings(t)
               \/ ClearAllSubscriptions
      BY <2>1, ClientOwnership, BoundsAssumption
    <2>2. CASE \/ \E t \in Tracks : Age(t)
               \/ \E i \in SubIDs, ok \in BOOLEAN : Bound(i, ok)
      BY <2>2, CallbackOwnership, SomeIDs
    <2>3. CASE \E t \in Tracks : ChangePermission(t)
      BY <2>3, PublisherOwnership
    <2>4. CASE SetPermission
      BY <2>4, PermissionOwnership
    <2>5. CASE ParticipantClosed \/ StartClose
      BY <2>5, SessionOwnership
    <2> QED
      BY <1>5, <2>1, <2>2, <2>3, <2>4, <2>5 DEF Environment
  <1>6. CASE UNCHANGED vars
    BY <1>6, SubSame, DtsSame, OwnershipFrame DEF vars, sysVars, smVars, WorkerKept
  <1> QED
    BY <1>1, <1>2, <1>3, <1>4, <1>5, <1>6 DEF Next, Step

(* Both hold initially: nothing is subscribed. *)
LEMMA InitOK == Init => TypeOK /\ Ownership
  <1> SUFFICES ASSUME Init PROVE TypeOK /\ Ownership
    OBVIOUS
  <1>1. PubTypeOK
    <2>1. cached \in [Tracks -> 0 .. MaxSubs] /\ nst \in 0 .. MaxSubs
      BY BoundsAssumption DEF Init, PubInit
    <2> QED
      BY <2>1, NoDTType DEF Init, PubInit, PubTypeOK, NoteKinds
  <1>2. sub \in [Tracks -> SubType] /\ worker \in WorkerType
    <2>1. NewSub \in SubType
      BY BoundsAssumption DEF NewSub, SubType
    <2>2. NoSub \in SubType
      BY <2>1 DEF NoSub, SubType
    <2> QED
      BY <2>2, IdleType DEF Init
  <1>3. TypeOK
    <2>1. pending \in [Tracks -> [Gens -> 0 .. MaxPending]] /\ count \in [Kinds -> Int]
      BY ParamAssumption DEF Init
    <2>2. ops \in 0 .. MaxOps /\ perms \in 0 .. MaxPerm /\ Len(queue) <= QueueCap
          /\ queue \in Seq(Tracks \cup {All})
      BY ParamAssumption DEF Init
    <2> QED
      BY <1>1, <1>2, <2>1, <2>2 DEF Init, TypeOK
  <1>4. worker.pc = "idle" /\ \A i \in SubIDs : dts[i].state = "none"
    BY DEF Init, PubInit, Idle, NoDT
  <1>5. \A t \in Tracks : sub[t].st = 0
    BY DEF Init, NoSub, NewSub
  <1> QED
    BY <1>3, <1>4, <1>5 DEF Ownership, Init, Adding

-----------------------------------------------------------------------------
(* The counters: CountMatchesRecords and PlaceIsHeld are inductive, given    *)
(* the types and who holds the subscribed tracks.                            *)

(* What is counted is finite. *)
LEMMA CountedFinite ==
  ASSUME NEW k
  PROVE  /\ IsFiniteSet(RecordedOf(k)) /\ Cardinality(RecordedOf(k)) \in Nat
         /\ IsFiniteSet(LeavingOf(k)) /\ Cardinality(LeavingOf(k)) \in Nat
  <1>1. IsFiniteSet(RecordedOf(k))
    BY BoundsAssumption, FS_Subset DEF RecordedOf
  <1>2. IsFiniteSet(SubIDs)
    BY BoundsAssumption, FS_Interval DEF SubIDs
  <1>3. IsFiniteSet(LeavingOf(k))
    BY <1>2, FS_Subset DEF LeavingOf
  <1> QED
    BY <1>1, <1>3, FS_CardinalityType

(* No record comes or goes, and no callback begins or ends to give one back. *)
RecordsKept ==
  /\ \A t \in Tracks : sub'[t].st = sub[t].st
  /\ \A i \in SubIDs : /\ dts'[i].state \in Leaving <=> dts[i].state \in Leaving
                       /\ dts[i].state \in Leaving => dts'[i].t = dts[i].t

(* The worker does not begin or end to count a record. *)
NotCounting == UNCHANGED worker \/ (worker.pc # "inc" /\ worker'.pc # "inc")

(* The worker takes no new place. *)
NoNewPlace ==
  \/ UNCHANGED worker
  \/ worker'.pc \notin Counting
  \/ worker.pc \in Counting /\ worker'.t = worker.t

LEMMA SameSets ==
  ASSUME RecordsKept, NEW k
  PROVE  RecordedOf(k)' = RecordedOf(k) /\ LeavingOf(k)' = LeavingOf(k)
  BY DEF RecordsKept, RecordedOf, LeavingOf

(* Such steps preserve the two invariants. *)
LEMMA CountFrame ==
  ASSUME CountMatchesRecords, RecordsKept, NotCounting, UNCHANGED count
  PROVE  CountMatchesRecords'
  <1> SUFFICES ASSUME NEW k \in Kinds
               PROVE  count'[k] = Cardinality(RecordedOf(k)') + Cardinality(LeavingOf(k)')
                                  - (IF worker'.pc = "inc" /\ KindOf[worker'.t] = k THEN 1 ELSE 0)
    BY DEF CountMatchesRecords, At
  <1>1. RecordedOf(k)' = RecordedOf(k) /\ LeavingOf(k)' = LeavingOf(k)
    BY SameSets
  <1>2. count[k] = Cardinality(RecordedOf(k)) + Cardinality(LeavingOf(k))
                   - (IF worker.pc = "inc" /\ KindOf[worker.t] = k THEN 1 ELSE 0)
    BY DEF CountMatchesRecords, At
  <1> QED
    BY <1>1, <1>2 DEF NotCounting

LEMMA PlaceFrame ==
  ASSUME TypeOK, PlaceIsHeld, NoNewPlace, UNCHANGED count
  PROVE  PlaceIsHeld'
  <1> SUFFICES ASSUME NEW k \in Kinds, Limit[k] > 0
               PROVE  count[k] + (IF worker'.pc \in Counting /\ KindOf[worker'.t] = k THEN 1 ELSE 0)
                        <= Limit[k]
    BY DEF PlaceIsHeld
  <1>1. count[k] \in Int /\ Limit[k] \in Int
    BY ParamAssumption DEF TypeOK
  <1>2. count[k] + (IF worker.pc \in Counting /\ KindOf[worker.t] = k THEN 1 ELSE 0) <= Limit[k]
    BY DEF PlaceIsHeld
  <1> QED
    BY <1>1, <1>2 DEF NoNewPlace

LEMMA BothFrame ==
  ASSUME TypeOK, CountMatchesRecords, PlaceIsHeld, RecordsKept, UNCHANGED <<count, worker>>
  PROVE  CountMatchesRecords' /\ PlaceIsHeld'
  BY CountFrame, PlaceFrame DEF NotCounting, NoNewPlace

(* Steps that keep the records and only close subscribed tracks keep the sets. *)
LEMMA KeptRecords ==
  ASSUME TypeOK, SubKept,
         \/ UNCHANGED dts
         \/ \E ids \in SUBSET SubIDs, r \in BOOLEAN : dts' = CloseOf(ids, r)
  PROVE  RecordsKept
  <1>1. \A t \in Tracks : sub'[t].st = sub[t].st
    BY DEF SubKept
  <1>2. CASE UNCHANGED dts
    BY <1>1, <1>2 DEF RecordsKept
  <1>3. CASE \E ids \in SUBSET SubIDs, r \in BOOLEAN : dts' = CloseOf(ids, r)
    <2> PICK ids \in SUBSET SubIDs, r \in BOOLEAN : dts' = CloseOf(ids, r)
      BY <1>3
    <2> SUFFICES ASSUME NEW i \in SubIDs
                 PROVE  dts'[i].t = dts[i].t /\ (dts'[i].state \in Leaving <=> dts[i].state \in Leaving)
      BY <1>1 DEF RecordsKept
    <2>1. dts[i] \in DTType
      BY DEF TypeOK, PubTypeOK
    <2>2. dts'[i] = IF i \in ids /\ dts[i].state = "live"
                    THEN [dts[i] EXCEPT !.state = "closing", !.resume = r] ELSE dts[i]
      BY DEF CloseOf
    <2> QED
      BY <2>1, <2>2 DEF DTType, Leaving
  <1> QED
    BY <1>2, <1>3

(* Recording a track adds it to the records of its kind ... *)
LEMMA OneMoreRecord ==
  ASSUME NEW t \in Tracks, sub[t].st = 0, sub'[t].st # 0,
         \A u \in Tracks : u # t => sub'[u].st = sub[u].st, NEW k
  PROVE  Cardinality(RecordedOf(k)') = Cardinality(RecordedOf(k)) + (IF KindOf[t] = k THEN 1 ELSE 0)
  <1>1. RecordedOf(k)' = IF KindOf[t] = k THEN RecordedOf(k) \cup {t} ELSE RecordedOf(k)
    BY DEF RecordedOf
  <1>2. t \notin RecordedOf(k)
    BY DEF RecordedOf
  <1>3. IsFiniteSet(RecordedOf(k)) /\ Cardinality(RecordedOf(k)) \in Nat
    BY CountedFinite
  <1>4. Cardinality(RecordedOf(k) \cup {t}) =
          IF t \in RecordedOf(k) THEN Cardinality(RecordedOf(k)) ELSE Cardinality(RecordedOf(k)) + 1
    BY <1>3, FS_AddElement
  <1> QED
    BY <1>1, <1>2, <1>3, <1>4

(* ... and clearing the record takes it away. *)
LEMMA OneRecordLess ==
  ASSUME NEW t \in Tracks, sub[t].st # 0, sub'[t].st = 0,
         \A u \in Tracks : u # t => sub'[u].st = sub[u].st, NEW k
  PROVE  Cardinality(RecordedOf(k)') = Cardinality(RecordedOf(k)) - (IF KindOf[t] = k THEN 1 ELSE 0)
  <1>1. RecordedOf(k)' = IF KindOf[t] = k THEN RecordedOf(k) \ {t} ELSE RecordedOf(k)
    BY DEF RecordedOf
  <1>2. KindOf[t] = k => t \in RecordedOf(k)
    BY DEF RecordedOf
  <1>3. IsFiniteSet(RecordedOf(k)) /\ Cardinality(RecordedOf(k)) \in Nat
    BY CountedFinite
  <1>4. Cardinality(RecordedOf(k) \ {t}) =
          IF t \in RecordedOf(k) THEN Cardinality(RecordedOf(k)) - 1 ELSE Cardinality(RecordedOf(k))
    BY <1>3, FS_RemoveElement
  <1> QED
    BY <1>1, <1>2, <1>3, <1>4

(* A close callback begins to give the count back, and has given it back. *)
LEMMA OneMoreLeaving ==
  ASSUME NEW i \in SubIDs, dts[i].state \notin Leaving, dts'[i].state \in Leaving,
         dts'[i].t = dts[i].t, \A j \in SubIDs : j # i => dts'[j] = dts[j], NEW k
  PROVE  Cardinality(LeavingOf(k)') = Cardinality(LeavingOf(k)) + (IF KindOf[dts[i].t] = k THEN 1 ELSE 0)
  <1>1. LeavingOf(k)' = IF KindOf[dts[i].t] = k THEN LeavingOf(k) \cup {i} ELSE LeavingOf(k)
    BY DEF LeavingOf
  <1>2. i \notin LeavingOf(k)
    BY DEF LeavingOf
  <1>3. IsFiniteSet(LeavingOf(k)) /\ Cardinality(LeavingOf(k)) \in Nat
    BY CountedFinite
  <1>4. Cardinality(LeavingOf(k) \cup {i}) =
          IF i \in LeavingOf(k) THEN Cardinality(LeavingOf(k)) ELSE Cardinality(LeavingOf(k)) + 1
    BY <1>3, FS_AddElement
  <1> QED
    BY <1>1, <1>2, <1>3, <1>4

LEMMA OneLeavingLess ==
  ASSUME NEW i \in SubIDs, dts[i].state \in Leaving, dts'[i].state \notin Leaving,
         \A j \in SubIDs : j # i => dts'[j] = dts[j], NEW k
  PROVE  Cardinality(LeavingOf(k)') = Cardinality(LeavingOf(k)) - (IF KindOf[dts[i].t] = k THEN 1 ELSE 0)
  <1>1. LeavingOf(k)' = IF KindOf[dts[i].t] = k THEN LeavingOf(k) \ {i} ELSE LeavingOf(k)
    BY DEF LeavingOf
  <1>2. KindOf[dts[i].t] = k => i \in LeavingOf(k)
    BY DEF LeavingOf
  <1>3. IsFiniteSet(LeavingOf(k)) /\ Cardinality(LeavingOf(k)) \in Nat
    BY CountedFinite
  <1>4. Cardinality(LeavingOf(k) \ {i}) =
          IF i \in LeavingOf(k) THEN Cardinality(LeavingOf(k)) - 1 ELSE Cardinality(LeavingOf(k))
    BY <1>3, FS_RemoveElement
  <1> QED
    BY <1>1, <1>2, <1>3, <1>4

(* The two parts of the frame, one at a time. *)
LEMMA RecordedSame ==
  ASSUME \A t \in Tracks : sub'[t].st = sub[t].st, NEW k
  PROVE  RecordedOf(k)' = RecordedOf(k)
  BY DEF RecordedOf

LEMMA LeavingSame ==
  ASSUME UNCHANGED dts, NEW k
  PROVE  LeavingOf(k)' = LeavingOf(k)
  BY DEF LeavingOf

(* A close gives back exactly what it takes off the record. *)
LEMMA CloseCounts ==
  ASSUME TypeOK, Ownership, CountMatchesRecords, PlaceIsHeld, NEW i \in SubIDs, TrackClose(i)
  PROVE  CountMatchesRecords' /\ PlaceIsHeld'
  <1> DEFINE t == dts[i].t
  <1>a. dts[i] \in DTType /\ t \in Tracks /\ KindOf[t] \in Kinds
    BY ParamAssumption DEF TypeOK, PubTypeOK, DTType
  <1>b. UNCHANGED worker
    BY DEF TrackClose, UnsetSubscribedTrack, ClearNotifiers, DecrementCount, UnmarkSubscribedTo,
           FinishTrackClose, smVars
  <1>c. i # 0
    BY DEF SubIDs
  <1>d. \A k \in Kinds : count[k] \in Int /\ Limit[k] \in Int
    BY ParamAssumption DEF TypeOK
  <1>1. CASE UnsetSubscribedTrack(i)
    <2>1. UNCHANGED count
      BY <1>1 DEF UnsetSubscribedTrack, accVars
    <2>2. CASE sub[t].st = 0
      <3>1. RecordsKept
        BY <1>1, <1>a, <2>2, UnsetClears DEF RecordsKept, Leaving
      <3> QED
        BY <1>b, <2>1, <3>1, BothFrame
    <2>3. CASE sub[t].st # 0
      <3>1. \A u \in Tracks : u # t => sub'[u].st = sub[u].st
        BY <1>1, UnsetClears
      <3>2. sub'[t].st = 0
        BY <1>1, <1>a, UnsetClears
      <3>3. /\ dts[i].state \notin Leaving /\ dts'[i].state \in Leaving /\ dts'[i].t = t
            /\ \A j \in SubIDs : j # i => dts'[j] = dts[j]
        BY <1>1, <2>3, UnsetClears DEF Leaving
      <3>4. ASSUME NEW k \in Kinds
            PROVE  count'[k] = Cardinality(RecordedOf(k)') + Cardinality(LeavingOf(k)')
                               - (IF worker'.pc = "inc" /\ KindOf[worker'.t] = k THEN 1 ELSE 0)
        <4>1. Cardinality(RecordedOf(k)') = Cardinality(RecordedOf(k)) - (IF KindOf[t] = k THEN 1 ELSE 0)
          BY <1>a, <2>3, <3>1, <3>2, OneRecordLess
        <4>2. Cardinality(LeavingOf(k)') = Cardinality(LeavingOf(k)) + (IF KindOf[t] = k THEN 1 ELSE 0)
          BY <3>3, OneMoreLeaving
        <4>3. count[k] = Cardinality(RecordedOf(k)) + Cardinality(LeavingOf(k))
                         - (IF worker.pc = "inc" /\ KindOf[worker.t] = k THEN 1 ELSE 0)
          BY DEF CountMatchesRecords, At
        <4> HIDE DEF t
        <4> QED
          BY <1>b, <2>1, <4>1, <4>2, <4>3, CountedFinite
      <3>5. CountMatchesRecords'
        BY <3>4 DEF CountMatchesRecords, At
      <3> QED
        BY <1>b, <2>1, <3>5, PlaceFrame DEF NoNewPlace
    <2> QED
      BY <2>2, <2>3
  <1>2. CASE DecrementCount(i)
    <2>1. /\ dts[i].state \in Leaving
          /\ \A j \in SubIDs : j # i => dts'[j] = dts[j]
      BY <1>2 DEF DecrementCount, Leaving, TypeOK, PubTypeOK
    <2>2. dts'[i].state \notin Leaving
      <3> DEFINE k == KindOf[t]
                 b == Limit[k] > 0 /\ count[k] = Limit[k]
      <3>1. dts' = [dts EXCEPT ![i] = [dts[i] EXCEPT !.state = "unmark", !.relieve = b]]
        BY <1>2, <1>a DEF DecrementCount, TypeOK, PubTypeOK, DTType
      <3> HIDE DEF b
      <3> QED
        BY <1>a, <3>1 DEF TypeOK, PubTypeOK, DTType, Leaving
    <2>3. \A k \in Kinds : count'[k] = count[k] - (IF KindOf[t] = k THEN 1 ELSE 0)
      BY <1>2, <1>a, <1>d DEF DecrementCount, TypeOK
    <2>4. \A u \in Tracks : sub'[u].st = sub[u].st
      BY <1>2 DEF DecrementCount, subVars
    <2>5. ASSUME NEW k \in Kinds
          PROVE  count'[k] = Cardinality(RecordedOf(k)') + Cardinality(LeavingOf(k)')
                             - (IF worker'.pc = "inc" /\ KindOf[worker'.t] = k THEN 1 ELSE 0)
      <3>1. RecordedOf(k)' = RecordedOf(k)
        BY <2>4, RecordedSame
      <3>2. Cardinality(LeavingOf(k)') = Cardinality(LeavingOf(k)) - (IF KindOf[t] = k THEN 1 ELSE 0)
        BY <2>1, <2>2, OneLeavingLess
      <3>3. count[k] = Cardinality(RecordedOf(k)) + Cardinality(LeavingOf(k))
                       - (IF worker.pc = "inc" /\ KindOf[worker.t] = k THEN 1 ELSE 0)
        BY DEF CountMatchesRecords, At
      <3> HIDE DEF t
      <3> QED
        BY <1>b, <2>3, <3>1, <3>2, <3>3, CountedFinite
    <2>6. PlaceIsHeld'
      <3> SUFFICES ASSUME NEW k \in Kinds, Limit[k] > 0
                   PROVE  count'[k] + (IF worker'.pc \in Counting /\ KindOf[worker'.t] = k THEN 1 ELSE 0)
                            <= Limit[k]
        BY DEF PlaceIsHeld
      <3>1. count[k] + (IF worker.pc \in Counting /\ KindOf[worker.t] = k THEN 1 ELSE 0) <= Limit[k]
        BY DEF PlaceIsHeld
      <3> HIDE DEF t
      <3> QED
        BY <1>b, <1>d, <2>3, <3>1
    <2> QED
      BY <2>5, <2>6 DEF CountMatchesRecords, At
  <1>3. CASE ~UnsetSubscribedTrack(i) /\ ~DecrementCount(i)
    <2>1. SubKept
      BY <1>3, CloseKeepsRecords
    <2>2. UNCHANGED count
      BY <1>3 DEF TrackClose, ClearNotifiers, UnmarkSubscribedTo, FinishTrackClose, smVars, accVars
    <2>3. \A j \in SubIDs : j # i => dts'[j] = dts[j]
      BY <1>3 DEF TrackClose, OnDownTrackClose, DefaultOnClose, ClearNotifiers, CloseStep,
                  UnmarkSubscribedTo, FinishTrackClose, TypeOK, PubTypeOK
    <2>4. /\ dts'[i].state \in Leaving <=> dts[i].state \in Leaving
          /\ dts'[i].t = t
      <3>1. ClosedDT(i).t = t /\ ClosedDT(i).state = "closed"
        BY NoDTType DEF ClosedDT, DTType
      <3>2. CASE dts' = [dts EXCEPT ![i] = ClosedDT(i)] /\ dts[i].state \in {"gone", "finish"}
        BY <1>a, <3>1, <3>2 DEF TypeOK, PubTypeOK, Leaving
      <3>3. CASE OnDownTrackClose(i)
        BY <1>a, <3>3 DEF OnDownTrackClose, TypeOK, PubTypeOK, DTType, Leaving
      <3>4. CASE ClearNotifiers(i) \/ UnmarkSubscribedTo(i)
        BY <1>a, <3>4 DEF ClearNotifiers, UnmarkSubscribedTo, CloseStep, TypeOK, PubTypeOK, DTType, Leaving
      <3> QED
        BY <1>3, <3>2, <3>3, <3>4 DEF TrackClose, DefaultOnClose, FinishTrackClose
    <2>5. RecordsKept
      BY <2>1, <2>3, <2>4 DEF SubKept, RecordsKept
    <2> QED
      BY <1>b, <2>2, <2>5, BothFrame
  <1> QED
    BY <1>1, <1>2, <1>3

(* The worker's steps before it subscribes leave the records alone. *)
LEMMA ReconcileCounts ==
  ASSUME TypeOK, CountMatchesRecords, PlaceIsHeld,
         Tick \/ Dequeue \/ NextEntry \/ ReconcileSubscription \/ Cleanup \/ WorkerExit
  PROVE  CountMatchesRecords' /\ PlaceIsHeld'
  <1>a. worker \in WorkerType /\ worker.t \in Tracks
    BY DEF TypeOK, WorkerType
  <1>b. UNCHANGED count
    BY DEF Tick, Dequeue, NextEntry, ReconcileSubscription, Cleanup, WorkerExit, accVars
  <1>1. worker.pc # "inc" /\ worker'.pc \notin Counting
    <2>1. CASE Tick
      BY <1>a, <2>1 DEF Tick, At, WorkerType, Counting
    <2>2. CASE Dequeue
      <3>1. PICK todo : worker' = [worker EXCEPT !.pc = "next", !.tail = TRUE, !.todo = todo]
        BY <2>2 DEF Dequeue
      <3> QED
        BY <1>a, <2>2, <3>1 DEF Dequeue, At, WorkerType, Counting
    <2>3. CASE NextEntry
      <3>1. CASE worker' = Idle
        BY <2>3, <3>1 DEF NextEntry, At, Idle, Counting
      <3>2. CASE \/ \E t \in worker.todo :
                      worker' = [worker EXCEPT !.pc = "reconcile", !.t = t, !.todo = @ \ {t}]
                 \/ worker' = [worker EXCEPT !.todo = NeedsReconcile, !.tail = FALSE]
        BY <1>a, <2>3, <3>2 DEF NextEntry, At, WorkerType, Counting
      <3> QED
        BY <2>3, <3>1, <3>2 DEF NextEntry
    <2>4. CASE ReconcileSubscription
      BY <2>4, GotoKept DEF ReconcileSubscription, WorkerPCs, At, Counting
    <2>5. CASE Cleanup \/ WorkerExit
      BY <2>5, GotoKept DEF Cleanup, WorkerExit, WorkerPCs, At, Counting
    <2> QED
      BY <2>1, <2>2, <2>3, <2>4, <2>5
  <1>2. RecordsKept
    <2>1. CASE UNCHANGED <<sub, dts>>
      BY <2>1 DEF RecordsKept
    <2>2. CASE Cleanup /\ NeedsCleanup(sub[worker.t])
      <3>1. \A u \in Tracks : sub'[u].st = sub[u].st
        <4>1. \A u \in Tracks : sub'[u] = IF u = worker.t THEN NoSub ELSE sub[u]
          BY <2>2 DEF Cleanup, TypeOK
        <4> QED
          BY <2>2, <4>1 DEF NeedsCleanup, NoSub, NewSub
      <3>2. ASSUME NEW i \in SubIDs
            PROVE  dts'[i].t = dts[i].t /\ dts'[i].state = dts[i].state
        <4>1. dts'[i] = IF dts[i].t = worker.t THEN [dts[i] EXCEPT !.entry = FALSE] ELSE dts[i]
          BY <2>2 DEF Cleanup
        <4>2. dts[i] \in DTType
          BY DEF TypeOK, PubTypeOK
        <4> QED
          BY <4>1, <4>2 DEF DTType
      <3> QED
        BY <3>1, <3>2 DEF RecordsKept
    <2> QED
      BY <2>1, <2>2 DEF Tick, Dequeue, NextEntry, ReconcileSubscription, Cleanup, WorkerExit, subVars, dtVars
  <1>3. NotCounting /\ NoNewPlace
    BY <1>1 DEF NotCounting, NoNewPlace, Counting
  <1> QED
    BY <1>b, <1>2, <1>3, CountFrame, PlaceFrame

(* The worker goes on only where the kind has room, and holds that place      *)
(* until the record is counted.                                               *)
LEMMA ResolveCounts ==
  ASSUME TypeOK, CountMatchesRecords, PlaceIsHeld, Resolve
  PROVE  CountMatchesRecords' /\ PlaceIsHeld'
  <1>1. UNCHANGED <<dts, count>>
    BY DEF Resolve, dtVars, accVars
  <1>2. SubKept /\ worker.pc = "subscribe"
        /\ (worker'.pc = "next" \/ (worker'.pc = "add" /\ worker'.t = worker.t))
    BY ResolveKept
  <1>3. RecordsKept
    BY <1>1, <1>2, KeptRecords
  <1>4. CountMatchesRecords'
    BY <1>1, <1>2, <1>3, CountFrame DEF NotCounting
  <1>5. PlaceIsHeld'
    <2>1. CASE worker'.pc = "next"
      BY <1>1, <2>1, PlaceFrame DEF NoNewPlace, Counting
    <2>2. CASE worker'.pc = "add" /\ worker'.t = worker.t
      <3>1. HasCapacity(KindOf[worker.t])
        <4>1. Goto("next") \/ HasCapacity(KindOf[worker.t])
          BY DEF Resolve
        <4>2. ~Goto("next")
          BY <2>2, GotoKept DEF WorkerPCs
        <4> QED
          BY <4>1, <4>2
      <3> SUFFICES ASSUME NEW k \in Kinds, Limit[k] > 0
                   PROVE  count[k] + (IF worker'.pc \in Counting /\ KindOf[worker'.t] = k THEN 1 ELSE 0)
                            <= Limit[k]
        BY <1>1 DEF PlaceIsHeld
      <3>2. count[k] \in Int /\ Limit[k] \in Int
        BY ParamAssumption DEF TypeOK
      <3>3. count[k] <= Limit[k]
        BY <3>2 DEF PlaceIsHeld
      <3> QED
        BY <2>2, <3>1, <3>2, <3>3 DEF HasCapacity
    <2> QED
      BY <1>2, <2>1, <2>2
  <1> QED
    BY <1>4, <1>5

(* The worker's steps from there on: it records one track, and counts it. *)
LEMMA SubscribeCounts ==
  ASSUME TypeOK, Ownership, CountMatchesRecords, PlaceIsHeld,
         \/ AddSubscriber \/ InsertSubscriber \/ RecheckOpen \/ Install
         \/ SetSubscribedTrack \/ IncrementCount \/ RecheckCanSubscribe \/ MarkSubscribedTo
  PROVE  CountMatchesRecords' /\ PlaceIsHeld'
  <1>a. worker \in WorkerType /\ worker.t \in Tracks /\ sub[worker.t] \in SubType
        /\ KindOf[worker.t] \in Kinds
    BY ParamAssumption DEF TypeOK, WorkerType
  <1>b. \A k \in Kinds : count[k] \in Int /\ Limit[k] \in Int
    BY ParamAssumption DEF TypeOK
  <1>1. CASE AddSubscriber
    <2>1. UNCHANGED <<dts, count>> /\ worker.pc = "add"
      BY <1>1 DEF AddSubscriber, At, dtVars, accVars
    <2>2. SubKept /\ (worker'.pc \in {"next", "mark"} \/ (worker'.pc = "insert" /\ worker'.t = worker.t))
      <3>1. CASE AttemptFailed
        BY <3>1, AttemptFailedKept
      <3>2. CASE (Goto("mark") \/ Goto("insert")) /\ UNCHANGED sub
        BY <3>2, GotoKept, SubSame DEF WorkerPCs
      <3> QED
        BY <1>1, <3>1, <3>2 DEF AddSubscriber, subVars
    <2> QED
      BY <2>1, <2>2, KeptRecords, CountFrame, PlaceFrame DEF NotCounting, NoNewPlace, Counting
  <1>2. CASE InsertSubscriber
    <2>1. worker.pc = "insert" /\ UNCHANGED count
      BY <1>2 DEF InsertSubscriber, At, accVars
    <2>2. CASE AttemptFailed /\ UNCHANGED dts
      BY <2>1, <2>2, AttemptFailedKept, KeptRecords, CountFrame, PlaceFrame
         DEF NotCounting, NoNewPlace, Counting
    <2>3. CASE /\ nst < MaxSubs
               /\ dts' = [dts EXCEPT ![nst + 1] = [NoDT EXCEPT !.t = worker.t, !.g = worker.g,
                                                               !.state = "live"]]
               /\ worker' = [worker EXCEPT !.pc = "post", !.i = nst + 1]
               /\ UNCHANGED sub
      <3> DEFINE n == nst + 1
      <3>1. n \in SubIDs /\ dts[n].state = "none"
        BY <2>3, BoundsAssumption DEF SubIDs, TypeOK, PubTypeOK, Ownership
      <3>2. dts'[n].state = "live" /\ \A j \in SubIDs : j # n => dts'[j] = dts[j]
        BY <2>3, <3>1, NoDTType DEF NoDT, DTType, TypeOK, PubTypeOK
      <3>3. worker'.pc = "post" /\ worker'.t = worker.t
        BY <1>a, <2>3 DEF WorkerType
      <3> HIDE DEF n
      <3>4. RecordsKept
        BY <2>3, <3>1, <3>2 DEF RecordsKept, Leaving
      <3> QED
        BY <2>1, <3>3, <3>4, CountFrame, PlaceFrame DEF NotCounting, NoNewPlace, Counting
    <2> QED
      BY <1>2, <2>2, <2>3 DEF InsertSubscriber, subVars
  <1>3. CASE RecheckOpen \/ RecheckCanSubscribe
    <2>1. worker.pc \in {"post", "recheck"} /\ UNCHANGED count
      BY <1>3 DEF RecheckOpen, RecheckCanSubscribe, At, accVars
    <2>2. {worker.i} \in SUBSET SubIDs
      BY <2>1, WorkerHoldsTrack DEF Adding
    <2>3. CASE AttemptFailed /\ \E ids \in SUBSET SubIDs, r \in BOOLEAN : dts' = CloseOf(ids, r)
      BY <2>1, <2>3, AttemptFailedKept, KeptRecords, CountFrame, PlaceFrame
         DEF NotCounting, NoNewPlace, Counting
    <2>4. CASE /\ UNCHANGED <<dts, sub>>
               /\ Goto("mark") \/ (worker.pc = "post" /\ Goto("install"))
      <3>1. worker'.pc = "mark" \/ (worker.pc = "post" /\ worker'.pc = "install" /\ worker'.t = worker.t)
        BY <2>4, GotoKept DEF WorkerPCs
      <3> QED
        BY <2>1, <2>4, <3>1, SubSame, KeptRecords, CountFrame, PlaceFrame
           DEF NotCounting, NoNewPlace, Counting
    <2>5. CASE /\ AttemptFailed /\ dts[worker.i].state = "live"
               /\ \A j \in SubIDs : j # worker.i => dts'[j] = dts[j]
               /\ dts'[worker.i].t = dts[worker.i].t /\ dts'[worker.i].state = "closed"
      <3>1. RecordsKept
        BY <2>5, AttemptFailedKept DEF RecordsKept, SubKept, Leaving
      <3> QED
        BY <2>1, <2>5, <3>1, AttemptFailedKept, CountFrame, PlaceFrame
           DEF NotCounting, NoNewPlace, Counting
    <2>6. CASE RecheckOpen
      BY <2>2, <2>3, <2>4, <2>5, <2>6, RecheckOpenDoes DEF subVars
    <2>7. CASE RecheckCanSubscribe
      BY <2>2, <2>3, <2>4, <2>7 DEF RecheckCanSubscribe, subVars, At
    <2> QED
      BY <1>3, <2>6, <2>7
  <1>4. CASE Install
    <2> DEFINE i == worker.i
    <2>1. worker.pc = "install" /\ worker'.pc = "record" /\ worker'.t = worker.t /\ UNCHANGED <<count, sub>>
      BY <1>4, GotoKept DEF Install, At, WorkerPCs, subVars, accVars
    <2>2. i \in SubIDs
      BY <2>1, WorkerHoldsTrack DEF Adding
    <2>3. /\ \A j \in SubIDs : j # i => dts'[j] = dts[j]
          /\ dts'[i].t = dts[i].t /\ dts'[i].state = dts[i].state
      BY <1>4, <2>2 DEF Install, TypeOK, PubTypeOK, DTType
    <2> HIDE DEF i
    <2>4. RecordsKept
      BY <2>1, <2>2, <2>3 DEF RecordsKept
    <2> QED
      BY <2>1, <2>4, CountFrame, PlaceFrame DEF NotCounting, NoNewPlace, Counting
  <1>5. CASE SetSubscribedTrack
    <2> DEFINE t == worker.t
    <2>1. worker.pc = "record" /\ worker'.pc = "inc" /\ worker'.t = t /\ UNCHANGED <<count, dts>>
      BY <1>5, GotoKept DEF SetSubscribedTrack, At, WorkerPCs, dtVars, accVars
    <2>2. sub[t].st = 0 /\ worker.i \in SubIDs
      BY <2>1, WorkerHoldsTrack DEF Ownership, Adding
    <2>3. /\ \A u \in Tracks : u # t => sub'[u].st = sub[u].st
          /\ sub'[t].st # 0
      BY <1>5, <1>a, <2>2 DEF SetSubscribedTrack, TypeOK, SubType, SubIDs
    <2>4. ASSUME NEW k \in Kinds
          PROVE  count'[k] = Cardinality(RecordedOf(k)') + Cardinality(LeavingOf(k)')
                             - (IF worker'.pc = "inc" /\ KindOf[worker'.t] = k THEN 1 ELSE 0)
      <3>1. Cardinality(RecordedOf(k)') = Cardinality(RecordedOf(k)) + (IF KindOf[t] = k THEN 1 ELSE 0)
        BY <1>a, <2>2, <2>3, OneMoreRecord
      <3>2. LeavingOf(k)' = LeavingOf(k)
        BY <2>1, LeavingSame
      <3>3. count[k] = Cardinality(RecordedOf(k)) + Cardinality(LeavingOf(k))
        BY <1>b, <2>1, CountedFinite DEF CountMatchesRecords, At
      <3>4. Cardinality(RecordedOf(k)) \in Nat /\ Cardinality(LeavingOf(k)) \in Nat
        BY CountedFinite
      <3> QED
        BY <2>1, <3>1, <3>2, <3>3, <3>4
    <2>5. CountMatchesRecords'
      BY <2>4 DEF CountMatchesRecords, At
    <2> QED
      BY <2>1, <2>5, PlaceFrame DEF NoNewPlace, Counting
  <1>6. CASE IncrementCount
    <2>1. worker.pc = "inc" /\ worker'.pc = "recheck" /\ UNCHANGED <<dts, sub>>
      BY <1>6, GotoKept DEF IncrementCount, At, WorkerPCs, dtVars, subVars
    <2>2. \A k \in Kinds : count'[k] = count[k] + (IF KindOf[worker.t] = k THEN 1 ELSE 0)
      BY <1>6, <1>a, <1>b DEF IncrementCount, TypeOK
    <2>3. ASSUME NEW k \in Kinds
          PROVE  count'[k] = Cardinality(RecordedOf(k)') + Cardinality(LeavingOf(k)')
                             - (IF worker'.pc = "inc" /\ KindOf[worker'.t] = k THEN 1 ELSE 0)
      <3>1. RecordedOf(k)' = RecordedOf(k)
        BY <2>1, RecordedSame
      <3>2. LeavingOf(k)' = LeavingOf(k)
        BY <2>1, LeavingSame
      <3>3. count[k] = Cardinality(RecordedOf(k)) + Cardinality(LeavingOf(k))
                       - (IF KindOf[worker.t] = k THEN 1 ELSE 0)
        BY <2>1 DEF CountMatchesRecords, At
      <3>4. Cardinality(RecordedOf(k)) \in Nat /\ Cardinality(LeavingOf(k)) \in Nat
        BY CountedFinite
      <3> QED
        BY <2>1, <2>2, <3>1, <3>2, <3>3, <3>4
    <2>4. PlaceIsHeld'
      <3> SUFFICES ASSUME NEW k \in Kinds, Limit[k] > 0
                   PROVE  count'[k] + (IF worker'.pc \in Counting /\ KindOf[worker'.t] = k THEN 1 ELSE 0)
                            <= Limit[k]
        BY DEF PlaceIsHeld
      <3>1. count[k] + (IF KindOf[worker.t] = k THEN 1 ELSE 0) <= Limit[k]
        BY <2>1 DEF PlaceIsHeld, Counting
      <3> QED
        BY <1>b, <2>1, <2>2, <3>1 DEF Counting
    <2> QED
      BY <2>3, <2>4 DEF CountMatchesRecords, At
  <1>7. CASE MarkSubscribedTo
    <2>1. worker'.pc = "next" /\ worker.pc = "mark" /\ UNCHANGED <<dts, count>>
      BY <1>7, GotoKept DEF MarkSubscribedTo, At, WorkerPCs, dtVars
    <2>2. \A u \in Tracks : sub'[u].st = sub[u].st
      BY <1>7, <1>a DEF MarkSubscribedTo, TypeOK, SubType
    <2>3. RecordsKept
      BY <2>1, <2>2 DEF RecordsKept
    <2> QED
      BY <2>1, <2>3, CountFrame, PlaceFrame DEF NotCounting, NoNewPlace, Counting
  <1> QED
    BY <1>1, <1>2, <1>3, <1>4, <1>5, <1>6, <1>7

(* Every step preserves both. *)
LEMMA CountsStep ==
  ASSUME TypeOK, TypeOK', Ownership, CountMatchesRecords, PlaceIsHeld, [Next]_vars
  PROVE  CountMatchesRecords' /\ PlaceIsHeld'
  <1>1. CASE Worker \/ WorkerExit
    BY <1>1, ReconcileCounts, ResolveCounts, SubscribeCounts DEF Worker
  <1>2. CASE \E i \in SubIDs : TrackClose(i)
    BY <1>2, CloseCounts
  <1>3. CASE \E t \in Tracks : (Publisher(t) /\ UNCHANGED smVars) \/ ChangePermission(t)
    <2> PICK t \in Tracks : (Publisher(t) /\ UNCHANGED smVars) \/ ChangePermission(t)
      BY <1>3
    <2>1. UNCHANGED <<sub, count, worker>>
      BY PublisherCloses
    <2>2. UNCHANGED dts \/ \E ids \in SUBSET SubIDs, r \in BOOLEAN : dts' = CloseOf(ids, r)
      BY PublisherCloses
    <2> QED
      BY <2>1, <2>2, SubSame, KeptRecords, BothFrame
  <1>4. CASE ApplyGrant \/ ApplyRevoke \/ SetPermission \/ ParticipantClosed \/ StartClose
    <2>1. UNCHANGED <<sub, count, worker>>
      BY <1>4 DEF ApplyGrant, ApplyRevoke, SetPermission, ParticipantClosed, StartClose, subVars, accVars
    <2>2. UNCHANGED dts \/ \E ids \in SUBSET SubIDs, r \in BOOLEAN : dts' = CloseOf(ids, r)
      <3>1. Recorded \in SUBSET SubIDs
        BY DEF Recorded
      <3> QED
        BY <1>4, <3>1 DEF ApplyGrant, ApplyRevoke, SetPermission, ParticipantClosed, StartClose, dtVars
    <2> QED
      BY <2>1, <2>2, SubSame, KeptRecords, BothFrame
  <1>5. CASE \E r \in BOOLEAN : FinishClose(r)
    <2> PICK r \in BOOLEAN : FinishClose(r)
      BY <1>5
    <2>1. UNCHANGED <<count, worker>> /\ dts' = CloseOf(Recorded, r)
      BY DEF FinishClose, accVars
    <2>2. Recorded \in SUBSET SubIDs
      BY DEF Recorded
    <2>3. RecordsKept
      BY <2>1, <2>2, FinishCloseKept, KeptRecords
    <2> QED
      BY <2>1, <2>3, BothFrame
  <1>6. CASE \/ \E t \in Tracks : \/ SubscribeToTrack(t) \/ ClientUnsubscribe(t)
                                  \/ UpdateSubscribedTrackSettings(t)
             \/ ClearAllSubscriptions
    <2>1. UNCHANGED <<dts, count, worker>>
      BY <1>6 DEF SubscribeToTrack, ClientUnsubscribe, UpdateSubscribedTrackSettings,
                  ClearAllSubscriptions, dtVars, accVars
    <2>2. SubKept
      BY <1>6, ClientOwnership, BoundsAssumption
    <2> QED
      BY <2>1, <2>2, KeptRecords, BothFrame
  <1>7. ASSUME NEW t \in Tracks, NEW g \in Gens, NEW i \in SubIDs, NEW ok \in BOOLEAN, NEW o,
               \/ RemoveSubscriber(t, g) \/ DelayedReconcile(t) \/ RemoveObserver(o)
               \/ TrackChanged(t) \/ TrackRemoved(t) \/ HandleSourceTrackRemoved(t)
               \/ Bound(i, ok) \/ BindCallback(i, ok) \/ Age(t)
        PROVE  CountMatchesRecords' /\ PlaceIsHeld'
    <2>1. UNCHANGED <<count, worker>>
      BY <1>7 DEF RemoveSubscriber, DelayedReconcile, RemoveObserver, TrackChanged, TrackRemoved,
                  HandleSourceTrackRemoved, Bound, BindCallback, Age, accVars
    <2>2. SubKept
      BY <1>7, CallbackOwnership
    <2>3. CASE Bound(i, ok)
      <3>1. dts[i] \in DTType
        BY DEF TypeOK, PubTypeOK
      <3>2. RecordsKept
        BY <2>2, <2>3, <3>1 DEF Bound, BindDownTrack, RecordsKept, SubKept, TypeOK, PubTypeOK, DTType
      <3> QED
        BY <2>1, <3>2, BothFrame
    <2>4. CASE ~Bound(i, ok)
      <3>1. UNCHANGED dts \/ \E ids \in SUBSET SubIDs, r \in BOOLEAN : dts' = CloseOf(ids, r)
        <4>1. InMap(t, g) \in SUBSET SubIDs
          BY DEF InMap
        <4> QED
          BY <1>7, <2>4, <4>1 DEF RemoveSubscriber, DelayedReconcile, RemoveObserver, TrackChanged,
                            TrackRemoved, HandleSourceTrackRemoved, BindCallback, Age, dtVars
      <3> QED
        BY <2>1, <2>2, <3>1, KeptRecords, BothFrame
    <2> QED
      BY <2>3, <2>4
  <1>8. CASE Goroutine
    <2>1. \A b \in binds : b[1] \in SubIDs /\ b[2] \in BOOLEAN
      BY DEF TypeOK
    <2>2. CASE \E b \in binds : BindCallback(b[1], b[2])
      BY <1>7, <2>1, <2>2, SomeIDs
    <2> QED
      BY <1>2, <1>4, <1>7, <1>8, <2>2, SomeIDs DEF Goroutine
  <1>9. CASE Environment
    BY <1>3, <1>4, <1>6, <1>7, <1>9, SomeIDs DEF Environment
  <1>10. CASE UNCHANGED vars
    BY <1>10, SubSame, KeptRecords, BothFrame DEF vars, sysVars, smVars, subVars, accVars, dtVars
  <1> QED
    BY <1>1, <1>3, <1>5, <1>8, <1>9, <1>10 DEF Next, Step

(* Nothing is counted in the beginning. *)
LEMMA CountsInit == Init => CountMatchesRecords /\ PlaceIsHeld
  <1> SUFFICES ASSUME Init PROVE CountMatchesRecords /\ PlaceIsHeld
    OBVIOUS
  <1>1. worker.pc = "idle" /\ \A i \in SubIDs : dts[i].state = "none"
    BY DEF Init, PubInit, Idle, NoDT
  <1>2. \A t \in Tracks : sub[t].st = 0
    BY DEF Init, NoSub, NewSub
  <1>3. \A k \in Kinds : RecordedOf(k) = {} /\ LeavingOf(k) = {} /\ count[k] = 0 /\ Limit[k] \in Nat
    BY <1>1, <1>2, ParamAssumption DEF RecordedOf, LeavingOf, Leaving, Init
  <1>4. Cardinality({}) = 0
    BY FS_EmptySet
  <1>5. CountMatchesRecords
    <2> SUFFICES ASSUME NEW k \in Kinds
                 PROVE  count[k] = Cardinality(RecordedOf(k)) + Cardinality(LeavingOf(k)) - 0
      BY <1>1 DEF CountMatchesRecords, At
    <2>1. RecordedOf(k) = {} /\ LeavingOf(k) = {} /\ count[k] = 0
      BY <1>3
    <2> QED
      BY <1>4, <2>1
  <1>6. PlaceIsHeld
    BY <1>1, <1>3 DEF PlaceIsHeld, Counting
  <1> QED
    BY <1>5, <1>6

-----------------------------------------------------------------------------
(* The theorems.                                                           *)

(* Whatever clients, publishers, timers and goroutines do, and however they   *)
(* interleave, the types hold (the reconcile channel never exceeds its        *)
(* capacity among them) and every subscribed track is held by someone.        *)
THEOREM OwnershipHolds == Spec => [](TypeOK /\ Ownership)
  <1>1. TypeOK /\ Ownership /\ [Next]_vars => TypeOK' /\ Ownership'
    BY WorkerHoldsTrack, TypeStep, OwnershipStep
  <1> QED
    BY <1>1, InitOK, PTL DEF Spec

(* The type invariant of the manager and of the tracks it subscribes to. *)
THEOREM TypeCorrect == Spec => []TypeOK
  BY OwnershipHolds, PTL

(* A DownTrack that forwards media is recorded or in the worker's hands, so   *)
(* that an unsubscribe, a revoke or Close can still reach it.                 *)
THEOREM LiveTracksAreOwned == Spec => []LiveIsOwned
  <1>1. TypeOK /\ Ownership => LiveIsOwned
    <2> SUFFICES ASSUME TypeOK, Ownership, NEW i \in SubIDs, dts[i].state = "live"
                 PROVE  \/ sub[dts[i].t].present /\ sub[dts[i].t].st = i
                        \/ worker.pc \in {"post", "install", "record"} /\ worker.i = i
      BY DEF LiveIsOwned
    <2>1. dts[i].cb \in {"default", "manager"}
      BY DEF TypeOK, PubTypeOK, DTType
    <2> QED
      BY <2>1 DEF Ownership
  <1> QED
    BY <1>1, OwnershipHolds, PTL

(* After SetPermission has taken canSubscribe away, nothing is forwarded once *)
(* the worker has passed addSubscriber's second check of the grant.           *)
THEOREM RevokeIsComplete == Spec => []RevokeComplete
  <1>1. TypeOK /\ Ownership => RevokeComplete
    BY DEF Ownership, RevokeComplete, Adding
  <1> QED
    BY <1>1, OwnershipHolds, PTL

(* handleSubscribedTrackClose never clears the record of another track. *)
THEOREM CloseCallbackOwnsRecord == Spec => []ClosesItsOwnRecord
  <1>1. TypeOK /\ Ownership => ClosesItsOwnRecord
    BY DEF Ownership, ClosesItsOwnRecord, At
  <1> QED
    BY <1>1, OwnershipHolds, PTL

(* Once SubscriptionManager.Close has returned nothing is forwarded any more. *)
THEOREM ClosedMeansSilent == Spec => []NothingLiveAfterClose
  <1>1. TypeOK /\ Ownership => NothingLiveAfterClose
    BY DEF Ownership, NothingLiveAfterClose
  <1> QED
    BY <1>1, OwnershipHolds, PTL

(* The counters agree with the records, and the place for the track that is   *)
(* being subscribed is never given to another one.                            *)
THEOREM CountsHold == Spec => [](CountMatchesRecords /\ PlaceIsHeld)
  <1>1. /\ TypeOK /\ TypeOK' /\ Ownership /\ CountMatchesRecords /\ PlaceIsHeld /\ [Next]_vars
        => CountMatchesRecords' /\ PlaceIsHeld'
    BY CountsStep
  <1> QED
    BY <1>1, CountsInit, OwnershipHolds, PTL DEF Spec

(* Whatever closes and subscribes overlap, nothing is counted twice and       *)
(* everything counted is given back once: subscribedVideoCount and            *)
(* subscribedAudioCount do not drift.                                         *)
THEOREM CountsDoNotDrift == Spec => []CountMatchesRecords
  BY CountsHold, PTL

(* The limit holds although hasCapacityForSubscription is checked many steps  *)
(* before the track is counted.                                               *)
THEOREM LimitIsKept == Spec => []WithinLimit
  <1>1. TypeOK /\ CountMatchesRecords /\ PlaceIsHeld => WithinLimit
    <2> SUFFICES ASSUME TypeOK, CountMatchesRecords, PlaceIsHeld, NEW k \in Kinds, Limit[k] > 0
                 PROVE  Cardinality(RecordedOf(k)) <= Limit[k]
      BY DEF WithinLimit
    <2>1. count[k] \in Int /\ Limit[k] \in Int
      BY ParamAssumption DEF TypeOK
    <2>2. Cardinality(RecordedOf(k)) \in Nat /\ Cardinality(LeavingOf(k)) \in Nat
      BY CountedFinite
    <2>3. count[k] = Cardinality(RecordedOf(k)) + Cardinality(LeavingOf(k))
                     - (IF worker.pc = "inc" /\ KindOf[worker.t] = k THEN 1 ELSE 0)
      BY DEF CountMatchesRecords, At
    <2>4. count[k] + (IF worker.pc \in Counting /\ KindOf[worker.t] = k THEN 1 ELSE 0) <= Limit[k]
      BY DEF PlaceIsHeld
    <2> QED
      BY <2>1, <2>2, <2>3, <2>4 DEF Counting
  <1> QED
    BY <1>1, CountsHold, OwnershipHolds, PTL

-----------------------------------------------------------------------------
(* RTP senders: the sender of an earlier subscription does not stay.        *)

(* RemoveParticipant closes the participant it removes, and not to resume.    *)
(* Only a migration that closes it between the two could make it resume.      *)
LeavesForGood == ~({"leave", "resume"} \subseteq inputs)

(* OnDownTrackClose has run, the rest of the callback has not. *)
Settling == {"gone", "notifiers", "dec", "unmark", "finish"}

(* A track that is being closed to resume and has not been cached yet, and    *)
(* one that may still be closed so: its transceiver will be cached.           *)
Parting(i) == dts[i].state = "closing" /\ dts[i].resume
Waiting(i) == dts[i].state = "live" \/ Parting(i)

(* The track is recorded, or the worker is about to do so. *)
OnRecord(i) == sub[dts[i].t].st = i \/ (worker.pc = "record" /\ worker.i = i)
InHand(i)   == OnRecord(i) \/ (worker.pc \in {"post", "install"} /\ worker.i = i)

(* A sender is that of a subscribed track. If the track ended to resume, the  *)
(* transceiver is in the cache; a track that ended otherwise has no sender,   *)
(* unless its callback came before the record.                                *)
Attached ==
  \A t \in Tracks, i \in SubIDs : <<t, i>> \in senders =>
      /\ dts[i].t = t /\ dts[i].state # "none"
      /\ dts[i].state \in Settling /\ dts[i].resume => cached[t] = i
      /\ dts[i].state = "closed" => cached[t] = i \/ OnRecord(i)

(* The cache has room for one transceiver per track, and one track at most    *)
(* will need it: no other sender has to stay in it by then.                   *)
OneWaits ==
  \A i, j \in SubIDs : i # j /\ dts[j].t = dts[i].t /\ Waiting(i) =>
      /\ ~Waiting(j)
      /\ <<dts[j].t, j>> \in senders => dts[j].state # "closed" /\ ~dts[j].resume

(* The track in hand is the latest one. *)
LatestInHand ==
  \A i, j \in SubIDs : InHand(i) /\ dts[j].t = dts[i].t /\ dts[j].state # "none" => j <= i

SendersOK == Attached /\ OneWaits /\ LatestInHand

(* Only the close of the source track, or of the whole session, parts to      *)
(* resume, and the source stays in the room until the parting is over.        *)
PartingOK ==
  \A i \in SubIDs : Parting(i) =>
      \/ session = "closed"
      \/ mstate[dts[i].t][dts[i].g] = "cleared" /\ resuming[dts[i].t][dts[i].g]

(* The room has no older object of the track than g. *)
Oldest(t, g) == mstate[t][g] # "new" /\ \A h \in infos[t] : g <= h

(* Subscribed tracks are those of the oldest object in the room, as long as   *)
(* it is there, and it is there until it is closed.                           *)
SourcesOK ==
  /\ \A t \in Tracks, g, h \in Gens : g < h /\ mstate[t][g] = "new" => mstate[t][h] = "new"
  /\ \A i \in SubIDs : dts[i].state # "none" => Oldest(dts[i].t, dts[i].g)
  /\ worker.pc \in {"add", "insert"} => Oldest(worker.t, worker.g)
  /\ "leave" \notin inputs =>
       \A t \in Tracks, g \in Gens : mstate[t][g] \in {"open", "closing", "cleared"} => g \in infos[t]
  /\ "resume" \notin inputs => \A t \in Tracks, g \in Gens : ~resuming[t][g]

(* Hence no track parts while the worker adds the next one. *)
Taking == {"add", "insert", "post", "install", "record"}
Others(i) == worker.pc \in {"add", "insert"} \/ i # worker.i
NoneParts ==
  worker.pc \in Taking => \A i \in SubIDs : Others(i) /\ dts[i].t = worker.t => ~Parting(i)

SenderInv == LeavesForGood /\ SendersOK /\ PartingOK /\ SourcesOK /\ NoneParts

-----------------------------------------------------------------------------
(* A track moves towards its close, without reaching the cache or the end. *)
Moves(i) ==
  /\ dts'[i].t = dts[i].t /\ dts'[i].g = dts[i].g
  /\ \/ dts'[i].state = dts[i].state /\ dts'[i].resume = dts[i].resume
     \/ dts[i].state = "live" /\ dts'[i].state = "closing"
     \/ dts[i].state = "closing" /\ ~dts[i].resume /\ dts'[i].state = "gone" /\ ~dts'[i].resume
     \/ dts[i].state \in Settling /\ dts'[i].state \in Settling /\ dts'[i].resume = dts[i].resume

(* Nothing comes into the hands of the worker, no orphan loses its record. *)
HandsKept ==
  \A i \in SubIDs : /\ InHand(i)' => InHand(i)
                    /\ dts[i].state = "closed" /\ OnRecord(i) => OnRecord(i)'

(* Such steps leave the senders in order. *)
LEMMA SendersFrame ==
  ASSUME TypeOK, TypeOK', SendersOK, \A i \in SubIDs : Moves(i), HandsKept,
         senders' \subseteq senders, UNCHANGED cached
  PROVE  SendersOK'
  <1>0. \A i \in SubIDs : dts[i].t \in Tracks /\ dts[i].resume \in BOOLEAN /\ dts'[i].resume \in BOOLEAN
    BY DEF TypeOK, PubTypeOK, DTType
  <1>1. Attached'
    BY <1>0 DEF SendersOK, Attached, Moves, HandsKept, Settling
  <1>2. OneWaits'
    <2> SUFFICES ASSUME NEW i \in SubIDs, NEW j \in SubIDs, i # j, dts'[j].t = dts'[i].t, Waiting(i)'
                 PROVE  /\ ~Waiting(j)'
                        /\ <<dts'[j].t, j>> \in senders' => dts'[j].state # "closed" /\ ~dts'[j].resume
      BY DEF OneWaits
    <2>1. Waiting(i) /\ dts[j].t = dts[i].t
      BY <1>0 DEF Moves, Waiting, Parting, Settling
    <2>2. ~Waiting(j) /\ (<<dts[j].t, j>> \in senders => dts[j].state # "closed" /\ ~dts[j].resume)
      BY <2>1 DEF SendersOK, OneWaits
    <2>3. Moves(j)
      OBVIOUS
    <2> QED
      BY <1>0, <2>2, <2>3 DEF Moves, Waiting, Parting, Settling
  <1>3. LatestInHand'
    BY DEF SendersOK, LatestInHand, HandsKept, Moves, Settling
  <1> QED
    BY <1>1, <1>2, <1>3 DEF SendersOK

(* The worker does not begin to take a track. *)
TakesNone ==
  \/ worker'.pc \notin Taking
  \/ /\ worker.pc \in Taking /\ worker'.t = worker.t /\ worker'.g = worker.g /\ worker'.i = worker.i
     /\ worker'.pc \in {"add", "insert"} => worker.pc \in {"add", "insert"}

(* No track begins to part, the tracks keep their source. *)
NoneBegins ==
  \A i \in SubIDs : /\ dts'[i].t = dts[i].t /\ dts'[i].g = dts[i].g
                    /\ dts'[i].state = "none" <=> dts[i].state = "none"
                    /\ Parting(i)' => Parting(i)

(* Such steps leave the sources of the tracks in order. *)
LEMMA SourcesFrame ==
  ASSUME TypeOK, TypeOK', PartingOK, SourcesOK, NoneParts, NoneBegins, TakesNone,
         UNCHANGED <<infos, mstate, resuming, inputs>>, session = "closed" => session' = "closed"
  PROVE  PartingOK' /\ SourcesOK' /\ NoneParts'
  <1>1. PartingOK'
    BY DEF PartingOK, NoneBegins
  <1>2. NoneParts'
    BY DEF NoneParts, Others, NoneBegins, TakesNone
  <1>3. SourcesOK'
    <2>1. (\A i \in SubIDs : dts[i].state # "none" => Oldest(dts[i].t, dts[i].g))'
      BY DEF SourcesOK, NoneBegins, Oldest
    <2>2. (worker.pc \in {"add", "insert"} => Oldest(worker.t, worker.g))'
      BY DEF SourcesOK, TakesNone, Oldest, Taking
    <2> QED
      BY <2>1, <2>2 DEF SourcesOK
  <1> QED
    BY <1>1, <1>2, <1>3

(* Steps that neither begin a parting nor take a track. *)
LEMMA SenderFrame ==
  ASSUME TypeOK, TypeOK', SenderInv, \A i \in SubIDs : Moves(i), NoneBegins, HandsKept, TakesNone,
         senders' \subseteq senders,
         UNCHANGED <<cached, infos, mstate, resuming, inputs>>, session = "closed" => session' = "closed"
  PROVE  SenderInv'
  <1>1. SendersOK'
    BY SendersFrame DEF SenderInv
  <1>2. PartingOK' /\ SourcesOK' /\ NoneParts'
    BY SourcesFrame DEF SenderInv
  <1> QED
    BY <1>1, <1>2 DEF SenderInv, LeavesForGood

(* Closing tracks only moves them; unless to resume, no parting begins. *)
LEMMA ClosesMove ==
  ASSUME TypeOK, NEW ids, NEW r \in BOOLEAN, dts' = CloseOf(ids, r)
  PROVE  (\A i \in SubIDs : Moves(i)) /\ (~r => NoneBegins)
         /\ \A i \in SubIDs : Parting(i)' => Parting(i) \/ (i \in ids /\ dts[i].state = "live")
  <1> SUFFICES ASSUME NEW i \in SubIDs
               PROVE  /\ Moves(i)
                      /\ dts'[i].state = "none" <=> dts[i].state = "none"
                      /\ Parting(i)' => Parting(i) \/ (r /\ i \in ids /\ dts[i].state = "live")
    BY DEF NoneBegins, Moves
  <1>1. dts[i] \in DTType
    BY DEF TypeOK, PubTypeOK
  <1>2. dts'[i] = IF i \in ids /\ dts[i].state = "live"
                  THEN [dts[i] EXCEPT !.state = "closing", !.resume = r] ELSE dts[i]
    BY DEF CloseOf
  <1> QED
    BY <1>1, <1>2 DEF DTType, Moves, Parting

(* Tracks whose state does not change. *)
LEMMA SameMoves ==
  ASSUME \A i \in SubIDs : /\ dts'[i].t = dts[i].t /\ dts'[i].g = dts[i].g
                           /\ dts'[i].state = dts[i].state /\ dts'[i].resume = dts[i].resume
  PROVE  (\A i \in SubIDs : Moves(i)) /\ NoneBegins
  BY DEF Moves, NoneBegins, Parting

Holding == {"post", "install", "record"}

(* The worker's hands, when it goes on with what it has or lets it go. *)
LEMMA SameHands ==
  ASSUME TypeOK, SubKept, \A i \in SubIDs : dts'[i].t = dts[i].t,
         worker'.pc \in Holding => worker.pc \in Holding /\ worker'.i = worker.i,
         worker.pc = "record" => worker'.pc = "record" /\ worker'.i = worker.i
  PROVE  HandsKept
  <1> SUFFICES ASSUME NEW i \in SubIDs
               PROVE  (InHand(i)' => InHand(i)) /\ (OnRecord(i) => OnRecord(i)')
    BY DEF HandsKept
  <1>1. dts[i].t \in Tracks /\ dts'[i].t = dts[i].t
    BY DEF TypeOK, PubTypeOK, DTType
  <1>2. sub'[dts[i].t].st = sub[dts[i].t].st
    BY <1>1 DEF SubKept
  <1> QED
    BY <1>1, <1>2 DEF InHand, OnRecord, Holding

(* Steps of others that at most close tracks, not to resume. *)
LEMMA QuietStep ==
  ASSUME TypeOK, TypeOK', SenderInv, SubKept,
         UNCHANGED dts \/ \E ids \in SUBSET SubIDs : dts' = CloseOf(ids, FALSE),
         UNCHANGED <<worker, senders, cached, infos, mstate, resuming, inputs>>,
         session = "closed" => session' = "closed"
  PROVE  SenderInv'
  <1>1. (\A i \in SubIDs : Moves(i)) /\ NoneBegins
    BY ClosesMove, SameMoves
  <1>2. HandsKept
    BY <1>1, SameHands DEF Moves, Holding
  <1>3. TakesNone
    BY DEF TakesNone
  <1> QED
    BY <1>1, <1>2, <1>3, SenderFrame

(* The client's calls leave the tracks alone. *)
LEMMA ClientSenders ==
  ASSUME TypeOK, TypeOK', Ownership, SenderInv, UNCHANGED inputs, NEW t \in Tracks,
         \/ SubscribeToTrack(t) \/ ClientUnsubscribe(t) \/ UpdateSubscribedTrackSettings(t)
         \/ ClearAllSubscriptions
  PROVE  SenderInv'
  <1>1. SubKept
    BY ClientOwnership
  <1>2. UNCHANGED <<dts, worker, senders, cached, infos, mstate, resuming, session>>
    BY DEF SubscribeToTrack, ClientUnsubscribe, UpdateSubscribedTrackSettings, ClearAllSubscriptions,
           dtVars, pubVars
  <1> QED
    BY <1>1, <1>2, QuietStep

(* SetPermission, and the session up to Close: closes are not to resume. *)
LEMMA PermissionSenders ==
  ASSUME TypeOK, TypeOK', Ownership, SenderInv, UNCHANGED inputs,
         ApplyGrant \/ ApplyRevoke \/ SetPermission \/ ParticipantClosed \/ StartClose
  PROVE  SenderInv'
  <1>1. SubKept
    BY SubSame DEF ApplyGrant, ApplyRevoke, SetPermission, ParticipantClosed, StartClose, subVars
  <1>2. /\ UNCHANGED <<worker, senders, cached, infos, mstate, resuming>>
        /\ session = "closed" => session' = "closed"
    BY DEF ApplyGrant, ApplyRevoke, SetPermission, ParticipantClosed, StartClose, dtVars, pubVars
  <1>3. UNCHANGED dts \/ \E ids \in SUBSET SubIDs : dts' = CloseOf(ids, FALSE)
    <2>1. Recorded \in SUBSET SubIDs
      BY DEF Recorded
    <2> QED
      BY <2>1 DEF ApplyGrant, ApplyRevoke, SetPermission, ParticipantClosed, StartClose, dtVars
  <1> QED
    BY <1>1, <1>2, <1>3, QuietStep

(* The goroutines that call back into the manager. *)
LEMMA CallbackSenders ==
  ASSUME TypeOK, TypeOK', Ownership, SenderInv, UNCHANGED inputs,
         NEW t \in Tracks, NEW g \in Gens, NEW i \in SubIDs, NEW ok \in BOOLEAN, NEW o,
         \/ RemoveSubscriber(t, g) \/ DelayedReconcile(t) \/ RemoveObserver(o)
         \/ TrackChanged(t) \/ TrackRemoved(t) \/ HandleSourceTrackRemoved(t)
         \/ Bound(i, ok) \/ BindCallback(i, ok) \/ Age(t)
  PROVE  SenderInv'
  <1> USE DEF RemoveSubscriber, DelayedReconcile, RemoveObserver, TrackChanged, TrackRemoved,
              HandleSourceTrackRemoved, BindCallback, Age
  <1>1. SubKept
    BY CallbackOwnership
  <1>2. UNCHANGED <<worker, senders, cached, infos, mstate, resuming, session>>
    BY DEF dtVars, pubVars, envVars, Bound, BindDownTrack
  <1>3. CASE Bound(i, ok)
    <2>1. \A j \in SubIDs : /\ dts'[j].t = dts[j].t /\ dts'[j].g = dts[j].g
                            /\ dts'[j].state = dts[j].state /\ dts'[j].resume = dts[j].resume
      <3>1. PICK b : dts' = [dts EXCEPT ![i] = [dts[i] EXCEPT !.bind = b]]
        BY <1>3 DEF Bound, BindDownTrack
      <3>2. dts[i] \in DTType /\ dts'[i] = [dts[i] EXCEPT !.bind = b]
            /\ \A j \in SubIDs : j # i => dts'[j] = dts[j]
        BY <3>1 DEF TypeOK, PubTypeOK
      <3>3. dts'[i].t = dts[i].t /\ dts'[i].g = dts[i].g /\ dts'[i].state = dts[i].state
            /\ dts'[i].resume = dts[i].resume
        BY <3>2 DEF DTType
      <3> QED
        BY <3>2, <3>3
    <2>2. (\A j \in SubIDs : Moves(j)) /\ NoneBegins
      BY <2>1, SameMoves
    <2>3. HandsKept /\ TakesNone
      BY <1>1, <1>2, <2>1, SameHands DEF TakesNone
    <2> QED
      BY <1>2, <2>2, <2>3, SenderFrame
  <1>4. CASE ~Bound(i, ok)
    <2>1. InMap(t, g) \in SUBSET SubIDs
      BY DEF InMap
    <2>2. UNCHANGED dts \/ \E ids \in SUBSET SubIDs : dts' = CloseOf(ids, FALSE)
      BY <1>4, <2>1 DEF dtVars
    <2> QED
      BY <1>1, <1>2, <2>2, QuietStep
  <1> QED
    BY <1>3, <1>4

(* What the steps of a close do to the track that closes. *)
LEMMA CloseMoves ==
  ASSUME TypeOK, NEW i \in SubIDs, TrackClose(i)
  PROVE  /\ \A j \in SubIDs : j # i => dts'[j] = dts[j]
         /\ dts'[i].t = dts[i].t /\ dts'[i].g = dts[i].g
         /\ UNCHANGED <<worker, infos, mstate, resuming, session>>
         /\ \/ OnDownTrackClose(i) /\ dts'[i].state = "gone" /\ dts'[i].resume = dts[i].resume
            \/ /\ DefaultOnClose(i) \/ FinishTrackClose(i)
               /\ dts'[i].state = "closed" /\ ~dts'[i].resume
            \/ /\ UnsetSubscribedTrack(i)
               /\ \/ sub[dts[i].t].st = 0 /\ dts'[i].state = "closed" /\ ~dts'[i].resume
                  \/ sub[dts[i].t].st # 0 /\ dts'[i].state = "notifiers" /\ dts'[i].resume = dts[i].resume
            \/ /\ ClearNotifiers(i) \/ DecrementCount(i) \/ UnmarkSubscribedTo(i)
               /\ dts[i].state \in Settling /\ dts'[i].state \in Settling /\ dts'[i].resume = dts[i].resume
  <1>a. dts[i] \in DTType /\ dts \in [SubIDs -> DTType]
    BY DEF TypeOK, PubTypeOK
  <1>b. ClosedDT(i).t = dts[i].t /\ ClosedDT(i).g = dts[i].g /\ ClosedDT(i).state = "closed"
        /\ ~ClosedDT(i).resume
    BY <1>a, NoDTType DEF ClosedDT, NoDT, DTType
  <1>c. UNCHANGED <<worker, infos, mstate, resuming, session>>
    BY DEF TrackClose, OnDownTrackClose, DefaultOnClose, UnsetSubscribedTrack, ClearNotifiers,
           DecrementCount, UnmarkSubscribedTo, FinishTrackClose, smVars, pubVars, envVars
  <1>1. CASE OnDownTrackClose(i)
    <2>1. dts' = [dts EXCEPT ![i] = [dts[i] EXCEPT !.state = "gone"]]
      BY <1>1 DEF OnDownTrackClose
    <2> QED
      BY <1>1, <1>a, <1>c, <2>1 DEF DTType
  <1>2. CASE DefaultOnClose(i) \/ FinishTrackClose(i)
    <2>1. dts' = [dts EXCEPT ![i] = ClosedDT(i)]
      BY <1>2 DEF DefaultOnClose, FinishTrackClose
    <2>2. dts'[i] = ClosedDT(i) /\ \A j \in SubIDs : j # i => dts'[j] = dts[j]
      BY <1>a, <2>1
    <2> QED
      BY <1>2, <1>b, <1>c, <2>2
  <1>3. CASE UnsetSubscribedTrack(i)
    <2>1. dts' = [dts EXCEPT ![i] = AfterUnset(i)]
      BY <1>3 DEF UnsetSubscribedTrack
    <2>2. dts'[i] = AfterUnset(i) /\ \A j \in SubIDs : j # i => dts'[j] = dts[j]
      BY <1>a, <2>1
    <2>3. CASE sub[dts[i].t].st = 0
      BY <1>3, <1>b, <1>c, <2>2, <2>3 DEF AfterUnset
    <2>4. CASE sub[dts[i].t].st # 0
      <3>1. dts'[i] = [dts[i] EXCEPT !.state = "notifiers"]
        BY <2>2, <2>4 DEF AfterUnset
      <3> QED
        BY <1>3, <1>a, <1>c, <2>2, <2>4, <3>1 DEF DTType
    <2> QED
      BY <2>3, <2>4
  <1>4. CASE ClearNotifiers(i) \/ UnmarkSubscribedTo(i)
    <2>1. PICK to \in {"dec", "finish"} : dts' = [dts EXCEPT ![i] = [dts[i] EXCEPT !.state = to]]
      BY <1>4 DEF ClearNotifiers, UnmarkSubscribedTo, CloseStep
    <2>2. dts[i].state \in {"notifiers", "unmark"}
      BY <1>4 DEF ClearNotifiers, UnmarkSubscribedTo, CloseStep
    <2> QED
      BY <1>4, <1>a, <1>c, <2>1, <2>2 DEF DTType, Settling
  <1>5. CASE DecrementCount(i)
    <2>1. PICK b : dts' = [dts EXCEPT ![i] = [dts[i] EXCEPT !.state = "unmark", !.relieve = b]]
      BY <1>5, <1>a DEF DecrementCount, DTType
    <2>2. dts[i].state = "dec"
      BY <1>5 DEF DecrementCount
    <2>3. dts'[i] = [dts[i] EXCEPT !.state = "unmark", !.relieve = b]
          /\ \A j \in SubIDs : j # i => dts'[j] = dts[j]
      BY <1>a, <2>1
    <2> QED
      BY <1>5, <1>a, <1>c, <2>2, <2>3 DEF DTType, Settling
  <1> QED
    BY <1>1, <1>2, <1>3, <1>4, <1>5 DEF TrackClose

(* OnDownTrackClose, to resume: nobody else needs the place in the cache. *)
LEMMA CachingSenders ==
  ASSUME TypeOK, TypeOK', SendersOK, HandsKept, NEW i \in SubIDs, Waiting(i), ~Waiting(i)',
         \A j \in SubIDs : j # i => dts'[j] = dts[j],
         dts'[i].t = dts[i].t, dts'[i].state \notin {"none", "live"},
         cached' = [cached EXCEPT ![dts[i].t] = i], UNCHANGED senders
  PROVE  SendersOK'
  <1>0. /\ dts[i].t \in Tracks /\ dts[i].state # "none"
        /\ cached'[dts[i].t] = i
        /\ \A u \in Tracks : u # dts[i].t => cached'[u] = cached[u]
    BY DEF TypeOK, PubTypeOK, DTType, Waiting, Parting
  <1>1. \A j \in SubIDs : j # i /\ dts[j].t = dts[i].t =>
          ~Waiting(j) /\ (<<dts[j].t, j>> \in senders => dts[j].state # "closed" /\ ~dts[j].resume)
    BY DEF SendersOK, OneWaits
  <1>2. Attached'
    <2> SUFFICES ASSUME NEW t \in Tracks, NEW j \in SubIDs, <<t, j>> \in senders
                 PROVE  /\ dts'[j].t = t /\ dts'[j].state # "none"
                        /\ dts'[j].state \in Settling /\ dts'[j].resume => cached'[t] = j
                        /\ dts'[j].state = "closed" => cached'[t] = j \/ OnRecord(j)'
      BY DEF Attached
    <2>1. /\ dts[j].t = t /\ dts[j].state # "none"
          /\ dts[j].state \in Settling /\ dts[j].resume => cached[t] = j
          /\ dts[j].state = "closed" => cached[t] = j \/ OnRecord(j)
      BY DEF SendersOK, Attached
    <2>2. CASE j = i
      BY <1>0, <2>1, <2>2
    <2>3. CASE j # i
      BY <1>0, <1>1, <2>1, <2>3 DEF HandsKept
    <2> QED
      BY <2>2, <2>3
  <1>3. OneWaits'
    <2> SUFFICES ASSUME NEW k \in SubIDs, NEW j \in SubIDs, k # j, dts'[j].t = dts'[k].t, Waiting(k)'
                 PROVE  /\ ~Waiting(j)'
                        /\ <<dts'[j].t, j>> \in senders => dts'[j].state # "closed" /\ ~dts'[j].resume
      BY DEF OneWaits
    <2>1. k # i /\ Waiting(k)
      BY DEF Waiting, Parting
    <2>2. j # i
      BY <1>1, <2>1
    <2> QED
      BY <2>1, <2>2 DEF SendersOK, OneWaits, Waiting, Parting
  <1>4. LatestInHand'
    BY <1>0 DEF SendersOK, LatestInHand, HandsKept
  <1> QED
    BY <1>2, <1>3, <1>4 DEF SendersOK

(* The end of a close: the sender is removed, unless it is in the cache. *)
LEMMA EndingSenders ==
  ASSUME TypeOK, TypeOK', SendersOK, HandsKept, NEW i \in SubIDs, dts[i].state \in Settling,
         \A j \in SubIDs : j # i => dts'[j] = dts[j],
         dts'[i].t = dts[i].t, dts'[i].state = "closed", ~dts'[i].resume,
         \/ senders' = IF dts[i].resume THEN senders ELSE senders \ {<<dts[i].t, i>>}
         \/ senders' = senders /\ OnRecord(i)' /\ \A j \in SubIDs : j # i /\ dts[j].t = dts[i].t => ~Waiting(j),
         UNCHANGED cached
  PROVE  SendersOK'
  <1>0. dts[i].state \notin {"none", "live", "closing", "closed"} /\ dts[i].resume \in BOOLEAN
        /\ dts[i].t \in Tracks
    BY DEF Settling, TypeOK, PubTypeOK, DTType
  <1>1. Attached'
    <2> SUFFICES ASSUME NEW t \in Tracks, NEW j \in SubIDs, <<t, j>> \in senders'
                 PROVE  /\ dts'[j].t = t /\ dts'[j].state # "none"
                        /\ dts'[j].state \in Settling /\ dts'[j].resume => cached'[t] = j
                        /\ dts'[j].state = "closed" => cached'[t] = j \/ OnRecord(j)'
      BY DEF Attached
    <2>1. /\ <<t, j>> \in senders /\ dts[j].t = t /\ dts[j].state # "none"
          /\ dts[j].state \in Settling /\ dts[j].resume => cached[t] = j
          /\ dts[j].state = "closed" => cached[t] = j \/ OnRecord(j)
      BY DEF SendersOK, Attached
    <2>2. CASE j = i
      <3>1. dts[i].resume \/ OnRecord(i)'
        BY <2>1, <2>2
      <3> QED
        BY <2>1, <2>2, <3>1
    <2>3. CASE j # i
      BY <2>1, <2>3 DEF HandsKept
    <2> QED
      BY <2>2, <2>3
  <1>2. OneWaits'
    <2> SUFFICES ASSUME NEW k \in SubIDs, NEW j \in SubIDs, k # j, dts'[j].t = dts'[k].t, Waiting(k)'
                 PROVE  /\ ~Waiting(j)'
                        /\ <<dts'[j].t, j>> \in senders' => dts'[j].state # "closed" /\ ~dts'[j].resume
      BY DEF OneWaits
    <2>1. k # i /\ Waiting(k) /\ dts[j].t = dts[k].t
      BY DEF Waiting, Parting
    <2>2. ~Waiting(j) /\ (<<dts[j].t, j>> \in senders => dts[j].state # "closed" /\ ~dts[j].resume)
      BY <2>1 DEF SendersOK, OneWaits
    <2>3. CASE j # i
      BY <2>1, <2>2, <2>3 DEF Waiting, Parting
    <2>4. CASE j = i
      <3>1. <<dts[i].t, i>> \notin senders'
        BY <2>1, <2>2, <2>4
      <3> QED
        BY <2>4, <3>1 DEF Waiting, Parting
    <2> QED
      BY <2>3, <2>4
  <1>3. LatestInHand'
    BY <1>0 DEF SendersOK, LatestInHand, HandsKept
  <1> QED
    BY <1>1, <1>2, <1>3 DEF SendersOK

(* The steps of a close. A callback that finds nothing recorded has overtaken *)
(* the worker, which will record the track although it is closed.             *)
LEMMA CloseSenders ==
  ASSUME TypeOK, TypeOK', Ownership, SenderInv, UNCHANGED inputs, NEW i \in SubIDs, TrackClose(i)
  PROVE  SenderInv'
  <1> DEFINE t == dts[i].t
  <1>a. /\ \A j \in SubIDs : j # i => dts'[j] = dts[j]
        /\ dts'[i].t = t /\ dts'[i].g = dts[i].g
        /\ UNCHANGED <<worker, infos, mstate, resuming, session>>
    BY CloseMoves
  <1>b. t \in Tracks /\ \A j \in SubIDs : dts'[j].t = dts[j].t /\ dts'[j].g = dts[j].g
    BY <1>a DEF TypeOK, PubTypeOK, DTType
  <1>c. SendersOK
    BY DEF SenderInv
  <1>d. dts[i].state \notin {"none", "live"} /\ dts'[i].state \notin {"none", "live", "closing"}
    BY CloseMoves DEF OnDownTrackClose, DefaultOnClose, FinishTrackClose, UnsetSubscribedTrack, Settling
  <1>e. NoneBegins /\ TakesNone
    <2>1. \A j \in SubIDs : /\ dts'[j].state = "none" <=> dts[j].state = "none"
                            /\ Parting(j)' => Parting(j)
      BY <1>a, <1>d DEF Parting
    <2> QED
      BY <1>a, <1>b, <2>1 DEF NoneBegins, TakesNone
  <1>f. SUFFICES SendersOK'
    BY <1>a, <1>e, SourcesFrame DEF SenderInv, LeavesForGood
  <1>g. ~UnsetSubscribedTrack(i) => HandsKept
    BY <1>a, <1>b, CloseKeepsRecords, SameHands
  <1>1. CASE OnDownTrackClose(i)
    <2>0. dts[i].state = "closing" /\ ~UnsetSubscribedTrack(i) /\ UNCHANGED senders
      BY <1>1 DEF OnDownTrackClose, UnsetSubscribedTrack
    <2>1. dts'[i].state = "gone" /\ dts'[i].resume = dts[i].resume /\ dts[i].state = "closing"
          /\ ~UnsetSubscribedTrack(i) /\ UNCHANGED senders
      BY <2>0, CloseMoves DEF DefaultOnClose, FinishTrackClose, Settling
    <2>2. CASE dts[i].resume
      <3>1. cached' = [cached EXCEPT ![dts[i].t] = i]
        BY <1>1, <2>2 DEF OnDownTrackClose
      <3>2. Waiting(i) /\ ~Waiting(i)'
        BY <2>1, <2>2 DEF Waiting, Parting
      <3> QED
        BY <1>a, <1>c, <1>g, <2>1, <3>1, <3>2, CachingSenders
    <2>3. CASE ~dts[i].resume
      <3>1. UNCHANGED cached
        BY <1>1, <2>3 DEF OnDownTrackClose
      <3>2. \A j \in SubIDs : Moves(j)
        BY <1>a, <1>b, <2>1, <2>3 DEF Moves
      <3> QED
        BY <1>c, <1>g, <2>1, <3>1, <3>2, SendersFrame
    <2> QED
      BY <2>1, <2>2, <2>3
  <1>2. CASE DefaultOnClose(i) \/ FinishTrackClose(i)
    <2>1. dts'[i].state = "closed" /\ ~dts'[i].resume /\ ~UnsetSubscribedTrack(i)
          /\ dts[i].state \in Settling
      BY <1>2, CloseMoves DEF OnDownTrackClose, DefaultOnClose, FinishTrackClose, UnsetSubscribedTrack,
         ClearNotifiers, DecrementCount, UnmarkSubscribedTo, CloseStep, Settling
    <2>2. /\ senders' = IF dts[i].resume THEN senders ELSE senders \ {<<dts[i].t, i>>}
          /\ UNCHANGED cached
      BY <1>2 DEF DefaultOnClose, FinishTrackClose
    <2> QED
      BY <1>a, <1>c, <1>g, <2>1, <2>2, EndingSenders
  <1>3. CASE UnsetSubscribedTrack(i)
    <2>0. UNCHANGED <<senders, cached>> /\ dts[i].state = "gone" /\ dts[i].cb = "manager"
      BY <1>3 DEF UnsetSubscribedTrack
    <2>1. /\ \/ sub[t].present /\ sub[t].st = i
             \/ worker.pc = "record" /\ worker.i = i
          /\ \A u \in Tracks : /\ u # t => sub'[u].st = sub[u].st
                               /\ u = t => sub'[u].st = 0
      BY <1>3, UnsetClears
    <2>2. \A j \in SubIDs : j # 0 /\ dts[j].t \in Tracks
      <3>1. \A j \in SubIDs : j # 0
        BY DEF SubIDs
      <3>2. \A j \in SubIDs : dts[j].t \in Tracks
        BY DEF TypeOK, PubTypeOK, DTType
      <3> QED
        BY <3>1, <3>2
    <2>3. worker.pc = "record" => worker.t \in Tracks /\ sub[worker.t].st = 0 /\ dts[worker.i].t = worker.t
      BY DEF Ownership, Adding, TypeOK, WorkerType
    <2>4. HandsKept
      <3> SUFFICES ASSUME NEW j \in SubIDs
                   PROVE  /\ InHand(j)' => InHand(j)
                          /\ dts[j].state = "closed" /\ OnRecord(j) => OnRecord(j)'
        BY DEF HandsKept
      <3>1. CASE dts[j].t # t
        BY <1>a, <1>b, <2>1, <2>2, <3>1 DEF InHand, OnRecord
      <3>2. CASE dts[j].t = t
        <4>1. InHand(j)' => InHand(j)
          BY <1>a, <1>b, <2>1, <2>2, <3>2 DEF InHand, OnRecord
        <4>2. dts[j].state = "closed" /\ OnRecord(j) => OnRecord(j)'
          <5> SUFFICES ASSUME dts[j].state = "closed", sub[t].st = j PROVE FALSE
            BY <1>a, <3>2 DEF OnRecord
          <5>1. j # i
            BY <2>0
          <5>2. worker.pc = "record" /\ worker.i = i
            BY <2>1, <5>1
          <5> QED
            BY <2>2, <2>3, <5>2
        <4> QED
          BY <4>1, <4>2
      <3> QED
        BY <3>1, <3>2
    <2>5. CASE sub[t].st # 0
      <3>1. dts'[i].state = "notifiers" /\ dts'[i].resume = dts[i].resume
        BY <1>3, <2>0, <2>5, CloseMoves DEF OnDownTrackClose, DefaultOnClose, FinishTrackClose,
           ClearNotifiers, DecrementCount, UnmarkSubscribedTo, CloseStep
      <3>2. \A j \in SubIDs : Moves(j)
        BY <1>a, <1>b, <2>0, <3>1 DEF Moves, Settling
      <3> QED
        BY <1>c, <2>0, <2>4, <3>2, SendersFrame
    <2>6. CASE sub[t].st = 0
      <3>1. dts'[i].state = "closed" /\ ~dts'[i].resume
        BY <1>3, <2>0, <2>6, CloseMoves DEF OnDownTrackClose, DefaultOnClose, FinishTrackClose,
           ClearNotifiers, DecrementCount, UnmarkSubscribedTo, CloseStep
      <3>2. worker.pc = "record" /\ worker.i = i /\ worker.t = t
        BY <2>1, <2>2, <2>3, <2>6
      <3>3. OnRecord(i)'
        BY <1>a, <3>2 DEF OnRecord
      <3>4. ASSUME NEW j \in SubIDs, j # i, dts[j].t = t
            PROVE  ~Waiting(j)
        <4>1. ~Parting(j)
          BY <3>2, <3>4 DEF SenderInv, NoneParts, Others, Taking
        <4>2. dts[j].state # "live"
          <5>1. dts[j].cb \in {"default", "manager"} /\ sub[dts[j].t].st # j
            BY <2>2, <2>6, <3>4 DEF TypeOK, PubTypeOK, DTType
          <5> QED
            BY <3>2, <3>4, <5>1 DEF Ownership
        <4> QED
          BY <4>1, <4>2 DEF Waiting
      <3>5. dts[i].state \in Settling
        BY <2>0 DEF Settling
      <3> HIDE DEF t
      <3>6. \A j \in SubIDs : j # i /\ dts[j].t = dts[i].t => ~Waiting(j)
        BY <3>4 DEF t
      <3> QED
        BY <1>a, <1>c, <2>0, <2>4, <3>1, <3>3, <3>5, <3>6, EndingSenders DEF t
    <2> QED
      BY <2>5, <2>6
  <1>4. CASE ClearNotifiers(i) \/ DecrementCount(i) \/ UnmarkSubscribedTo(i)
    <2>1. ~UnsetSubscribedTrack(i) /\ dts[i].state \in Settling /\ dts'[i].state \in Settling
          /\ dts'[i].resume = dts[i].resume /\ UNCHANGED <<senders, cached>>
      BY <1>4, CloseMoves DEF OnDownTrackClose, DefaultOnClose, FinishTrackClose, UnsetSubscribedTrack,
         ClearNotifiers, DecrementCount, UnmarkSubscribedTo, CloseStep, Settling
    <2>2. \A j \in SubIDs : Moves(j)
      BY <1>a, <1>b, <2>1 DEF Moves
    <2> QED
      BY <1>c, <1>g, <2>1, <2>2, SendersFrame
  <1> QED
    BY <1>1, <1>2, <1>3, <1>4 DEF TrackClose

(* An update of one object of a track. *)
LEMMA UpdateAt ==
  ASSUME NEW V, NEW f \in [Tracks -> [Gens -> V]], NEW t \in Tracks, NEW g \in Gens, NEW v
  PROVE  \A u \in Tracks, h \in Gens :
           [f EXCEPT ![t][g] = v][u][h] = IF u = t /\ h = g THEN v ELSE f[u][h]
  OBVIOUS

(* A track that is live while the worker takes another one of the same source *)
(* track: there is none, the entry records nothing.                           *)
LEMMA NoOtherLive ==
  ASSUME TypeOK, Ownership, worker.pc \in Taking,
         NEW i \in SubIDs, Others(i), dts[i].t = worker.t
  PROVE  dts[i].state # "live"
  <1>1. sub[dts[i].t].st # i
    BY DEF Ownership, Taking, SubIDs
  <1>2. dts[i].cb \in {"default", "manager"}
    BY DEF TypeOK, PubTypeOK, DTType
  <1> QED
    BY <1>1, <1>2 DEF Ownership, Taking, Others

(* The publisher. A new object comes last; ClearAllReceivers parts the tracks *)
(* of an object that stays in the room until they are cached.                 *)
LEMMA PublisherSenders ==
  ASSUME TypeOK, TypeOK', Ownership, SenderInv, UNCHANGED inputs, NEW t \in Tracks,
         Publisher(t), UNCHANGED smVars
  PROVE  SenderInv'
  <1>a. UNCHANGED <<sub, worker, session, senders, cached>>
    BY DEF Publisher, AddTrack, SetClosing, RemoveParticipant, ClearAllReceivers, CloseMediaTrack,
           MaybeRevokeSubscriptions, dtVars, smVars, subVars, envVars
  <1>b. \/ UNCHANGED dts
        \/ \E ids \in SUBSET SubIDs, r \in BOOLEAN : dts' = CloseOf(ids, r)
    BY PublisherCloses
  <1>c. \A i \in SubIDs : Moves(i)
    BY <1>b, ClosesMove, SameMoves
  <1>d. HandsKept
    BY <1>a, <1>c, SubSame, SameHands DEF Moves
  <1>e. SendersOK'
    BY <1>a, <1>c, <1>d, SendersFrame DEF SenderInv
  <1>f. SUFFICES PartingOK' /\ SourcesOK' /\ NoneParts'
    BY <1>e DEF SenderInv, LeavesForGood
  <1>g. PartingOK /\ SourcesOK /\ NoneParts
    BY DEF SenderInv
  <1>h. /\ worker.t \in Tracks /\ worker.g \in Gens
        /\ \A i \in SubIDs : dts[i].t \in Tracks /\ dts[i].g \in Gens
    BY DEF TypeOK, PubTypeOK, DTType, WorkerType
  <1>k. Gens \subseteq Nat
    BY DEF Gens
  <1>m. /\ mstate \in [Tracks -> [Gens -> {"new", "open", "closing", "cleared", "closed"}]]
        /\ resuming \in [Tracks -> [Gens -> BOOLEAN]]
    BY DEF TypeOK, PubTypeOK
  <1>n. ASSUME NEW g \in Gens, RemoveTrack(t, g)
        PROVE  \A u \in Tracks : /\ infos'[u] \subseteq infos[u]
                                 /\ \A h \in infos[u] : h \in infos'[u] \/ (u = t /\ h = g)
    <2>1. infos \in [Tracks -> SUBSET Gens]
      BY DEF TypeOK, PubTypeOK
    <2>2. infos' = infos \/ infos' = [infos EXCEPT ![t] = infos[t] \ {g}]
      BY <1>n DEF RemoveTrack
    <2> QED
      BY <2>1, <2>2
  <1>1. CASE AddTrack(t)
    <2>1. PICK g \in Gens : /\ mstate[t][g] = "new" /\ \A h \in Gens : h < g => mstate[t][h] # "new"
                            /\ mstate' = [mstate EXCEPT ![t][g] = "open"]
                            /\ infos' = [infos EXCEPT ![t] = @ \cup {g}]
      BY <1>1 DEF AddTrack
    <2>2. UNCHANGED <<dts, resuming>>
      BY <1>1 DEF AddTrack, dtVars
    <2>3. \A u \in Tracks, h \in Gens : mstate'[u][h] = IF u = t /\ h = g THEN "open" ELSE mstate[u][h]
      BY <1>m, <2>1, UpdateAt
    <2>4. \A u \in Tracks : infos'[u] = IF u = t THEN infos[t] \cup {g} ELSE infos[u]
      BY <2>1 DEF TypeOK, PubTypeOK
    <2>5. \A h \in Gens : mstate[t][h] # "new" => h < g
      BY <1>g, <1>k, <2>1 DEF SourcesOK
    <2>6. \A u \in Tracks, h \in Gens : Oldest(u, h) => Oldest(u, h)'
      <3> SUFFICES ASSUME NEW u \in Tracks, NEW h \in Gens, Oldest(u, h)
                   PROVE  mstate'[u][h] # "new" /\ \A k \in infos'[u] : h <= k
        BY DEF Oldest
      <3>1. CASE u # t
        BY <2>3, <2>4, <3>1 DEF Oldest
      <3>2. CASE u = t
        <4>1. h < g
          BY <2>5, <3>2 DEF Oldest
        <4> QED
          BY <1>k, <2>3, <2>4, <3>2, <4>1 DEF Oldest
      <3> QED
        BY <3>1, <3>2
    <2>7. PartingOK' /\ NoneParts'
      <3>1. PartingOK'
        BY <1>a, <1>g, <1>h, <2>1, <2>2, <2>3 DEF PartingOK, Parting
      <3>2. NoneParts'
        BY <1>a, <1>g, <2>2 DEF NoneParts, Others, Parting
      <3> QED
        BY <3>1, <3>2
    <2>8. SourcesOK'
      <3>1. \A u \in Tracks, k, h \in Gens : k < h /\ mstate'[u][k] = "new" => mstate'[u][h] = "new"
        BY <1>g, <1>k, <2>1, <2>3, <2>5 DEF SourcesOK
      <3>2. \A i \in SubIDs : dts'[i].state # "none" => Oldest(dts[i].t, dts[i].g)'
        BY <1>g, <1>h, <2>2, <2>6 DEF SourcesOK
      <3>3. worker'.pc \in {"add", "insert"} => Oldest(worker.t, worker.g)'
        BY <1>a, <1>g, <1>h, <2>6 DEF SourcesOK
      <3>4. "leave" \notin inputs' => \A u \in Tracks, h \in Gens :
                mstate'[u][h] \in {"open", "closing", "cleared"} => h \in infos'[u]
        BY <1>g, <2>3, <2>4 DEF SourcesOK
      <3>5. "resume" \notin inputs' => \A u \in Tracks, h \in Gens : ~resuming'[u][h]
        BY <1>g, <2>2 DEF SourcesOK
      <3> QED
        BY <1>a, <2>2, <3>1, <3>2, <3>3, <3>4, <3>5 DEF SourcesOK
    <2> QED
      BY <2>7, <2>8
  <1>2. CASE MaybeRevokeSubscriptions(t)
    <2> DEFINE ids == UNION {InMap(t, g) : g \in {h \in Gens : mstate[t][h] # "closed"}}
    <2>1. ids \in SUBSET SubIDs
      BY DEF InMap
    <2>2. dts' = dts \/ dts' = CloseOf(ids, FALSE)
      BY <1>2 DEF MaybeRevokeSubscriptions
    <2> HIDE DEF ids
    <2>3. UNCHANGED <<infos, mstate, resuming>>
      BY <1>2 DEF MaybeRevokeSubscriptions
    <2>4. SenderInv'
      BY <1>a, <2>1, <2>2, <2>3, SubSame, QuietStep
    <2> QED
      BY <2>4 DEF SenderInv
  <1>3. ASSUME NEW g \in Gens, NEW r \in BOOLEAN, SetClosing(t, g, r), r => "resume" \in inputs
        PROVE  PartingOK' /\ SourcesOK' /\ NoneParts'
    <2>1. UNCHANGED <<dts, infos>> /\ mstate[t][g] = "open"
      BY <1>3 DEF SetClosing, dtVars
    <2>2. \A u \in Tracks, h \in Gens :
            /\ mstate'[u][h] = IF u = t /\ h = g THEN "closing" ELSE mstate[u][h]
            /\ resuming'[u][h] = IF u = t /\ h = g THEN r ELSE resuming[u][h]
      BY <1>3, <1>m, UpdateAt DEF SetClosing
    <2>3. PartingOK'
      BY <1>a, <1>g, <1>h, <2>1, <2>2 DEF PartingOK, Parting
    <2>4. NoneParts'
      BY <1>a, <1>g, <2>1 DEF NoneParts, Others, Parting
    <2>5. SourcesOK'
      BY <1>3, <1>a, <1>g, <1>h, <2>1, <2>2 DEF SourcesOK, Oldest
    <2> QED
      BY <2>3, <2>4, <2>5
  <1>4. ASSUME NEW g \in Gens, RemoveParticipant(t, g), "leave" \in inputs
        PROVE  PartingOK' /\ SourcesOK' /\ NoneParts'
    <2>1. UNCHANGED <<dts, mstate, resuming>>
      BY <1>4 DEF RemoveParticipant, dtVars
    <2>2. \A u \in Tracks : infos'[u] \subseteq infos[u]
      BY <1>4, <1>n DEF RemoveParticipant
    <2>3. PartingOK' /\ NoneParts'
      BY <1>a, <1>g, <2>1 DEF PartingOK, NoneParts, Others, Parting
    <2>4. SourcesOK'
      BY <1>4, <1>a, <1>g, <1>h, <2>1, <2>2 DEF SourcesOK, Oldest
    <2> QED
      BY <2>3, <2>4
  <1>5. ASSUME NEW g \in Gens, ClearAllReceivers(t, g)
        PROVE  PartingOK' /\ SourcesOK' /\ NoneParts'
    <2> DEFINE ids == InMap(t, g)
               r   == resuming[t][g]
    <2>1. UNCHANGED <<infos, resuming>> /\ mstate[t][g] = "closing" /\ dts' = CloseOf(ids, r)
      BY <1>5 DEF ClearAllReceivers
    <2>2. \A u \in Tracks, h \in Gens : mstate'[u][h] = IF u = t /\ h = g THEN "cleared" ELSE mstate[u][h]
      BY <1>5, <1>m, UpdateAt DEF ClearAllReceivers
    <2>3. r \in BOOLEAN /\ \A i \in SubIDs : i \in ids => dts[i].t = t /\ dts[i].g = g
      BY DEF InMap, TypeOK, PubTypeOK
    <2> HIDE DEF ids, r
    <2>4. \A i \in SubIDs : Parting(i)' => Parting(i) \/ (r /\ i \in ids /\ dts[i].state = "live")
      BY <2>1, <2>3, ClosesMove DEF NoneBegins
    <2>5. \A i \in SubIDs : /\ dts'[i].t = dts[i].t /\ dts'[i].g = dts[i].g
                            /\ dts'[i].state = "none" <=> dts[i].state = "none"
      BY <1>c DEF Moves, Settling
    <2>6. PartingOK'
      BY <1>a, <1>g, <1>h, <2>1, <2>2, <2>3, <2>4, <2>5 DEF PartingOK, r
    <2>7. NoneParts'
      BY <1>a, <1>g, <2>4, <2>5, NoOtherLive DEF NoneParts, Others
    <2>8. SourcesOK'
      BY <1>a, <1>g, <1>h, <2>1, <2>2, <2>5 DEF SourcesOK, Oldest
    <2> QED
      BY <2>6, <2>7, <2>8
  <1>6. ASSUME NEW g \in Gens, CloseMediaTrack(t, g)
        PROVE  PartingOK' /\ SourcesOK' /\ NoneParts'
    <2>1. /\ UNCHANGED <<dts, resuming>> /\ mstate[t][g] = "cleared"
          /\ \A i \in SubIDs : dts[i].t = t /\ dts[i].g = g => ~dts[i].resume
      BY <1>6 DEF CloseMediaTrack, dtVars
    <2>2. \A u \in Tracks, h \in Gens : mstate'[u][h] = IF u = t /\ h = g THEN "closed" ELSE mstate[u][h]
      BY <1>6, <1>m, UpdateAt DEF CloseMediaTrack
    <2>3. \A u \in Tracks : infos'[u] \subseteq infos[u] /\ \A h \in infos[u] : h \in infos'[u] \/ (u = t /\ h = g)
      BY <1>6, <1>n DEF CloseMediaTrack
    <2>4. PartingOK'
      BY <1>a, <1>g, <1>h, <2>1, <2>2 DEF PartingOK, Parting
    <2>5. NoneParts'
      BY <1>a, <1>g, <2>1 DEF NoneParts, Others, Parting
    <2>6. SourcesOK'
      BY <1>a, <1>g, <1>h, <2>1, <2>2, <2>3 DEF SourcesOK, Oldest
    <2> QED
      BY <2>4, <2>5, <2>6
  <1> QED
    BY <1>1, <1>2, <1>3, <1>4, <1>5, <1>6 DEF Publisher

(* A change of the publisher's permission closes nothing by itself. *)
LEMMA ChangeSenders ==
  ASSUME TypeOK, TypeOK', Ownership, SenderInv, UNCHANGED inputs, NEW t \in Tracks, ChangePermission(t)
  PROVE  SenderInv'
  <1>1. UNCHANGED <<sub, dts, worker, session, senders, cached, infos, mstate, resuming>>
    BY DEF ChangePermission, UpdateSubscriptionPermission, dtVars, subVars
  <1> QED
    BY <1>1, SubSame, QuietStep

(* Close: every track that is recorded may part, and nothing is added any more. *)
LEMMA FinishCloseSenders ==
  ASSUME TypeOK, TypeOK', Ownership, SenderInv, UNCHANGED inputs, NEW r \in BOOLEAN, FinishClose(r)
  PROVE  SenderInv'
  <1>1. /\ UNCHANGED <<worker, senders, cached, infos, mstate, resuming>>
        /\ session' = "closed" /\ worker.pc = "done" /\ dts' = CloseOf(Recorded, r)
    BY DEF FinishClose, pubVars, At
  <1>2. SubKept /\ \A i \in SubIDs : Moves(i)
    BY <1>1, FinishCloseKept, ClosesMove
  <1>3. HandsKept
    BY <1>1, <1>2, SameHands DEF Moves, Holding
  <1>4. SendersOK'
    BY <1>1, <1>2, <1>3, SendersFrame DEF SenderInv
  <1>5. PartingOK' /\ NoneParts'
    BY <1>1 DEF PartingOK, NoneParts, Others, Taking
  <1>6. SourcesOK'
    <2>1. \A i \in SubIDs : /\ dts'[i].t = dts[i].t /\ dts'[i].g = dts[i].g
                            /\ dts'[i].state # "none" => dts[i].state # "none"
      BY <1>2 DEF Moves, Settling
    <2> QED
      BY <1>1, <2>1 DEF SenderInv, SourcesOK, Oldest
  <1> QED
    BY <1>4, <1>5, <1>6 DEF SenderInv, LeavesForGood

(* The worker between two subscribes has no track in hand. *)
LEMMA ReconcileSenders ==
  ASSUME TypeOK, TypeOK', Ownership, SenderInv, UNCHANGED inputs,
         Tick \/ Dequeue \/ WorkerExit \/ NextEntry \/ ReconcileSubscription \/ Cleanup
  PROVE  SenderInv'
  <1>a. worker \in WorkerType
    BY DEF TypeOK
  <1>b. UNCHANGED <<senders, cached, infos, mstate, resuming, session>>
    BY DEF Tick, Dequeue, WorkerExit, NextEntry, ReconcileSubscription, Cleanup, dtVars, pubVars, envVars
  <1>c. worker.pc \in {"idle", "next", "reconcile", "cleanup"}
    BY DEF Tick, Dequeue, WorkerExit, NextEntry, ReconcileSubscription, Cleanup, At
  <1>d. worker'.pc \in {"idle", "next", "reconcile", "subscribe", "cleanup", "done"}
    <2>1. CASE Tick \/ Dequeue
      BY <1>a, <2>1 DEF Tick, Dequeue, WorkerType
    <2>2. CASE NextEntry
      <3>1. CASE worker' = Idle
        BY <3>1 DEF Idle
      <3>2. CASE worker' # Idle
        BY <1>a, <2>2, <3>2 DEF NextEntry, At, WorkerType
      <3> QED
        BY <3>1, <3>2
    <2>3. CASE ReconcileSubscription \/ Cleanup \/ WorkerExit
      BY <2>3, GotoKept DEF ReconcileSubscription, Cleanup, WorkerExit, WorkerPCs
    <2> QED
      BY <2>1, <2>2, <2>3
  <1>e. TakesNone
    BY <1>d DEF TakesNone, Taking
  <1>1. CASE ~Cleanup \/ ~NeedsCleanup(sub[worker.t])
    <2>1. UNCHANGED <<sub, dts>>
      BY <1>1 DEF Tick, Dequeue, WorkerExit, NextEntry, ReconcileSubscription, Cleanup, dtVars, subVars
    <2>2. (\A i \in SubIDs : Moves(i)) /\ NoneBegins
      BY <2>1, SameMoves
    <2>3. HandsKept
      BY <1>c, <1>d, <2>1, SubSame, SameHands DEF Holding
    <2> QED
      BY <1>b, <1>e, <2>2, <2>3, SenderFrame
  <1>2. CASE Cleanup /\ NeedsCleanup(sub[worker.t])
    <2> DEFINE t == worker.t
    <2>1. \A u \in Tracks : sub'[u].st = sub[u].st
      <3>1. sub[t].st = 0 /\ NoSub.st = 0
        BY <1>2 DEF NeedsCleanup, NoSub, NewSub
      <3>2. \A u \in Tracks : sub'[u] = IF u = t THEN NoSub ELSE sub[u]
        BY <1>2 DEF Cleanup, TypeOK
      <3> QED
        BY <3>1, <3>2
    <2>2. \A i \in SubIDs : /\ dts'[i].t = dts[i].t /\ dts'[i].g = dts[i].g
                            /\ dts'[i].state = dts[i].state /\ dts'[i].resume = dts[i].resume
      <3> SUFFICES ASSUME NEW i \in SubIDs
                   PROVE  /\ dts'[i].t = dts[i].t /\ dts'[i].g = dts[i].g
                          /\ dts'[i].state = dts[i].state /\ dts'[i].resume = dts[i].resume
        OBVIOUS
      <3>1. dts'[i] = IF dts[i].t = t THEN [dts[i] EXCEPT !.entry = FALSE] ELSE dts[i]
        BY <1>2 DEF Cleanup
      <3>2. dts[i] \in DTType
        BY DEF TypeOK, PubTypeOK
      <3> QED
        BY <3>1, <3>2 DEF DTType
    <2>3. (\A i \in SubIDs : Moves(i)) /\ NoneBegins
      BY <2>2, SameMoves
    <2>4. HandsKept
      <3>1. \A i \in SubIDs : dts[i].t \in Tracks
        BY DEF TypeOK, PubTypeOK, DTType
      <3> QED
        BY <1>c, <1>d, <2>1, <2>2, <3>1 DEF HandsKept, InHand, OnRecord
    <2> QED
      BY <1>b, <1>e, <2>3, <2>4, SenderFrame
  <1> QED
    BY <1>1, <1>2

(* subscribe finds the oldest object of the track open: the one whose tracks  *)
(* part is older and still in the room, so it would have been found instead.  *)
LEMMA ResolveSenders ==
  ASSUME TypeOK, TypeOK', Ownership, SenderInv, UNCHANGED inputs, Resolve
  PROVE  SenderInv'
  <1> DEFINE t == worker.t
             g == Resolved(worker.t)
  <1>a. SubKept /\ worker.pc = "subscribe" /\ (worker'.pc = "next" \/ (worker'.pc = "add" /\ worker'.t = t))
    BY ResolveKept
  <1>b. UNCHANGED <<dts, senders, cached, infos, mstate, resuming, session>>
    BY DEF Resolve, dtVars, pubVars, envVars
  <1>c. (\A i \in SubIDs : Moves(i)) /\ NoneBegins
    BY <1>b, SameMoves
  <1>d. HandsKept
    BY <1>a, <1>b, SameHands DEF Holding
  <1>1. CASE worker'.pc = "next"
    BY <1>1, <1>b, <1>c, <1>d, SenderFrame DEF TakesNone, Taking
  <1>2. CASE worker'.pc = "add"
    <2>1. worker'.g = g /\ g # 0
      <3>1. \/ Goto("next")
            \/ worker' = [worker EXCEPT !.pc = "add", !.g = g] /\ g # 0
        BY DEF Resolve
      <3>2. ~Goto("next")
        BY <1>2, GotoKept DEF WorkerPCs
      <3> QED
        BY <3>1, <3>2 DEF TypeOK, WorkerType
    <2>2. g \in infos[t] /\ mstate[t][g] = "open" /\ \A h \in infos[t] : g <= h
      <3>1. g \in EarliestOpen(t)
        BY <2>1 DEF Resolved
      <3> QED
        BY <3>1 DEF EarliestOpen
    <2>3. t \in Tracks /\ g \in Nat /\ \A i \in SubIDs : dts[i].g \in Nat /\ dts[i].g \in Gens
      <3>1. t \in Tracks /\ infos[t] \subseteq Gens /\ \A i \in SubIDs : dts[i].g \in Gens
        BY DEF TypeOK, PubTypeOK, WorkerType, DTType
      <3>2. Gens \subseteq Nat
        BY DEF Gens
      <3> QED
        BY <2>2, <3>1, <3>2
    <2> HIDE DEF g, t
    <2>4. ASSUME NEW i \in SubIDs, dts[i].t = t, Parting(i)
          PROVE  FALSE
      <3>1. session # "closed"
        BY <1>a DEF Ownership
      <3>2. mstate[t][dts[i].g] = "cleared" /\ resuming[t][dts[i].g]
        BY <2>4, <3>1 DEF SenderInv, PartingOK
      <3>3. "leave" \notin inputs
        BY <2>3, <3>2 DEF SenderInv, SourcesOK, LeavesForGood
      <3>4. dts[i].g \in infos[t]
        BY <2>3, <3>2, <3>3 DEF SenderInv, SourcesOK
      <3>5. Oldest(t, dts[i].g)
        BY <2>4 DEF SenderInv, SourcesOK, Parting
      <3>6. dts[i].g = g
        BY <2>2, <2>3, <3>4, <3>5 DEF Oldest
      <3> QED
        BY <2>2, <3>2, <3>6
    <2>5. SendersOK'
      BY <1>b, <1>c, <1>d, SendersFrame DEF SenderInv
    <2>6. PartingOK'
      BY <1>b DEF SenderInv, PartingOK, Parting
    <2>7. NoneParts'
      BY <1>a, <1>b, <1>2, <2>4 DEF NoneParts, Others, Parting
    <2>8. SourcesOK'
      <3>1. Oldest(worker'.t, worker'.g)
        BY <1>a, <1>2, <2>1, <2>2 DEF Oldest
      <3> QED
        BY <1>b, <3>1 DEF SenderInv, SourcesOK, Oldest
    <2> QED
      BY <2>5, <2>6, <2>7, <2>8 DEF SenderInv, LeavesForGood
  <1> QED
    BY <1>a, <1>1, <1>2

(* A new subscribed track takes the cached transceiver or stops it, no other  *)
(* sender needs the cache, and no number is higher.                           *)
LEMMA InsertSenders ==
  ASSUME TypeOK, TypeOK', Ownership, SenderInv, UNCHANGED inputs, InsertSubscriber
  PROVE  SenderInv'
  <1> DEFINE t == worker.t
             n == nst + 1
             freed == senders \ {<<t, cached[t]>>}
  <1>a. worker.pc = "insert" /\ UNCHANGED <<infos, mstate, resuming, session>>
    BY DEF InsertSubscriber, pubVars, envVars, At
  <1>b. t \in Tracks /\ worker.g \in Gens /\ worker \in WorkerType
    BY DEF TypeOK, WorkerType
  <1>1. CASE AttemptFailed /\ UNCHANGED <<dts, nst, cached>> /\ senders' \in {senders, freed}
    <2>1. SubKept /\ worker'.pc = "next"
      BY <1>1, AttemptFailedKept
    <2>2. (\A i \in SubIDs : Moves(i)) /\ NoneBegins
      BY <1>1, SameMoves
    <2>3. HandsKept
      BY <1>1, <1>a, <2>1, SameHands DEF Holding
    <2>4. senders' \subseteq senders
      BY <1>1
    <2> QED
      BY <1>1, <1>a, <2>1, <2>2, <2>3, <2>4, SenderFrame DEF TakesNone, Taking
  <1>2. CASE /\ nst < MaxSubs
             /\ dts' = [dts EXCEPT ![n] = [NoDT EXCEPT !.t = t, !.g = worker.g, !.state = "live"]]
             /\ senders' = freed \cup {<<t, n>>}
             /\ cached' = [cached EXCEPT ![t] = 0] \/ UNCHANGED cached
             /\ worker' = [worker EXCEPT !.pc = "post", !.i = n]
             /\ UNCHANGED sub
    <2>1. n \in SubIDs /\ nst \in Nat /\ \A j \in SubIDs : j \in Nat /\ j # 0
      BY <1>2, BoundsAssumption, SMTT(40) DEF TypeOK, PubTypeOK, SubIDs
    <2>2. worker'.pc = "post" /\ worker'.i = n /\ worker'.t = t
      BY <1>2, <1>b DEF WorkerType
    <2>3. /\ dts'[n].t = t /\ dts'[n].g = worker.g /\ dts'[n].state = "live"
          /\ \A j \in SubIDs : j # n => dts'[j] = dts[j]
      BY <1>2, <2>1, NoDTType DEF NoDT, DTType, TypeOK, PubTypeOK
    <2>4. dts[n].state = "none" /\ \A j \in SubIDs : dts[j].state # "none" => j <= n
      BY <2>1 DEF Ownership
    <2>5. \A j \in SubIDs : dts[j].t \in Tracks /\ dts[j].resume \in BOOLEAN /\ dts[j].state \in DTStates
      BY DEF TypeOK, PubTypeOK, DTType
    <2>6. sub[t].st = 0 /\ sub' = sub
      BY <1>2, <1>a DEF Ownership
    <2>7. /\ \A j \in SubIDs : <<t, j>> \in senders' => j = n \/ (<<t, j>> \in senders /\ j # cached[t])
          /\ \A u \in Tracks, j \in SubIDs : u # t => (<<u, j>> \in senders' <=> <<u, j>> \in senders)
          /\ \A u \in Tracks : u # t => cached'[u] = cached[u]
      BY <1>2 DEF TypeOK, PubTypeOK
    <2>8. SendersOK /\ PartingOK /\ SourcesOK /\ NoneParts
      BY DEF SenderInv
    <2> HIDE DEF t, n, freed
    <2>9. ASSUME NEW j \in SubIDs, dts[j].t = t
          PROVE  ~Waiting(j)
      <3>1. dts[j].state # "live"
        BY <1>a, <2>9, NoOtherLive DEF Taking, Others, t
      <3>2. ~Parting(j)
        BY <1>a, <2>8, <2>9 DEF NoneParts, Others, Taking, t
      <3> QED
        BY <3>1, <3>2 DEF Waiting
    <2>10. ASSUME NEW j \in SubIDs, j # n, <<t, j>> \in senders'
           PROVE  dts[j].t = t /\ dts[j].state \notin {"none", "closed", "live"} /\ ~dts[j].resume
      <3>1. <<t, j>> \in senders /\ cached[t] # j
        BY <2>7, <2>10
      <3>2. /\ dts[j].t = t /\ dts[j].state # "none"
            /\ ~(dts[j].state \in Settling /\ dts[j].resume)
            /\ dts[j].state = "closed" => OnRecord(j)
        BY <1>b, <2>8, <3>1 DEF SendersOK, Attached, t
      <3>3. ~OnRecord(j)
        BY <1>a, <2>1, <2>6, <3>2 DEF OnRecord
      <3>4. ~Waiting(j)
        BY <2>9, <3>2
      <3> QED
        BY <2>5, <3>2, <3>3, <3>4 DEF Waiting, Parting, Settling, DTStates
    <2>11. Attached'
      <3> SUFFICES ASSUME NEW u \in Tracks, NEW j \in SubIDs, <<u, j>> \in senders'
                   PROVE  /\ dts'[j].t = u /\ dts'[j].state # "none"
                          /\ dts'[j].state \in Settling /\ dts'[j].resume => cached'[u] = j
                          /\ dts'[j].state = "closed" => cached'[u] = j \/ OnRecord(j)'
        BY DEF Attached
      <3>1. CASE u = t /\ j = n
        BY <2>3, <3>1 DEF Settling
      <3>2. CASE u = t /\ j # n
        BY <2>3, <2>10, <3>2
      <3>3. CASE u # t
        <4>1. /\ dts[j].t = u /\ dts[j].state # "none"
              /\ dts[j].state \in Settling /\ dts[j].resume => cached[u] = j
              /\ dts[j].state = "closed" => cached[u] = j \/ OnRecord(j)
          BY <2>7, <2>8, <3>3 DEF SendersOK, Attached
        <4>2. dts'[j] = dts[j]
          BY <2>3, <2>4, <4>1
        <4> QED
          BY <1>a, <2>6, <2>7, <3>3, <4>1, <4>2 DEF OnRecord
      <3> QED
        BY <3>1, <3>2, <3>3
    <2>12. OneWaits'
      <3> SUFFICES ASSUME NEW i \in SubIDs, NEW j \in SubIDs, i # j, dts'[j].t = dts'[i].t, Waiting(i)'
                   PROVE  /\ ~Waiting(j)'
                          /\ <<dts'[j].t, j>> \in senders' => dts'[j].state # "closed" /\ ~dts'[j].resume
        BY DEF OneWaits
      <3>1. CASE i = n
        <4>1. j # n /\ dts'[j] = dts[j] /\ dts[j].t = t
          BY <2>3, <3>1
        <4>2. ~Waiting(j)'
          BY <2>9, <4>1 DEF Waiting, Parting
        <4> QED
          BY <2>10, <4>1, <4>2
      <3>2. CASE i # n
        <4>1. dts'[i] = dts[i] /\ Waiting(i)
          BY <2>3, <3>2 DEF Waiting, Parting
        <4>2. dts[i].t # t
          BY <2>9, <4>1
        <4>3. j # n /\ dts'[j] = dts[j]
          BY <2>3, <4>1, <4>2
        <4> QED
          BY <2>5, <2>7, <2>8, <4>1, <4>2, <4>3 DEF SendersOK, OneWaits, Waiting, Parting
      <3> QED
        BY <3>1, <3>2
    <2>13. LatestInHand'
      <3> SUFFICES ASSUME NEW i \in SubIDs, NEW j \in SubIDs, InHand(i)', dts'[j].t = dts'[i].t,
                          dts'[j].state # "none"
                   PROVE  j <= i
        BY DEF LatestInHand
      <3>1. CASE i = n
        BY <2>1, <2>3, <2>4, <3>1
      <3>2. CASE i # n
        <4>1. dts'[i] = dts[i] /\ sub[dts[i].t].st = i
          BY <2>2, <2>3, <2>6, <3>2 DEF InHand, OnRecord
        <4>2. dts[i].t # t
          BY <2>1, <2>6, <4>1
        <4>3. dts'[j] = dts[j]
          BY <2>3, <4>1, <4>2
        <4> QED
          BY <2>8, <4>1, <4>3 DEF SendersOK, LatestInHand, InHand, OnRecord
      <3> QED
        BY <3>1, <3>2
    <2>14. PartingOK'
      BY <1>a, <2>3, <2>8 DEF PartingOK, Parting
    <2>15. NoneParts'
      <3> SUFFICES ASSUME NEW j \in SubIDs, j # n, dts'[j].t = t
                   PROVE  ~Parting(j)'
        BY <2>2 DEF NoneParts, Others
      <3> QED
        BY <2>3, <2>9 DEF Parting, Waiting
    <2>16. SourcesOK'
      <3>1. Oldest(t, worker.g)
        BY <1>a, <2>8 DEF SourcesOK, t
      <3>2. \A j \in SubIDs : dts'[j].state # "none" => Oldest(dts'[j].t, dts'[j].g)
        BY <2>3, <2>8, <3>1 DEF SourcesOK
      <3> QED
        BY <1>a, <2>2, <2>8, <3>2 DEF SourcesOK, Oldest
    <2> QED
      BY <2>11, <2>12, <2>13, <2>14, <2>15, <2>16 DEF SenderInv, SendersOK, LeavesForGood
  <1> QED
    BY <1>1, <1>2 DEF InsertSubscriber, subVars

(* The rest of a subscribe: the track goes from hand to hand until it is      *)
(* recorded, or is closed when a second look says so.                         *)
LEMMA SubscribeSenders ==
  ASSUME TypeOK, TypeOK', Ownership, SenderInv, UNCHANGED inputs,
         \/ AddSubscriber \/ RecheckOpen \/ Install \/ SetSubscribedTrack
         \/ IncrementCount \/ RecheckCanSubscribe \/ MarkSubscribedTo
  PROVE  SenderInv'
  <1> DEFINE i == worker.i
             t == worker.t
  <1>a. worker \in WorkerType /\ t \in Tracks /\ sub[t] \in SubType
    BY DEF TypeOK, WorkerType
  <1>b. UNCHANGED <<senders, infos, mstate, resuming, session>>
    BY DEF AddSubscriber, RecheckOpen, Install, SetSubscribedTrack, IncrementCount, RecheckCanSubscribe,
           MarkSubscribedTo, dtVars, pubVars, envVars
  <1>c. worker.pc \in Adding => i \in SubIDs /\ dts[i].t = t /\ dts[i] \in DTType
    BY WorkerHoldsTrack DEF Ownership, TypeOK, PubTypeOK
  <1>d. ASSUME NEW pc \in WorkerPCs \ {"next"}, Goto(pc)
        PROVE  worker'.pc = pc /\ worker'.t = t /\ worker'.g = worker.g /\ worker'.i = i
    BY <1>a, <1>d DEF Goto, WorkerType
  <1>1. CASE AddSubscriber
    <2>1. worker.pc = "add" /\ UNCHANGED <<dts, cached>>
      BY <1>1 DEF AddSubscriber, At, dtVars
    <2>2. SubKept /\ \/ worker'.pc \in {"next", "mark"}
                     \/ worker'.pc = "insert" /\ worker'.t = t /\ worker'.g = worker.g /\ worker'.i = i
      <3>1. CASE AttemptFailed
        BY <3>1, AttemptFailedKept
      <3>2. CASE (Goto("mark") \/ Goto("insert")) /\ UNCHANGED sub
        BY <1>d, <3>2, SubSame DEF WorkerPCs
      <3> QED
        BY <1>1, <3>1, <3>2 DEF AddSubscriber, subVars
    <2>3. (\A j \in SubIDs : Moves(j)) /\ NoneBegins
      BY <2>1, SameMoves
    <2>4. HandsKept /\ TakesNone
      BY <2>1, <2>2, SameHands DEF TakesNone, Taking, Holding
    <2> QED
      BY <1>b, <2>1, <2>3, <2>4, SenderFrame
  <1>2. CASE RecheckOpen
    <2>0. worker.pc = "post" /\ i \in SubIDs /\ dts[i].t = t
      BY <1>2, RecheckOpenDoes
    <2>1. CASE /\ AttemptFailed /\ UNCHANGED cached
               /\ \E r \in BOOLEAN : dts' = CloseOf({i}, r) /\ (r => dts[i].state # "live")
      <3>1. SubKept /\ worker'.pc = "next"
        BY <2>1, AttemptFailedKept
      <3>2. PICK r \in BOOLEAN : dts' = CloseOf({i}, r) /\ (r => dts[i].state # "live")
        BY <2>1
      <3>3. /\ \A j \in SubIDs : Moves(j)
            /\ ~r => NoneBegins
            /\ \A j \in SubIDs : Parting(j)' => Parting(j) \/ (j \in {i} /\ dts[j].state = "live")
        BY <3>2, ClosesMove
      <3>4. NoneBegins
        BY <3>2, <3>3 DEF NoneBegins, Moves, Settling
      <3>5. HandsKept /\ TakesNone
        BY <2>0, <3>1, <3>3, SameHands DEF TakesNone, Taking, Holding, Moves
      <3> QED
        BY <1>b, <2>1, <3>3, <3>4, <3>5, SenderFrame
    <2>2. CASE /\ AttemptFailed /\ dts[i].state = "live"
               /\ cached' = [cached EXCEPT ![t] = i]
               /\ \A j \in SubIDs : j # i => dts'[j] = dts[j]
               /\ dts'[i].t = dts[i].t /\ dts'[i].g = dts[i].g
               /\ dts'[i].state = "closed" /\ ~dts'[i].resume
      <3>1. SubKept /\ worker'.pc = "next"
        BY <2>2, AttemptFailedKept
      <3>2. HandsKept /\ TakesNone
        BY <2>0, <2>2, <3>1, SameHands DEF TakesNone, Taking, Holding
      <3>3. NoneBegins
        BY <2>2 DEF NoneBegins, Parting
      <3>4. PICK k \in SubIDs : k = i
        BY <2>0
      <3>5. Waiting(k) /\ ~Waiting(k)'
        BY <2>2, <3>4 DEF Waiting, Parting
      <3>6. SendersOK'
        <4>1. /\ \A j \in SubIDs : j # k => dts'[j] = dts[j]
              /\ dts'[k].t = dts[k].t /\ dts'[k].state \notin {"none", "live"}
              /\ cached' = [cached EXCEPT ![dts[k].t] = k]
          BY <2>0, <2>2, <3>4
        <4> QED
          BY <1>b, <3>2, <3>5, <4>1, CachingSenders DEF SenderInv
      <3>7. PartingOK' /\ SourcesOK' /\ NoneParts'
        BY <1>b, <3>2, <3>3, SourcesFrame DEF SenderInv
      <3> QED
        BY <3>6, <3>7 DEF SenderInv, LeavesForGood
    <2>3. CASE UNCHANGED <<dts, cached, subVars>> /\ Goto("install")
      <3>1. worker'.pc = "install" /\ worker'.t = t /\ worker'.g = worker.g /\ worker'.i = i
        BY <1>d, <2>3 DEF WorkerPCs
      <3>2. (\A j \in SubIDs : Moves(j)) /\ NoneBegins
        BY <2>3, SameMoves
      <3>3. SubKept
        BY <2>3, SubSame DEF subVars
      <3>4. HandsKept /\ TakesNone
        BY <2>0, <2>3, <3>1, <3>3, SameHands DEF TakesNone, Taking, Holding
      <3> QED
        BY <1>b, <2>3, <3>2, <3>4, SenderFrame
    <2> QED
      BY <1>2, <2>1, <2>2, <2>3, RecheckOpenDoes
  <1>3. CASE Install
    <2>1. /\ worker.pc = "install" /\ worker'.pc = "record" /\ worker'.t = t /\ worker'.g = worker.g
          /\ worker'.i = i /\ UNCHANGED <<sub, cached>>
      BY <1>3, <1>d DEF Install, At, WorkerPCs, subVars
    <2>2. i \in SubIDs /\ dts[i] \in DTType
      BY <1>c, <2>1 DEF Adding
    <2>3. /\ dts'[i] = [dts[i] EXCEPT !.cb = "manager", !.entry = TRUE]
          /\ \A j \in SubIDs : j # i => dts'[j] = dts[j]
      BY <1>3, <2>2 DEF Install, TypeOK, PubTypeOK
    <2>4. /\ dts'[i].t = dts[i].t /\ dts'[i].g = dts[i].g
          /\ dts'[i].state = dts[i].state /\ dts'[i].resume = dts[i].resume
      BY <2>2, <2>3 DEF DTType
    <2> HIDE DEF i
    <2>5. \A j \in SubIDs : /\ dts'[j].t = dts[j].t /\ dts'[j].g = dts[j].g
                            /\ dts'[j].state = dts[j].state /\ dts'[j].resume = dts[j].resume
      BY <2>3, <2>4
    <2>6. (\A j \in SubIDs : Moves(j)) /\ NoneBegins
      BY <2>5, SameMoves
    <2>7. HandsKept /\ TakesNone
      BY <2>1, <2>5, SubSame, SameHands DEF TakesNone, Taking, Holding, i
    <2> QED
      BY <1>b, <2>1, <2>6, <2>7, SenderFrame
  <1>4. CASE SetSubscribedTrack
    <2>1. worker.pc = "record" /\ worker'.pc = "inc" /\ UNCHANGED <<dts, cached>>
      BY <1>4, <1>d DEF SetSubscribedTrack, At, WorkerPCs, dtVars
    <2>2. i \in SubIDs /\ dts[i].t = t
      BY <1>c, <2>1 DEF Adding
    <2>3. \A u \in Tracks : sub'[u].st = IF u = t THEN i ELSE sub[u].st
      BY <1>4, <1>a DEF SetSubscribedTrack, TypeOK, SubType
    <2>4. sub[t].st = 0
      BY <2>1 DEF Ownership
    <2>5. \A j \in SubIDs : dts[j].t \in Tracks
      BY DEF TypeOK, PubTypeOK, DTType
    <2>6. \A j \in SubIDs : j # 0
      BY DEF SubIDs
    <2> HIDE DEF t
    <2>7. HandsKept
      BY <2>1, <2>2, <2>3, <2>4, <2>5, <2>6 DEF HandsKept, InHand, OnRecord
    <2>8. (\A j \in SubIDs : Moves(j)) /\ NoneBegins
      BY <2>1, SameMoves
    <2> QED
      BY <1>b, <2>1, <2>7, <2>8, SenderFrame DEF TakesNone, Taking
  <1>5. CASE IncrementCount \/ MarkSubscribedTo
    <2>1. worker.pc \in {"inc", "mark"} /\ worker'.pc \in {"recheck", "next"} /\ UNCHANGED <<dts, cached>>
      BY <1>5, GotoKept DEF IncrementCount, MarkSubscribedTo, At, WorkerPCs, dtVars
    <2>2. SubKept
      <3> DEFINE s == [sub[t] EXCEPT !.tried = FALSE]
      <3>1. s.st = sub[t].st /\ s.present = sub[t].present
        BY <1>a DEF SubType
      <3>2. sub' = [sub EXCEPT ![t] = s] \/ sub' = sub
        BY <1>5 DEF MarkSubscribedTo, IncrementCount, subVars
      <3> HIDE DEF s
      <3> QED
        BY <1>a, <3>1, <3>2, SetSubKept, SubSame
    <2>3. (\A j \in SubIDs : Moves(j)) /\ NoneBegins
      BY <2>1, SameMoves
    <2>4. HandsKept /\ TakesNone
      BY <2>1, <2>2, SameHands DEF TakesNone, Taking, Holding
    <2> QED
      BY <1>b, <2>1, <2>3, <2>4, SenderFrame
  <1>6. CASE RecheckCanSubscribe
    <2>1. worker.pc = "recheck" /\ UNCHANGED cached
      BY <1>6 DEF RecheckCanSubscribe, At
    <2>2. SubKept /\ worker'.pc \in {"mark", "next"}
      BY <1>6, <1>d, AttemptFailedKept, SubSame DEF RecheckCanSubscribe, WorkerPCs, subVars
    <2>3. UNCHANGED dts \/ dts' = CloseOf({i}, FALSE)
      BY <1>6 DEF RecheckCanSubscribe
    <2>4. (\A j \in SubIDs : Moves(j)) /\ NoneBegins
      BY <2>3, ClosesMove, SameMoves
    <2>5. HandsKept /\ TakesNone
      BY <2>1, <2>2, <2>4, SameHands DEF TakesNone, Taking, Holding, Moves
    <2> QED
      BY <1>b, <2>1, <2>4, <2>5, SenderFrame
  <1> QED
    BY <1>1, <1>2, <1>3, <1>4, <1>5, <1>6

(* Every step preserves it. *)
LEMMA SenderStep ==
  ASSUME TypeOK, TypeOK', Ownership, SenderInv, [Next]_vars
  PROVE  SenderInv'
  <1>0. UNCHANGED inputs
    BY DEF Next, vars
  <1>1. CASE Worker \/ WorkerExit
    BY <1>0, <1>1, ReconcileSenders, ResolveSenders, InsertSenders, SubscribeSenders DEF Worker
  <1>2. CASE \E i \in SubIDs : TrackClose(i)
    BY <1>0, <1>2, CloseSenders
  <1>3. CASE \E t \in Tracks : (Publisher(t) /\ UNCHANGED smVars) \/ ChangePermission(t)
    BY <1>0, <1>3, PublisherSenders, ChangeSenders
  <1>4. CASE ApplyGrant \/ ApplyRevoke \/ SetPermission \/ ParticipantClosed \/ StartClose
    BY <1>0, <1>4, PermissionSenders
  <1>5. CASE \E r \in BOOLEAN : FinishClose(r)
    BY <1>0, <1>5, FinishCloseSenders
  <1>6. CASE \/ \E t \in Tracks : \/ SubscribeToTrack(t) \/ ClientUnsubscribe(t)
                                  \/ UpdateSubscribedTrackSettings(t)
             \/ ClearAllSubscriptions
    BY <1>0, <1>6, ClientSenders, SomeIDs
  <1>7. ASSUME NEW t \in Tracks, NEW g \in Gens, NEW i \in SubIDs, NEW ok \in BOOLEAN, NEW o,
               \/ RemoveSubscriber(t, g) \/ DelayedReconcile(t) \/ RemoveObserver(o)
               \/ TrackChanged(t) \/ TrackRemoved(t) \/ HandleSourceTrackRemoved(t)
               \/ Bound(i, ok) \/ BindCallback(i, ok) \/ Age(t)
        PROVE  SenderInv'
    BY <1>0, <1>7, CallbackSenders
  <1>8. CASE Goroutine
    <2>1. \A b \in binds : b[1] \in SubIDs /\ b[2] \in BOOLEAN
      BY DEF TypeOK
    <2>2. CASE \E b \in binds : BindCallback(b[1], b[2])
      BY <1>7, <2>1, <2>2, SomeIDs
    <2> QED
      BY <1>2, <1>4, <1>7, <1>8, <2>2, SomeIDs DEF Goroutine
  <1>9. CASE Environment
    BY <1>3, <1>4, <1>6, <1>7, <1>9, SomeIDs DEF Environment
  <1>10. CASE UNCHANGED vars
    BY <1>10, SubSame, QuietStep DEF vars, sysVars, smVars, subVars, dtVars, pubVars, envVars
  <1> QED
    BY <1>1, <1>3, <1>5, <1>8, <1>9, <1>10 DEF Next, Step

(* No sender in the beginning. *)
LEMMA SenderInit ==
  ASSUME Init, LeavesForGood
  PROVE  SenderInv
  <1>1. worker.pc = "idle" /\ \A i \in SubIDs : dts[i].state = "none"
    BY DEF Init, PubInit, Idle, NoDT
  <1>2. \A t \in Tracks : sub[t].st = 0
    BY DEF Init, NoSub, NewSub
  <1>3. \A i \in SubIDs : dts[i].t \in Tracks /\ i # 0
    <2>1. \A i \in SubIDs : dts[i] = NoDT
      BY DEF Init, PubInit
    <2>2. \A i \in SubIDs : i # 0
      BY DEF SubIDs
    <2> QED
      BY <2>1, <2>2, NoDTType DEF DTType
  <1>4. SendersOK
    <2>1. senders = {}
      BY DEF Init, PubInit
    <2> QED
      BY <1>1, <1>2, <1>3, <2>1 DEF SendersOK, Attached, OneWaits, LatestInHand, Waiting, Parting
  <1>5. PartingOK /\ NoneParts
    BY <1>1 DEF PartingOK, NoneParts, Parting
  <1>6. SourcesOK
    BY <1>1 DEF SourcesOK, Init, PubInit
  <1> QED
    BY <1>4, <1>5, <1>6 DEF SenderInv

(* Where every RTP sender of the subscriber stands, whatever subscribes,      *)
(* closes and re-publications overlap: in use, on its way out, or in the      *)
(* cache, which never has to hold two of a track.                             *)
THEOREM SendersInvariant == Spec /\ LeavesForGood => []SenderInv
  <1>1. TypeOK /\ TypeOK' /\ Ownership /\ SenderInv /\ [Next]_vars => SenderInv'
    BY SenderStep
  <1>2. Init /\ LeavesForGood => SenderInv
    BY SenderInit
  <1> QED
    BY <1>1, <1>2, OwnershipHolds, PTL DEF Spec

(* The sender of an earlier subscription never stays beside a newer one: it   *)
(* is on its way to RemoveTrackLocal, or in the cache to resume.              *)
THEOREM SendersDoNotPileUp == Spec /\ LeavesForGood => []OneSenderPerTrack
  <1>1. TypeOK /\ Ownership /\ SenderInv => OneSenderPerTrack
    <2> SUFFICES ASSUME TypeOK, Ownership, SenderInv, NEW i \in SubIDs, NEW j \in SubIDs, NEW t \in Tracks,
                        i < j, <<t, i>> \in senders, <<t, j>> \in senders
                 PROVE  cached[t] = i \/ dts[i].state \in {"closing"} \cup Settling
      BY DEF OneSenderPerTrack, Settling
    <2>1. /\ dts[i].t = t /\ dts[i].state # "none"
          /\ dts[i].state = "closed" => cached[t] = i \/ OnRecord(i)
          /\ dts[j].t = t /\ dts[j].state # "none"
      BY DEF SenderInv, SendersOK, Attached
    <2>2. dts[i].state \in DTStates /\ dts[i].cb \in {"default", "manager"}
      BY DEF TypeOK, PubTypeOK, DTType
    <2>3. ~InHand(i)
      <3>1. ~(j <= i)
        BY DEF SubIDs
      <3> QED
        BY <2>1, <3>1 DEF SenderInv, SendersOK, LatestInHand
    <2>4. dts[i].state # "live"
      BY <2>2, <2>3 DEF Ownership, InHand, OnRecord
    <2> QED
      BY <2>1, <2>2, <2>3, <2>4 DEF DTStates, Settling, InHand
  <1> QED
    BY <1>1, OwnershipHolds, SendersInvariant, PTL

=============================================================================
