----------------------- MODULE TrackPublicationProofs -----------------------
(***************************************************************************)
(* Proofs about TrackPublication for every number of client IDs, requests, *)
(* media, mutes and changes of permission, in every room of RoomLifecycle: *)
(* the limits on requests, that a mute reaches the track wherever it is,   *)
(* that media and requests which wait are not forgotten, and that the room *)
(* does not keep a track that has ended.                                   *)
(***************************************************************************)
EXTENDS TrackPublication, RoomLifecycleProofs, SequenceTheorems

USE PublishAssumption

-----------------------------------------------------------------------------
(* The inductive invariant.                                                 *)

TaskNames == Calls \union Media \union Closes
MaybeTrack == Tracks \union {NoTrack}

InfoRecord    == [sid : Sids, muted : BOOLEAN, want : BOOLEAN]
PendingRecord == [infos : Seq(InfoRecord), queued : BOOLEAN]

ObjectRecord == [cid : Cids \union {"none"}, sid : Sids \union {0}, state : {"none", "open", "closed"},
                 receiver : BOOLEAN, muted : BOOLEAN, want : BOOLEAN]

Attached == {"attach", "permit", "removing"}     \* onMediaTrack has found, or made, the track
Handling == {"handle"} \union Attached

TaskRecord == [pc : Handling \union {"idle", "take", "list", "remove", "pending", "track", "clear", "uptracks",
                                     "close", "promote", "unpublish", "end"},
               todo : SUBSET Media, track : MaybeTrack, sid : Sids \union {0},
               new : BOOLEAN, wait : BOOLEAN, list : SUBSET Tracks]

PublishTypes ==
    /\ tscope \in PublishScope /\ adds \in Nat
    /\ pend \in [Cids -> PendingRecord]
    /\ remote \in SUBSET Media /\ arrived \in SUBSET Media /\ registry \in SUBSET Tracks
    /\ published \in [Sids -> MaybeTrack]
    /\ tracks \in [Tracks -> ObjectRecord]
    /\ announcing \in [Tracks -> {"none", "load", "add"}]
    /\ tasks \in [TaskNames -> TaskRecord]

(* Where every kind of task may be. *)
PcOK(t, pc) ==
    /\ t = Signal => pc \in Handling \union {"idle", "take"}
    /\ t = Admin  => pc \in {"idle", "list", "remove", "removing"}
    /\ t = Mute   => pc \in {"idle", "pending", "track"}
    /\ t = Closer => pc \in {"idle", "clear", "uptracks", "close", "end"}
    /\ t \in Media  => pc \in Handling \union {"idle"}
    /\ t \in Closes => pc \in Handling \union {"idle", "take", "close", "promote", "unpublish", "end"}

Created(o) == tracks[o].state # "none"

(* A task holds objects that exist, and media that nobody else holds. *)
TaskOK(t) ==
    /\ PcOK(t, tasks[t].pc)
    /\ tasks[t].pc \in Attached => tasks[t].track \in Tracks /\ Created(tasks[t].track)
    /\ \A o \in tasks[t].list : Created(o)
    /\ \A m \in tasks[t].todo :
          /\ m \in arrived \ remote /\ ~Created(m)
          /\ \A u \in TaskNames : u # t => m \notin tasks[u].todo

RemoteOK == \A m \in remote : m \in arrived /\ ~Created(m)

(* An object, once made, has the client ID of its media and a track ID; its   *)
(* Close runs once, and ends with the room forgetting it.                     *)
ObjectOK(o) ==
    /\ Created(o) => o \in arrived /\ tracks[o].cid = o[1] /\ tracks[o].sid \in Sids
    /\ tracks[o].state = "closed" <=> tasks[CloseOf(o)].pc # "idle"
    /\ tasks[CloseOf(o)].pc = "end" => o \notin registry \ unheard
    /\ o \in registry \/ announcing[o] # "none" => Created(o)

(* A track is listed under its own ID, until the callbacks of Close run. *)
ListedOK ==
    \A d \in Sids : published[d] # NoTrack =>
        /\ Created(published[d]) /\ tracks[published[d]].sid = d
        /\ Open(published[d]) \/ tasks[CloseOf(published[d])].pc = "close"

LimitsOK ==
    /\ Cardinality(PendingCids(pend)) <= MaxPending
    /\ \A c \in Cids : Len(pend[c].infos) <= MaxQueued /\ (pend[c].queued => pend[c].infos # <<>>)

(* Requests of one client ID share the track ID. *)
SharedSid ==
    \A c \in Cids : \A i, j \in DOMAIN pend[c].infos : pend[c].infos[i].sid = pend[c].infos[j].sid

(* What differs from the mute that is wanted is on the way of the mute that   *)
(* is being applied: first the requests, then the track.                      *)
MuteOK ==
    /\ tasks[Mute].pc # "idle" => tasks[Mute].sid \in Sids
    /\ \A c \in Cids : \A i \in DOMAIN pend[c].infos :
          \/ pend[c].infos[i].muted = pend[c].infos[i].want
          \/ tasks[Mute].pc = "pending" /\ pend[c].infos[i].sid = tasks[Mute].sid
    /\ \A d \in Sids : published[d] # NoTrack =>
          \/ tracks[published[d]].muted = tracks[published[d]].want
          \/ tasks[Mute].pc # "idle" /\ d = tasks[Mute].sid

(* Media waits beside a request whose turn it is only until somebody looks. *)
WaitingOK ==
    \A m \in remote : \/ pend[m[1]].infos = <<>> \/ pend[m[1]].queued
                      \/ \E t \in TaskNames : tasks[t].pc = "take"

(* A request is queued behind a track of its client ID that has yet to end. *)
EndsLater(o) == Open(o) \/ tasks[CloseOf(o)].pc \in {"close", "promote"}

QueuedOK ==
    \A c \in Cids : pend[c].queued => \E o \in Tracks : tracks[o].cid = c /\ EndsLater(o)

TracksInv ==
    /\ PublishTypes /\ RemoteOK /\ ListedOK /\ LimitsOK /\ SharedSid
    /\ MuteOK /\ WaitingOK /\ QueuedOK
    /\ \A t \in TaskNames : TaskOK(t)
    /\ \A o \in Tracks : ObjectOK(o)

PublishInv == RoomsInv /\ TracksInv

-----------------------------------------------------------------------------
(* Names.                                                                   *)

LEMMA NoTrackIsNone == NoTrack \notin Tracks /\ \A o \in Tracks : o[1] \in Cids
  BY DEF NoTrack, Tracks, Media

(* Tasks of different kinds are different, and every object has its own Close. *)
LEMMA NamesDiffer ==
    /\ Signal # Admin /\ Signal # Mute /\ Signal # Closer /\ Admin # Mute /\ Admin # Closer /\ Mute # Closer
    /\ Calls \intersect Media = {} /\ Calls \intersect Closes = {} /\ Media \intersect Closes = {}
    /\ \A o \in Tracks : CloseOf(o) \in Closes
    /\ \A o, q \in Tracks : CloseOf(o) = CloseOf(q) => o = q
  <1>1. /\ Signal # Admin /\ Signal # Mute /\ Signal # Closer /\ Admin # Mute /\ Admin # Closer /\ Mute # Closer
    BY DEF Signal, Admin, Mute, Closer
  <1>2. Calls \intersect Media = {}
    BY DEF Calls, Signal, Admin, Mute, Closer, Media
  <1>3. \A o \in Tracks : CloseOf(o) \in Closes
    BY DEF Closes
  <1>4. \A t \in Closes : Len(t) = 3
    BY DEF Closes, CloseOf, Tracks, Media
  <1>5. \A t \in Calls \union Media : Len(t) = 2
    BY DEF Calls, Signal, Admin, Mute, Closer, Media
  <1>6. \A o, q \in Tracks : CloseOf(o) = CloseOf(q) => o = q
    <2> SUFFICES ASSUME NEW o \in Tracks, NEW q \in Tracks, CloseOf(o) = CloseOf(q) PROVE o = q
      OBVIOUS
    <2>1. o[1] = q[1] /\ o[2] = q[2]
      BY DEF CloseOf
    <2>2. QED
      BY <2>1 DEF Tracks, Media
  <1>7. QED
    BY <1>1, <1>2, <1>3, <1>4, <1>5, <1>6

-----------------------------------------------------------------------------
(* Initially.                                                               *)

LEMMA PublishInitInv == PublishInit => PublishInv
  <1> SUFFICES ASSUME PublishInit PROVE PublishInv
    OBVIOUS
  <1>1. RoomsInv
    BY RoomsInitInv DEF PublishInit
  <1>2. <<>> \in Seq(InfoRecord) /\ DOMAIN <<>> = {} /\ Len(<<>>) = 0
    BY EmptySeq
  <1>3. NoTask \in TaskRecord /\ NoObject \in ObjectRecord /\ NotPending \in PendingRecord
    BY <1>2 DEF NoTask, TaskRecord, NoObject, ObjectRecord, NotPending, PendingRecord, MaybeTrack
  <1>4. PublishTypes
    BY <1>3 DEF PublishInit, PublishTypes, TaskNames, MaybeTrack
  <1>5. \A t \in TaskNames : TaskOK(t)
    BY NamesDiffer DEF PublishInit, TaskOK, PcOK, Attached, Handling, NoTask, TaskNames
  <1>6. \A o \in Tracks : ObjectOK(o)
    BY NamesDiffer DEF PublishInit, ObjectOK, Created, NoObject, NoTask
  <1>7. LimitsOK
    <2>1. PendingCids(pend) = {}
      BY DEF PublishInit, PendingCids, NotPending
    <2>2. Cardinality(PendingCids(pend)) <= MaxPending
      BY <2>1, FS_EmptySet
    <2>3. QED
      BY <1>2, <2>2 DEF PublishInit, LimitsOK, NotPending
  <1>8. RemoteOK /\ ListedOK /\ SharedSid /\ WaitingOK /\ QueuedOK
    BY <1>2 DEF PublishInit, RemoteOK, ListedOK, SharedSid, WaitingOK, QueuedOK, NotPending
  <1>9. MuteOK
    BY <1>2 DEF PublishInit, MuteOK, NoTask, NotPending, Calls
  <1>10. QED
    BY <1>1, <1>4, <1>5, <1>6, <1>7, <1>8, <1>9 DEF PublishInv, TracksInv

-----------------------------------------------------------------------------
(* Steps that leave the media alone.                                        *)

LEMMA RequestsFrame ==
    ASSUME TracksInv, PublishTypes', UNCHANGED <<remote, arrived>>,
           \A t \in TaskNames :
              /\ PcOK(t, tasks'[t].pc)
              /\ tasks'[t].pc \in Attached => tasks'[t].track \in Tracks /\ Created(tasks'[t].track)
              /\ \A o \in tasks'[t].list : Created(o)
              /\ tasks'[t].todo \subseteq tasks[t].todo,
           \A o \in Tracks :
              /\ tracks'[o].state = "none" <=> tracks[o].state = "none"
              /\ tracks'[o].cid = tracks[o].cid /\ tracks'[o].sid = tracks[o].sid
              /\ tracks'[o].state = "closed" <=> tasks'[CloseOf(o)].pc # "idle"
              /\ tasks'[CloseOf(o)].pc = "end" => o \notin registry' \ unheard'
              /\ o \in registry' \/ announcing'[o] # "none" => Created(o),
           \A d \in Sids : published'[d] # NoTrack =>
              /\ published'[d] = published[d]
              /\ tracks'[published[d]].state = "open" \/ tasks'[CloseOf(published[d])].pc = "close",
           LimitsOK', SharedSid', MuteOK', WaitingOK', QueuedOK'
    PROVE  TracksInv'
  <1>t. PublishTypes /\ PublishTypes'
    BY DEF TracksInv
  <1>1. \A t \in TaskNames : TaskOK(t)'
    <2> SUFFICES ASSUME NEW t \in TaskNames PROVE TaskOK(t)'
      OBVIOUS
    <2>1. tasks'[t].list \subseteq Tracks /\ tasks'[t].todo \subseteq Tracks
      BY <1>t DEF PublishTypes, TaskRecord, Tracks
    <2>2. TaskOK(t)
      BY DEF TracksInv
    <2>3. QED
      BY <2>1, <2>2 DEF TaskOK, Created
  <1>2. RemoteOK'
    BY <1>t DEF TracksInv, RemoteOK, Created, PublishTypes, Tracks
  <1>3. \A o \in Tracks : ObjectOK(o)'
    BY DEF TracksInv, ObjectOK, Created
  <1>4. ListedOK'
    <2> SUFFICES ASSUME NEW d \in Sids, published'[d] # NoTrack
                 PROVE  /\ Created(published[d])' /\ tracks'[published[d]].sid = d
                        /\ tracks'[published[d]].state = "open" \/ tasks'[CloseOf(published[d])].pc = "close"
      BY DEF ListedOK, Open, Created
    <2>1. published[d] = published'[d] /\ published[d] \in Tracks
      BY <1>t DEF PublishTypes, MaybeTrack
    <2>2. Created(published[d]) /\ tracks[published[d]].sid = d
      BY <2>1 DEF TracksInv, ListedOK
    <2>3. QED
      BY <2>1, <2>2 DEF Created
  <1>5. QED
    BY <1>1, <1>2, <1>3, <1>4 DEF TracksInv

(* ... and the requests too. *)
LEMMA TracksFrame ==
    ASSUME TracksInv, PublishTypes', UNCHANGED <<pend, remote, arrived>>, tasks'[Mute] = tasks[Mute],
           \A t \in TaskNames :
              /\ PcOK(t, tasks'[t].pc)
              /\ tasks'[t].pc \in Attached => tasks'[t].track \in Tracks /\ Created(tasks'[t].track)
              /\ \A o \in tasks'[t].list : Created(o)
              /\ tasks'[t].todo \subseteq tasks[t].todo
              /\ tasks[t].pc = "take" => tasks'[t].pc = "take",
           \A o \in Tracks :
              /\ tracks'[o].state = "none" <=> tracks[o].state = "none"
              /\ tracks'[o].cid = tracks[o].cid /\ tracks'[o].sid = tracks[o].sid
              /\ tracks'[o].muted = tracks[o].muted /\ tracks'[o].want = tracks[o].want
              /\ tracks'[o].state = "closed" <=> tasks'[CloseOf(o)].pc # "idle"
              /\ tasks'[CloseOf(o)].pc = "end" => o \notin registry' \ unheard'
              /\ o \in registry' \/ announcing'[o] # "none" => Created(o)
              /\ EndsLater(o) => tracks'[o].state = "open" \/ tasks'[CloseOf(o)].pc \in {"close", "promote"},
           \A d \in Sids : published'[d] # NoTrack =>
              /\ published'[d] = published[d]
              /\ tracks'[published[d]].state = "open" \/ tasks'[CloseOf(published[d])].pc = "close"
    PROVE  TracksInv'
  <1>1. LimitsOK' /\ SharedSid'
    BY DEF TracksInv, LimitsOK, SharedSid, PendingCids
  <1>2. MuteOK'
    <2>1. \A d \in Sids : published'[d] # NoTrack =>
            published[d] = published'[d] /\ published[d] \in Tracks
      BY DEF PublishTypes, MaybeTrack
    <2>2. QED
      BY <2>1 DEF TracksInv, MuteOK
  <1>3. WaitingOK'
    BY DEF TracksInv, WaitingOK
  <1>4. QueuedOK'
    BY DEF TracksInv, QueuedOK, EndsLater, Open
  <1>5. QED
    BY <1>1, <1>2, <1>3, <1>4, RequestsFrame

(* A step of one task, which may also take tracks off the list. *)
LEMMA TaskFrame ==
    ASSUME TracksInv, NEW t \in TaskNames, NEW v \in TaskRecord, tasks' = [tasks EXCEPT ![t] = v], t # Mute,
           UNCHANGED <<tscope, adds, pend, remote, arrived, tracks, announcing, unheard>>,
           registry' \subseteq registry, published' \in [Sids -> MaybeTrack],
           \A d \in Sids : published'[d] \in {published[d], NoTrack},
           PcOK(t, v.pc), v.pc \in Attached => v.track \in Tracks /\ Created(v.track),
           \A o \in v.list : Created(o), v.todo \subseteq tasks[t].todo, tasks[t].pc # "take",
           t \in Closes => tasks[t].pc \in Handling /\ v.pc \in Handling \union {"unpublish"}
    PROVE  TracksInv'
  <1>t. PublishTypes /\ tasks \in [TaskNames -> TaskRecord]
    BY DEF TracksInv, PublishTypes
  <1>1. PublishTypes'
    BY <1>t DEF PublishTypes
  <1>2. \A u \in TaskNames : tasks'[u] = IF u = t THEN v ELSE tasks[u]
    BY <1>t
  <1>3. Mute \in TaskNames /\ tasks'[Mute] = tasks[Mute]
    BY <1>2 DEF TaskNames, Calls
  <1>4. \A u \in TaskNames :
              /\ PcOK(u, tasks'[u].pc)
              /\ tasks'[u].pc \in Attached => tasks'[u].track \in Tracks /\ Created(tasks'[u].track)
              /\ \A o \in tasks'[u].list : Created(o)
              /\ tasks'[u].todo \subseteq tasks[u].todo
              /\ tasks[u].pc = "take" => tasks'[u].pc = "take"
    BY <1>2 DEF TracksInv, TaskOK
  <1>5. \A o \in Tracks : CloseOf(o) \in TaskNames /\ CloseOf(o) \in Closes
    BY NamesDiffer DEF TaskNames
  <1>6. \A o \in Tracks :
              \/ tasks'[CloseOf(o)].pc = tasks[CloseOf(o)].pc
              \/ tasks[CloseOf(o)].pc \in Handling /\ tasks'[CloseOf(o)].pc \in Handling \union {"unpublish"}
    BY <1>2, <1>5
  <1>7. \A o \in Tracks :
              /\ tracks'[o].state = "closed" <=> tasks'[CloseOf(o)].pc # "idle"
              /\ tasks'[CloseOf(o)].pc = "end" => o \notin registry' \ unheard'
              /\ o \in registry' \/ announcing'[o] # "none" => Created(o)
              /\ EndsLater(o) => tracks'[o].state = "open" \/ tasks'[CloseOf(o)].pc \in {"close", "promote"}
    BY <1>6 DEF TracksInv, ObjectOK, EndsLater, Open, Handling, Attached
  <1>8. \A d \in Sids : published'[d] # NoTrack =>
              /\ published'[d] = published[d]
              /\ tracks'[published[d]].state = "open" \/ tasks'[CloseOf(published[d])].pc = "close"
    <2> SUFFICES ASSUME NEW d \in Sids, published'[d] # NoTrack
                 PROVE  tracks[published[d]].state = "open" \/ tasks'[CloseOf(published[d])].pc = "close"
      OBVIOUS
    <2>1. published[d] \in Tracks
      BY <1>t DEF PublishTypes, MaybeTrack
    <2>2. tracks[published[d]].state = "open" \/ tasks[CloseOf(published[d])].pc = "close"
      BY DEF TracksInv, ListedOK, Open
    <2>3. QED
      BY <2>1, <2>2, <1>6 DEF Handling, Attached
  <1>9. QED
    BY <1>1, <1>3, <1>4, <1>7, <1>8, TracksFrame

(* Close of an object that is open, by whoever; t is the task of the closer,  *)
(* the Close itself when the receiver has ended.                              *)
LEMMA CloseFrame ==
    ASSUME TracksInv, NEW o \in Tracks, Open(o), NEW t \in TaskNames, t # Mute,
           tracks' = [tracks EXCEPT ![o].state = "closed"],
           UNCHANGED <<tscope, adds, pend, remote, arrived, announcing, registry, published, unheard>>,
           tasks' \in [TaskNames -> TaskRecord],
           \A u \in TaskNames : u \notin {t, CloseOf(o)} => tasks'[u] = tasks[u],
           tasks'[CloseOf(o)].pc = "close", tasks'[CloseOf(o)].todo \subseteq tasks[CloseOf(o)].todo,
           tasks'[CloseOf(o)].list \subseteq tasks[CloseOf(o)].list,
           PcOK(t, tasks'[t].pc), tasks'[t].pc \in Attached => tasks'[t].track \in Tracks /\ Created(tasks'[t].track),
           \A q \in tasks'[t].list : Created(q), tasks'[t].todo \subseteq tasks[t].todo,
           tasks[t].pc # "take",
           t \in Closes => t = CloseOf(o) \/ (tasks[t].pc \in Handling /\ tasks'[t].pc \in Handling)
    PROVE  TracksInv'
  <1>t. PublishTypes /\ tracks \in [Tracks -> ObjectRecord]
    BY DEF TracksInv, PublishTypes
  <1>0. /\ tracks' \in [Tracks -> ObjectRecord] /\ tracks'[o].state = "closed"
        /\ \A q \in Tracks : q # o => tracks'[q] = tracks[q]
        /\ \A q \in Tracks : /\ tracks'[q].cid = tracks[q].cid /\ tracks'[q].sid = tracks[q].sid
                             /\ tracks'[q].muted = tracks[q].muted /\ tracks'[q].want = tracks[q].want
                             /\ tracks'[q].state = "none" <=> tracks[q].state = "none"
    BY <1>t DEF ObjectRecord, Open
  <1>1. PublishTypes'
    BY <1>t, <1>0 DEF PublishTypes
  <1>5. \A q \in Tracks : CloseOf(q) \in TaskNames /\ CloseOf(q) \in Closes /\ CloseOf(q) # Mute
                          /\ (q # o => CloseOf(q) # CloseOf(o))
    BY NamesDiffer DEF TaskNames, Calls
  <1>2. tasks[CloseOf(o)].pc = "idle"
    BY DEF TracksInv, ObjectOK, Open
  <1>3. Mute \in TaskNames /\ tasks'[Mute] = tasks[Mute]
    BY <1>5 DEF TaskNames, Calls
  <1>4. \A u \in TaskNames :
              /\ PcOK(u, tasks'[u].pc)
              /\ tasks'[u].pc \in Attached => tasks'[u].track \in Tracks /\ Created(tasks'[u].track)
              /\ \A q \in tasks'[u].list : Created(q)
              /\ tasks'[u].todo \subseteq tasks[u].todo
              /\ tasks[u].pc = "take" => tasks'[u].pc = "take"
    <2> SUFFICES ASSUME NEW u \in TaskNames
                 PROVE  /\ PcOK(u, tasks'[u].pc)
                        /\ tasks'[u].pc \in Attached => tasks'[u].track \in Tracks /\ Created(tasks'[u].track)
                        /\ \A q \in tasks'[u].list : Created(q)
                        /\ tasks'[u].todo \subseteq tasks[u].todo
                        /\ tasks[u].pc = "take" => tasks'[u].pc = "take"
      OBVIOUS
    <2>1. TaskOK(u)
      BY DEF TracksInv
    <2>2. CASE u \notin {t, CloseOf(o)}
      BY <2>1, <2>2 DEF TaskOK
    <2>3. CASE u = t
      BY <2>3
    <2>4. CASE u = CloseOf(o)
      <3>1. PcOK(u, "close")
        BY <2>4, <1>5, NamesDiffer DEF PcOK, Calls
      <3>2. QED
        BY <2>1, <2>4, <3>1, <1>2 DEF TaskOK, Attached
    <2>5. QED
      BY <2>2, <2>3, <2>4
  <1>6. \A q \in Tracks : q # o =>
              \/ tasks'[CloseOf(q)].pc = tasks[CloseOf(q)].pc
              \/ tasks[CloseOf(q)].pc \in Handling /\ tasks'[CloseOf(q)].pc \in Handling
    BY <1>5
  <1>7. \A q \in Tracks :
              /\ tracks'[q].state = "closed" <=> tasks'[CloseOf(q)].pc # "idle"
              /\ tasks'[CloseOf(q)].pc = "end" => q \notin registry' \ unheard'
              /\ q \in registry' \/ announcing'[q] # "none" => Created(q)
              /\ EndsLater(q) => tracks'[q].state = "open" \/ tasks'[CloseOf(q)].pc \in {"close", "promote"}
    <2> SUFFICES ASSUME NEW q \in Tracks
                 PROVE  /\ tracks'[q].state = "closed" <=> tasks'[CloseOf(q)].pc # "idle"
                        /\ tasks'[CloseOf(q)].pc = "end" => q \notin registry' \ unheard'
                        /\ q \in registry' \/ announcing'[q] # "none" => Created(q)
                        /\ EndsLater(q) => tracks'[q].state = "open" \/ tasks'[CloseOf(q)].pc \in {"close", "promote"}
      OBVIOUS
    <2>1. ObjectOK(q)
      BY DEF TracksInv
    <2>2. CASE q = o
      BY <2>1, <2>2, <1>0 DEF ObjectOK, EndsLater, Open
    <2>3. CASE q # o
      BY <2>1, <2>3, <1>0, <1>6 DEF ObjectOK, EndsLater, Open, Handling, Attached
    <2>4. QED
      BY <2>2, <2>3
  <1>8. \A d \in Sids : published'[d] # NoTrack =>
              /\ published'[d] = published[d]
              /\ tracks'[published[d]].state = "open" \/ tasks'[CloseOf(published[d])].pc = "close"
    <2> SUFFICES ASSUME NEW d \in Sids, published'[d] # NoTrack
                 PROVE  tracks'[published[d]].state = "open" \/ tasks'[CloseOf(published[d])].pc = "close"
      OBVIOUS
    <2>1. published[d] \in Tracks
      BY <1>t DEF PublishTypes, MaybeTrack
    <2>2. tracks[published[d]].state = "open" \/ tasks[CloseOf(published[d])].pc = "close"
      BY DEF TracksInv, ListedOK, Open
    <2>3. CASE published[d] = o
      BY <2>3
    <2>4. CASE published[d] # o
      BY <2>1, <2>2, <2>4, <1>0, <1>6 DEF Handling, Attached
    <2>5. QED
      BY <2>3, <2>4
  <1>9. QED
    BY <1>0, <1>1, <1>3, <1>4, <1>7, <1>8, TracksFrame

(* CloseTrack by a task, which then waits for the callbacks if it was first. *)
LEMMA CloseTrackInv ==
    ASSUME TracksInv, NEW o \in Tracks, Created(o), NEW t \in TaskNames, t # Mute,
           NEW v \in TaskRecord, CloseTrack(o, t, v),
           UNCHANGED <<tscope, adds, pend, remote, arrived, announcing, registry, published, unheard>>,
           PcOK(t, v.pc), v.pc \in Attached => v.track \in Tracks /\ Created(v.track),
           \A q \in v.list : Created(q), v.todo \subseteq tasks[t].todo, tasks[t].pc # "take",
           t \in Closes => tasks[t].pc \in Handling /\ v.pc \in Handling
    PROVE  TracksInv'
  <1>t. PublishTypes /\ tasks \in [TaskNames -> TaskRecord] /\ published \in [Sids -> MaybeTrack]
    BY DEF TracksInv, PublishTypes
  <1>c. CloseOf(o) \in TaskNames /\ CloseOf(o) \in Closes
    BY NamesDiffer DEF TaskNames
  <1>1. CASE ~Open(o)
    <2> DEFINE w == [v EXCEPT !.wait = FALSE]
    <2>1. w \in TaskRecord /\ w.pc = v.pc /\ w.track = v.track /\ w.list = v.list /\ w.todo = v.todo
      BY DEF TaskRecord
    <2>2. tasks' = [tasks EXCEPT ![t] = w] /\ UNCHANGED tracks
      BY <1>1 DEF CloseTrack, SetTask, Open
    <2> HIDE DEF w
    <2>3. QED
      BY <1>t, <2>1, <2>2, TaskFrame
  <1>2. CASE Open(o)
    <2> DEFINE w == [v EXCEPT !.wait = TRUE]
               x == [tasks[CloseOf(o)] EXCEPT !.pc = "close"]
    <2>1. w \in TaskRecord /\ w.pc = v.pc /\ w.track = v.track /\ w.list = v.list /\ w.todo = v.todo
      BY DEF TaskRecord
    <2>2. /\ x \in TaskRecord /\ x.pc = "close" /\ x.todo = tasks[CloseOf(o)].todo
          /\ x.list = tasks[CloseOf(o)].list
      BY <1>t, <1>c DEF TaskRecord
    <2>3. tasks[CloseOf(o)].pc = "idle"
      BY <1>2 DEF TracksInv, ObjectOK, Open
    <2>4. t # CloseOf(o)
      BY <2>3, <1>c DEF Handling, Attached
    <2>5. /\ tasks' = [tasks EXCEPT ![CloseOf(o)] = x, ![t] = w]
          /\ tracks' = [tracks EXCEPT ![o].state = "closed"]
      BY <1>2 DEF CloseTrack, Open
    <2> HIDE DEF w, x
    <2>6. /\ tasks' \in [TaskNames -> TaskRecord] /\ tasks'[CloseOf(o)] = x /\ tasks'[t] = w
          /\ \A u \in TaskNames : u \notin {t, CloseOf(o)} => tasks'[u] = tasks[u]
      BY <1>t, <1>c, <2>1, <2>2, <2>4, <2>5
    <2>7. QED
      BY <1>2, <2>1, <2>2, <2>5, <2>6, CloseFrame
  <1>3. QED
    BY <1>1, <1>2

LEMMA ReceiverEndsInv ==
    ASSUME TracksInv, NEW o \in Tracks, ReceiverEnds(o)
    PROVE  TracksInv'
  <1>t. PublishTypes /\ tasks \in [TaskNames -> TaskRecord]
    BY DEF TracksInv, PublishTypes
  <1>c. CloseOf(o) \in TaskNames /\ CloseOf(o) \in Closes /\ CloseOf(o) # Mute
    BY NamesDiffer DEF TaskNames, Calls
  <1> DEFINE x == [NoTask EXCEPT !.pc = "close"]
  <1>1. x \in TaskRecord /\ x.pc = "close" /\ x.todo = {} /\ x.list = {}
    BY DEF TaskRecord, NoTask, MaybeTrack
  <1>2. /\ Open(o) /\ tracks' = [tracks EXCEPT ![o].state = "closed"] /\ tasks' = [tasks EXCEPT ![CloseOf(o)] = x]
        /\ UNCHANGED <<tscope, adds, pend, remote, arrived, announcing, registry, published, unheard>>
    BY DEF ReceiverEnds, SetTask, Open
  <1> HIDE DEF x
  <1>3. /\ tasks' \in [TaskNames -> TaskRecord] /\ tasks'[CloseOf(o)] = x
        /\ \A u \in TaskNames : u # CloseOf(o) => tasks'[u] = tasks[u]
    BY <1>t, <1>c, <1>1, <1>2
  <1>4. PcOK(CloseOf(o), "close")
    BY <1>c, NamesDiffer DEF PcOK, Calls
  <1>5. tasks[CloseOf(o)].pc = "idle"
    BY <1>2 DEF TracksInv, ObjectOK, Open
  <1>6. tasks'[CloseOf(o)].pc \notin Attached
    BY <1>1, <1>3 DEF Attached
  <1>7. QED
    BY <1>c, <1>1, <1>2, <1>3, <1>4, <1>5, <1>6, CloseFrame

-----------------------------------------------------------------------------
(* Media and its handlers.                                                  *)

(* Who is in onMediaTrack, or removes a track. *)
LEMMA HandlerIs ==
    ASSUME TracksInv, NEW t \in TaskNames, tasks[t].pc \in Handling
    PROVE  /\ t # Mute /\ t # Closer /\ tasks[t] \in TaskRecord
           /\ t = Admin => tasks[t].pc = "removing" /\ PcOK(t, "remove")
           /\ t # Admin => \A pc \in Handling : PcOK(t, pc)
           /\ t \in Closes => PcOK(t, "unpublish")
           /\ t \notin Closes /\ t # Admin => PcOK(t, "idle")
  <1>1. PcOK(t, tasks[t].pc) /\ tasks[t] \in TaskRecord
    BY DEF TracksInv, TaskOK, PublishTypes
  <1>2. t # Mute /\ t # Closer
    BY <1>1 DEF PcOK, Handling, Attached
  <1>3. t = Admin => tasks[t].pc = "removing"
    BY <1>1, NamesDiffer DEF PcOK, Handling, Attached
  <1>4. t = Admin => t \notin Media /\ t \notin Closes
    BY NamesDiffer DEF Calls
  <1>5. t = Admin => PcOK(t, "remove")
    BY <1>4, NamesDiffer DEF PcOK
  <1>6. t # Admin => \A pc \in Handling : PcOK(t, pc)
    BY <1>2 DEF PcOK
  <1>7. t \in Closes => PcOK(t, "unpublish")
    BY NamesDiffer DEF PcOK, Calls
  <1>8. t \notin Closes /\ t # Admin => PcOK(t, "idle")
    BY <1>2 DEF PcOK
  <1>9. QED
    BY <1>1, <1>2, <1>3, <1>5, <1>6, <1>7, <1>8

LEMMA AddReceiverInv ==
    ASSUME TracksInv, NEW t \in TaskNames, AddReceiver(t)
    PROVE  TracksInv'
  <1>t. PublishTypes /\ tracks \in [Tracks -> ObjectRecord] /\ tasks \in [TaskNames -> TaskRecord]
        /\ announcing \in [Tracks -> {"none", "load", "add"}] /\ published \in [Sids -> MaybeTrack]
    BY DEF TracksInv, PublishTypes
  <1> DEFINE o == tasks[t].track
             v == [tasks[t] EXCEPT !.pc = "permit"]
             r == tracks[o].receiver \/ tracks[o].state = "open"
             x == [tracks[o] EXCEPT !.receiver = r]
  <1>1. tasks[t].pc = "attach" /\ tasks[t].pc \in Handling /\ o \in Tracks /\ Created(o)
    BY DEF AddReceiver, TracksInv, TaskOK, Attached, Handling
  <1>2. /\ v \in TaskRecord /\ v.pc = "permit" /\ v.track = o /\ v.list = tasks[t].list /\ v.todo = tasks[t].todo
    BY <1>t DEF TaskRecord, Handling, Attached
  <1>3. /\ tracks' = [tracks EXCEPT ![o] = x] /\ tasks' = [tasks EXCEPT ![t] = v]
        /\ announcing' = announcing \/ announcing' = [announcing EXCEPT ![o] = "load"]
        /\ UNCHANGED <<tscope, adds, pend, remote, arrived, registry, published, unheard>>
    BY DEF AddReceiver, SetTask, tcountVars
  <1>4. r \in BOOLEAN
    OBVIOUS
  <1> HIDE DEF r
  <1>5. /\ x \in ObjectRecord /\ x.cid = tracks[o].cid /\ x.sid = tracks[o].sid /\ x.state = tracks[o].state
        /\ x.muted = tracks[o].muted /\ x.want = tracks[o].want
    BY <1>t, <1>1, <1>4 DEF ObjectRecord
  <1> HIDE DEF x, v, o
  <1>6. PublishTypes'
    BY <1>t, <1>1, <1>2, <1>3, <1>5 DEF PublishTypes
  <1>7. \A u \in TaskNames : tasks'[u] = IF u = t THEN v ELSE tasks[u]
    BY <1>t, <1>3
  <1>8. \A q \in Tracks : /\ tracks'[q].state = tracks[q].state
                          /\ tracks'[q].cid = tracks[q].cid /\ tracks'[q].sid = tracks[q].sid
                          /\ tracks'[q].muted = tracks[q].muted /\ tracks'[q].want = tracks[q].want
    BY <1>t, <1>3, <1>5
  <1>9. \A u \in TaskNames :
              /\ PcOK(u, tasks'[u].pc)
              /\ tasks'[u].pc \in Attached => tasks'[u].track \in Tracks /\ Created(tasks'[u].track)
              /\ \A q \in tasks'[u].list : Created(q)
              /\ tasks'[u].todo \subseteq tasks[u].todo
              /\ tasks[u].pc = "take" => tasks'[u].pc = "take"
    <2> SUFFICES ASSUME NEW u \in TaskNames
                 PROVE  /\ PcOK(u, tasks'[u].pc)
                        /\ tasks'[u].pc \in Attached => tasks'[u].track \in Tracks /\ Created(tasks'[u].track)
                        /\ \A q \in tasks'[u].list : Created(q)
                        /\ tasks'[u].todo \subseteq tasks[u].todo
                        /\ tasks[u].pc = "take" => tasks'[u].pc = "take"
      OBVIOUS
    <2>1. TaskOK(u)
      BY DEF TracksInv
    <2>2. t # Admin /\ PcOK(t, "permit")
      BY <1>1, HandlerIs DEF Handling, Attached
    <2>3. QED
      BY <1>1, <1>2, <1>7, <2>1, <2>2 DEF TaskOK
  <1>10. \A q \in Tracks : announcing'[q] # "none" => Created(q)
    BY <1>t, <1>1, <1>3 DEF TracksInv, ObjectOK
  <1>c. \A q \in Tracks : CloseOf(q) \in TaskNames
    BY NamesDiffer DEF TaskNames
  <1>11. \A q \in Tracks : \/ tasks'[CloseOf(q)].pc = tasks[CloseOf(q)].pc
                           \/ tasks[CloseOf(q)].pc = "attach" /\ tasks'[CloseOf(q)].pc = "permit"
    BY <1>1, <1>2, <1>7, <1>c
  <1>12. \A q \in Tracks :
              /\ tracks'[q].state = "closed" <=> tasks'[CloseOf(q)].pc # "idle"
              /\ tasks'[CloseOf(q)].pc = "end" => q \notin registry' \ unheard'
              /\ q \in registry' \/ announcing'[q] # "none" => Created(q)
              /\ EndsLater(q) => tracks'[q].state = "open" \/ tasks'[CloseOf(q)].pc \in {"close", "promote"}
    BY <1>3, <1>8, <1>10, <1>11 DEF TracksInv, ObjectOK, EndsLater, Open
  <1>13. \A d \in Sids : published'[d] # NoTrack =>
              /\ published'[d] = published[d]
              /\ tracks'[published[d]].state = "open" \/ tasks'[CloseOf(published[d])].pc = "close"
    BY <1>t, <1>3, <1>8, <1>11 DEF TracksInv, ListedOK, Open, MaybeTrack
  <1>14. Mute \in TaskNames /\ tasks'[Mute] = tasks[Mute]
    BY <1>1, <1>7, HandlerIs DEF TaskNames, Calls
  <1>15. QED
    BY <1>3, <1>6, <1>8, <1>9, <1>12, <1>13, <1>14, TracksFrame

LEMMA PermittedInv ==
    ASSUME TracksInv, NEW t \in TaskNames, Permitted(t)
    PROVE  TracksInv'
  <1>t. PublishTypes /\ tasks[t] \in TaskRecord /\ published \in [Sids -> MaybeTrack]
    BY DEF TracksInv, PublishTypes
  <1>1. /\ tasks[t].pc = "permit" /\ tasks[t].pc \in Handling /\ tasks[t].track \in Tracks /\ Created(tasks[t].track)
        /\ \A o \in tasks[t].list : Created(o)
    BY DEF Permitted, TracksInv, TaskOK, Attached, Handling
  <1>2. /\ t # Mute /\ t # Admin /\ PcOK(t, "handle") /\ PcOK(t, "removing") /\ "handle" \notin Attached
        /\ "handle" \in Handling /\ "removing" \in Handling
    BY <1>1, HandlerIs DEF Handling, Attached
  <1>3. UNCHANGED <<tscope, adds, pend, remote, arrived, announcing, registry, published, unheard>>
    BY DEF Permitted, tcountVars
  <1>4. CASE canPublish
    <2> DEFINE v == [tasks[t] EXCEPT !.pc = "handle"]
    <2>1. v \in TaskRecord /\ v.pc = "handle" /\ v.list = tasks[t].list /\ v.todo = tasks[t].todo
      BY <1>t DEF TaskRecord, Handling
    <2>2. tasks' = [tasks EXCEPT ![t] = v] /\ UNCHANGED tracks
      BY <1>4 DEF Permitted, SetTask
    <2> HIDE DEF v
    <2>3. QED
      BY <1>t, <1>1, <1>2, <1>3, <2>1, <2>2, TaskFrame
  <1>5. CASE ~canPublish
    <2> DEFINE v == [tasks[t] EXCEPT !.pc = "removing"]
    <2>1. /\ v \in TaskRecord /\ v.pc = "removing" /\ v.list = tasks[t].list /\ v.todo = tasks[t].todo
          /\ v.track = tasks[t].track
      BY <1>t DEF TaskRecord, Handling, Attached
    <2>2. CloseTrack(tasks[t].track, t, v)
      BY <1>5 DEF Permitted
    <2> HIDE DEF v
    <2>3. QED
      BY <1>1, <1>2, <1>3, <2>1, <2>2, CloseTrackInv
  <1>6. QED
    BY <1>4, <1>5

LEMMA RemovedTrackInv ==
    ASSUME TracksInv, NEW t \in TaskNames, RemovedTrack(t)
    PROVE  TracksInv'
  <1>t. PublishTypes /\ tasks[t] \in TaskRecord /\ published \in [Sids -> MaybeTrack]
    BY DEF TracksInv, PublishTypes
  <1> DEFINE next == IF t = Admin THEN "remove" ELSE "handle"
             v == [tasks[t] EXCEPT !.pc = next]
  <1>1. /\ tasks[t].pc = "removing" /\ tasks[t].pc \in Handling
        /\ \A o \in tasks[t].list : Created(o)
    BY DEF RemovedTrack, TracksInv, TaskOK, Attached, Handling
  <1>2. t # Mute /\ PcOK(t, next) /\ next \notin Attached
    BY <1>1, HandlerIs DEF Handling, Attached
  <1>3. t \in Closes => next \in Handling
    BY NamesDiffer DEF Handling, Calls
  <1>4. v \in TaskRecord /\ v.pc = next /\ v.list = tasks[t].list /\ v.todo = tasks[t].todo
    BY <1>t DEF TaskRecord, Handling
  <1>5. /\ UNCHANGED <<tscope, adds, pend, remote, arrived, tracks, announcing, registry, unheard>>
        /\ tasks' = [tasks EXCEPT ![t] = v]
        /\ published' = [published EXCEPT ![tracks[tasks[t].track].sid] = NoTrack]
    BY DEF RemovedTrack, Delist, SetTask, tcountVars
  <1>6. published' \in [Sids -> MaybeTrack] /\ \A d \in Sids : published'[d] \in {published[d], NoTrack}
    BY <1>t, <1>5 DEF MaybeTrack
  <1> HIDE DEF v, next
  <1>7. QED
    BY <1>1, <1>2, <1>3, <1>4, <1>5, <1>6, TaskFrame

LEMMA HandledInv ==
    ASSUME TracksInv, NEW t \in TaskNames, Handled(t)
    PROVE  TracksInv'
  <1>t. PublishTypes /\ tasks[t] \in TaskRecord /\ published \in [Sids -> MaybeTrack]
    BY DEF TracksInv, PublishTypes
  <1> DEFINE v == IF t \in Closes THEN [tasks[t] EXCEPT !.pc = "unpublish"] ELSE NoTask
  <1>1. /\ tasks[t].pc = "handle" /\ tasks[t].pc \in Handling
        /\ \A o \in tasks[t].list : Created(o)
    BY DEF Handled, TracksInv, TaskOK, Handling
  <1>2. t # Mute /\ t # Admin /\ (t \in Closes => PcOK(t, "unpublish")) /\ (t \notin Closes => PcOK(t, "idle"))
    BY <1>1, HandlerIs
  <1>3. CASE t \in Closes
    <2>1. v \in TaskRecord /\ v.pc = "unpublish" /\ v.list = tasks[t].list /\ v.todo = tasks[t].todo
      BY <1>3, <1>t DEF TaskRecord
    <2>2. /\ UNCHANGED <<tscope, adds, pend, remote, arrived, tracks, announcing, registry, unheard, published>>
          /\ tasks' = [tasks EXCEPT ![t] = v]
      BY DEF Handled, SetTask, tcountVars, trackVars
    <2> HIDE DEF v
    <2>3. v.pc \notin Attached
      BY <2>1 DEF Attached
    <2>4. QED
      BY <1>t, <1>1, <1>2, <1>3, <2>1, <2>2, <2>3, TaskFrame
  <1>4. CASE t \notin Closes
    <2>1. v \in TaskRecord /\ v.pc = "idle" /\ v.list = {} /\ v.todo = {}
      BY <1>4 DEF TaskRecord, NoTask, MaybeTrack
    <2>2. /\ UNCHANGED <<tscope, adds, pend, remote, arrived, tracks, announcing, registry, unheard, published>>
          /\ tasks' = [tasks EXCEPT ![t] = v]
      BY DEF Handled, SetTask, tcountVars, trackVars
    <2> HIDE DEF v
    <2>3. v.pc \notin Attached
      BY <2>1 DEF Attached
    <2>4. QED
      BY <1>t, <1>1, <1>2, <1>4, <2>1, <2>2, <2>3, TaskFrame
  <1>5. QED
    BY <1>3, <1>4

(* Media moves: from WebRTC to a task, and between a task and those that wait. *)
LEMMA MediaFrame ==
    ASSUME TracksInv, NEW t \in TaskNames, NEW v \in TaskRecord, tasks' = [tasks EXCEPT ![t] = v],
           t # Mute, v.pc = "handle", t \in Closes => tasks[t].pc \in {"take", "handle"},
           v.list = {} \/ v.list = tasks[t].list, PcOK(t, "handle"),
           UNCHANGED <<tscope, adds, pend, tracks, announcing, registry, published, unheard>>,
           arrived' \in SUBSET Media, arrived \subseteq arrived', remote' \in SUBSET Media,
           RemoteOK', WaitingOK',
           \A m \in v.todo : m \in arrived' \ remote' /\ ~Created(m)
                             /\ \A u \in TaskNames : u # t => m \notin tasks[u].todo,
           \A u \in TaskNames : u # t => tasks[u].todo \intersect remote' = {}
    PROVE  TracksInv'
  <1>t. PublishTypes /\ tasks \in [TaskNames -> TaskRecord] /\ published \in [Sids -> MaybeTrack]
    BY DEF TracksInv, PublishTypes
  <1>1. PublishTypes'
    BY <1>t DEF PublishTypes
  <1>2. \A u \in TaskNames : tasks'[u] = IF u = t THEN v ELSE tasks[u]
    BY <1>t
  <1>3. Mute \in TaskNames /\ tasks'[Mute] = tasks[Mute]
    BY <1>2 DEF TaskNames, Calls
  <1>4. \A u \in TaskNames : TaskOK(u)'
    <2> SUFFICES ASSUME NEW u \in TaskNames PROVE TaskOK(u)'
      OBVIOUS
    <2>1. TaskOK(u)
      BY DEF TracksInv
    <2>2. CASE u = t
      <3>1. tasks'[u] = v /\ "handle" \notin Attached
        BY <1>2, <2>2 DEF Attached
      <3>2. \A m \in v.todo : \A w \in TaskNames : w # u => m \notin tasks'[w].todo
        BY <1>2, <2>2
      <3>3. \A o \in v.list : Created(o)
        BY <2>1, <2>2 DEF TaskOK
      <3>4. QED
        BY <2>2, <3>1, <3>2, <3>3 DEF TaskOK, Created
    <2>3. CASE u # t
      <3>1. tasks'[u] = tasks[u]
        BY <1>2, <2>3
      <3>2. \A m \in tasks[u].todo : \A w \in TaskNames : w # u => m \notin tasks'[w].todo
        BY <1>2, <2>1, <2>3 DEF TaskOK
      <3>3. QED
        BY <2>1, <2>3, <3>1, <3>2 DEF TaskOK, Created
    <2>4. QED
      BY <2>2, <2>3
  <1>5. \A o \in Tracks : CloseOf(o) \in TaskNames /\ CloseOf(o) \in Closes
    BY NamesDiffer DEF TaskNames
  <1>6. \A o \in Tracks :
              \/ tasks'[CloseOf(o)].pc = tasks[CloseOf(o)].pc
              \/ tasks[CloseOf(o)].pc \in {"take", "handle"} /\ tasks'[CloseOf(o)].pc = "handle"
    BY <1>2, <1>5
  <1>7. \A o \in Tracks : ObjectOK(o)'
    BY <1>6 DEF TracksInv, ObjectOK, Created
  <1>8. ListedOK'
    <2> SUFFICES ASSUME NEW d \in Sids, published[d] # NoTrack
                 PROVE  Open(published[d]) \/ tasks'[CloseOf(published[d])].pc = "close"
      BY DEF TracksInv, ListedOK, Open, Created
    <2>1. published[d] \in Tracks
      BY <1>t DEF MaybeTrack
    <2>2. QED
      BY <2>1, <1>6 DEF TracksInv, ListedOK
  <1>9. LimitsOK' /\ SharedSid'
    BY DEF TracksInv, LimitsOK, SharedSid, PendingCids
  <1>10. MuteOK'
    BY <1>3 DEF TracksInv, MuteOK
  <1>11. QueuedOK'
    BY <1>6 DEF TracksInv, QueuedOK, EndsLater, Open
  <1>12. QED
    BY <1>1, <1>4, <1>7, <1>8, <1>9, <1>10, <1>11 DEF TracksInv

LEMMA OnTrackInv ==
    ASSUME TracksInv, NEW m \in Media, OnTrack(m)
    PROVE  TracksInv'
  <1>t. PublishTypes /\ tasks \in [TaskNames -> TaskRecord]
    BY DEF TracksInv, PublishTypes
  <1> DEFINE v == [NoTask EXCEPT !.pc = "handle", !.todo = {m}]
  <1>1. v \in TaskRecord /\ v.pc = "handle" /\ v.list = {} /\ v.todo = {m}
    BY DEF NoTask, TaskRecord, MaybeTrack, Handling
  <1>2. /\ UNCHANGED <<tscope, adds, pend, remote, tracks, announcing, registry, published, unheard>>
        /\ tasks' = [tasks EXCEPT ![m] = v] /\ arrived' = arrived \union {m} /\ m \notin arrived
    BY DEF OnTrack, SetTask, trackVars
  <1>3. m \in TaskNames /\ m # Mute /\ m \notin Closes /\ m \in Tracks
    BY NamesDiffer DEF TaskNames, Calls, Tracks
  <1>4. PcOK(m, "handle") /\ PcOK(m, tasks[m].pc)
    BY <1>3, NamesDiffer DEF PcOK, Handling, Calls, TracksInv, TaskOK
  <1>5. tasks[m].pc # "take"
    BY <1>4 DEF PcOK, Handling, Attached
  <1> HIDE DEF v
  <1>6. /\ ~Created(m) /\ m \notin remote /\ \A u \in TaskNames : m \notin tasks[u].todo
    BY <1>2, <1>3 DEF TracksInv, ObjectOK, RemoteOK, TaskOK
  <1>7. WaitingOK'
    BY <1>t, <1>2, <1>3, <1>5 DEF TracksInv, WaitingOK
  <1>8. RemoteOK'
    BY <1>2 DEF TracksInv, RemoteOK, Created
  <1>9. \A u \in TaskNames : tasks[u].todo \intersect remote = {}
    BY DEF TracksInv, TaskOK
  <1>10. arrived' \in SUBSET Media /\ arrived \subseteq arrived' /\ remote' \in SUBSET Media
    BY <1>t, <1>2 DEF PublishTypes
  <1>11. \A n \in v.todo : /\ n \in arrived' \ remote' /\ ~Created(n)
                           /\ \A u \in TaskNames : u # m => n \notin tasks[u].todo
    BY <1>1, <1>2, <1>6
  <1>12. QED
    BY <1>1, <1>2, <1>3, <1>4, <1>7, <1>8, <1>9, <1>10, <1>11, MediaFrame

LEMMA TakeRemoteInv ==
    ASSUME TracksInv, NEW t \in TaskNames, TakeRemote(t)
    PROVE  TracksInv'
  <1>t. PublishTypes /\ tasks[t] \in TaskRecord /\ remote \in SUBSET Media /\ arrived \in SUBSET Media
    BY DEF TracksInv, PublishTypes
  <1> DEFINE v == [tasks[t] EXCEPT !.pc = "handle", !.todo = remote]
  <1>1. v \in TaskRecord /\ v.pc = "handle" /\ v.list = tasks[t].list /\ v.todo = remote
    BY <1>t DEF TaskRecord, Handling
  <1>2. /\ UNCHANGED <<tscope, adds, pend, arrived, tracks, announcing, registry, published, unheard>>
        /\ tasks' = [tasks EXCEPT ![t] = v] /\ remote' = {} /\ tasks[t].pc = "take"
    BY DEF TakeRemote, SetTask, tcountVars
  <1>3. PcOK(t, "take")
    BY <1>2 DEF TracksInv, TaskOK
  <1>4. t # Mute /\ PcOK(t, "handle")
    BY <1>3 DEF PcOK, Handling, Attached
  <1> HIDE DEF v
  <1>5. \A m \in remote : /\ m \in arrived /\ ~Created(m)
                          /\ \A u \in TaskNames : m \notin tasks[u].todo
    BY DEF TracksInv, RemoteOK, TaskOK
  <1>6. RemoteOK' /\ WaitingOK'
    BY <1>2 DEF RemoteOK, WaitingOK
  <1>7. QED
    BY <1>t, <1>1, <1>2, <1>4, <1>5, <1>6, MediaFrame

LEMMA ListedObjects ==
    ASSUME TracksInv
    PROVE  \A o \in Listed : o \in Tracks /\ Created(o) /\ EndsLater(o)
  BY DEF TracksInv, PublishTypes, ListedOK, Listed, MaybeTrack, EndsLater

(* Requests are taken one by one, from the front. *)
LEMMA TailRequests ==
    ASSUME NEW s \in Seq(InfoRecord), s # <<>>
    PROVE  /\ Head(s) \in InfoRecord /\ 1 \in DOMAIN s /\ Head(s) = s[1]
           /\ Tail(s) \in Seq(InfoRecord) /\ Len(Tail(s)) = Len(s) - 1 /\ Len(s) \in Nat \ {0}
           /\ Len(s) # 1 => Tail(s) # <<>>
           /\ \A i \in DOMAIN Tail(s) : i + 1 \in DOMAIN s /\ Tail(s)[i] = s[i + 1]
  <1>1. Head(s) \in InfoRecord /\ Tail(s) \in Seq(InfoRecord) /\ Len(s) \in Nat \ {0} /\ DOMAIN s = 1 .. Len(s)
    BY EmptySeq
  <1>2. Len(Tail(s)) = Len(s) - 1 /\ \A i \in 1 .. Len(Tail(s)) : Tail(s)[i] = s[i + 1]
    BY HeadTailProperties
  <1>3. DOMAIN Tail(s) = 1 .. Len(Tail(s))
    BY <1>1
  <1>4. Len(s) # 1 => Tail(s) # <<>>
    BY <1>1, <1>2, EmptySeq, SMTT(40)
  <1>5. Head(s) = s[1]
    OBVIOUS
  <1>6. QED
    BY <1>1, <1>2, <1>3, <1>4, <1>5

LEMMA FewerPending ==
    ASSUME Cardinality(PendingCids(pend)) <= MaxPending,
           \A c \in Cids : pend'[c].infos # <<>> => pend[c].infos # <<>>
    PROVE  Cardinality(PendingCids(pend')) <= MaxPending
  <1>1. PendingCids(pend') \subseteq PendingCids(pend) /\ PendingCids(pend) \subseteq Cids
    BY DEF PendingCids
  <1>2. IsFiniteSet(PendingCids(pend))
    BY <1>1, FS_Subset
  <1>3. /\ Cardinality(PendingCids(pend')) <= Cardinality(PendingCids(pend))
        /\ IsFiniteSet(PendingCids(pend'))
    BY <1>1, <1>2, FS_Subset
  <1>4. Cardinality(PendingCids(pend')) \in Nat /\ Cardinality(PendingCids(pend)) \in Nat
    BY <1>2, <1>3, FS_CardinalityType
  <1>5. QED
    BY <1>3, <1>4

(* Media whose turn it is becomes a track. *)
LEMMA AddedInv ==
    ASSUME TracksInv, NEW t \in TaskNames, tasks[t].pc = "handle", NEW m \in tasks[t].todo,
           pend[m[1]].infos # <<>>, AddedMediaTrack(m[1], m),
           tasks' = [tasks EXCEPT ![t] = [tasks[t] EXCEPT !.todo = tasks[t].todo \ {m}, !.pc = "attach",
                                                          !.track = m, !.new = TRUE]],
           UNCHANGED <<tscope, adds, arrived, remote, announcing, registry, unheard>>
    PROVE  TracksInv'
  <1>t. /\ PublishTypes /\ tasks \in [TaskNames -> TaskRecord] /\ published \in [Sids -> MaybeTrack]
        /\ tracks \in [Tracks -> ObjectRecord] /\ pend \in [Cids -> PendingRecord]
    BY DEF TracksInv, PublishTypes
  <1> DEFINE c  == m[1]
             ti == Head(pend[c].infos)
             v  == [tasks[t] EXCEPT !.todo = tasks[t].todo \ {m}, !.pc = "attach", !.track = m, !.new = TRUE]
             x  == [cid |-> c, sid |-> ti.sid, state |-> "open", receiver |-> FALSE,
                    muted |-> ti.muted, want |-> ti.want]
             p  == IF Len(pend[c].infos) = 1 THEN NotPending ELSE [infos |-> Tail(pend[c].infos), queued |-> TRUE]
  <1>1. m \in Tracks /\ m \in Media /\ c \in Cids
    BY <1>t, NoTrackIsNone DEF TaskRecord, Tracks
  <1>2. TaskOK(t) /\ m \in arrived \ remote /\ ~Created(m)
    BY DEF TracksInv, TaskOK
  <1>3. \A u \in TaskNames : u # t => m \notin tasks[u].todo
    BY <1>2 DEF TaskOK
  <1>4. /\ pend[c].infos \in Seq(InfoRecord) /\ ti \in InfoRecord /\ 1 \in DOMAIN pend[c].infos
        /\ ti = pend[c].infos[1] /\ ti.sid \in Sids /\ ti.muted \in BOOLEAN /\ ti.want \in BOOLEAN
    BY <1>t, <1>1, TailRequests DEF PendingRecord, InfoRecord
  <1>5. /\ tracks' = [tracks EXCEPT ![m] = x] /\ tasks' = [tasks EXCEPT ![t] = v]
        /\ published' = [published EXCEPT ![ti.sid] = IF published[ti.sid] = NoTrack THEN m ELSE published[ti.sid]]
        /\ pend' = [pend EXCEPT ![c] = p]
    BY DEF AddedMediaTrack
  <1>6. /\ v \in TaskRecord /\ v.pc = "attach" /\ v.track = m /\ v.list = tasks[t].list
        /\ v.todo = tasks[t].todo \ {m}
    BY <1>t, <1>1 DEF TaskRecord, MaybeTrack, Handling, Attached
  <1>7. /\ x \in ObjectRecord /\ x.state = "open" /\ x.cid = c /\ x.sid = ti.sid
        /\ x.muted = ti.muted /\ x.want = ti.want
    BY <1>1, <1>4 DEF ObjectRecord
  <1>8. /\ p \in PendingRecord /\ (p.queued => p.infos # <<>>) /\ (p.infos = <<>> \/ p.queued)
        /\ Len(p.infos) <= Len(pend[c].infos) /\ Len(p.infos) \in Nat
        /\ \A i \in DOMAIN p.infos : \E j \in DOMAIN pend[c].infos : p.infos[i] = pend[c].infos[j]
    <2>1. CASE Len(pend[c].infos) = 1
      <3>1. p = NotPending /\ NotPending.infos = <<>> /\ NotPending.queued = FALSE /\ NotPending \in PendingRecord
        BY <2>1, EmptySeq DEF NotPending, PendingRecord
      <3>2. Len(<<>>) = 0 /\ DOMAIN <<>> = {}
        OBVIOUS
      <3>3. QED
        BY <2>1, <3>1, <3>2
    <2>2. CASE Len(pend[c].infos) # 1
      <3> DEFINE tl == Tail(pend[c].infos)
      <3>1. /\ tl \in Seq(InfoRecord) /\ Len(tl) = Len(pend[c].infos) - 1 /\ tl # <<>> /\ Len(pend[c].infos) \in Nat \ {0}
            /\ \A i \in DOMAIN tl : i + 1 \in DOMAIN pend[c].infos /\ tl[i] = pend[c].infos[i + 1]
        BY <1>4, <2>2, TailRequests
      <3> HIDE DEF tl
      <3>2. p = [infos |-> tl, queued |-> TRUE]
        BY <2>2 DEF tl
      <3> HIDE DEF p
      <3>3. p \in PendingRecord /\ p.infos = tl /\ p.queued = TRUE
        BY <3>1, <3>2 DEF PendingRecord
      <3>4. QED
        BY <3>1, <3>3
    <2>3. QED
      BY <2>1, <2>2
  <1> HIDE DEF p, x, v, ti, c
  <1>9. /\ \A u \in TaskNames : tasks'[u] = IF u = t THEN v ELSE tasks[u]
        /\ \A o \in Tracks : tracks'[o] = IF o = m THEN x ELSE tracks[o]
        /\ \A k \in Cids : pend'[k] = IF k = c THEN p ELSE pend[k]
        /\ \A d \in Sids : published'[d] = IF d = ti.sid /\ published[d] = NoTrack THEN m ELSE published[d]
    BY <1>t, <1>1, <1>4, <1>5
  <1>10. PublishTypes'
    <2>1. published' \in [Sids -> MaybeTrack]
      BY <1>t, <1>1, <1>4, <1>5 DEF MaybeTrack
    <2>2. QED
      BY <1>t, <1>1, <1>5, <1>6, <1>7, <1>8, <2>1 DEF PublishTypes
  <1>11. Mute \in TaskNames /\ tasks'[Mute] = tasks[Mute]
    <2>1. t # Mute
      BY HandlerIs DEF Handling
    <2>2. QED
      BY <2>1, <1>9 DEF TaskNames, Calls
  <1>12. \A u \in TaskNames : TaskOK(u)'
    <2> SUFFICES ASSUME NEW u \in TaskNames PROVE TaskOK(u)'
      OBVIOUS
    <2>1. TaskOK(u) /\ tasks[u].list \subseteq Tracks /\ tasks[u].todo \subseteq Tracks
      BY <1>t DEF TracksInv, TaskRecord, Tracks
    <2>2. \A o \in Tracks : Created(o) => Created(o)'
      BY <1>7, <1>9 DEF Created
    <2>3. \A o \in Tracks : o # m => (Created(o)' <=> Created(o))
      BY <1>9 DEF Created
    <2>4. CASE u = t
      <3>1. PcOK(u, "attach")
        BY <2>4, HandlerIs DEF Handling, Attached
      <3>2. Created(m)'
        BY <1>1, <1>7, <1>9 DEF Created
      <3>3. \A n \in v.todo : /\ n \in arrived' \ remote' /\ ~Created(n)'
                              /\ \A w \in TaskNames : w # u => n \notin tasks'[w].todo
        BY <1>6, <1>9, <2>1, <2>3, <2>4 DEF TaskOK
      <3>4. tasks'[u] = v
        BY <1>9, <2>4
      <3>5. QED
        BY <1>1, <1>6, <2>1, <2>2, <2>4, <3>1, <3>2, <3>3, <3>4 DEF TaskOK
    <2>5. CASE u # t
      <3>1. tasks'[u] = tasks[u] /\ m \notin tasks[u].todo
        BY <1>3, <1>9, <2>5
      <3>2. \A n \in tasks[u].todo : /\ n \in arrived' \ remote' /\ ~Created(n)'
                                     /\ \A w \in TaskNames : w # u => n \notin tasks'[w].todo
        BY <1>6, <1>9, <2>1, <2>3, <2>5, <3>1 DEF TaskOK
      <3>3. QED
        BY <2>1, <2>2, <3>1, <3>2 DEF TaskOK
    <2>6. QED
      BY <2>4, <2>5
  <1>13. RemoteOK'
    BY <1>t, <1>2, <1>9 DEF TracksInv, RemoteOK, Created, PublishTypes, Tracks
  <1>14. \A o \in Tracks : /\ CloseOf(o) \in TaskNames
                           /\ \/ tasks'[CloseOf(o)].pc = tasks[CloseOf(o)].pc
                              \/ tasks[CloseOf(o)].pc = "handle" /\ tasks'[CloseOf(o)].pc = "attach"
    <2>1. \A o \in Tracks : CloseOf(o) \in TaskNames
      BY NamesDiffer DEF TaskNames
    <2>2. QED
      BY <2>1, <1>6, <1>9
  <1>15. \A o \in Tracks : ObjectOK(o)'
    <2> SUFFICES ASSUME NEW o \in Tracks PROVE ObjectOK(o)'
      OBVIOUS
    <2>1. ObjectOK(o)
      BY DEF TracksInv
    <2>2. CASE o = m
      BY <2>1, <2>2, <1>2, <1>4, <1>7, <1>9, <1>14 DEF ObjectOK, Created, c
    <2>3. CASE o # m
      BY <2>1, <2>3, <1>9, <1>14 DEF ObjectOK, Created
    <2>4. QED
      BY <2>2, <2>3
  <1>16. ListedOK'
    <2> SUFFICES ASSUME NEW d \in Sids, published'[d] # NoTrack
                 PROVE  /\ tracks'[published'[d]].state # "none" /\ tracks'[published'[d]].sid = d
                        /\ tracks'[published'[d]].state = "open" \/ tasks'[CloseOf(published'[d])].pc = "close"
      BY DEF ListedOK, Open, Created
    <2>1. CASE published'[d] = m /\ d = ti.sid
      BY <1>1, <1>7, <1>9, <2>1 DEF Created
    <2>2. CASE published'[d] = published[d]
      <3>1. /\ published[d] \in Tracks /\ Created(published[d]) /\ tracks[published[d]].sid = d
            /\ Open(published[d]) \/ tasks[CloseOf(published[d])].pc = "close"
        BY <1>t, <2>2 DEF TracksInv, ListedOK, MaybeTrack
      <3>2. tracks'[published[d]] = tracks[published[d]]
        BY <1>2, <1>9, <3>1
      <3>3. QED
        BY <1>14, <2>2, <3>1, <3>2 DEF Created, Open
    <2>3. QED
      BY <1>9, <2>1, <2>2
  <1>17. LimitsOK'
    <2>1. LimitsOK
      BY DEF TracksInv
    <2>2. \A k \in Cids : pend'[k].infos # <<>> => pend[k].infos # <<>>
      BY <1>9 DEF c
    <2>3. Cardinality(PendingCids(pend')) <= MaxPending
      BY <2>1, <2>2, FewerPending DEF LimitsOK
    <2>4. Len(pend[c].infos) \in Nat
      BY <1>4
    <2>5. \A k \in Cids : Len(pend'[k].infos) <= MaxQueued /\ (pend'[k].queued => pend'[k].infos # <<>>)
      BY <1>1, <1>8, <1>9, <2>1, <2>4 DEF LimitsOK
    <2>6. QED
      BY <2>3, <2>5 DEF LimitsOK
  <1>18. SharedSid'
    BY <1>1, <1>8, <1>9, SMTT(40) DEF TracksInv, SharedSid
  <1>19. MuteOK'
    <2>1. MuteOK
      BY DEF TracksInv
    <2>2. \A k \in Cids : \A i \in DOMAIN pend'[k].infos :
              \/ pend'[k].infos[i].muted = pend'[k].infos[i].want
              \/ tasks[Mute].pc = "pending" /\ pend'[k].infos[i].sid = tasks[Mute].sid
      BY <1>1, <1>8, <1>9, <2>1, SMTT(40) DEF MuteOK
    <2>3. ti.muted = ti.want \/ (tasks[Mute].pc = "pending" /\ ti.sid = tasks[Mute].sid)
      BY <1>1, <1>4, <2>1 DEF MuteOK
    <2>4. ASSUME NEW d \in Sids, published'[d] # NoTrack
          PROVE  \/ tracks'[published'[d]].muted = tracks'[published'[d]].want
                 \/ tasks[Mute].pc # "idle" /\ d = tasks[Mute].sid
      <3>1. CASE published'[d] = m /\ d = ti.sid
        BY <1>1, <1>7, <1>9, <2>3, <3>1
      <3>2. CASE published'[d] = published[d]
        <4>1. published[d] \in Tracks /\ Created(published[d])
          BY <1>t, <2>4, <3>2 DEF TracksInv, ListedOK, MaybeTrack
        <4>2. tracks'[published[d]] = tracks[published[d]]
          BY <1>2, <1>9, <4>1
        <4>3. QED
          BY <2>1, <2>4, <3>2, <4>2 DEF MuteOK
      <3>3. QED
        BY <1>9, <3>1, <3>2
    <2>5. QED
      BY <1>11, <2>1, <2>2, <2>4 DEF MuteOK
  <1>20. WaitingOK'
    <2> SUFFICES ASSUME NEW n \in remote
                 PROVE  \/ pend'[n[1]].infos = <<>> \/ pend'[n[1]].queued
                        \/ \E u \in TaskNames : tasks'[u].pc = "take"
      BY DEF WaitingOK
    <2>1. n[1] \in Cids
      BY <1>t, NoTrackIsNone DEF PublishTypes, Tracks
    <2>2. CASE n[1] = c
      BY <1>8, <1>9, <2>1, <2>2
    <2>3. CASE n[1] # c
      BY <1>9, <2>1, <2>3 DEF TracksInv, WaitingOK
    <2>4. QED
      BY <2>2, <2>3
  <1>21. QueuedOK'
    <2> SUFFICES ASSUME NEW k \in Cids, pend'[k].queued
                 PROVE  \E o \in Tracks : /\ tracks'[o].cid = k
                                          /\ \/ tracks'[o].state = "open"
                                             \/ tasks'[CloseOf(o)].pc \in {"close", "promote"}
      BY DEF QueuedOK, EndsLater, Open
    <2>1. CASE k = c
      BY <1>1, <1>7, <1>9, <2>1
    <2>2. CASE k # c
      <3>1. PICK o \in Tracks : tracks[o].cid = k /\ EndsLater(o)
        BY <1>9, <2>2 DEF TracksInv, QueuedOK
      <3>2. o # m
        BY <1>2, <3>1 DEF TracksInv, ObjectOK, EndsLater, Created, Open
      <3>3. QED
        BY <1>9, <1>14, <3>1, <3>2 DEF EndsLater, Open
    <2>3. QED
      BY <2>1, <2>2
  <1>22. QED
    BY <1>10, <1>12, <1>13, <1>15, <1>16, <1>17, <1>18, <1>19, <1>20, <1>21 DEF TracksInv

LEMMA MediaTrackReceivedInv ==
    ASSUME TracksInv, NEW t \in TaskNames, MediaTrackReceived(t)
    PROVE  TracksInv'
  <1>t. /\ PublishTypes /\ tasks[t] \in TaskRecord /\ published \in [Sids -> MaybeTrack]
        /\ remote \in SUBSET Media /\ arrived \in SUBSET Media
    BY DEF TracksInv, PublishTypes
  <1>1. /\ tasks[t].pc = "handle" /\ TaskOK(t) /\ "handle" \in Handling /\ "attach" \in Handling
        /\ "handle" \notin Attached
    BY DEF MediaTrackReceived, TracksInv, Handling, Attached
  <1>2. t # Mute /\ t # Admin /\ PcOK(t, "handle") /\ PcOK(t, "attach")
    BY <1>1, HandlerIs
  <1>3. UNCHANGED <<tscope, adds, arrived, announcing, registry, unheard>>
    BY DEF MediaTrackReceived, tcountVars
  <1>4. PICK m \in tasks[t].todo :
          LET c    == m[1]
              rest == [tasks[t] EXCEPT !.todo = tasks[t].todo \ {m}]
          IN \/ tasks' = [tasks EXCEPT ![t] = rest] /\ UNCHANGED <<pend, remote, published, tracks>>
             \/ /\ \E o \in PublishedBy(c) :
                      tasks' = [tasks EXCEPT ![t] = [rest EXCEPT !.pc = "attach", !.track = o, !.new = FALSE]]
                /\ UNCHANGED <<pend, remote, published, tracks>>
             \/ /\ pend[c].infos = <<>> \/ pend[c].queued
                /\ remote' = remote \union {m} /\ tasks' = [tasks EXCEPT ![t] = rest]
                /\ UNCHANGED <<pend, published, tracks>>
             \/ /\ pend[c].infos # <<>> /\ AddedMediaTrack(c, m) /\ UNCHANGED remote
                /\ tasks' = [tasks EXCEPT ![t] = [rest EXCEPT !.pc = "attach", !.track = m, !.new = TRUE]]
    BY DEF MediaTrackReceived, SetTask
  <1> DEFINE rest == [tasks[t] EXCEPT !.todo = tasks[t].todo \ {m}]
  <1>5. /\ rest \in TaskRecord /\ rest.pc = "handle" /\ rest.todo = tasks[t].todo \ {m}
        /\ rest.list = tasks[t].list
    BY <1>t, <1>1 DEF TaskRecord
  <1>6. m \in Media /\ m \in Tracks /\ m \in arrived /\ ~Created(m) /\ \A o \in tasks[t].list : Created(o)
    BY <1>t, <1>1 DEF TaskRecord, Tracks, TaskOK
  <1>7. CASE tasks' = [tasks EXCEPT ![t] = rest] /\ UNCHANGED <<pend, remote, published, tracks>>
    <2> HIDE DEF rest
    <2>1. QED
      BY <1>t, <1>1, <1>2, <1>3, <1>5, <1>6, <1>7, TaskFrame
  <1>8. CASE /\ \E o \in PublishedBy(m[1]) :
                   tasks' = [tasks EXCEPT ![t] = [rest EXCEPT !.pc = "attach", !.track = o, !.new = FALSE]]
             /\ UNCHANGED <<pend, remote, published, tracks>>
    <2>1. PICK o \in PublishedBy(m[1]) :
            tasks' = [tasks EXCEPT ![t] = [rest EXCEPT !.pc = "attach", !.track = o, !.new = FALSE]]
      BY <1>8
    <2>2. o \in Tracks /\ Created(o)
      BY ListedObjects DEF PublishedBy
    <2> HIDE DEF rest
    <2> DEFINE v == [rest EXCEPT !.pc = "attach", !.track = o, !.new = FALSE]
    <2>3. v \in TaskRecord /\ v.pc = "attach" /\ v.track = o /\ v.todo = rest.todo /\ v.list = rest.list
      BY <1>5, <2>2 DEF TaskRecord, MaybeTrack, Handling, Attached
    <2>4. tasks' = [tasks EXCEPT ![t] = v]
      BY <2>1
    <2> HIDE DEF v
    <2>5. QED
      BY <1>t, <1>1, <1>2, <1>3, <1>5, <1>6, <1>8, <2>2, <2>3, <2>4, TaskFrame, ZenonT(60)
  <1>9. CASE /\ pend[m[1]].infos = <<>> \/ pend[m[1]].queued
             /\ remote' = remote \union {m} /\ tasks' = [tasks EXCEPT ![t] = rest]
             /\ UNCHANGED <<pend, published, tracks>>
    <2> HIDE DEF rest
    <2>1. RemoteOK'
      BY <1>3, <1>6, <1>9 DEF TracksInv, RemoteOK, Created
    <2>2. WaitingOK'
      <3>1. tasks \in [TaskNames -> TaskRecord]
        BY DEF TracksInv, PublishTypes
      <3>2. QED
        BY <1>1, <1>9, <3>1 DEF TracksInv, WaitingOK
    <2>3. \A n \in rest.todo : /\ n \in arrived' \ remote' /\ ~Created(n)
                               /\ \A u \in TaskNames : u # t => n \notin tasks[u].todo
      BY <1>1, <1>3, <1>5, <1>9 DEF TaskOK
    <2>4. \A u \in TaskNames : u # t => tasks[u].todo \intersect remote' = {}
      BY <1>1, <1>9 DEF TracksInv, TaskOK
    <2>5. remote' \in SUBSET Media /\ arrived' \in SUBSET Media /\ arrived \subseteq arrived'
      BY <1>t, <1>3, <1>6, <1>9
    <2>6. QED
      BY <1>1, <1>2, <1>3, <1>5, <1>9, <2>1, <2>2, <2>3, <2>4, <2>5, MediaFrame
  <1>10. CASE /\ pend[m[1]].infos # <<>> /\ AddedMediaTrack(m[1], m) /\ UNCHANGED remote
              /\ tasks' = [tasks EXCEPT ![t] = [rest EXCEPT !.pc = "attach", !.track = m, !.new = TRUE]]
    <2>1. tasks' = [tasks EXCEPT ![t] = [tasks[t] EXCEPT !.todo = tasks[t].todo \ {m}, !.pc = "attach",
                                                         !.track = m, !.new = TRUE]]
      BY <1>10
    <2>2. QED
      BY <1>1, <1>3, <1>10, <2>1, AddedInv
  <1>11. QED
    BY <1>4, <1>7, <1>8, <1>9, <1>10

-----------------------------------------------------------------------------
(* The callbacks of Close, and the announcement.                            *)

LEMMA CallbackTasks ==
    ASSUME TracksInv, NEW o \in Tracks, NEW pc \in {"promote", "take", "end"},
           tasks[CloseOf(o)].pc \in {"close", "promote", "unpublish"},
           tasks' = [tasks EXCEPT ![CloseOf(o)] = [tasks[CloseOf(o)] EXCEPT !.pc = pc]]
    PROVE  /\ tasks' \in [TaskNames -> TaskRecord] /\ tasks'[Mute] = tasks[Mute] /\ Created(o)
           /\ tracks[o].sid \in Sids /\ tracks[o].cid \in Cids
           /\ tasks'[CloseOf(o)].pc = pc /\ CloseOf(o) \in TaskNames
           /\ \A u \in TaskNames : u # CloseOf(o) => tasks'[u] = tasks[u]
           /\ \A q \in Tracks : q # o => tasks'[CloseOf(q)] = tasks[CloseOf(q)]
           /\ \A t \in TaskNames :
                 /\ PcOK(t, tasks'[t].pc)
                 /\ tasks'[t].pc \in Attached => tasks'[t].track \in Tracks /\ Created(tasks'[t].track)
                 /\ tasks'[t].list = tasks[t].list /\ tasks'[t].todo = tasks[t].todo
                 /\ \A q \in tasks'[t].list : Created(q)
                 /\ tasks[t].pc = "take" => tasks'[t].pc = "take"
  <1>t. tasks \in [TaskNames -> TaskRecord]
    BY DEF TracksInv, PublishTypes
  <1>c. CloseOf(o) \in TaskNames /\ CloseOf(o) \in Closes /\ Mute \in TaskNames /\ Mute # CloseOf(o)
    BY NamesDiffer DEF TaskNames, Calls
  <1>d. \A q \in Tracks : CloseOf(q) \in TaskNames /\ (q # o => CloseOf(q) # CloseOf(o))
    BY NamesDiffer DEF TaskNames
  <1> DEFINE v == [tasks[CloseOf(o)] EXCEPT !.pc = pc]
  <1>1. /\ v \in TaskRecord /\ v.pc = pc /\ v.list = tasks[CloseOf(o)].list /\ v.todo = tasks[CloseOf(o)].todo
    BY <1>t, <1>c DEF TaskRecord
  <1>2. tasks' = [tasks EXCEPT ![CloseOf(o)] = v]
    OBVIOUS
  <1> HIDE DEF v
  <1>3. tasks' \in [TaskNames -> TaskRecord] /\ \A u \in TaskNames : tasks'[u] = IF u = CloseOf(o) THEN v ELSE tasks[u]
    BY <1>t, <1>1, <1>2
  <1>4. Created(o) /\ tracks[o].sid \in Sids /\ tracks[o].cid \in Cids
    BY NoTrackIsNone DEF TracksInv, ObjectOK, Created
  <1>5. PcOK(CloseOf(o), pc) /\ pc \notin Attached
    BY <1>c, NamesDiffer DEF PcOK, Calls, Attached
  <1>6. \A t \in TaskNames :
                 /\ PcOK(t, tasks'[t].pc)
                 /\ tasks'[t].pc \in Attached => tasks'[t].track \in Tracks /\ Created(tasks'[t].track)
                 /\ tasks'[t].list = tasks[t].list /\ tasks'[t].todo = tasks[t].todo
                 /\ \A q \in tasks'[t].list : Created(q)
                 /\ tasks[t].pc = "take" => tasks'[t].pc = "take"
    BY <1>1, <1>3, <1>5 DEF TracksInv, TaskOK
  <1>7. QED
    BY <1>1, <1>3, <1>4, <1>6, <1>c, <1>d

LEMMA UnlistInv ==
    ASSUME TracksInv, NEW o \in Tracks, Unlist(o)
    PROVE  TracksInv'
  <1>t. PublishTypes /\ published \in [Sids -> MaybeTrack]
    BY DEF TracksInv, PublishTypes
  <1>1. /\ tasks[CloseOf(o)].pc = "close"
        /\ tasks' = [tasks EXCEPT ![CloseOf(o)] = [tasks[CloseOf(o)] EXCEPT !.pc = "promote"]]
        /\ published' = [published EXCEPT ![tracks[o].sid] = NoTrack]
        /\ UNCHANGED <<tscope, adds, pend, remote, arrived, tracks, announcing, registry, unheard>>
    BY DEF Unlist, Delist, SetTask, tcountVars
  <1>2. /\ tasks' \in [TaskNames -> TaskRecord] /\ tasks'[Mute] = tasks[Mute] /\ Created(o)
        /\ tracks[o].sid \in Sids /\ tasks'[CloseOf(o)].pc = "promote"
        /\ \A q \in Tracks : q # o => tasks'[CloseOf(q)] = tasks[CloseOf(q)]
        /\ \A t \in TaskNames :
                 /\ PcOK(t, tasks'[t].pc)
                 /\ tasks'[t].pc \in Attached => tasks'[t].track \in Tracks /\ Created(tasks'[t].track)
                 /\ tasks'[t].list = tasks[t].list /\ tasks'[t].todo = tasks[t].todo
                 /\ \A q \in tasks'[t].list : Created(q)
                 /\ tasks[t].pc = "take" => tasks'[t].pc = "take"
    BY <1>1, CallbackTasks
  <1>3. published' \in [Sids -> MaybeTrack]
    BY <1>t, <1>1 DEF MaybeTrack
  <1>4. PublishTypes'
    BY <1>t, <1>1, <1>2, <1>3 DEF PublishTypes
  <1>5. \A q \in Tracks :
              /\ tracks'[q].state = "closed" <=> tasks'[CloseOf(q)].pc # "idle"
              /\ tasks'[CloseOf(q)].pc = "end" => q \notin registry' \ unheard'
              /\ q \in registry' \/ announcing'[q] # "none" => Created(q)
              /\ EndsLater(q) => tracks'[q].state = "open" \/ tasks'[CloseOf(q)].pc \in {"close", "promote"}
    BY <1>1, <1>2 DEF TracksInv, ObjectOK, EndsLater, Open
  <1>6. \A d \in Sids : published'[d] # NoTrack =>
              /\ published'[d] = published[d]
              /\ tracks'[published[d]].state = "open" \/ tasks'[CloseOf(published[d])].pc = "close"
    <2> SUFFICES ASSUME NEW d \in Sids, published'[d] # NoTrack
                 PROVE  /\ published'[d] = published[d]
                        /\ tracks'[published[d]].state = "open" \/ tasks'[CloseOf(published[d])].pc = "close"
      OBVIOUS
    <2>1. published'[d] = published[d] /\ d # tracks[o].sid /\ published[d] \in Tracks
      BY <1>t, <1>1 DEF MaybeTrack
    <2>2. published[d] # o
      BY <2>1 DEF TracksInv, ListedOK
    <2>3. tasks'[CloseOf(published[d])] = tasks[CloseOf(published[d])]
      BY <1>2, <2>1, <2>2
    <2>4. tracks[published[d]].state = "open" \/ tasks[CloseOf(published[d])].pc = "close"
      BY <2>1 DEF TracksInv, ListedOK, Open
    <2>5. QED
      BY <1>1, <2>1, <2>3, <2>4
  <1>7. QED
    BY <1>1, <1>2, <1>4, <1>5, <1>6, TracksFrame

LEMMA UnpublishInv ==
    ASSUME TracksInv, NEW o \in Tracks, Unpublish(o)
    PROVE  TracksInv'
  <1>t. PublishTypes /\ published \in [Sids -> MaybeTrack] /\ registry \in SUBSET Tracks
    BY DEF TracksInv, PublishTypes
  <1>1. /\ tasks[CloseOf(o)].pc = "unpublish"
        /\ tasks' = [tasks EXCEPT ![CloseOf(o)] = [tasks[CloseOf(o)] EXCEPT !.pc = "end"]]
        /\ o \notin registry' \ unheard' /\ registry' \subseteq registry /\ unheard \subseteq unheard'
        /\ UNCHANGED <<tscope, adds, pend, remote, arrived, tracks, announcing, published>>
    BY DEF Unpublish, SetTask, tcountVars
  <1>2. /\ tasks' \in [TaskNames -> TaskRecord] /\ tasks'[Mute] = tasks[Mute] /\ Created(o)
        /\ tasks'[CloseOf(o)].pc = "end"
        /\ \A q \in Tracks : q # o => tasks'[CloseOf(q)] = tasks[CloseOf(q)]
        /\ \A t \in TaskNames :
                 /\ PcOK(t, tasks'[t].pc)
                 /\ tasks'[t].pc \in Attached => tasks'[t].track \in Tracks /\ Created(tasks'[t].track)
                 /\ tasks'[t].list = tasks[t].list /\ tasks'[t].todo = tasks[t].todo
                 /\ \A q \in tasks'[t].list : Created(q)
                 /\ tasks[t].pc = "take" => tasks'[t].pc = "take"
    BY <1>1, CallbackTasks
  <1>3. PublishTypes'
    BY <1>t, <1>1, <1>2 DEF PublishTypes
  <1>4. \A q \in Tracks :
              /\ tracks'[q].state = "closed" <=> tasks'[CloseOf(q)].pc # "idle"
              /\ tasks'[CloseOf(q)].pc = "end" => q \notin registry' \ unheard'
              /\ q \in registry' \/ announcing'[q] # "none" => Created(q)
              /\ EndsLater(q) => tracks'[q].state = "open" \/ tasks'[CloseOf(q)].pc \in {"close", "promote"}
    BY <1>1, <1>2, ZenonT(60) DEF TracksInv, ObjectOK, EndsLater, Open
  <1>5. \A d \in Sids : published'[d] # NoTrack =>
              /\ published'[d] = published[d]
              /\ tracks'[published[d]].state = "open" \/ tasks'[CloseOf(published[d])].pc = "close"
    BY <1>t, <1>1, <1>2 DEF TracksInv, ListedOK, Open, MaybeTrack
  <1>6. QED
    BY <1>1, <1>2, <1>3, <1>4, <1>5, TracksFrame

LEMMA AnnounceInv ==
    ASSUME TracksInv, NEW o \in Tracks, Announce(o)
    PROVE  TracksInv'
  <1>t. PublishTypes /\ published \in [Sids -> MaybeTrack] /\ registry \in SUBSET Tracks
        /\ announcing \in [Tracks -> {"none", "load", "add"}]
    BY DEF TracksInv, PublishTypes
  <1>1. /\ announcing[o] # "none"
        /\ \/ UNCHANGED <<registry, unheard>>
           \/ /\ registry' = registry \union {o}
              /\ unheard' = unheard \union {o} \/ (unheard' = unheard /\ tracks[o].state = "open")
        /\ announcing' = [announcing EXCEPT ![o] = "add"] \/ announcing' = [announcing EXCEPT ![o] = "none"]
        /\ UNCHANGED <<tscope, adds, pend, remote, arrived, tracks, tasks, published>>
    BY DEF Announce, tcountVars
  <1>2. Created(o)
    BY <1>1 DEF TracksInv, ObjectOK
  <1>3. PublishTypes'
    BY <1>t, <1>1 DEF PublishTypes
  <1>4. \A t \in TaskNames :
              /\ PcOK(t, tasks'[t].pc)
              /\ tasks'[t].pc \in Attached => tasks'[t].track \in Tracks /\ Created(tasks'[t].track)
              /\ \A q \in tasks'[t].list : Created(q)
    BY <1>1 DEF TracksInv, TaskOK
  <1>5. \A q \in Tracks :
              /\ tracks'[q].state = "closed" <=> tasks'[CloseOf(q)].pc # "idle"
              /\ tasks'[CloseOf(q)].pc = "end" => q \notin registry' \ unheard'
              /\ q \in registry' \/ announcing'[q] # "none" => Created(q)
              /\ EndsLater(q) => tracks'[q].state = "open" \/ tasks'[CloseOf(q)].pc \in {"close", "promote"}
    <2> SUFFICES ASSUME NEW q \in Tracks
                 PROVE  /\ tasks[CloseOf(q)].pc = "end" => q \notin registry' \ unheard'
                        /\ q \in registry' \/ announcing'[q] # "none" => Created(q)
      BY <1>1 DEF TracksInv, ObjectOK, EndsLater, Open
    <2>1. ObjectOK(q)
      BY DEF TracksInv
    <2>2. CASE q = o
      BY <1>1, <1>2, <2>1, <2>2 DEF ObjectOK
    <2>3. CASE q # o
      BY <1>t, <1>1, <2>1, <2>3 DEF ObjectOK
    <2>4. QED
      BY <2>2, <2>3
  <1>6. \A d \in Sids : published'[d] # NoTrack =>
              /\ published'[d] = published[d]
              /\ tracks'[published[d]].state = "open" \/ tasks'[CloseOf(published[d])].pc = "close"
    BY <1>1 DEF TracksInv, ListedOK, Open
  <1>7. QED
    BY <1>1, <1>3, <1>4, <1>5, <1>6, TracksFrame

LEMMA PromoteInv ==
    ASSUME TracksInv, NEW o \in Tracks, Promote(o)
    PROVE  TracksInv'
  <1>t. PublishTypes /\ published \in [Sids -> MaybeTrack] /\ pend \in [Cids -> PendingRecord]
    BY DEF TracksInv, PublishTypes
  <1> DEFINE c == tracks[o].cid
             p == [pend[c] EXCEPT !.queued = FALSE]
  <1>1. /\ tasks[CloseOf(o)].pc = "promote" /\ pend' = [pend EXCEPT ![c] = p]
        /\ tasks' = [tasks EXCEPT ![CloseOf(o)] = [tasks[CloseOf(o)] EXCEPT !.pc = "take"]]
        /\ UNCHANGED <<tscope, adds, remote, arrived, tracks, published, announcing, registry, unheard>>
    BY DEF Promote, SetTask, tcountVars
  <1>2. /\ tasks' \in [TaskNames -> TaskRecord] /\ tasks'[Mute] = tasks[Mute] /\ c \in Cids
        /\ tasks'[CloseOf(o)].pc = "take" /\ CloseOf(o) \in TaskNames
        /\ \A q \in Tracks : q # o => tasks'[CloseOf(q)] = tasks[CloseOf(q)]
        /\ \A t \in TaskNames :
                 /\ PcOK(t, tasks'[t].pc)
                 /\ tasks'[t].pc \in Attached => tasks'[t].track \in Tracks /\ Created(tasks'[t].track)
                 /\ tasks'[t].list = tasks[t].list /\ tasks'[t].todo = tasks[t].todo
                 /\ \A q \in tasks'[t].list : Created(q)
    BY <1>1, CallbackTasks
  <1>3. p \in PendingRecord /\ p.infos = pend[c].infos /\ p.queued = FALSE
    BY <1>t, <1>2 DEF PendingRecord
  <1> HIDE DEF c, p
  <1>4. /\ pend' \in [Cids -> PendingRecord]
        /\ \A k \in Cids : pend'[k].infos = pend[k].infos /\ (pend'[k].queued => pend[k].queued /\ k # c)
    BY <1>t, <1>1, <1>2, <1>3
  <1>5. PublishTypes'
    BY <1>t, <1>1, <1>2, <1>4 DEF PublishTypes
  <1>6. \A q \in Tracks :
              /\ tracks'[q].state = "closed" <=> tasks'[CloseOf(q)].pc # "idle"
              /\ tasks'[CloseOf(q)].pc = "end" => q \notin registry' \ unheard'
              /\ q \in registry' \/ announcing'[q] # "none" => Created(q)
    BY <1>1, <1>2 DEF TracksInv, ObjectOK
  <1>7. \A d \in Sids : published'[d] # NoTrack =>
              /\ published'[d] = published[d]
              /\ tracks'[published[d]].state = "open" \/ tasks'[CloseOf(published[d])].pc = "close"
    BY <1>t, <1>1, <1>2 DEF TracksInv, ListedOK, Open, MaybeTrack
  <1>8. LimitsOK'
    <2>1. Cardinality(PendingCids(pend')) <= MaxPending
      BY <1>4, FewerPending DEF TracksInv, LimitsOK
    <2>2. QED
      BY <1>4, <2>1 DEF TracksInv, LimitsOK
  <1>9. SharedSid'
    BY <1>4 DEF TracksInv, SharedSid
  <1>10. MuteOK'
    BY <1>1, <1>2, <1>4 DEF TracksInv, MuteOK
  <1>11. WaitingOK'
    BY <1>2 DEF WaitingOK
  <1>12. QueuedOK'
    <2> SUFFICES ASSUME NEW k \in Cids, pend'[k].queued
                 PROVE  \E q \in Tracks : /\ tracks'[q].cid = k
                                          /\ \/ tracks'[q].state = "open"
                                             \/ tasks'[CloseOf(q)].pc \in {"close", "promote"}
      BY DEF QueuedOK, EndsLater, Open
    <2>1. PICK q \in Tracks : tracks[q].cid = k /\ EndsLater(q)
      BY <1>4 DEF TracksInv, QueuedOK
    <2>2. q # o
      BY <1>4, <2>1 DEF c
    <2>3. QED
      BY <1>1, <1>2, <2>1, <2>2 DEF EndsLater, Open
  <1>13. QED
    BY <1>1, <1>2, <1>5, <1>6, <1>7, <1>8, <1>9, <1>10, <1>11, <1>12, RequestsFrame

-----------------------------------------------------------------------------
(* Offers, permissions, mutes and Close of the participant.                 *)

LEMMA CallsAre ==
    /\ Signal \in TaskNames /\ Admin \in TaskNames /\ Mute \in TaskNames /\ Closer \in TaskNames
    /\ \A t \in Calls : t \notin Closes /\ t \notin Media
    /\ \A pc \in Handling \union {"idle", "take"} : PcOK(Signal, pc)
    /\ \A pc \in {"idle", "list", "remove", "removing"} : PcOK(Admin, pc)
    /\ \A pc \in {"idle", "pending", "track"} : PcOK(Mute, pc)
    /\ \A pc \in {"idle", "clear", "uptracks", "close", "end"} : PcOK(Closer, pc)
  <1>1. Signal \in TaskNames /\ Admin \in TaskNames /\ Mute \in TaskNames /\ Closer \in TaskNames
    BY DEF TaskNames, Calls
  <1>2. \A t \in Calls : t \notin Closes /\ t \notin Media
    BY NamesDiffer
  <1>3. {Signal, Admin, Mute, Closer} \subseteq Calls
    BY DEF Calls
  <1>4. QED
    BY <1>1, <1>2, <1>3, NamesDiffer DEF PcOK

(* A call begins, goes on or returns, and nothing else happens. *)
LEMMA CallFrame ==
    ASSUME TracksInv, NEW t \in Calls \ {Mute}, NEW v \in TaskRecord, tasks' = [tasks EXCEPT ![t] = v],
           UNCHANGED <<tscope, adds, pend, remote, arrived, tracks, announcing, unheard, published>>,
           registry' \subseteq registry,
           PcOK(t, v.pc), v.pc \notin Attached, tasks[t].pc # "take",
           \A o \in v.list : Created(o), v.todo \subseteq tasks[t].todo
    PROVE  TracksInv'
  <1>1. t \in TaskNames /\ t # Mute /\ t \notin Closes
    BY CallsAre DEF TaskNames
  <1>2. published \in [Sids -> MaybeTrack]
    BY DEF TracksInv, PublishTypes
  <1>3. QED
    BY <1>1, <1>2, TaskFrame

LEMMA NewTask ==
    ASSUME NEW pc \in Handling \union {"idle", "take", "list", "clear", "end"}
    PROVE  /\ [NoTask EXCEPT !.pc = pc] \in TaskRecord /\ [NoTask EXCEPT !.pc = pc].pc = pc
           /\ [NoTask EXCEPT !.pc = pc].list = {} /\ [NoTask EXCEPT !.pc = pc].todo = {}
           /\ NoTask \in TaskRecord /\ NoTask.pc = "idle" /\ NoTask.list = {} /\ NoTask.todo = {}
  BY DEF NoTask, TaskRecord, MaybeTrack, Handling, Attached

LEMMA CallInv ==
    ASSUME TracksInv, HandleOffer \/ SetPermission
    PROVE  TracksInv'
  <1>1. UNCHANGED <<tscope, adds, pend, remote, arrived, tracks, announcing, unheard, published, registry>>
    BY DEF HandleOffer, SetPermission, trackVars, tcountVars
  <1>2. {"idle", "take", "list"} \intersect Attached = {} /\ Signal \in Calls \ {Mute} /\ Admin \in Calls \ {Mute}
    BY NamesDiffer DEF Attached, Calls
  <1>3. CASE HandleOffer
    <2> DEFINE v == [NoTask EXCEPT !.pc = "take"]
    <2>1. v \in TaskRecord /\ v.pc = "take" /\ v.list = {} /\ v.todo = {} /\ tasks[Signal].pc # "take"
      BY <1>3, NewTask DEF HandleOffer
    <2>2. tasks' = [tasks EXCEPT ![Signal] = v] /\ PcOK(Signal, "take")
      BY <1>3, CallsAre DEF HandleOffer, SetTask
    <2> HIDE DEF v
    <2>3. QED
      BY <1>1, <1>2, <2>1, <2>2, CallFrame
  <1>4. CASE SetPermission
    <2> DEFINE v == IF canPublish THEN [NoTask EXCEPT !.pc = "list"] ELSE NoTask
    <2>1. v \in TaskRecord /\ v.pc \in {"list", "idle"} /\ v.list = {} /\ v.todo = {} /\ tasks[Admin].pc # "take"
      BY <1>4, NewTask DEF SetPermission
    <2>2. tasks' = [tasks EXCEPT ![Admin] = v] /\ PcOK(Admin, v.pc)
      BY <1>4, <2>1, CallsAre DEF SetPermission, SetTask
    <2> HIDE DEF v
    <2>3. QED
      BY <1>1, <1>2, <2>1, <2>2, CallFrame
  <1>5. QED
    BY <1>3, <1>4

LEMMA RemoveTracksInv ==
    ASSUME TracksInv, RemoveTracks
    PROVE  TracksInv'
  <1> DEFINE task == tasks[Admin]
  <1>t. task \in TaskRecord /\ Admin \in TaskNames /\ \A o \in task.list : o \in Tracks /\ Created(o)
    BY CallsAre DEF TracksInv, PublishTypes, TaskOK, TaskRecord
  <1>1. UNCHANGED <<tscope, adds, pend, remote, arrived, announcing, unheard, published, registry>>
    BY DEF RemoveTracks, tcountVars
  <1>2. /\ Admin \in Calls \ {Mute} /\ Admin # Mute /\ Admin \notin Closes
        /\ PcOK(Admin, "remove") /\ PcOK(Admin, "removing") /\ PcOK(Admin, "idle")
        /\ {"idle", "remove"} \intersect Attached = {}
    BY NamesDiffer, CallsAre DEF Attached, Calls
  <1>3. CASE task.pc = "list" /\ UNCHANGED tracks /\ SetTask(Admin, [task EXCEPT !.pc = "remove", !.list = Listed])
    <2> DEFINE v == [task EXCEPT !.pc = "remove", !.list = Listed]
    <2>1. Listed \subseteq Tracks /\ \A o \in Listed : Created(o)
      BY ListedObjects
    <2>2. v \in TaskRecord /\ v.pc = "remove" /\ v.list = Listed /\ v.todo = task.todo
      BY <1>t, <2>1 DEF TaskRecord
    <2>3. tasks' = [tasks EXCEPT ![Admin] = v]
      BY <1>3 DEF SetTask
    <2> HIDE DEF v
    <2>4. QED
      BY <1>1, <1>2, <1>3, <2>1, <2>2, <2>3, CallFrame
  <1>4. ASSUME NEW o \in task.list, task.pc = "remove",
               CloseTrack(o, Admin, [task EXCEPT !.pc = "removing", !.track = o, !.list = task.list \ {o}])
        PROVE  TracksInv'
    <2> DEFINE v == [task EXCEPT !.pc = "removing", !.track = o, !.list = task.list \ {o}]
    <2>1. /\ v \in TaskRecord /\ v.pc = "removing" /\ v.track = o /\ v.list = task.list \ {o}
          /\ v.todo = task.todo
      BY <1>t DEF TaskRecord, MaybeTrack, Handling, Attached
    <2>2. CloseTrack(o, Admin, v)
      BY <1>4
    <2> HIDE DEF v
    <2>3. o \in Tracks /\ Created(o) /\ \A q \in v.list : Created(q)
      BY <1>t, <2>1
    <2>4. QED
      BY <1>t, <1>1, <1>2, <1>4, <2>1, <2>2, <2>3, CloseTrackInv
  <1>5. CASE task.pc = "remove" /\ SetTask(Admin, NoTask) /\ UNCHANGED tracks
    <2>1. tasks' = [tasks EXCEPT ![Admin] = NoTask] /\ tasks[Admin].pc # "take"
      BY <1>5 DEF SetTask
    <2>2. NoTask \in TaskRecord /\ NoTask.pc = "idle" /\ NoTask.list = {} /\ NoTask.todo = {}
      BY NewTask
    <2>3. QED
      BY <1>1, <1>2, <1>5, <2>1, <2>2, CallFrame
  <1>6. QED
    BY <1>3, <1>4, <1>5 DEF RemoveTracks

(* The room, or the supervisor, begins to close the participant; the room may *)
(* forget tracks of it.                                                       *)
LEMMA CloserBegins ==
    ASSUME TracksInv, UNCHANGED <<tscope, adds, pend, remote, arrived, tracks, announcing, unheard, published>>,
           registry' \subseteq registry,
           \/ UNCHANGED tasks
           \/ tasks' = [tasks EXCEPT ![Closer].pc = "clear"]
           \/ tasks' = [tasks EXCEPT ![Closer] = [NoTask EXCEPT !.pc = "clear"]]
    PROVE  TracksInv'
  <1>t. /\ tasks \in [TaskNames -> TaskRecord] /\ tasks[Closer] \in TaskRecord /\ Closer \in TaskNames
        /\ TaskOK(Closer)
    BY CallsAre DEF TracksInv, PublishTypes
  <1>1. /\ Closer \in Calls \ {Mute} /\ PcOK(Closer, "clear") /\ "clear" \notin Attached
        /\ \A o \in tasks[Closer].list : Created(o)
    BY <1>t, NamesDiffer, CallsAre DEF Attached, Calls, TaskOK
  <1>2. tasks[Closer].pc # "take" /\ tasks[Closer].pc \notin Attached /\ PcOK(Closer, tasks[Closer].pc)
    BY <1>t DEF TaskOK, PcOK, Attached
  <1>3. CASE UNCHANGED tasks
    <2>1. tasks' = [tasks EXCEPT ![Closer] = tasks[Closer]]
      BY <1>t, <1>3
    <2>2. QED
      BY <1>t, <1>1, <1>2, <2>1, CallFrame
  <1>4. CASE tasks' = [tasks EXCEPT ![Closer].pc = "clear"]
    <2> DEFINE v == [tasks[Closer] EXCEPT !.pc = "clear"]
    <2>1. v \in TaskRecord /\ v.pc = "clear" /\ v.list = tasks[Closer].list /\ v.todo = tasks[Closer].todo
      BY <1>t DEF TaskRecord
    <2>2. tasks' = [tasks EXCEPT ![Closer] = v]
      BY <1>4
    <2> HIDE DEF v
    <2>3. QED
      BY <1>1, <1>2, <2>1, <2>2, CallFrame
  <1>5. CASE tasks' = [tasks EXCEPT ![Closer] = [NoTask EXCEPT !.pc = "clear"]]
    <2> DEFINE v == [NoTask EXCEPT !.pc = "clear"]
    <2>1. v \in TaskRecord /\ v.pc = "clear" /\ v.list = {} /\ v.todo = {}
      BY NewTask
    <2>2. tasks' = [tasks EXCEPT ![Closer] = v]
      BY <1>5
    <2> HIDE DEF v
    <2>3. QED
      BY <1>1, <1>2, <2>1, <2>2, CallFrame
  <1>6. QED
    BY <1>3, <1>4, <1>5

LEMMA ClearInv ==
    ASSUME TracksInv, tasks[Closer].pc = "clear", pend' = [c \in Cids |-> NotPending],
           tasks' = [tasks EXCEPT ![Closer] = [tasks[Closer] EXCEPT !.pc = "uptracks"]],
           UNCHANGED <<tscope, adds, remote, arrived, tracks, announcing, registry, unheard, published>>
    PROVE  TracksInv'
  <1>t. /\ PublishTypes /\ tasks \in [TaskNames -> TaskRecord] /\ published \in [Sids -> MaybeTrack]
        /\ remote \in SUBSET Media
    BY DEF TracksInv, PublishTypes
  <1>c. /\ Closer \in TaskNames /\ Closer # Mute /\ Mute \in TaskNames /\ PcOK(Closer, "uptracks")
        /\ "uptracks" \notin Attached
        /\ \A o \in Tracks : CloseOf(o) \in TaskNames /\ CloseOf(o) # Closer
    BY CallsAre, NamesDiffer DEF Attached, Calls, TaskNames
  <1> DEFINE v == [tasks[Closer] EXCEPT !.pc = "uptracks"]
  <1>1. v \in TaskRecord /\ v.pc = "uptracks" /\ v.list = tasks[Closer].list /\ v.todo = tasks[Closer].todo
    BY <1>t, <1>c DEF TaskRecord
  <1>2. tasks' = [tasks EXCEPT ![Closer] = v]
    OBVIOUS
  <1> HIDE DEF v
  <1>3. /\ tasks' \in [TaskNames -> TaskRecord] /\ tasks'[Mute] = tasks[Mute]
        /\ \A t \in TaskNames : tasks'[t] = IF t = Closer THEN v ELSE tasks[t]
        /\ \A o \in Tracks : tasks'[CloseOf(o)] = tasks[CloseOf(o)]
    BY <1>t, <1>c, <1>1, <1>2
  <1>4. /\ NotPending.infos = <<>> /\ NotPending.queued = FALSE /\ NotPending \in PendingRecord
        /\ Len(<<>>) = 0 /\ DOMAIN <<>> = {}
    BY EmptySeq DEF NotPending, PendingRecord
  <1>5. PublishTypes'
    BY <1>t, <1>3, <1>4 DEF PublishTypes
  <1>6. \A t \in TaskNames :
              /\ PcOK(t, tasks'[t].pc)
              /\ tasks'[t].pc \in Attached => tasks'[t].track \in Tracks /\ Created(tasks'[t].track)
              /\ \A o \in tasks'[t].list : Created(o)
              /\ tasks'[t].todo \subseteq tasks[t].todo
    BY <1>c, <1>1, <1>3 DEF TracksInv, TaskOK
  <1>7. \A o \in Tracks :
              /\ tracks'[o].state = "closed" <=> tasks'[CloseOf(o)].pc # "idle"
              /\ tasks'[CloseOf(o)].pc = "end" => o \notin registry' \ unheard'
              /\ o \in registry' \/ announcing'[o] # "none" => Created(o)
    BY <1>3 DEF TracksInv, ObjectOK
  <1>8. \A d \in Sids : published'[d] # NoTrack =>
              /\ published'[d] = published[d]
              /\ tracks'[published[d]].state = "open" \/ tasks'[CloseOf(published[d])].pc = "close"
    BY <1>t, <1>3 DEF TracksInv, ListedOK, Open, MaybeTrack
  <1>9. \A c \in Cids : pend'[c].infos = <<>> /\ pend'[c].queued = FALSE
    BY <1>4
  <1>10. LimitsOK'
    <2>1. PendingCids(pend') = {}
      BY <1>9 DEF PendingCids
    <2>2. Cardinality(PendingCids(pend')) <= MaxPending
      BY <2>1, FS_EmptySet
    <2>3. QED
      BY <1>4, <1>9, <2>2 DEF LimitsOK
  <1>11. SharedSid' /\ QueuedOK'
    BY <1>4, <1>9 DEF SharedSid, QueuedOK
  <1>12. MuteOK'
    BY <1>3, <1>4, <1>9 DEF TracksInv, MuteOK
  <1>13. WaitingOK'
    BY <1>t, <1>9, NoTrackIsNone DEF WaitingOK, Tracks
  <1>14. QED
    BY <1>5, <1>6, <1>7, <1>8, <1>10, <1>11, <1>12, <1>13, RequestsFrame

LEMMA CloseStepInv ==
    ASSUME TracksInv, CloseStep
    PROVE  TracksInv'
  <1> DEFINE task == tasks[Closer]
  <1>t. /\ task \in TaskRecord /\ Closer \in TaskNames /\ published \in [Sids -> MaybeTrack]
        /\ \A o \in task.list : o \in Tracks /\ Created(o)
    BY CallsAre DEF TracksInv, PublishTypes, TaskOK, TaskRecord
  <1>1. UNCHANGED <<tscope, adds, remote, arrived, announcing, unheard, registry>>
    BY DEF CloseStep, tcountVars
  <1>2. /\ Closer \in Calls \ {Mute} /\ Closer # Mute /\ Closer \notin Closes
        /\ PcOK(Closer, "close") /\ PcOK(Closer, "end") /\ {"close", "end"} \intersect Attached = {}
    BY NamesDiffer, CallsAre DEF Attached, Calls
  <1>3. CASE /\ task.pc = "clear" /\ pend' = [c \in Cids |-> NotPending]
             /\ SetTask(Closer, [task EXCEPT !.pc = "uptracks"]) /\ UNCHANGED <<published, tracks>>
    BY <1>1, <1>3, ClearInv DEF SetTask
  <1>4. CASE /\ task.pc = "uptracks" /\ published' = [d \in Sids |-> NoTrack]
             /\ SetTask(Closer, [task EXCEPT !.pc = "close", !.list = Listed]) /\ UNCHANGED <<pend, tracks>>
    <2> DEFINE v == [task EXCEPT !.pc = "close", !.list = Listed]
    <2>1. Listed \subseteq Tracks /\ \A o \in Listed : Created(o)
      BY ListedObjects
    <2>2. v \in TaskRecord /\ v.pc = "close" /\ v.list = Listed /\ v.todo = task.todo
      BY <1>t, <2>1 DEF TaskRecord
    <2>3. tasks' = [tasks EXCEPT ![Closer] = v]
      BY <1>4 DEF SetTask
    <2> HIDE DEF v
    <2>4. published' \in [Sids -> MaybeTrack] /\ \A d \in Sids : published'[d] \in {published[d], NoTrack}
      BY <1>4 DEF MaybeTrack
    <2>5. QED
      BY <1>t, <1>1, <1>2, <1>4, <2>1, <2>2, <2>3, <2>4, TaskFrame
  <1>5. ASSUME NEW o \in task.list, task.pc = "close", UNCHANGED <<pend, published>>,
               CloseTrack(o, Closer, [task EXCEPT !.track = o, !.list = task.list \ {o}])
        PROVE  TracksInv'
    <2> DEFINE v == [task EXCEPT !.track = o, !.list = task.list \ {o}]
    <2>1. v \in TaskRecord /\ v.pc = "close" /\ v.list = task.list \ {o} /\ v.todo = task.todo
      BY <1>t, <1>5 DEF TaskRecord, MaybeTrack
    <2>2. CloseTrack(o, Closer, v)
      BY <1>5
    <2> HIDE DEF v
    <2>3. o \in Tracks /\ Created(o) /\ \A q \in v.list : Created(q)
      BY <1>t, <2>1
    <2>4. QED
      BY <1>t, <1>1, <1>2, <1>5, <2>1, <2>2, <2>3, CloseTrackInv
  <1>6. CASE task.pc = "close" /\ SetTask(Closer, [NoTask EXCEPT !.pc = "end"]) /\ UNCHANGED <<pend, published, tracks>>
    <2> DEFINE v == [NoTask EXCEPT !.pc = "end"]
    <2>1. v \in TaskRecord /\ v.pc = "end" /\ v.list = {} /\ v.todo = {}
      BY NewTask
    <2>2. tasks' = [tasks EXCEPT ![Closer] = v] /\ tasks[Closer].pc # "take"
      BY <1>6 DEF SetTask
    <2> HIDE DEF v
    <2>3. QED
      BY <1>1, <1>2, <1>6, <2>1, <2>2, CallFrame
  <1>7. QED
    BY <1>3, <1>4, <1>5, <1>6 DEF CloseStep

LEMMA SameLength ==
    ASSUME NEW s \in Seq(InfoRecord), NEW q \in [DOMAIN s -> InfoRecord]
    PROVE  q \in Seq(InfoRecord) /\ Len(q) = Len(s) /\ DOMAIN q = DOMAIN s /\ (q = <<>> <=> s = <<>>)
  <1>1. DOMAIN s = 1 .. Len(s) /\ Len(s) \in Nat
    OBVIOUS
  <1>2. q \in Seq(InfoRecord) /\ Len(q) = Len(s) /\ DOMAIN q = DOMAIN s
    BY <1>1
  <1>3. q = <<>> <=> s = <<>>
    BY <1>1, <1>2, EmptySeq
  <1>4. QED
    BY <1>2, <1>3

(* A mute changes nothing of the requests but how they are to be muted. *)
LEMMA WantedPending ==
    ASSUME pend \in [Cids -> PendingRecord], NEW d, NEW b \in BOOLEAN, NEW pd,
           pd = PendingWanted(d, b) \/ pd = PendingMuted(d, b)
    PROVE  /\ pd \in [Cids -> PendingRecord]
           /\ \A c \in Cids :
                 /\ pd[c].queued = pend[c].queued /\ Len(pd[c].infos) = Len(pend[c].infos)
                 /\ DOMAIN pd[c].infos = DOMAIN pend[c].infos /\ (pd[c].infos = <<>> <=> pend[c].infos = <<>>)
                 /\ \A i \in DOMAIN pend[c].infos :
                       /\ pd[c].infos[i].sid = pend[c].infos[i].sid
                       /\ pend[c].infos[i].sid # d => pd[c].infos[i] = pend[c].infos[i]
  <1>1. ASSUME NEW c \in Cids
        PROVE  /\ pd[c] \in PendingRecord
               /\ pd[c].queued = pend[c].queued /\ Len(pd[c].infos) = Len(pend[c].infos)
               /\ DOMAIN pd[c].infos = DOMAIN pend[c].infos /\ (pd[c].infos = <<>> <=> pend[c].infos = <<>>)
               /\ \A i \in DOMAIN pend[c].infos :
                     /\ pd[c].infos[i].sid = pend[c].infos[i].sid
                     /\ pend[c].infos[i].sid # d => pd[c].infos[i] = pend[c].infos[i]
    <2> DEFINE s == pend[c].infos
               W == [i \in DOMAIN s |-> IF s[i].sid = d THEN Wanted(s[i], b) ELSE s[i]]
               M == [i \in DOMAIN s |-> IF s[i].sid = d THEN Muted(s[i], b) ELSE s[i]]
    <2>1. pd[c] = [pend[c] EXCEPT !.infos = W] \/ pd[c] = [pend[c] EXCEPT !.infos = M]
      BY <1>1 DEF PendingWanted, PendingMuted
    <2>2. s \in Seq(InfoRecord) /\ pend[c] \in PendingRecord /\ \A i \in DOMAIN s : s[i] \in InfoRecord
      BY <1>1 DEF PendingRecord
    <2>3. \A i \in DOMAIN s : /\ Wanted(s[i], b) \in InfoRecord /\ Wanted(s[i], b).sid = s[i].sid
                              /\ Muted(s[i], b) \in InfoRecord /\ Muted(s[i], b).sid = s[i].sid
      BY <2>2 DEF Wanted, Muted, InfoRecord
    <2>4. /\ W \in [DOMAIN s -> InfoRecord]
          /\ \A i \in DOMAIN s : W[i].sid = s[i].sid /\ (s[i].sid # d => W[i] = s[i])
      BY <2>2, <2>3
    <2>5. /\ M \in [DOMAIN s -> InfoRecord]
          /\ \A i \in DOMAIN s : M[i].sid = s[i].sid /\ (s[i].sid # d => M[i] = s[i])
      BY <2>2, <2>3
    <2> HIDE DEF W, M
    <2>6. PICK q \in [DOMAIN s -> InfoRecord] :
             /\ \A i \in DOMAIN s : q[i].sid = s[i].sid /\ (s[i].sid # d => q[i] = s[i])
             /\ pd[c] = [pend[c] EXCEPT !.infos = q]
      BY <2>1, <2>4, <2>5
    <2>7. q \in Seq(InfoRecord) /\ Len(q) = Len(s) /\ DOMAIN q = DOMAIN s /\ (q = <<>> <=> s = <<>>)
      BY <2>2, SameLength
    <2>8. pd[c] \in PendingRecord /\ pd[c].infos = q /\ pd[c].queued = pend[c].queued
      BY <2>2, <2>6, <2>7 DEF PendingRecord
    <2>9. QED
      BY <2>6, <2>7, <2>8
  <1>2. pd = [c \in Cids |-> pd[c]]
    BY DEF PendingWanted, PendingMuted
  <1>3. pd \in [Cids -> PendingRecord]
    BY <1>1, <1>2
  <1>4. QED
    BY <1>1, <1>3

LEMMA MutedPending ==
    ASSUME pend \in [Cids -> PendingRecord], NEW d, NEW b \in BOOLEAN, NEW c \in Cids,
           NEW i \in DOMAIN pend[c].infos, pend[c].infos[i].sid = d
    PROVE  PendingMuted(d, b)[c].infos[i].muted = PendingMuted(d, b)[c].infos[i].want
  <1> DEFINE s == pend[c].infos
             M == [j \in DOMAIN s |-> IF s[j].sid = d THEN Muted(s[j], b) ELSE s[j]]
  <1>1. PendingMuted(d, b)[c] = [pend[c] EXCEPT !.infos = M]
    BY DEF PendingMuted
  <1>2. M[i] = Muted(s[i], b) /\ s[i] \in InfoRecord
    BY DEF PendingRecord
  <1>3. M[i].muted = M[i].want
    <2>1. Muted(s[i], b).muted = b /\ Muted(s[i], b).want = b
      BY <1>2 DEF Muted, InfoRecord
    <2>2. QED
      BY <1>2, <2>1
  <1> HIDE DEF M
  <1>4. PendingMuted(d, b)[c].infos = M
    BY <1>1 DEF PendingRecord
  <1>5. QED
    BY <1>3, <1>4

(* A step of the mute, which may reach requests and objects. *)
LEMMA MuteFrame ==
    ASSUME TracksInv, NEW v \in TaskRecord, tasks' = [tasks EXCEPT ![Mute] = v],
           v.pc \in {"idle", "pending", "track"}, v.todo \subseteq tasks[Mute].todo,
           v.list = {} \/ v.list = tasks[Mute].list,
           UNCHANGED <<tscope, adds, remote, arrived, announcing, registry, published, unheard>>,
           pend' \in [Cids -> PendingRecord],
           \A c \in Cids :
              /\ pend'[c].queued = pend[c].queued /\ Len(pend'[c].infos) = Len(pend[c].infos)
              /\ DOMAIN pend'[c].infos = DOMAIN pend[c].infos /\ (pend'[c].infos = <<>> <=> pend[c].infos = <<>>)
              /\ \A i \in DOMAIN pend[c].infos : pend'[c].infos[i].sid = pend[c].infos[i].sid,
           tracks' \in [Tracks -> ObjectRecord],
           \A o \in Tracks : /\ tracks'[o].state = tracks[o].state
                             /\ tracks'[o].cid = tracks[o].cid /\ tracks'[o].sid = tracks[o].sid,
           MuteOK'
    PROVE  TracksInv'
  <1>t. /\ PublishTypes /\ tasks \in [TaskNames -> TaskRecord] /\ published \in [Sids -> MaybeTrack]
        /\ remote \in SUBSET Media
    BY DEF TracksInv, PublishTypes
  <1>c. /\ Mute \in TaskNames /\ v.pc \notin Attached /\ PcOK(Mute, v.pc) /\ TaskOK(Mute)
        /\ \A o \in Tracks : CloseOf(o) \in TaskNames /\ CloseOf(o) # Mute
    BY CallsAre, NamesDiffer DEF Attached, Calls, TaskNames, TracksInv
  <1>1. /\ tasks' \in [TaskNames -> TaskRecord]
        /\ \A t \in TaskNames : tasks'[t] = IF t = Mute THEN v ELSE tasks[t]
        /\ \A o \in Tracks : tasks'[CloseOf(o)] = tasks[CloseOf(o)]
    BY <1>t, <1>c
  <1>2. PublishTypes'
    BY <1>t, <1>1 DEF PublishTypes
  <1>3. \A t \in TaskNames :
              /\ PcOK(t, tasks'[t].pc)
              /\ tasks'[t].pc \in Attached => tasks'[t].track \in Tracks /\ Created(tasks'[t].track)
              /\ \A o \in tasks'[t].list : Created(o)
              /\ tasks'[t].todo \subseteq tasks[t].todo
    BY <1>c, <1>1 DEF TracksInv, TaskOK
  <1>4. \A o \in Tracks :
              /\ tracks'[o].state = "closed" <=> tasks'[CloseOf(o)].pc # "idle"
              /\ tasks'[CloseOf(o)].pc = "end" => o \notin registry' \ unheard'
              /\ o \in registry' \/ announcing'[o] # "none" => Created(o)
    BY <1>1 DEF TracksInv, ObjectOK
  <1>5. \A d \in Sids : published'[d] # NoTrack =>
              /\ published'[d] = published[d]
              /\ tracks'[published[d]].state = "open" \/ tasks'[CloseOf(published[d])].pc = "close"
    BY <1>t, <1>1 DEF TracksInv, ListedOK, Open, MaybeTrack
  <1>6. LimitsOK'
    <2>1. Cardinality(PendingCids(pend')) <= MaxPending
      BY FewerPending DEF TracksInv, LimitsOK
    <2>2. QED
      BY <2>1 DEF TracksInv, LimitsOK
  <1>7. SharedSid'
    BY DEF TracksInv, SharedSid
  <1>8. WaitingOK'
    <2> SUFFICES ASSUME NEW n \in remote
                 PROVE  \/ pend'[n[1]].infos = <<>> \/ pend'[n[1]].queued
                        \/ \E t \in TaskNames : tasks'[t].pc = "take"
      BY DEF WaitingOK
    <2>1. n[1] \in Cids
      BY <1>t, NoTrackIsNone DEF Tracks
    <2>2. tasks[Mute].pc # "take"
      BY <1>c DEF TaskOK, PcOK
    <2>3. \/ pend[n[1]].infos = <<>> \/ pend[n[1]].queued \/ \E t \in TaskNames : tasks[t].pc = "take"
      BY DEF TracksInv, WaitingOK
    <2>4. QED
      BY <1>1, <2>1, <2>2, <2>3
  <1>9. QueuedOK'
    BY <1>1 DEF TracksInv, QueuedOK, EndsLater, Open
  <1>10. QED
    BY <1>2, <1>3, <1>4, <1>5, <1>6, <1>7, <1>8, <1>9, RequestsFrame

LEMMA SetTrackMutedInv ==
    ASSUME TracksInv, NEW d \in Sids, NEW b \in BOOLEAN, SetTrackMuted(d, b)
    PROVE  TracksInv'
  <1>t. /\ PublishTypes /\ tracks \in [Tracks -> ObjectRecord] /\ pend \in [Cids -> PendingRecord]
        /\ tasks \in [TaskNames -> TaskRecord] /\ published \in [Sids -> MaybeTrack]
    BY DEF TracksInv, PublishTypes
  <1> DEFINE v == [NoTask EXCEPT !.pc = "pending", !.sid = d, !.new = b]
  <1>1. /\ UNCHANGED <<tscope, adds, remote, arrived, announcing, registry, published, unheard>>
        /\ tasks[Mute] = NoTask /\ tasks' = [tasks EXCEPT ![Mute] = v] /\ pend' = PendingWanted(d, b)
        /\ tracks' = [o \in Tracks |-> IF tracks[o].sid = d THEN Wanted(tracks[o], b) ELSE tracks[o]]
    BY DEF SetTrackMuted, SetTask
  <1>2. v \in TaskRecord /\ v.pc = "pending" /\ v.sid = d /\ v.todo = {} /\ v.list = {}
    BY DEF NoTask, TaskRecord, MaybeTrack
  <1> HIDE DEF v
  <1>3. /\ pend' \in [Cids -> PendingRecord]
        /\ \A c \in Cids :
              /\ pend'[c].queued = pend[c].queued /\ Len(pend'[c].infos) = Len(pend[c].infos)
              /\ DOMAIN pend'[c].infos = DOMAIN pend[c].infos /\ (pend'[c].infos = <<>> <=> pend[c].infos = <<>>)
              /\ \A i \in DOMAIN pend[c].infos :
                    /\ pend'[c].infos[i].sid = pend[c].infos[i].sid
                    /\ pend[c].infos[i].sid # d => pend'[c].infos[i] = pend[c].infos[i]
    <2>1. pend \in [Cids -> PendingRecord] /\ (pend' = PendingWanted(d, b) \/ pend' = PendingMuted(d, b))
      BY <1>t, <1>1
    <2>2. QED
      BY <2>1, WantedPending
  <1>4. \A o \in Tracks : /\ Wanted(tracks[o], b) \in ObjectRecord /\ Wanted(tracks[o], b).state = tracks[o].state
                          /\ Wanted(tracks[o], b).cid = tracks[o].cid /\ Wanted(tracks[o], b).sid = tracks[o].sid
    BY <1>t DEF Wanted, ObjectRecord
  <1>5. /\ tracks' \in [Tracks -> ObjectRecord]
        /\ \A o \in Tracks : /\ tracks'[o].state = tracks[o].state
                             /\ tracks'[o].cid = tracks[o].cid /\ tracks'[o].sid = tracks[o].sid
                             /\ tracks[o].sid # d => tracks'[o] = tracks[o]
    BY <1>t, <1>1, <1>4
  <1>6. MuteOK'
    <2>1. MuteOK /\ tasks[Mute].pc = "idle" /\ tasks'[Mute] = v
      BY <1>t, <1>1, CallsAre DEF TracksInv, NoTask
    <2>2. \A c \in Cids : \A i \in DOMAIN pend'[c].infos :
              pend'[c].infos[i].muted = pend'[c].infos[i].want \/ pend'[c].infos[i].sid = d
      BY <1>3, <2>1 DEF MuteOK
    <2>3. \A e \in Sids : published[e] # NoTrack =>
              tracks'[published[e]].muted = tracks'[published[e]].want \/ e = d
      BY <1>t, <1>5, <2>1 DEF MuteOK, TracksInv, ListedOK, MaybeTrack
    <2>4. QED
      BY <1>1, <1>2, <2>1, <2>2, <2>3 DEF MuteOK
  <1>7. QED
    BY <1>1, <1>2, <1>3, <1>5, <1>6, MuteFrame, ZenonT(60)

LEMMA MuteStepInv ==
    ASSUME TracksInv, MuteStep
    PROVE  TracksInv'
  <1>t. /\ PublishTypes /\ tracks \in [Tracks -> ObjectRecord] /\ pend \in [Cids -> PendingRecord]
        /\ tasks \in [TaskNames -> TaskRecord] /\ published \in [Sids -> MaybeTrack] /\ MuteOK
    BY DEF TracksInv, PublishTypes
  <1> DEFINE task == tasks[Mute]
             d    == task.sid
             b    == task.new
  <1>1. /\ UNCHANGED <<tscope, adds, remote, arrived, announcing, registry, published, unheard>>
        /\ task.pc \in {"pending", "track"}
    BY DEF MuteStep, tcountVars
  <1>2. Mute \in TaskNames /\ task \in TaskRecord /\ d \in Sids /\ b \in BOOLEAN
    BY <1>t, <1>1, CallsAre DEF MuteOK, TaskRecord
  <1>3. CASE task.pc = "pending"
    <2> DEFINE v == [task EXCEPT !.pc = "track"]
    <2>1. pend' = PendingMuted(d, b) /\ tasks' = [tasks EXCEPT ![Mute] = v] /\ UNCHANGED tracks
      BY <1>3 DEF MuteStep, SetTask
    <2>2. v \in TaskRecord /\ v.pc = "track" /\ v.sid = d /\ v.todo = task.todo /\ v.list = task.list
      BY <1>2 DEF TaskRecord
    <2> HIDE DEF v
    <2>3. /\ pend' \in [Cids -> PendingRecord]
          /\ \A c \in Cids :
                /\ pend'[c].queued = pend[c].queued /\ Len(pend'[c].infos) = Len(pend[c].infos)
                /\ DOMAIN pend'[c].infos = DOMAIN pend[c].infos /\ (pend'[c].infos = <<>> <=> pend[c].infos = <<>>)
                /\ \A i \in DOMAIN pend[c].infos :
                      /\ pend'[c].infos[i].sid = pend[c].infos[i].sid
                      /\ pend[c].infos[i].sid # d => pend'[c].infos[i] = pend[c].infos[i]
      BY <1>t, <1>2, <2>1, WantedPending
    <2>4. \A c \in Cids : \A i \in DOMAIN pend[c].infos :
             pend[c].infos[i].sid = d => pend'[c].infos[i].muted = pend'[c].infos[i].want
      BY <1>t, <1>2, <2>1, MutedPending
    <2>5. MuteOK'
      <3>1. tasks'[Mute] = v
        BY <1>t, <1>2, <2>1
      <3>2. \A c \in Cids : \A i \in DOMAIN pend'[c].infos : pend'[c].infos[i].muted = pend'[c].infos[i].want
        BY <1>t, <2>3, <2>4 DEF MuteOK
      <3>3. \A e \in Sids : published[e] # NoTrack =>
               tracks[published[e]].muted = tracks[published[e]].want \/ e = d
        BY <1>t DEF MuteOK
      <3>4. QED
        BY <1>1, <1>2, <2>1, <2>2, <3>1, <3>2, <3>3 DEF MuteOK
    <2>6. QED
      BY <1>t, <1>1, <2>1, <2>2, <2>3, <2>5, MuteFrame
  <1>4. CASE task.pc = "track"
    <2> DEFINE o == published[d]
    <2>1. /\ tracks' = IF o = NoTrack THEN tracks ELSE [tracks EXCEPT ![o] = Muted(tracks[o], b)]
          /\ tasks' = [tasks EXCEPT ![Mute] = NoTask] /\ UNCHANGED pend
      BY <1>3, <1>4 DEF MuteStep, SetTask
    <2>2. NoTask \in TaskRecord /\ NoTask.pc = "idle" /\ NoTask.list = {} /\ NoTask.todo = {}
      BY NewTask
    <2>3. /\ tracks' \in [Tracks -> ObjectRecord]
          /\ \A q \in Tracks : /\ tracks'[q].state = tracks[q].state
                               /\ tracks'[q].cid = tracks[q].cid /\ tracks'[q].sid = tracks[q].sid
                               /\ q # o => tracks'[q] = tracks[q]
                               /\ q = o => tracks'[q].muted = tracks'[q].want
      <3>1. CASE o = NoTrack
        BY <1>t, <2>1, <3>1, NoTrackIsNone
      <3>2. CASE o # NoTrack
        <4> DEFINE x == Muted(tracks[o], b)
        <4>1. o \in Tracks
          BY <1>t, <1>2, <3>2 DEF MaybeTrack
        <4>t. tracks[o] \in ObjectRecord
          BY <1>t, <4>1
        <4> HIDE DEF o, b
        <4>2. /\ x \in ObjectRecord /\ x.state = tracks[o].state /\ x.cid = tracks[o].cid /\ x.sid = tracks[o].sid
              /\ x.muted = x.want
          BY <1>2, <4>t DEF Muted, ObjectRecord
        <4>3. tracks' = [tracks EXCEPT ![o] = x]
          BY <2>1, <3>2
        <4> HIDE DEF x
        <4>4. QED
          BY <1>t, <4>1, <4>2, <4>3
      <3>3. QED
        BY <3>1, <3>2
    <2>4. MuteOK'
      <3>1. tasks'[Mute] = NoTask
        BY <1>t, <1>2, <2>1
      <3>2. \A c \in Cids : \A i \in DOMAIN pend[c].infos : pend[c].infos[i].muted = pend[c].infos[i].want
        BY <1>t, <1>4 DEF MuteOK
      <3>3. ASSUME NEW e \in Sids, published[e] # NoTrack
            PROVE  tracks'[published[e]].muted = tracks'[published[e]].want
        <4>1. published[e] \in Tracks
          BY <1>t, <3>3 DEF MaybeTrack
        <4>2. CASE published[e] = o
          BY <2>3, <4>1, <4>2
        <4>3. CASE published[e] # o
          <5>1. e # d
            BY <4>3
          <5>2. tracks[published[e]].muted = tracks[published[e]].want
            BY <1>t, <3>3, <5>1 DEF MuteOK
          <5>3. QED
            BY <2>3, <4>1, <4>3, <5>2
        <4>4. QED
          BY <4>2, <4>3
      <3>4. QED
        BY <1>1, <2>1, <2>2, <3>1, <3>2, <3>3 DEF MuteOK
    <2>5. QED
      BY <1>t, <1>1, <2>1, <2>2, <2>3, <2>4, MuteFrame
  <1>5. QED
    BY <1>1, <1>3, <1>4

-----------------------------------------------------------------------------
(* AddTrack.                                                                *)

LEMMA ReleaseShrinks ==
    ASSUME TracksInv
    PROVE  /\ AfterRelease \in [Cids -> PendingRecord]
           /\ \A k \in Cids : AfterRelease[k] = pend[k] \/ AfterRelease[k] = NotPending
           /\ NotPending.infos = <<>> /\ NotPending.queued = FALSE /\ Len(<<>>) = 0 /\ DOMAIN <<>> = {}
           /\ Cardinality(PendingCids(AfterRelease)) <= MaxPending
  <1>1. pend \in [Cids -> PendingRecord] /\ Cardinality(PendingCids(pend)) <= MaxPending
    BY DEF TracksInv, PublishTypes, LimitsOK
  <1>2. /\ NotPending \in PendingRecord /\ NotPending.infos = <<>> /\ NotPending.queued = FALSE
        /\ Len(<<>>) = 0 /\ DOMAIN <<>> = {}
    BY EmptySeq DEF NotPending, PendingRecord
  <1>3. \A k \in Cids : AfterRelease[k] = pend[k] \/ AfterRelease[k] = NotPending
    BY DEF AfterRelease
  <1>4. AfterRelease \in [Cids -> PendingRecord]
    BY <1>1, <1>2 DEF AfterRelease
  <1>5. PendingCids(AfterRelease) \subseteq PendingCids(pend) /\ PendingCids(pend) \subseteq Cids
    BY <1>2, <1>3 DEF PendingCids
  <1>6. IsFiniteSet(PendingCids(pend))
    BY <1>5, FS_Subset
  <1>7. /\ Cardinality(PendingCids(AfterRelease)) <= Cardinality(PendingCids(pend))
        /\ IsFiniteSet(PendingCids(AfterRelease))
    BY <1>5, <1>6, FS_Subset
  <1>8. Cardinality(PendingCids(AfterRelease)) \in Nat /\ Cardinality(PendingCids(pend)) \in Nat
    BY <1>6, <1>7, FS_CardinalityType
  <1>9. QED
    BY <1>1, <1>2, <1>3, <1>4, <1>7, <1>8

(* Requests may go; Signal, which was idle, may begin to look at the media. *)
LEMMA AddFrame ==
    ASSUME TracksInv, tasks[Signal] = NoTask, adds' \in Nat, pend' \in [Cids -> PendingRecord],
           UNCHANGED <<tscope, remote, arrived, tracks, announcing, registry, published, unheard>>,
           NEW v \in TaskRecord, tasks' = [tasks EXCEPT ![Signal] = v],
           v.pc \in {"idle", "take"}, v.list = {}, v.todo = {},
           NEW c \in Cids, \A k \in Cids \ {c} : pend'[k] = pend[k] \/ pend'[k] = NotPending,
           LimitsOK',
           \A i \in DOMAIN pend'[c].infos : pend'[c].infos[i].muted = pend'[c].infos[i].want
              \/ \E j \in DOMAIN pend[c].infos : pend'[c].infos[i] = pend[c].infos[j],
           \A i, j \in DOMAIN pend'[c].infos : pend'[c].infos[i].sid = pend'[c].infos[j].sid,
           \/ v.pc = "take" \/ pend'[c].infos = <<>> \/ pend'[c].queued
           \/ pend[c].infos # <<>> /\ ~pend[c].queued,
           pend'[c].queued => pend[c].queued \/ PublishedBy(c) # {}
    PROVE  TracksInv'
  <1>t. /\ PublishTypes /\ tasks \in [TaskNames -> TaskRecord] /\ published \in [Sids -> MaybeTrack]
        /\ remote \in SUBSET Media
    BY DEF TracksInv, PublishTypes
  <1>c. /\ Signal \in TaskNames /\ Mute \in TaskNames /\ Signal # Mute /\ PcOK(Signal, v.pc) /\ v.pc \notin Attached
        /\ \A o \in Tracks : CloseOf(o) \in TaskNames /\ CloseOf(o) # Signal
    BY CallsAre, NamesDiffer DEF Attached, Calls, TaskNames
  <1>1. NoTask.pc = "idle"
    BY NewTask
  <1>2. /\ tasks' \in [TaskNames -> TaskRecord] /\ tasks'[Signal] = v
        /\ \A t \in TaskNames : t # Signal => tasks'[t] = tasks[t]
        /\ \A o \in Tracks : tasks'[CloseOf(o)] = tasks[CloseOf(o)]
    BY <1>t, <1>c
  <1>3. NotPending.infos = <<>> /\ NotPending.queued = FALSE /\ DOMAIN <<>> = {}
    BY ReleaseShrinks
  <1>4. PublishTypes'
    BY <1>t, <1>2 DEF PublishTypes
  <1>5. \A t \in TaskNames :
              /\ PcOK(t, tasks'[t].pc)
              /\ tasks'[t].pc \in Attached => tasks'[t].track \in Tracks /\ Created(tasks'[t].track)
              /\ \A o \in tasks'[t].list : Created(o)
              /\ tasks'[t].todo \subseteq tasks[t].todo
    BY <1>c, <1>1, <1>2 DEF TracksInv, TaskOK
  <1>6. \A o \in Tracks :
              /\ tracks'[o].state = "closed" <=> tasks'[CloseOf(o)].pc # "idle"
              /\ tasks'[CloseOf(o)].pc = "end" => o \notin registry' \ unheard'
              /\ o \in registry' \/ announcing'[o] # "none" => Created(o)
    BY <1>2 DEF TracksInv, ObjectOK
  <1>7. \A d \in Sids : published'[d] # NoTrack =>
              /\ published'[d] = published[d]
              /\ tracks'[published[d]].state = "open" \/ tasks'[CloseOf(published[d])].pc = "close"
    <2> SUFFICES ASSUME NEW d \in Sids, published[d] # NoTrack
                 PROVE  tracks[published[d]].state = "open" \/ tasks'[CloseOf(published[d])].pc = "close"
      OBVIOUS
    <2>1. published[d] \in Tracks
      BY <1>t DEF MaybeTrack
    <2>2. tasks'[CloseOf(published[d])] = tasks[CloseOf(published[d])]
      BY <1>2, <2>1
    <2>3. tracks[published[d]].state = "open" \/ tasks[CloseOf(published[d])].pc = "close"
      BY DEF TracksInv, ListedOK, Open
    <2>4. QED
      BY <2>2, <2>3
  <1>8. SharedSid'
    BY <1>3 DEF TracksInv, SharedSid
  <1>9. MuteOK'
    <2>1. MuteOK /\ tasks'[Mute] = tasks[Mute]
      BY <1>c, <1>2 DEF TracksInv
    <2>2. ASSUME NEW k \in Cids, NEW i \in DOMAIN pend'[k].infos
          PROVE  \/ pend'[k].infos[i].muted = pend'[k].infos[i].want
                 \/ tasks[Mute].pc = "pending" /\ pend'[k].infos[i].sid = tasks[Mute].sid
      <3>1. CASE k = c
        BY <2>1, <2>2, <3>1 DEF MuteOK
      <3>2. CASE k # c
        BY <1>3, <2>1, <2>2, <3>2 DEF MuteOK
      <3>3. QED
        BY <3>1, <3>2
    <2>3. \A d \in Sids : published'[d] # NoTrack =>
              \/ tracks'[published'[d]].muted = tracks'[published'[d]].want
              \/ tasks'[Mute].pc # "idle" /\ d = tasks'[Mute].sid
      BY <2>1 DEF MuteOK
    <2>4. tasks'[Mute].pc # "idle" => tasks'[Mute].sid \in Sids
      BY <2>1 DEF MuteOK
    <2>5. \A k \in Cids : \A i \in DOMAIN pend'[k].infos :
              \/ pend'[k].infos[i].muted = pend'[k].infos[i].want
              \/ tasks'[Mute].pc = "pending" /\ pend'[k].infos[i].sid = tasks'[Mute].sid
      BY <2>1, <2>2
    <2>6. QED
      BY <2>3, <2>4, <2>5 DEF MuteOK
  <1>10. WaitingOK'
    <2> SUFFICES ASSUME NEW n \in remote
                 PROVE  \/ pend'[n[1]].infos = <<>> \/ pend'[n[1]].queued
                        \/ \E t \in TaskNames : tasks'[t].pc = "take"
      BY DEF WaitingOK
    <2>1. n[1] \in Cids
      BY <1>t, NoTrackIsNone DEF Tracks
    <2>2. \/ pend[n[1]].infos = <<>> \/ pend[n[1]].queued \/ \E t \in TaskNames : tasks[t].pc = "take"
      BY DEF TracksInv, WaitingOK
    <2>3. CASE \E t \in TaskNames : tasks[t].pc = "take"
      BY <1>1, <1>2, <2>3
    <2>4. CASE n[1] # c
      BY <1>3, <2>1, <2>2, <2>3, <2>4
    <2>5. CASE n[1] = c
      BY <1>c, <1>1, <1>2, <2>2, <2>3, <2>5
    <2>6. QED
      BY <2>4, <2>5
  <1>11. QueuedOK'
    <2> SUFFICES ASSUME NEW k \in Cids, pend'[k].queued
                 PROVE  \E o \in Tracks : tracks[o].cid = k /\ EndsLater(o)
      <3>1. \A o \in Tracks : EndsLater(o)' <=> EndsLater(o)
        BY <1>2 DEF EndsLater, Open
      <3>2. QED
        BY <3>1 DEF QueuedOK
    <2>1. CASE pend[k].queued
      BY <2>1 DEF TracksInv, QueuedOK
    <2>2. CASE k = c /\ PublishedBy(c) # {}
      BY <2>2, ListedObjects DEF PublishedBy
    <2>3. QED
      BY <1>3, <2>1, <2>2
  <1>12. QED
    BY <1>4, <1>5, <1>6, <1>7, <1>8, <1>9, <1>10, <1>11, RequestsFrame

LEMMA AddTrackInv ==
    ASSUME TracksInv, NEW c \in Cids, AddTrack(c)
    PROVE  TracksInv'
  <1>t. /\ PublishTypes /\ tasks \in [TaskNames -> TaskRecord] /\ pend \in [Cids -> PendingRecord]
        /\ adds \in Nat /\ tscope.adds \in 0 .. MaxAdds /\ LimitsOK /\ SharedSid
    BY DEF TracksInv, PublishTypes, PublishScope
  <1> DEFINE ar == AfterRelease
             s  == ar[c].infos
  <1>1. /\ tasks[Signal] = NoTask /\ adds < tscope.adds /\ adds' = adds + 1
        /\ UNCHANGED <<tscope, remote, arrived, tracks, announcing, registry, published, unheard>>
    BY DEF AddTrack
  <1>2. /\ ar \in [Cids -> PendingRecord]
        /\ \A k \in Cids : ar[k] = pend[k] \/ ar[k] = NotPending
        /\ NotPending.infos = <<>> /\ NotPending.queued = FALSE /\ Len(<<>>) = 0 /\ DOMAIN <<>> = {}
        /\ Cardinality(PendingCids(ar)) <= MaxPending
    BY ReleaseShrinks
  <1>3. adds' \in Nat /\ Signal \in TaskNames /\ adds + 1 \in Sids
    BY <1>t, <1>1, CallsAre DEF Sids
  <1>4. CASE Refused(c)
    <2>1. pend' = ar /\ UNCHANGED tasks
      BY <1>4 DEF AddTrack
    <2>2. /\ tasks' = [tasks EXCEPT ![Signal] = NoTask]
          /\ NoTask \in TaskRecord /\ NoTask.pc = "idle" /\ NoTask.list = {} /\ NoTask.todo = {}
      BY <1>t, <1>1, <1>3, <2>1, NewTask
    <2> HIDE DEF ar
    <2>3. LimitsOK'
      BY <1>t, <1>2, <2>1 DEF LimitsOK
    <2>4. /\ \A i \in DOMAIN pend'[c].infos : \E j \in DOMAIN pend[c].infos : pend'[c].infos[i] = pend[c].infos[j]
          /\ \A i, j \in DOMAIN pend'[c].infos : pend'[c].infos[i].sid = pend'[c].infos[j].sid
      BY <1>t, <1>2, <2>1 DEF SharedSid
    <2>5. /\ \/ pend'[c].infos = <<>> \/ pend'[c].queued
             \/ pend[c].infos # <<>> /\ ~pend[c].queued
          /\ pend'[c].queued => pend[c].queued
      BY <1>2, <2>1
    <2>6. \A k \in Cids \ {c} : pend'[k] = pend[k] \/ pend'[k] = NotPending
      BY <1>2, <2>1
    <2>7. pend' \in [Cids -> PendingRecord]
      BY <1>2, <2>1
    <2>8. QED
      BY <1>1, <1>3, <2>2, <2>3, <2>4, <2>5, <2>6, <2>7, AddFrame
  <1>5. CASE ~Refused(c)
    <2> DEFINE info == [sid |-> SidFor(c), muted |-> FALSE, want |-> FALSE]
               bh   == Behind(c)
               p    == [infos |-> Append(s, info), queued |-> IF s = <<>> THEN bh ELSE ar[c].queued]
               pc   == IF bh THEN "idle" ELSE "take"
               v    == [NoTask EXCEPT !.pc = pc]
    <2>1. pend' = [ar EXCEPT ![c] = p] /\ tasks' = [tasks EXCEPT ![Signal] = v]
      BY <1>5 DEF AddTrack, AddPending, SetTask
    <2>v. v \in TaskRecord /\ v.pc = pc /\ v.list = {} /\ v.todo = {}
      <3>1. pc \in {"idle", "take"}
        OBVIOUS
      <3> HIDE DEF pc
      <3>2. QED
        BY <3>1, NewTask
    <2>2. /\ Cardinality(PendingCids(ar)) < MaxPending /\ Len(s) < MaxQueued
      <3>1. Cardinality(PendingCids(ar)) \in Nat /\ Len(s) \in Nat
        <4>1. PendingCids(ar) \subseteq Cids
          BY DEF PendingCids
        <4>2. IsFiniteSet(PendingCids(ar))
          BY <4>1, FS_Subset
        <4>3. QED
          BY <1>2, <4>2, FS_CardinalityType DEF PendingRecord
      <3>2. QED
        BY <1>5, <3>1 DEF Refused, TooManyPending, TooManyQueued
    <2>3. bh \in BOOLEAN /\ (bh <=> s # <<>> \/ PublishedBy(c) # {})
      BY DEF Behind
    <2>4. s \in Seq(InfoRecord) /\ ar[c].queued \in BOOLEAN
      BY <1>2 DEF PendingRecord
    <2>5. SidFor(c) \in Sids /\ (s # <<>> => SidFor(c) = s[1].sid)
      <3>1. CASE s = <<>>
        BY <1>3, <3>1 DEF SidFor
      <3>2. CASE s # <<>>
        <4>1. SidFor(c) = Head(s).sid
          BY <3>2 DEF SidFor
        <4>2. Head(s) \in InfoRecord /\ Head(s) = s[1]
          BY <2>4, <3>2, TailRequests
        <4>3. QED
          BY <4>1, <4>2 DEF InfoRecord
      <3>3. QED
        BY <3>1, <3>2
    <2>6. info \in InfoRecord /\ info.muted = info.want /\ info.sid = SidFor(c)
      BY <2>5 DEF InfoRecord
    <2>s. \A i \in DOMAIN s : i \in DOMAIN pend[c].infos /\ s[i] = pend[c].infos[i] /\ s[i].sid = s[1].sid
      <3>1. CASE ar[c] = NotPending
        BY <1>2, <3>1
      <3>2. CASE ar[c] = pend[c]
        <4>1. s = pend[c].infos
          BY <3>2
        <4>2. \A i \in DOMAIN s : 1 \in DOMAIN s
          BY <2>4
        <4>3. QED
          BY <1>t, <4>1, <4>2 DEF SharedSid
      <3>3. QED
        BY <1>2, <3>1, <3>2
    <2>e. s # <<>> => ar[c] = pend[c] /\ pend[c].infos # <<>>
      BY <1>2
    <2> HIDE DEF info, bh, s, ar
    <2>7. /\ Append(s, info) \in Seq(InfoRecord) /\ Append(s, info) # <<>> /\ Len(Append(s, info)) = Len(s) + 1
          /\ DOMAIN Append(s, info) = 1 .. Len(s) + 1 /\ DOMAIN s = 1 .. Len(s) /\ Len(s) \in Nat
          /\ \A i \in DOMAIN s : Append(s, info)[i] = s[i]
          /\ Append(s, info)[Len(s) + 1] = info
      BY <2>4, <2>6, AppendProperties, LenProperties
    <2>8. /\ p \in PendingRecord /\ p.infos = Append(s, info)
          /\ p.queued = IF s = <<>> THEN bh ELSE ar[c].queued
      BY <2>3, <2>4, <2>7 DEF PendingRecord
    <2> HIDE DEF p
    <2>9. /\ pend' \in [Cids -> PendingRecord] /\ pend'[c] = p
          /\ \A k \in Cids \ {c} : pend'[k] = ar[k]
      BY <1>2, <2>1, <2>8
    <2>10. LimitsOK'
      <3>1. PendingCids(pend') \subseteq PendingCids(ar) \union {c} /\ PendingCids(ar) \subseteq Cids
        BY <2>9 DEF PendingCids
      <3>2. IsFiniteSet(PendingCids(ar)) /\ IsFiniteSet(PendingCids(ar) \union {c})
        BY <3>1, FS_Subset, FS_AddElement
      <3>3. /\ Cardinality(PendingCids(ar)) \in Nat /\ Cardinality(PendingCids(ar) \union {c}) \in Nat
            /\ Cardinality(PendingCids(ar) \union {c}) <= Cardinality(PendingCids(ar)) + 1
        <4>1. Cardinality(PendingCids(ar)) \in Nat /\ Cardinality(PendingCids(ar) \union {c}) \in Nat
          BY <3>2, FS_CardinalityType
        <4>2. Cardinality(PendingCids(ar) \union {c}) =
                 IF c \in PendingCids(ar) THEN Cardinality(PendingCids(ar)) ELSE Cardinality(PendingCids(ar)) + 1
          BY <3>2, FS_AddElement
        <4>3. QED
          BY <4>1, <4>2
      <3>4. /\ IsFiniteSet(PendingCids(pend'))
            /\ Cardinality(PendingCids(pend')) <= Cardinality(PendingCids(ar) \union {c})
        BY <3>1, <3>2, FS_Subset
      <3>5. Cardinality(PendingCids(pend')) \in Nat
        BY <3>4, FS_CardinalityType
      <3>6. Cardinality(PendingCids(pend')) <= MaxPending
        BY <2>2, <3>3, <3>4, <3>5
      <3>7. \A k \in Cids : Len(pend'[k].infos) <= MaxQueued /\ (pend'[k].queued => pend'[k].infos # <<>>)
        <4>1. ASSUME NEW k \in Cids \ {c}
              PROVE  Len(pend'[k].infos) <= MaxQueued /\ (pend'[k].queued => pend'[k].infos # <<>>)
          BY <1>t, <1>2, <2>9, <4>1 DEF LimitsOK
        <4>2. Len(pend'[c].infos) <= MaxQueued /\ pend'[c].infos # <<>>
          BY <2>2, <2>7, <2>8, <2>9
        <4>3. QED
          BY <4>1, <4>2
      <3>8. QED
        BY <3>6, <3>7 DEF LimitsOK
    <2>11. \A i \in DOMAIN pend'[c].infos :
              \/ pend'[c].infos[i].muted = pend'[c].infos[i].want
              \/ \E j \in DOMAIN pend[c].infos : pend'[c].infos[i] = pend[c].infos[j]
      <3> SUFFICES ASSUME NEW i \in 1 .. Len(s) + 1
                   PROVE  \/ p.infos[i].muted = p.infos[i].want
                          \/ \E j \in DOMAIN pend[c].infos : p.infos[i] = pend[c].infos[j]
        BY <2>7, <2>8, <2>9
      <3>1. CASE i = Len(s) + 1
        BY <2>6, <2>7, <2>8, <3>1
      <3>2. CASE i # Len(s) + 1
        <4>1. i \in DOMAIN s
          BY <2>7, <3>2
        <4>2. QED
          BY <2>7, <2>8, <2>s, <4>1
      <3>3. QED
        BY <3>1, <3>2
    <2>12. \A i, j \in DOMAIN pend'[c].infos : pend'[c].infos[i].sid = pend'[c].infos[j].sid
      <3>1. \A i \in DOMAIN p.infos : p.infos[i].sid = SidFor(c)
        <4> SUFFICES ASSUME NEW i \in 1 .. Len(s) + 1 PROVE p.infos[i].sid = SidFor(c)
          BY <2>7, <2>8
        <4>1. CASE i = Len(s) + 1
          BY <2>6, <2>7, <2>8, <4>1
        <4>2. CASE i # Len(s) + 1
          <5>1. i \in DOMAIN s /\ s # <<>>
            BY <1>2, <2>7, <4>2
          <5>2. QED
            BY <2>5, <2>7, <2>8, <2>s, <5>1
        <4>3. QED
          BY <4>1, <4>2
      <3>2. QED
        BY <2>9, <3>1
    <2>13. /\ \/ pc = "take" \/ pend'[c].infos = <<>> \/ pend'[c].queued
              \/ pend[c].infos # <<>> /\ ~pend[c].queued
           /\ pend'[c].queued => pend[c].queued \/ PublishedBy(c) # {}
           /\ pc \in {"idle", "take"}
      <3>1. CASE s = <<>>
        BY <2>3, <2>8, <2>9, <3>1
      <3>2. CASE s # <<>>
        BY <2>8, <2>9, <2>e, <3>2
      <3>3. QED
        BY <3>1, <3>2
    <2>14. \A k \in Cids \ {c} : pend'[k] = pend[k] \/ pend'[k] = NotPending
      BY <1>2, <2>9
    <2> HIDE DEF pc, v
    <2>15. QED
      BY <1>1, <1>3, <2>1, <2>v, <2>9, <2>10, <2>11, <2>12, <2>13, <2>14, AddFrame
  <1>6. QED
    BY <1>4, <1>5

-----------------------------------------------------------------------------
(* Every step preserves the invariant.                                      *)

LEMMA PublishStepInv == PublishInv /\ [PublishNext]_allVars => PublishInv'
  <1> SUFFICES ASSUME PublishInv, [PublishNext]_allVars PROVE PublishInv'
    OBVIOUS
  <1>i. RoomsInv /\ TracksInv
    BY DEF PublishInv
  <1>r. UNCHANGED roomVars => RoomsInv'
    BY <1>i, RoomsStepInv
  <1>1. CASE UNCHANGED allVars
    <2>1. UNCHANGED roomVars
      BY <1>1 DEF allVars
    <2>2. UNCHANGED <<tscope, adds, pend, remote, arrived, tracks, announcing, unheard, published, registry, tasks>>
      BY <1>1 DEF allVars, publishVars, trackVars, tcountVars
    <2>3. TracksInv'
      BY <1>i, <2>2, CloserBegins
    <2>4. QED
      BY <1>r, <2>1, <2>3 DEF PublishInv
  <1>2. CASE RoomsNext /\ Followed
    <2>1. RoomsInv'
      BY <1>i, <1>2, RoomsStepInv
    <2>2. /\ UNCHANGED <<tscope, adds, pend, remote, arrived, tracks, announcing, unheard, published>>
          /\ registry' \subseteq registry
          /\ tasks' = tasks \/ tasks' = [tasks EXCEPT ![Closer].pc = "clear"]
      BY <1>2 DEF Followed, tcountVars
    <2>3. TracksInv'
      BY <1>i, <2>2, CloserBegins
    <2>4. QED
      BY <2>1, <2>3 DEF PublishInv
  <1>3. ASSUME NEW t \in TaskNames, TaskStep(t) PROVE PublishInv'
    <2>1. UNCHANGED roomVars
      BY <1>3 DEF TaskStep, TakeRemote, MediaTrackReceived, AddReceiver, Permitted, RemovedTrack, Handled
    <2>2. TracksInv'
      BY <1>i, <1>3, TakeRemoteInv, MediaTrackReceivedInv, AddReceiverInv, PermittedInv, RemovedTrackInv, HandledInv
         DEF TaskStep
    <2>3. QED
      BY <1>r, <2>1, <2>2 DEF PublishInv
  <1>4. ASSUME NEW o \in Tracks, TrackStep(o) \/ ReceiverEnds(o) PROVE PublishInv'
    <2>1. UNCHANGED roomVars
      BY <1>4 DEF TrackStep, Unlist, Promote, Unpublish, Announce, ReceiverEnds
    <2>2. TracksInv'
      BY <1>i, <1>4, UnlistInv, PromoteInv, UnpublishInv, AnnounceInv, ReceiverEndsInv DEF TrackStep
    <2>3. QED
      BY <1>r, <2>1, <2>2 DEF PublishInv
  <1>5. CASE RemoveTracks \/ MuteStep \/ CloseStep \/ HandleOffer \/ SetPermission
    <2>1. UNCHANGED roomVars
      BY <1>5 DEF RemoveTracks, MuteStep, CloseStep, HandleOffer, SetPermission
    <2>2. TracksInv'
      BY <1>i, <1>5, RemoveTracksInv, MuteStepInv, CloseStepInv, CallInv
    <2>3. QED
      BY <1>r, <2>1, <2>2 DEF PublishInv
  <1>6. CASE \/ \E c \in Cids : AddTrack(c)
             \/ \E m \in Media : OnTrack(m)
             \/ \E d \in Sids, b \in BOOLEAN : SetTrackMuted(d, b)
    <2>1. UNCHANGED roomVars
      BY <1>6 DEF AddTrack, OnTrack, SetTrackMuted
    <2>2. TracksInv'
      BY <1>i, <1>6, AddTrackInv, OnTrackInv, SetTrackMutedInv
    <2>3. QED
      BY <1>r, <2>1, <2>2 DEF PublishInv
  <1>7. CASE PublisherConnected \/ \E d \in Sids : WaitPasses(d)
    <2>1. UNCHANGED roomVars
      BY <1>7 DEF PublisherConnected, WaitPasses
    <2>2. UNCHANGED <<tscope, adds, pend, remote, arrived, tracks, announcing, unheard, published, registry, tasks>>
      BY <1>7 DEF PublisherConnected, WaitPasses, trackVars, tcountVars
    <2>3. TracksInv'
      BY <1>i, <2>2, CloserBegins
    <2>4. QED
      BY <1>r, <2>1, <2>3 DEF PublishInv
  <1>8. CASE CheckPublications
    <2>1. /\ UNCHANGED <<current, sweeper, rooms, starts>>
          /\ UNCHANGED <<mscope, removals, changes, stored, sweeps, deletes>>
          /\ parts' = parts \/ parts' = Closing(parts, Publisher)
      BY <1>8 DEF CheckPublications, threadVars
    <2>2. RoomsInv'
      <3>1. CASE parts' = parts
        BY <1>r, <2>1, <3>1 DEF roomVars, threadVars
      <3>2. CASE parts' = Closing(parts, Publisher)
        BY <1>i, <2>1, <3>2, ClosingInv
      <3>3. QED
        BY <2>1, <3>1, <3>2
    <2>3. /\ UNCHANGED <<tscope, adds, pend, remote, arrived, tracks, announcing, unheard, published, registry>>
          /\ tasks' = tasks \/ tasks' = [tasks EXCEPT ![Closer] = [NoTask EXCEPT !.pc = "clear"]]
      BY <1>8 DEF CheckPublications, SetTask, trackVars, tcountVars
    <2>4. TracksInv'
      BY <1>i, <2>3, CloserBegins
    <2>5. QED
      BY <2>2, <2>4 DEF PublishInv
  <1>9. QED
    <2>1. DOMAIN tasks = TaskNames /\ Signal \in TaskNames
      BY <1>i, CallsAre DEF TracksInv, PublishTypes
    <2>2. CASE PublishThreads
      BY <1>3, <1>4, <1>5, <2>1, <2>2 DEF PublishThreads
    <2>3. CASE PublishNext
      BY <1>2, <1>3, <1>4, <1>5, <1>6, <1>7, <1>8, <2>1, <2>2, <2>3 DEF PublishNext
    <2>4. QED
      BY <1>1, <2>3

-----------------------------------------------------------------------------
(* Theorems.                                                                *)

(* The inductive invariant holds throughout. *)
THEOREM PublishInvariant == PublishSpec => []PublishInv
  BY PublishInitInv, PublishStepInv, PTL DEF PublishSpec

(* The limits on pending requests hold whatever requests, releases and media  *)
(* come (addPendingTrack counts under pendingTracksLock), and a track is      *)
(* listed under its own ID only.                                              *)
THEOREM RequestsAreLimited == PublishSpec => []PublishTypeOK
  <1>1. PublishInv => PublishTypeOK
    BY RoomsInvImplies DEF PublishInv, TracksInv, PublishTypes, LimitsOK, ListedOK, PublishTypeOK
  <1>2. QED
    BY <1>1, PublishInvariant, PTL

(* A mute is not lost between the pending and the published tracks: when      *)
(* SetTrackMuted has returned, every request and every listed track is muted  *)
(* as wanted, also one that became published during the call.                 *)
THEOREM MuteReachesTheTrack == PublishSpec => []MuteIsApplied
  <1>1. PublishInv => MuteIsApplied
    <2> SUFFICES ASSUME MuteOK, tasks[Mute] = NoTask
                 PROVE  /\ \A c \in Cids : \A i \in DOMAIN pend[c].infos :
                              pend[c].infos[i].muted = pend[c].infos[i].want
                        /\ \A o \in Listed : tracks[o].muted = tracks[o].want
      BY DEF PublishInv, TracksInv, MuteIsApplied
    <2>1. tasks[Mute].pc = "idle"
      BY NewTask
    <2>2. QED
      BY <2>1 DEF MuteOK, Listed
  <1>2. QED
    BY <1>1, PublishInvariant, PTL

(* Media that arrived before its request, or before its turn, is taken up     *)
(* (handlePendingRemoteTracks after addPendingTrack and in the callback of    *)
(* Close), and a request is queued only behind a track that has yet to end.   *)
THEOREM NothingIsForgotten == PublishSpec => []NothingForgotten
  <1>1. PublishInv => NothingForgotten
    <2> SUFFICES ASSUME PublishInv, Quiet
                 PROVE  /\ \A m \in remote : pend[m[1]].infos = <<>> \/ pend[m[1]].queued
                        /\ \A c \in Cids : pend[c].queued => \E o \in Tracks : Open(o) /\ tracks[o].cid = c
      BY DEF NothingForgotten
    <2>1. \A t \in TaskNames : tasks[t].pc \in {"idle", "end"}
      BY DEF Quiet, PublishInv, TracksInv, PublishTypes
    <2>2. \A m \in remote : pend[m[1]].infos = <<>> \/ pend[m[1]].queued
      BY <2>1 DEF PublishInv, TracksInv, WaitingOK
    <2>3. \A o \in Tracks : EndsLater(o) => Open(o)
      <3>1. \A o \in Tracks : CloseOf(o) \in TaskNames
        BY NamesDiffer DEF TaskNames
      <3>2. QED
        BY <2>1, <3>1 DEF EndsLater
    <2>4. QED
      BY <2>2, <2>3 DEF PublishInv, TracksInv, QueuedOK
  <1>2. QED
    BY <1>1, PublishInvariant, PTL

(* The room keeps no track that has ended (RoomTrackManager), apart from      *)
(* those announced after their end or that ended unheard: the goroutine of    *)
(* the announcement and the callback of Close run in any order.               *)
THEOREM ClosedTrackIsForgotten == PublishSpec => []ClosedIsForgotten
  <1>1. PublishInv => ClosedIsForgotten
    <2> SUFFICES ASSUME PublishInv, Quiet, NEW o \in registry \ unheard PROVE Open(o)
      BY DEF ClosedIsForgotten
    <2>1. o \in Tracks /\ ObjectOK(o) /\ tracks[o].state \in {"none", "open", "closed"}
      BY DEF PublishInv, TracksInv, PublishTypes, ObjectRecord
    <2>2. CloseOf(o) \in TaskNames
      BY <2>1, NamesDiffer DEF TaskNames
    <2>3. tasks[CloseOf(o)].pc \in {"idle", "end"}
      BY <2>2 DEF Quiet, PublishInv, TracksInv, PublishTypes
    <2>4. QED
      BY <2>1, <2>3 DEF ObjectOK, Open, Created
  <1>2. QED
    BY <1>1, PublishInvariant, PTL

(* What RoomLifecycle promises holds with a participant that publishes, and   *)
(* that the supervisor may close: it stays in its room while it is live, and  *)
(* does not stay in one that was closed.                                      *)
THEOREM PublisherInRoom == PublishSpec => [](LiveStaysMember /\ NobodyStaysInClosedRoom)
  <1>1. PublishInv => LiveStaysMember /\ NobodyStaysInClosedRoom
    BY RoomsInvImplies DEF PublishInv
  <1>2. QED
    BY <1>1, PublishInvariant, PTL
=============================================================================
