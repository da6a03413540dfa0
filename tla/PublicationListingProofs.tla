---------------------- MODULE PublicationListingProofs ----------------------
(***************************************************************************)
(* Proofs about the list of published tracks and the supervisor's monitors *)
(* of TrackPublication, on top of the invariant of TrackPublicationProofs: *)
(* after a revoke no track stays open, and a live track has its monitor.   *)
(***************************************************************************)
EXTENDS TrackPublicationProofs

USE PublishAssumption

-----------------------------------------------------------------------------
(* The inductive invariant.                                                 *)

(* A track ID belongs to one client ID, and is not used again. *)
Belongs(d, c) == \/ \E i \in DOMAIN pend[c].infos : pend[c].infos[i].sid = d
                 \/ \E o \in Tracks : Created(o) /\ tracks[o].cid = c /\ tracks[o].sid = d

SidsOK == \A d \in Sids, c \in Cids : Belongs(d, c) => d <= adds /\ \A b \in Cids : Belongs(d, b) => b = c

(* An open track is listed, or Participant.Close has it in hand. *)
OpenIsListed == \A o \in Tracks \ unlisted : Open(o) => o \in Listed \/ o \in tasks[Closer].list

CallsOK == /\ tasks[Closer].pc # "idle" => Stage # "open"
           /\ tasks[Closer].list # {} => tasks[Closer].pc = "close"
           /\ tasks[Admin].list # {} => tasks[Admin].pc \in {"remove", "removing"}

(* After a revoke somebody is about to close every track that is open: who    *)
(* made it, RemoveTracks or Participant.Close.                                *)
Making(t) == tasks[t].pc \in {"attach", "permit"}

WillBeClosed(o) == \/ \E t \in TaskNames : Making(t) /\ tasks[t].track = o
                   \/ tasks[Admin].pc = "list"
                   \/ o \in tasks[Admin].list \union tasks[Closer].list

RevokeOK == ~canPublish => \A o \in Tracks \ unlisted : Open(o) => WillBeClosed(o)

(* Media has a goroutine only once it has arrived. *)
MediaIdle == \A m \in Media \ arrived : tasks[m].pc = "idle"

(* Who takes a track off the list has closed it. *)
RemovingOK == \A t \in TaskNames : tasks[t].pc = "removing" => ~Open(tasks[t].track)

OpenInv == OpenIsListed /\ CallsOK /\ RevokeOK /\ MediaIdle /\ RemovingOK

(* A monitor waits for starts and ends in turn; for an end while it has a     *)
(* track.                                                                     *)
MonitorRecord == [exists : BOOLEAN, desired : Seq({"start", "end"}), track : MaybeTrack, muted : BOOLEAN,
                  timer : {"off", "armed", "due"}, err : BOOLEAN]

MonitorOK(m) ==
    /\ m \in MonitorRecord
    /\ ~m.exists => m.desired = <<>> /\ m.track = NoTrack
    /\ m.track # NoTrack => m.desired # <<>>
    /\ m.desired # <<>> => /\ m.desired[1] = (IF m.track = NoTrack THEN "start" ELSE "end")
                           /\ m.desired[Len(m.desired)] = "end"
    /\ \A i \in 1 .. Len(m.desired) - 1 : m.desired[i] # m.desired[i + 1]

(* It waits for every request that is pending. *)
Expects(m, n) == m.exists /\ 2 * n + (IF m.track = NoTrack THEN 0 ELSE 1) <= Len(m.desired)

RequestsExpected ==
    \A c \in Cids : pend[c].infos # <<>> => Expects(monitors[pend[c].infos[1].sid], Len(pend[c].infos))

MonitorsOK == monitors \in [Sids -> MonitorRecord] /\ \A d \in Sids : MonitorOK(monitors[d])

MonitorInv == MonitorsOK /\ RequestsExpected /\ LiveIsMonitored

ListingInv == SidsOK /\ OpenInv /\ MonitorInv

-----------------------------------------------------------------------------
(* The participant.                                                         *)

(* A participant that is closing does not open again. *)
LEMMA StageStays ==
    ASSUME RoomsInv, RoomsNext
    PROVE  Stage' = "open" => Stage = "open"
  <1> DEFINE OK == \A s \in Sessions : parts'[s].stage = "open" => parts[s].stage = "open"
  <1>t. parts \in [Sessions -> PartRecord]
    BY DEF RoomsInv, RoomTypes
  <1>1. ASSUME NEW t \in Sessions, parts' = Closing(parts, t) \/ parts' = [Closing(parts, t) EXCEPT ![t].listener = FALSE]
        PROVE  OK
    <2> DEFINE one == Closing(parts, t)
               two == [Closing(parts, t) EXCEPT ![t].listener = FALSE]
    <2>1. \A s \in Sessions : (one[s].stage = "open" => parts[s].stage = "open")
                              /\ (two[s].stage = "open" => parts[s].stage = "open")
      BY <1>t, ClosingPart
    <2>2. parts' = one \/ parts' = two
      BY <1>1
    <2> HIDE DEF one, two
    <2>3. QED
      BY <2>1, <2>2
  <1>2. UNCHANGED parts => OK
    OBVIOUS
  <1>3. ASSUME NEW s \in Sessions, StartSession(s) PROVE OK
    <2>1. CASE ReplaceParticipant(s)
      <3>1. UNCHANGED parts \/ \E t \in Sessions : parts' = [Closing(parts, t) EXCEPT ![t].listener = FALSE]
        BY <2>1 DEF ReplaceParticipant, RemoveParticipant, RoomsInv, StartOK
      <3>2. QED
        BY <1>1, <1>2, <3>1
    <2>2. CASE Join(s)
      BY <1>1, <1>2, <2>2 DEF Join
    <2>3. CASE AddOnClose(s)
      BY <1>t, <2>3 DEF AddOnClose, PartRecord
    <2>4. CASE HoldRoom(s) \/ Insert(s) \/ Allocate(s) \/ HoldNewRoom(s) \/ Release(s)
      BY <1>2, <2>4 DEF HoldRoom, Insert, Allocate, HoldNewRoom, Release
    <2>5. CASE FindParticipant(s) \/ AwaitClose(s) \/ StoreParticipant(s)
      BY <1>2, <2>5 DEF FindParticipant, AwaitClose, StoreParticipant
    <2>6. QED
      BY <1>3, <2>1, <2>2, <2>3, <2>4, <2>5 DEF StartSession
  <1>4. ASSUME NEW s \in Sessions, ParticipantStep(s) \/ StoreChange(s) \/ Activate(s) \/ Disconnect(s) \/ FindRoom(s)
        PROVE  OK
    <2>1. CASE ParticipantStep(s) \/ Activate(s)
      BY <1>t, <2>1 DEF ParticipantStep, Disconnected, OnClose, Activate, PartRecord
    <2>2. CASE Disconnect(s)
      BY <1>1, <2>2 DEF Disconnect
    <2>3. CASE StoreChange(s) \/ FindRoom(s)
      BY <1>2, <2>3 DEF StoreChange, FindRoom
    <2>4. QED
      BY <1>4, <2>1, <2>2, <2>3
  <1>5. ASSUME NEW s \in Sessions, RemoveDisconnected(s) \/ Leave(s) PROVE OK
    BY <1>1, <1>2, <1>5 DEF RemoveDisconnected, Leave, RemoveParticipant
  <1>6. ASSUME NEW r \in RoomIds, RoomStep(r) PROVE OK
    <2>1. UNCHANGED parts \/ \E t \in Sessions : parts' = Closing(parts, t)
      BY <1>6 DEF RoomStep, ListMembers, CloseMember, DeleteFromMap, DeleteFromStore
    <2>2. QED
      BY <1>1, <1>2, <2>1
  <1>7. ASSUME Sweep \/ SweepClose \/ DeleteRoom PROVE OK
    BY <1>2, <1>7 DEF Sweep, SweepClose, DeleteRoom
  <1> HIDE DEF OK
  <1>8. OK
    BY <1>3, <1>4, <1>5, <1>6, <1>7 DEF RoomsNext, RoomThreads
  <1>9. QED
    BY <1>8 DEF Stage, OK

-----------------------------------------------------------------------------
(* Track IDs.                                                               *)

(* Nothing new belongs to a client ID, apart from what gets the next ID. *)
LEMMA SidsFrame ==
    ASSUME SidsOK, adds \in Nat, adds' \in {adds, adds + 1},
           \/ \A d \in Sids, c \in Cids : Belongs(d, c)' => Belongs(d, c)
           \/ /\ adds' = adds + 1
              /\ \E b \in Cids : \A d \in Sids, c \in Cids : Belongs(d, c)' => Belongs(d, c) \/ (d = adds + 1 /\ c = b)
    PROVE  SidsOK'
  <1>s. \A d \in Sids : d \in Int
    BY DEF Sids
  <1>1. CASE \A d \in Sids, c \in Cids : Belongs(d, c)' => Belongs(d, c)
    <2> SUFFICES ASSUME NEW d \in Sids, NEW c \in Cids, Belongs(d, c)'
                 PROVE  d <= adds' /\ \A b \in Cids : Belongs(d, b)' => b = c
      BY DEF SidsOK
    <2> HIDE DEF Belongs
    <2>1. Belongs(d, c) /\ \A b \in Cids : Belongs(d, b)' => Belongs(d, b)
      BY <1>1
    <2>2. QED
      BY <1>s, <2>1 DEF SidsOK
  <1>2. ASSUME adds' = adds + 1, NEW b \in Cids,
               \A d \in Sids, c \in Cids : Belongs(d, c)' => Belongs(d, c) \/ (d = adds + 1 /\ c = b)
        PROVE  SidsOK'
    <2> SUFFICES ASSUME NEW d \in Sids, NEW c \in Cids, Belongs(d, c)'
                 PROVE  d <= adds' /\ \A a \in Cids : Belongs(d, a)' => a = c
      BY DEF SidsOK
    <2>1. \A a \in Cids : Belongs(d, a)' => Belongs(d, a) \/ (d = adds + 1 /\ a = b)
      BY <1>2
    <2>2. \A a \in Cids : Belongs(d, a) => d <= adds /\ \A e \in Cids : Belongs(d, e) => e = a
      BY DEF SidsOK
    <2>3. QED
      BY <1>s, <1>2, <2>1, <2>2
  <1>3. QED
    BY <1>1, <1>2

(* Requests that keep their IDs or go, and objects that keep theirs. *)
LEMMA SameBelongs ==
    ASSUME \A c \in Cids : \A i \in DOMAIN pend'[c].infos :
              \E j \in DOMAIN pend[c].infos : pend'[c].infos[i].sid = pend[c].infos[j].sid,
           \A o \in Tracks : tracks'[o].state # "none" => /\ tracks[o].state # "none"
                                                           /\ tracks'[o].cid = tracks[o].cid
                                                           /\ tracks'[o].sid = tracks[o].sid
    PROVE  \A d \in Sids, c \in Cids : Belongs(d, c)' => Belongs(d, c)
  <1> SUFFICES ASSUME NEW d \in Sids, NEW c \in Cids, Belongs(d, c)' PROVE Belongs(d, c)
    OBVIOUS
  <1>1. CASE \E i \in DOMAIN pend'[c].infos : pend'[c].infos[i].sid = d
    BY <1>1 DEF Belongs
  <1>2. CASE \E o \in Tracks : tracks'[o].state # "none" /\ tracks'[o].cid = c /\ tracks'[o].sid = d
    BY <1>2 DEF Belongs, Created
  <1>3. QED
    BY <1>1, <1>2 DEF Belongs, Created

-----------------------------------------------------------------------------
(* Open tracks.                                                             *)

LEMMA OpenFrame ==
    ASSUME OpenInv, unlisted \subseteq unlisted', canPublish' = canPublish,
           \A o \in Tracks : tracks'[o].state = "open" => Open(o),
           \A o \in Tracks \ unlisted' : tracks'[o].state = "open" /\ o \in Listed
                => o \in Listed' \/ o \in tasks'[Closer].list,
           \A u \in TaskNames : ~canPublish /\ Making(u) /\ tracks'[tasks[u].track].state = "open"
                => Making(u)' /\ tasks'[u].track = tasks[u].track,
           tasks[Admin].pc = "list" => tasks'[Admin].pc = "list" \/ Listed \subseteq tasks'[Admin].list,
           \A o \in tasks[Admin].list : tracks'[o].state = "open" => o \in tasks'[Admin].list,
           \A o \in tasks[Closer].list : tracks'[o].state = "open" => o \in tasks'[Closer].list,
           CallsOK', MediaIdle', RemovingOK'
    PROVE  OpenInv'
  <1>1. ASSUME NEW o \in Tracks \ unlisted', tracks'[o].state = "open"
        PROVE  o \in Listed' \/ o \in tasks'[Closer].list
    BY <1>1 DEF OpenInv, OpenIsListed
  <1>2. ASSUME ~canPublish, NEW o \in Tracks \ unlisted', tracks'[o].state = "open"
        PROVE  WillBeClosed(o)'
    <2>1. WillBeClosed(o) /\ (o \in Listed \/ o \in tasks[Closer].list)
      BY <1>2 DEF OpenInv, RevokeOK, OpenIsListed
    <2>2. CASE \E t \in TaskNames : Making(t) /\ tasks[t].track = o
      BY <1>2, <2>2 DEF WillBeClosed
    <2>3. CASE tasks[Admin].pc = "list"
      BY <1>2, <2>1, <2>3 DEF WillBeClosed
    <2>4. CASE o \in tasks[Admin].list \union tasks[Closer].list
      BY <1>2, <2>4 DEF WillBeClosed
    <2>5. QED
      BY <2>1, <2>2, <2>3, <2>4 DEF WillBeClosed
  <1>3. OpenIsListed'
    BY <1>1 DEF OpenIsListed, Open
  <1>4. RevokeOK'
    BY <1>2 DEF RevokeOK, Open
  <1>5. QED
    BY <1>3, <1>4 DEF OpenInv

(* A step of one task other than Participant.Close. *)
LEMMA OpenTask ==
    ASSUME TracksInv, OpenInv, NEW t \in TaskNames \ {Closer}, NEW v, tasks' = [tasks EXCEPT ![t] = v],
           t = Admin => /\ tasks[t].pc # "list" /\ v.list = tasks[t].list
                        /\ v.pc \in {"remove", "removing"} \/ v.list = {},
           unlisted \subseteq unlisted', UNCHANGED <<canPublish, parts>>,
           \A o \in Tracks : tracks'[o].state = "open" => Open(o),
           \A o \in Tracks \ unlisted' : tracks'[o].state = "open" /\ o \in Listed => o \in Listed',
           ~canPublish /\ Making(t) => v.pc \in {"attach", "permit"} /\ v.track = tasks[t].track,
           v.pc # "removing",
           arrived \subseteq arrived', t \in Media \ arrived' => v.pc = "idle"
    PROVE  OpenInv'
  <1>t. tasks \in [TaskNames -> TaskRecord] /\ Admin \in TaskNames /\ Closer \in TaskNames
    BY CallsAre DEF TracksInv, PublishTypes
  <1>1. /\ tasks'[t] = v /\ \A u \in TaskNames \ {t} : tasks'[u] = tasks[u]
        /\ tasks'[Admin].list = tasks[Admin].list /\ tasks'[Closer] = tasks[Closer]
        /\ tasks[Admin].pc = "list" => tasks'[Admin].pc = "list"
        /\ tasks'[Admin] = tasks[Admin] \/ tasks'[Admin].pc \in {"remove", "removing"} \/ tasks'[Admin].list = {}
    BY <1>t
  <1>2. \A u \in TaskNames : ~canPublish /\ Making(u) /\ tracks'[tasks[u].track].state = "open"
                => Making(u)' /\ tasks'[u].track = tasks[u].track
    BY <1>1 DEF Making
  <1>3. CallsOK'
    BY <1>1 DEF OpenInv, CallsOK, Stage
  <1>4. MediaIdle'
    BY <1>1 DEF OpenInv, MediaIdle, TaskNames
  <1>5. RemovingOK'
    <2> SUFFICES ASSUME NEW u \in TaskNames, tasks'[u].pc = "removing"
                 PROVE  tracks'[tasks'[u].track].state # "open"
      BY DEF RemovingOK, Open
    <2>1. tasks'[u] = tasks[u] /\ tasks[u].pc = "removing"
      BY <1>1
    <2>2. tasks[u].track \in Tracks /\ ~Open(tasks[u].track)
      BY <2>1 DEF OpenInv, RemovingOK, TracksInv, TaskOK, Attached
    <2>3. QED
      BY <2>1, <2>2
  <1>6. QED
    BY <1>1, <1>2, <1>3, <1>4, <1>5, OpenFrame

-----------------------------------------------------------------------------
(* Steps that add neither a request nor a track.                            *)

KeptObjects ==
    \A o \in Tracks : /\ tracks'[o].cid = tracks[o].cid /\ tracks'[o].sid = tracks[o].sid
                      /\ tracks'[o].state # "none" => tracks[o].state # "none"
                      /\ tracks'[o].state = "open" => tracks[o].state = "open"

KeptRequests ==
    \A c \in Cids : pend'[c].infos # <<>> =>
        /\ pend[c].infos # <<>> /\ Len(pend'[c].infos) = Len(pend[c].infos)
        /\ DOMAIN pend'[c].infos = DOMAIN pend[c].infos
        /\ \A i \in DOMAIN pend[c].infos : pend'[c].infos[i].sid = pend[c].infos[i].sid

Kept == KeptObjects /\ KeptRequests /\ adds' = adds /\ unlisted \subseteq unlisted'

LEMMA CloseTrackKeeps ==
    ASSUME TracksInv, NEW o \in Tracks, NEW t, NEW v, CloseTrack(o, t, v)
    PROVE  KeptObjects
  <1>1. tracks \in [Tracks -> ObjectRecord]
    BY DEF TracksInv, PublishTypes
  <1>2. tracks' = tracks \/ tracks' = [tracks EXCEPT ![o].state = "closed"]
    BY DEF CloseTrack
  <1>3. tracks[o].state = "open" \/ tracks' = tracks
    BY DEF CloseTrack
  <1>4. QED
    BY <1>1, <1>2, <1>3 DEF KeptObjects, ObjectRecord

LEMMA KeptSteps ==
    /\ UNCHANGED tracks => KeptObjects
    /\ UNCHANGED pend => KeptRequests
  BY DEF KeptObjects, KeptRequests

LEMMA TaskStepKeeps ==
    ASSUME TracksInv, NEW t \in TaskNames,
           TakeRemote(t) \/ AddReceiver(t) \/ Permitted(t) \/ RemovedTrack(t) \/ Handled(t)
    PROVE  Kept
  <1>t. tracks \in [Tracks -> ObjectRecord]
    BY DEF TracksInv, PublishTypes
  <1>1. UNCHANGED <<pend, adds>> /\ unlisted \subseteq unlisted'
    BY DEF TakeRemote, AddReceiver, Permitted, RemovedTrack, Handled, Delist, trackVars, tcountVars
  <1>2. CASE TakeRemote(t) \/ RemovedTrack(t) \/ Handled(t)
    <2>1. UNCHANGED tracks
      BY <1>2 DEF TakeRemote, RemovedTrack, Handled, trackVars
    <2>2. QED
      BY <1>1, <2>1, KeptSteps DEF Kept
  <1>3. CASE AddReceiver(t)
    <2> DEFINE o == tasks[t].track
               r == tracks[o].receiver \/ tracks[o].state = "open"
    <2>1. tracks' = [tracks EXCEPT ![o].receiver = r] /\ o \in Tracks
      BY <1>3 DEF AddReceiver, TracksInv, TaskOK, Attached
    <2> HIDE DEF r, o
    <2>2. KeptObjects
      BY <1>t, <2>1 DEF KeptObjects, ObjectRecord
    <2>3. QED
      BY <1>1, <2>2, KeptSteps DEF Kept
  <1>4. CASE Permitted(t)
    <2>1. tasks[t].track \in Tracks
      BY <1>4 DEF Permitted, TracksInv, TaskOK, Attached
    <2>2. UNCHANGED tracks \/ CloseTrack(tasks[t].track, t, [tasks[t] EXCEPT !.pc = "removing"])
      BY <1>4 DEF Permitted
    <2>3. KeptObjects
      BY <2>1, <2>2, KeptSteps, CloseTrackKeeps
    <2>4. QED
      BY <1>1, <2>3, KeptSteps DEF Kept
  <1>5. QED
    BY <1>2, <1>3, <1>4

LEMMA TrackStepKeeps ==
    ASSUME TracksInv, NEW o \in Tracks, TrackStep(o) \/ ReceiverEnds(o)
    PROVE  Kept
  <1>t. tracks \in [Tracks -> ObjectRecord] /\ pend \in [Cids -> PendingRecord]
    BY DEF TracksInv, PublishTypes
  <1>1. adds' = adds /\ unlisted \subseteq unlisted'
    BY DEF TrackStep, Unlist, Promote, Unpublish, Announce, ReceiverEnds, Delist, tcountVars
  <1>2. CASE Unlist(o) \/ Unpublish(o) \/ Announce(o)
    BY <1>1, <1>2, KeptSteps DEF Kept, Unlist, Unpublish, Announce
  <1>3. CASE Promote(o)
    <2> DEFINE c == tracks[o].cid
    <2>1. pend' = [pend EXCEPT ![c].queued = FALSE] /\ UNCHANGED tracks
      BY <1>3 DEF Promote
    <2> HIDE DEF c
    <2>2. \A k \in Cids : pend'[k].infos = pend[k].infos
      BY <1>t, <2>1 DEF PendingRecord
    <2>3. KeptRequests
      BY <2>2 DEF KeptRequests
    <2>4. QED
      BY <1>1, <2>1, <2>3, KeptSteps DEF Kept
  <1>4. CASE ReceiverEnds(o)
    <2>1. tracks' = [tracks EXCEPT ![o].state = "closed"] /\ tracks[o].state = "open" /\ UNCHANGED pend
      BY <1>4 DEF ReceiverEnds
    <2>2. KeptObjects
      BY <1>t, <2>1 DEF KeptObjects, ObjectRecord
    <2>3. QED
      BY <1>1, <2>1, <2>2, KeptSteps DEF Kept
  <1>5. QED
    BY <1>2, <1>3, <1>4 DEF TrackStep

LEMMA MuteKeeps ==
    ASSUME TracksInv, MuteStep \/ \E d \in Sids, b \in BOOLEAN : SetTrackMuted(d, b)
    PROVE  Kept
  <1>t. tracks \in [Tracks -> ObjectRecord] /\ pend \in [Cids -> PendingRecord] /\ tasks[Mute] \in TaskRecord
        /\ published \in [Sids -> MaybeTrack]
    BY CallsAre DEF TracksInv, PublishTypes
  <1>1. UNCHANGED <<adds, unlisted>>
    BY DEF MuteStep, SetTrackMuted, tcountVars
  <1>2. ASSUME NEW d, NEW b \in BOOLEAN, pend' = PendingWanted(d, b) \/ pend' = PendingMuted(d, b)
        PROVE  KeptRequests
    BY <1>t, <1>2, WantedPending DEF KeptRequests
  <1>3. CASE MuteStep
    <2> DEFINE b == tasks[Mute].new
               q == published[tasks[Mute].sid]
    <2>1. b \in BOOLEAN
      BY <1>t DEF TaskRecord
    <2>2. \/ pend' = PendingMuted(tasks[Mute].sid, b) /\ UNCHANGED tracks
          \/ UNCHANGED <<pend, tracks>>
          \/ tracks' = [tracks EXCEPT ![q] = Muted(tracks[q], b)] /\ UNCHANGED pend
      BY <1>3 DEF MuteStep
    <2> HIDE DEF b, q
    <2>3. tracks' = [tracks EXCEPT ![q] = Muted(tracks[q], b)] => KeptObjects
      BY <1>t, <2>1 DEF KeptObjects, ObjectRecord, Muted
    <2>4. QED
      BY <1>1, <1>2, <2>1, <2>2, <2>3, KeptSteps DEF Kept
  <1>4. ASSUME NEW d \in Sids, NEW b \in BOOLEAN, SetTrackMuted(d, b)
        PROVE  Kept
    <2>1. /\ pend' = PendingWanted(d, b)
          /\ tracks' = [o \in Tracks |-> IF tracks[o].sid = d THEN Wanted(tracks[o], b) ELSE tracks[o]]
      BY <1>4 DEF SetTrackMuted
    <2>2. KeptObjects
      BY <1>t, <2>1 DEF KeptObjects, ObjectRecord, Wanted
    <2>3. QED
      BY <1>1, <1>2, <2>1, <2>2 DEF Kept
  <1>5. QED
    BY <1>3, <1>4

LEMMA CallKeeps ==
    ASSUME TracksInv, RemoveTracks \/ CloseStep \/ HandleOffer \/ SetPermission
    PROVE  Kept
  <1>t. /\ \A o \in tasks[Admin].list : o \in Tracks
        /\ \A o \in tasks[Closer].list : o \in Tracks
    BY CallsAre DEF TracksInv, PublishTypes, TaskRecord
  <1>1. UNCHANGED <<adds, unlisted>>
    BY DEF RemoveTracks, CloseStep, HandleOffer, SetPermission, trackVars, tcountVars
  <1>2. KeptObjects
    <2>1. CASE RemoveTracks
      <3>1. UNCHANGED tracks \/ \E o \in tasks[Admin].list : \E v : CloseTrack(o, Admin, v)
        BY <2>1 DEF RemoveTracks
      <3>2. QED
        BY <1>t, <3>1, KeptSteps, CloseTrackKeeps
    <2>2. CASE CloseStep
      <3>1. UNCHANGED tracks \/ \E o \in tasks[Closer].list : \E v : CloseTrack(o, Closer, v)
        BY <2>2 DEF CloseStep
      <3>2. QED
        BY <1>t, <3>1, KeptSteps, CloseTrackKeeps
    <2>3. CASE HandleOffer \/ SetPermission
      BY <2>3, KeptSteps DEF HandleOffer, SetPermission, trackVars
    <2>4. QED
      BY <2>1, <2>2, <2>3
  <1>3. KeptRequests
    <2>1. UNCHANGED pend \/ pend' = [c \in Cids |-> NotPending]
      BY DEF RemoveTracks, CloseStep, HandleOffer, SetPermission, trackVars
    <2>2. NotPending.infos = <<>>
      BY DEF NotPending
    <2>3. QED
      BY <2>1, <2>2, KeptSteps DEF KeptRequests
  <1>4. QED
    BY <1>1, <1>2, <1>3 DEF Kept

-----------------------------------------------------------------------------
(* The operations of a monitor.                                             *)

(* Nothing changes that the invariant speaks of. *)
SameMonitor(m, r) == r \in MonitorRecord /\ r.exists = m.exists /\ r.desired = m.desired /\ r.track = m.track

LEMMA SameIsOK ==
    ASSUME NEW m, NEW r, MonitorOK(m), SameMonitor(m, r)
    PROVE  MonitorOK(r) /\ \A n : Expects(m, n) => Expects(r, n)
  BY DEF MonitorOK, SameMonitor, Expects

LEMMA StartedMonitor ==
    ASSUME NEW m \in MonitorRecord, NEW con, NEW muted \in BOOLEAN
    PROVE  /\ SameMonitor(m, MaybeStartMonitor(m, con))
           /\ SameMonitor(m, SetPublicationMute(m, muted, con))
           /\ SameMonitor(m, [m EXCEPT !.timer = "off"])
           /\ SameMonitor(m, [m EXCEPT !.timer = "due"])
           /\ SameMonitor(m, [m EXCEPT !.err = muted])
  <1>1. \A x \in MonitorRecord : SameMonitor(x, [x EXCEPT !.timer = "armed"]) /\ SameMonitor(x, x)
    BY DEF SameMonitor, MonitorRecord
  <1>2. \A x \in MonitorRecord : SameMonitor(x, MaybeStartMonitor(x, con))
    BY <1>1 DEF MaybeStartMonitor
  <1>3. SameMonitor(m, [m EXCEPT !.timer = "off"]) /\ SameMonitor(m, [m EXCEPT !.timer = "due"])
    BY DEF SameMonitor, MonitorRecord
  <1>4. SameMonitor(m, [m EXCEPT !.muted = muted]) /\ SameMonitor(m, [m EXCEPT !.err = muted])
    BY DEF SameMonitor, MonitorRecord
  <1>5. SameMonitor(m, SetPublicationMute(m, muted, con))
    <2> DEFINE x == [m EXCEPT !.muted = muted]
    <2>1. SameMonitor(x, MaybeStartMonitor(x, con)) /\ SameMonitor(m, x)
      BY <1>2, <1>4 DEF SameMonitor
    <2> HIDE DEF x
    <2>2. SameMonitor(m, MaybeStartMonitor(x, con)) /\ SameMonitor(m, m)
      BY <1>1, <2>1 DEF SameMonitor
    <2>3. QED
      BY <2>2 DEF SetPublicationMute, x
  <1>6. QED
    BY <1>2, <1>3, <1>4, <1>5

(* What is at the front is still to come. *)
Fits(m) == m.desired # <<>> => m.desired[1] = (IF m.track = NoTrack THEN "start" ELSE "end")

(* update takes the front away, when that has happened, and only the front:   *)
(* starts and ends take turns.                                                *)
LEMMA Updated ==
    ASSUME NEW m \in MonitorRecord, NEW con,
           \A i \in 1 .. Len(m.desired) - 1 : m.desired[i] # m.desired[i + 1]
    PROVE  /\ Update(m, con) \in MonitorRecord
           /\ Update(m, con).exists = m.exists /\ Update(m, con).track = m.track
           /\ Fits(m) => Update(m, con).desired = m.desired
           /\ ~Fits(m) => /\ Len(Update(m, con).desired) = Len(m.desired) - 1
                          /\ \A i \in 1 .. Len(m.desired) - 1 : Update(m, con).desired[i] = m.desired[i + 1]
  <1> DEFINE s     == m.desired
             waits == {i \in DOMAIN s : (s[i] = "start") <=> (m.track = NoTrack)}
             front == IF waits = {} THEN Len(s) + 1 ELSE Min(waits)
             rest  == SubSeq(s, front, Len(s))
             moved == [m EXCEPT !.desired = rest]
  <1>1. s \in Seq({"start", "end"}) /\ Len(s) \in Nat /\ DOMAIN s = 1 .. Len(s) /\ (s = <<>> <=> Len(s) = 0)
    BY EmptySeq DEF MonitorRecord
  <1>2. \A i \in 1 .. Len(s) : s[i] \in {"start", "end"}
    BY <1>1
  <1>u. \/ Update(m, con) = moved
        \/ Update(m, con) = MaybeStartMonitor([moved EXCEPT !.timer = "off"], con)
    BY DEF Update
  <1>w. \A i : i \in waits <=> i \in 1 .. Len(s) /\ ((s[i] = "start") <=> (m.track = NoTrack))
    BY <1>1
  <1>f. front = IF waits = {} THEN Len(s) + 1 ELSE Min(waits)
    OBVIOUS
  <1> HIDE DEF waits, front
  <1>m. ASSUME NEW k \in waits, \A i \in waits : k <= i PROVE Min(waits) = k
    <2>0. \A i \in waits : i \in Nat
      BY <1>1, <1>w
    <2>1. Min(waits) \in waits /\ \A i \in waits : Min(waits) <= i
      <3>1. \E x \in waits : \A y \in waits : x =< y
        BY <1>m
      <3>2. QED
        BY <3>1 DEF Min
    <2>2. QED
      BY <1>m, <2>0, <2>1
  <1>3. Fits(m) => front = 1
    <2> SUFFICES ASSUME Fits(m) PROVE front = 1
      OBVIOUS
    <2>1. CASE s = <<>>
      <3>1. waits = {}
        BY <1>1, <1>w, <2>1
      <3>2. QED
        BY <1>1, <1>f, <2>1, <3>1
    <2>2. CASE s # <<>>
      <3>1. 1 \in waits
        BY <1>1, <1>w, <2>2 DEF Fits
      <3>2. \A i \in waits : 1 <= i
        BY <1>1, <1>w
      <3>3. QED
        BY <1>f, <1>m, <3>1, <3>2
    <2>3. QED
      BY <2>1, <2>2
  <1>4. ~Fits(m) => front = 2 /\ s # <<>>
    <2> SUFFICES ASSUME ~Fits(m) PROVE front = 2 /\ s # <<>>
      OBVIOUS
    <2>1. s # <<>> /\ Len(s) >= 1 /\ 1 \in 1 .. Len(s)
      BY <1>1 DEF Fits
    <2>2. 1 \notin waits /\ ~((s[1] = "start") <=> (m.track = NoTrack))
      BY <1>2, <1>w, <2>1 DEF Fits
    <2>3. CASE Len(s) = 1
      <3>1. waits = {}
        BY <1>w, <2>2, <2>3
      <3>2. QED
        BY <1>f, <2>1, <2>3, <3>1
    <2>4. CASE Len(s) # 1
      <3> DEFINE n == Len(s)
      <3>n. n \in Nat /\ n >= 1 /\ n # 1
        BY <1>1, <2>1, <2>4
      <3> HIDE DEF n
      <3>i. 2 \in 1 .. n /\ 1 \in 1 .. n - 1
        BY <3>n
      <3>0. 2 \in 1 .. Len(s) /\ 1 \in 1 .. Len(s) - 1
        BY <3>i DEF n
      <3>1. s[1] # s[2]
        BY <3>0
      <3>2. 2 \in waits
        BY <1>2, <1>w, <2>1, <2>2, <3>0, <3>1
      <3>3. \A i \in waits : 2 <= i
        BY <1>1, <1>w, <2>2
      <3>4. QED
        BY <1>f, <1>m, <2>1, <3>2, <3>3
    <2>5. QED
      BY <2>3, <2>4
  <1>5. /\ rest \in Seq({"start", "end"})
        /\ Fits(m) => rest = s
        /\ ~Fits(m) => /\ Len(rest) = Len(s) - 1
                       /\ \A i \in 1 .. Len(s) - 1 : rest[i] = s[i + 1]
    <2>1. CASE Fits(m)
      BY <1>1, <1>3, <2>1, SubSeqFull
    <2>2. CASE ~Fits(m)
      <3>1. front = 2 /\ Len(s) \in Nat \ {0} /\ \A i \in 2 .. Len(s) : s[i] \in {"start", "end"}
        BY <1>1, <1>2, <1>4, <2>2
      <3>2. /\ SubSeq(s, 2, Len(s)) \in Seq({"start", "end"})
            /\ Len(SubSeq(s, 2, Len(s))) = IF 2 <= Len(s) THEN Len(s) - 2 + 1 ELSE 0
            /\ \A i \in 1 .. Len(s) - 2 + 1 : SubSeq(s, 2, Len(s))[i] = s[2 + i - 1]
        BY <3>1, SubSeqProperties
      <3>3. rest = SubSeq(s, 2, Len(s))
        BY <3>1
      <3> HIDE DEF rest
      <3>4. /\ rest \in Seq({"start", "end"})
            /\ Len(rest) = IF 2 <= Len(s) THEN Len(s) - 2 + 1 ELSE 0
            /\ \A i \in 1 .. Len(s) - 2 + 1 : rest[i] = s[2 + i - 1]
        BY <3>2, <3>3
      <3>5. Len(s) - 2 + 1 = Len(s) - 1 /\ \A i \in Nat : 2 + i - 1 = i + 1
        BY <3>1
      <3>6. QED
        BY <2>2, <3>1, <3>4, <3>5
    <2>3. QED
      BY <2>1, <2>2
  <1> HIDE DEF rest
  <1>6. /\ moved \in MonitorRecord /\ moved.exists = m.exists /\ moved.track = m.track /\ moved.desired = rest
    BY <1>5 DEF MonitorRecord
  <1> HIDE DEF moved
  <1> DEFINE r == Update(m, con)
             z == [moved EXCEPT !.timer = "off"]
  <1>7. z \in MonitorRecord /\ SameMonitor(moved, z)
    BY <1>6, StartedMonitor DEF SameMonitor
  <1>8. SameMonitor(z, MaybeStartMonitor(z, con))
    BY <1>7, StartedMonitor
  <1>9. SameMonitor(moved, MaybeStartMonitor(z, con)) /\ SameMonitor(moved, moved)
    <2> HIDE DEF z
    <2>1. QED
      BY <1>6, <1>7, <1>8 DEF SameMonitor
  <1>10. SameMonitor(moved, r)
    BY <1>u, <1>9
  <1> HIDE DEF r
  <1>11. r \in MonitorRecord /\ r.exists = m.exists /\ r.track = m.track /\ r.desired = rest
    BY <1>6, <1>10 DEF SameMonitor
  <1>12. QED
    BY <1>5, <1>11 DEF r

LEMMA NoMonitorOK == MonitorOK(NoMonitor) /\ NoMonitor \in MonitorRecord
  BY EmptySeq DEF MonitorOK, MonitorRecord, NoMonitor, MaybeTrack

(* One more request: its start and its end come last. *)
LEMMA AddedPublication ==
    ASSUME NEW m, NEW con, MonitorOK(m)
    PROVE  /\ MonitorOK(AddPublication(m, con)) /\ AddPublication(m, con).exists
           /\ AddPublication(m, con).track = m.track
           /\ Len(AddPublication(m, con).desired) = Len(m.desired) + 2
           /\ Expects(AddPublication(m, con), 1)
           /\ \A n \in Nat : Expects(m, n) => Expects(AddPublication(m, con), n + 1)
  <1> DEFINE s == m.desired
             two == <<"start", "end">>
             q == s \o two
             x == [m EXCEPT !.exists = TRUE, !.desired = q]
             r == AddPublication(m, con)
  <1>1. m \in MonitorRecord /\ s \in Seq({"start", "end"}) /\ Len(s) \in Nat /\ (s = <<>> <=> Len(s) = 0)
    BY EmptySeq DEF MonitorOK, MonitorRecord
  <1>2. two \in Seq({"start", "end"}) /\ Len(two) = 2 /\ two[1] = "start" /\ two[2] = "end"
    OBVIOUS
  <1> HIDE DEF two
  <1>3. /\ q \in Seq({"start", "end"}) /\ Len(q) = Len(s) + 2
        /\ \A i \in 1 .. Len(s) + 2 : q[i] = IF i <= Len(s) THEN s[i] ELSE two[i - Len(s)]
    <2> DEFINE S == {"start", "end"}
    <2>1. s \in Seq(S) /\ two \in Seq(S)
      BY <1>1, <1>2
    <2> HIDE DEF S, s
    <2>2. /\ q \in Seq(S) /\ Len(q) = Len(s) + Len(two)
          /\ \A i \in 1 .. Len(s) + Len(two) : q[i] = IF i <= Len(s) THEN s[i] ELSE two[i - Len(s)]
      BY <2>1, ConcatProperties, Zenon
    <2>3. QED
      BY <1>2, <2>2, Zenon DEF S
  <1> DEFINE n == Len(s)
  <1>n. n \in Nat
    BY <1>1
  <1>4. /\ q \in Seq({"start", "end"}) /\ Len(q) = n + 2
        /\ \A i \in 1 .. n : q[i] = s[i]
        /\ q[n + 1] = "start" /\ q[n + 2] = "end"
    <2>1. /\ \A i \in 1 .. n : i \in 1 .. n + 2 /\ i <= n
          /\ n + 1 \in 1 .. n + 2 /\ ~(n + 1 <= n) /\ (n + 1) - n = 1
          /\ n + 2 \in 1 .. n + 2 /\ ~(n + 2 <= n) /\ (n + 2) - n = 2
      BY <1>n
    <2>2. QED
      BY <1>2, <1>3, <2>1
  <1>5. /\ n > 0 => s[n] = "end" /\ s[1] = (IF m.track = NoTrack THEN "start" ELSE "end")
        /\ n = 0 => m.track = NoTrack
        /\ \A i \in 1 .. n - 1 : s[i] # s[i + 1]
    BY <1>1 DEF MonitorOK
  <1>6. q[1] = (IF m.track = NoTrack THEN "start" ELSE "end")
    <2>1. CASE n = 0
      BY <1>4, <1>5, <2>1
    <2>2. CASE n # 0
      <3>1. 1 \in 1 .. n /\ n > 0
        BY <1>n, <2>2
      <3>2. QED
        BY <1>4, <1>5, <3>1
    <2>3. QED
      BY <2>1, <2>2
  <1>7. \A i \in 1 .. n + 1 : q[i] # q[i + 1]
    <2> SUFFICES ASSUME NEW i \in 1 .. n + 1 PROVE q[i] # q[i + 1]
      OBVIOUS
    <2>1. CASE i = n + 1
      <3>1. i + 1 = n + 2
        BY <1>n, <2>1
      <3>2. QED
        BY <1>4, <2>1, <3>1
    <2>2. CASE i = n
      <3>1. n > 0 /\ n \in 1 .. n
        BY <1>n, <2>2
      <3>2. QED
        BY <1>4, <1>5, <2>2, <3>1
    <2>3. CASE i # n /\ i # n + 1
      <3>1. i \in 1 .. n - 1 /\ i \in 1 .. n /\ i + 1 \in 1 .. n
        BY <1>n, <2>3
      <3>2. QED
        BY <1>4, <1>5, <3>1
    <2>4. QED
      BY <2>1, <2>2, <2>3
  <1> HIDE DEF q, n
  <1>8. x \in MonitorRecord /\ x.exists = TRUE /\ x.desired = q /\ x.track = m.track
    BY <1>1, <1>4 DEF MonitorRecord
  <1>9. r = Update(x, con)
    BY DEF AddPublication, q, s, two
  <1> HIDE DEF x, r
  <1>10. Fits(x)
    BY <1>6, <1>8 DEF Fits
  <1>11. \A i \in 1 .. Len(x.desired) - 1 : x.desired[i] # x.desired[i + 1]
    <2>1. Len(x.desired) - 1 = n + 1
      BY <1>n, <1>4, <1>8
    <2>2. QED
      BY <1>7, <1>8, <2>1
  <1>12. r \in MonitorRecord /\ r.exists = TRUE /\ r.track = m.track /\ r.desired = q
    BY <1>8, <1>9, <1>10, <1>11, Updated
  <1>13. MonitorOK(r)
    <2>1. q # <<>>
      BY <1>n, <1>4
    <2>2. QED
      BY <1>4, <1>6, <1>8, <1>11, <1>12, <2>1 DEF MonitorOK
  <1>14. Expects(r, 1) /\ \A k \in Nat : Expects(m, k) => Expects(r, k + 1)
    <2>1. Len(r.desired) = n + 2 /\ (m.track # NoTrack => n >= 1) /\ Len(m.desired) = n
      BY <1>n, <1>4, <1>5, <1>12 DEF n
    <2>2. QED
      BY <1>n, <1>12, <2>1 DEF Expects
  <1>15. QED
    BY <1>4, <1>12, <1>13, <1>14 DEF r, n

(* The front goes, and the rest is in order. *)
LEMMA FrontGoes ==
    ASSUME NEW m, MonitorOK(m), NEW o \in MaybeTrack, NEW con,
           m.desired # <<>>, m.track = NoTrack <=> o # NoTrack
    PROVE  LET r == Update([m EXCEPT !.track = o], con)
           IN /\ r \in MonitorRecord /\ r.exists = m.exists /\ r.track = o /\ Len(r.desired) = Len(m.desired) - 1
              /\ o = NoTrack \/ r.desired # <<>> => MonitorOK(r)
  <1> DEFINE s == m.desired
             x == [m EXCEPT !.track = o]
             r == Update(x, con)
             n == Len(s)
  <1>1. m \in MonitorRecord /\ s \in Seq({"start", "end"}) /\ n \in Nat \ {0}
    BY EmptySeq DEF MonitorOK, MonitorRecord
  <1>2. /\ s[1] = (IF m.track = NoTrack THEN "start" ELSE "end") /\ s[n] = "end"
        /\ \A i \in 1 .. n - 1 : s[i] # s[i + 1]
    BY DEF MonitorOK
  <1>e. m.exists
    BY DEF MonitorOK
  <1>3. x \in MonitorRecord /\ x.exists = m.exists /\ x.desired = s /\ x.track = o
    BY <1>1 DEF MonitorRecord
  <1> HIDE DEF x
  <1>4. ~Fits(x)
    BY <1>2, <1>3 DEF Fits
  <1>5. /\ r \in MonitorRecord /\ r.exists = m.exists /\ r.track = o /\ Len(r.desired) = n - 1
        /\ \A i \in 1 .. n - 1 : r.desired[i] = s[i + 1]
    BY <1>2, <1>3, <1>4, Updated
  <1> HIDE DEF r, n, s
  <1>6. ASSUME o = NoTrack \/ r.desired # <<>> PROVE MonitorOK(r)
    <2>1. r.desired \in Seq({"start", "end"}) /\ (r.desired # <<>> <=> n - 1 # 0)
      BY <1>1, <1>5, EmptySeq DEF MonitorRecord
    <2>2. ASSUME r.desired # <<>>
          PROVE  r.desired[1] = (IF o = NoTrack THEN "start" ELSE "end") /\ r.desired[n - 1] = "end"
      <3>1. n - 1 \in 1 .. n - 1 /\ 1 \in 1 .. n - 1 /\ (n - 1) + 1 = n /\ 1 + 1 = 2
        BY <1>1, <2>1, <2>2
      <3>2. s[1] # s[2] /\ r.desired[1] = s[2] /\ r.desired[n - 1] = s[n]
        BY <1>2, <1>5, <3>1
      <3>3. r.desired[1] \in {"start", "end"}
        BY <1>5, <2>1, <3>1
      <3>4. QED
        BY <1>2, <3>2, <3>3
    <2>3. \A i \in 1 .. (n - 1) - 1 : r.desired[i] # r.desired[i + 1]
      <3> SUFFICES ASSUME NEW i \in 1 .. (n - 1) - 1 PROVE r.desired[i] # r.desired[i + 1]
        OBVIOUS
      <3>1. i \in 1 .. n - 1 /\ i + 1 \in 1 .. n - 1
        BY <1>1
      <3>2. QED
        BY <1>2, <1>5, <3>1
    <2>4. r.exists
      BY <1>e, <1>5, Zenon
    <2>5. QED
      BY <1>5, <1>6, <2>2, <2>3, <2>4 DEF MonitorOK
  <1>7. QED
    BY <1>5, <1>6 DEF r, x, n, s

LEMMA LiveTrackMonitor ==
    ASSUME NEW m, MonitorOK(m), NEW con, NEW o \in Tracks, NEW n \in Nat \ {0}, Expects(m, n)
    PROVE  /\ MonitorOK(SetPublishedTrack(m, o, con))
           /\ SetPublishedTrack(m, o, con).exists /\ SetPublishedTrack(m, o, con).track = o
           /\ Expects(SetPublishedTrack(m, o, con), n - 1)
           /\ \A k \in Nat : Expects(m, k + 1) => Expects(SetPublishedTrack(m, o, con), k)
  <1> DEFINE r == SetPublishedTrack(m, o, con)
             x == [m EXCEPT !.track = o]
             L == Len(m.desired)
  <1>1. /\ m \in MonitorRecord /\ m.exists /\ m.desired \in Seq({"start", "end"}) /\ L \in Nat /\ L >= 2
        /\ m.desired # <<>> /\ (m.track # NoTrack => L >= 3)
    <2>1. m \in MonitorRecord /\ m.desired \in Seq({"start", "end"}) /\ L \in Nat
      BY DEF MonitorOK, MonitorRecord
    <2>2. m.exists
      BY DEF Expects
    <2>3. L >= 2 /\ (m.track # NoTrack => L >= 3)
      BY <2>1 DEF Expects
    <2>4. m.desired # <<>>
      BY <2>1, <2>3, EmptySeq
    <2>5. QED
      BY <2>1, <2>2, <2>3, <2>4
  <1>2. o # NoTrack /\ o \in MaybeTrack
    BY NoTrackIsNone DEF MaybeTrack
  <1>3. r = Update(x, con)
    BY <1>1 DEF SetPublishedTrack
  <1>4. /\ r \in MonitorRecord /\ r.exists = m.exists /\ r.track = o /\ MonitorOK(r)
        /\ Len(r.desired) = IF m.track = NoTrack THEN L - 1 ELSE L
    <2>1. CASE m.track = NoTrack
      <3>0. m.track = NoTrack <=> o # NoTrack
        BY <1>2, <2>1
      <3>1. /\ r \in MonitorRecord /\ r.exists = m.exists /\ r.track = o /\ Len(r.desired) = L - 1
            /\ o = NoTrack \/ r.desired # <<>> => MonitorOK(r)
        <4> DEFINE u == Update([m EXCEPT !.track = o], con)
        <4>1. m.desired # <<>> /\ o \in MaybeTrack
          BY <1>1, <1>2
        <4>2. /\ u \in MonitorRecord /\ u.exists = m.exists /\ u.track = o /\ Len(u.desired) = Len(m.desired) - 1
              /\ o = NoTrack \/ u.desired # <<>> => MonitorOK(u)
          BY <3>0, <4>1, FrontGoes
        <4>3. u = r
          BY <1>3
        <4> HIDE DEF u, r
        <4>4. QED
          BY <4>2, <4>3
      <3> HIDE DEF r, L
      <3>2. r.desired # <<>>
        BY <1>1, <3>1, EmptySeq DEF MonitorRecord
      <3>3. QED
        BY <2>1, <3>1, <3>2
    <2>2. CASE m.track # NoTrack
      <3>1. /\ x \in MonitorRecord /\ x.exists = m.exists /\ x.desired = m.desired /\ x.track = o
        BY <1>1, <1>2 DEF MonitorRecord
      <3> HIDE DEF x
      <3>2. Fits(x) /\ \A i \in 1 .. Len(x.desired) - 1 : x.desired[i] # x.desired[i + 1]
        BY <1>2, <2>2, <3>1 DEF Fits, MonitorOK
      <3>3. r \in MonitorRecord /\ r.exists = m.exists /\ r.track = o /\ r.desired = m.desired
        BY <1>3, <3>1, <3>2, Updated
      <3> HIDE DEF r
      <3>e. r.exists
        BY <1>1, <3>3, Zenon
      <3>4. MonitorOK(r)
        BY <1>1, <1>2, <2>2, <3>3, <3>e DEF MonitorOK
      <3>5. QED
        BY <2>2, <3>3, <3>4
    <2>3. QED
      BY <2>1, <2>2
  <1>e. r.exists
    BY <1>1, <1>4, Zenon
  <1> HIDE DEF r
  <1>5. ASSUME NEW k \in Nat, Expects(m, k + 1) PROVE Expects(r, k)
    <2>1. 2 * (k + 1) + (IF m.track = NoTrack THEN 0 ELSE 1) <= L
      BY <1>5 DEF Expects
    <2>2. 2 * k + 1 <= Len(r.desired)
      <3> HIDE DEF L
      <3>1. QED
        BY <1>1, <1>4, <2>1
    <2>3. QED
      BY <1>2, <1>4, <1>e, <2>2 DEF Expects
  <1>6. Expects(r, n - 1)
    <2>1. n - 1 \in Nat /\ (n - 1) + 1 = n
      OBVIOUS
    <2>2. QED
      BY <1>5, <2>1
  <1>7. QED
    BY <1>4, <1>e, <1>5, <1>6 DEF r

LEMMA ClearedMonitor ==
    ASSUME NEW m, MonitorOK(m), NEW con, NEW o \in Tracks
    PROVE  /\ MonitorOK(ClearPublishedTrack(m, o, con))
           /\ ClearPublishedTrack(m, o, con).exists = m.exists
           /\ m.track # o => ClearPublishedTrack(m, o, con).track = m.track
           /\ \A k \in Nat : Expects(m, k) => Expects(ClearPublishedTrack(m, o, con), k)
  <1> DEFINE r == ClearPublishedTrack(m, o, con)
             L == Len(m.desired)
  <1>1. m \in MonitorRecord /\ m.desired \in Seq({"start", "end"}) /\ L \in Nat
    BY DEF MonitorOK, MonitorRecord
  <1>2. o # NoTrack /\ NoTrack \in MaybeTrack
    BY NoTrackIsNone DEF MaybeTrack
  <1>3. CASE ~m.exists
    BY <1>3 DEF ClearPublishedTrack
  <1>4. CASE m.exists /\ m.track # o
    <2> DEFINE x == [m EXCEPT !.track = m.track]
    <2>1. r = Update(x, con)
      BY <1>4 DEF ClearPublishedTrack
    <2>2. x = m
      BY <1>1 DEF MonitorRecord
    <2>3. Fits(m) /\ \A i \in 1 .. Len(m.desired) - 1 : m.desired[i] # m.desired[i + 1]
      BY DEF Fits, MonitorOK
    <2> HIDE DEF x
    <2>4. SameMonitor(m, r)
      BY <1>1, <2>1, <2>2, <2>3, Updated DEF SameMonitor
    <2>5. QED
      BY <2>4, SameIsOK DEF SameMonitor
  <1>5. CASE m.exists /\ m.track = o
    <2> DEFINE x == [m EXCEPT !.track = NoTrack]
    <2>1. r = Update(x, con)
      BY <1>5 DEF ClearPublishedTrack
    <2>2. m.desired # <<>> /\ m.track # NoTrack
      BY <1>2, <1>5 DEF MonitorOK
    <2>3. /\ r \in MonitorRecord /\ r.exists = m.exists /\ r.track = NoTrack /\ Len(r.desired) = L - 1
          /\ MonitorOK(r)
      BY <1>2, <2>1, <2>2, FrontGoes
    <2>e. r.exists
      BY <1>5, <2>3, Zenon
    <2> HIDE DEF r
    <2>4. ASSUME NEW k \in Nat, Expects(m, k) PROVE Expects(r, k)
      <3>1. 2 * k + 1 <= L
        BY <2>2, <2>4 DEF Expects
      <3>2. 2 * k <= Len(r.desired)
        <4> HIDE DEF L
        <4>1. QED
          BY <1>1, <2>3, <3>1
      <3>3. QED
        BY <2>3, <2>e, <3>2 DEF Expects
    <2>5. QED
      BY <1>5, <2>3, <2>4 DEF r
  <1>6. QED
    BY <1>3, <1>4, <1>5

LEMMA RemovedMonitor ==
    ASSUME NEW m, MonitorOK(m)
    PROVE  /\ MonitorOK(RemovePublication(m))
           /\ m.track # NoTrack => RemovePublication(m) = m
  BY NoMonitorOK DEF RemovePublication

LEMMA CheckedMonitor ==
    ASSUME NEW m, MonitorOK(m)
    PROVE  /\ MonitorOK(Checked(m))
           /\ m.track # NoTrack => Checked(m).exists = m.exists /\ Checked(m).track = m.track
           /\ \A k \in Nat \ {0} : Expects(m, k) => Expects(Checked(m), k)
  <1>1. Check(m) \in BOOLEAN /\ m \in MonitorRecord
    BY DEF Check, MonitorOK
  <1>2. CASE ~Check(m) /\ IsIdle(m)
    <2>1. Checked(m) = NoMonitor /\ m.track = NoTrack /\ Len(m.desired) = 0
      BY <1>2 DEF Checked, IsIdle
    <2>2. \A k \in Nat \ {0} : ~Expects(m, k)
      BY <2>1 DEF Expects
    <2>3. QED
      BY <2>1, <2>2, NoMonitorOK
  <1>3. CASE ~(~Check(m) /\ IsIdle(m))
    <2> DEFINE b == Check(m)
    <2>1. Checked(m) = [m EXCEPT !.err = b] /\ b \in BOOLEAN
      BY <1>1, <1>3 DEF Checked
    <2> HIDE DEF b
    <2>2. SameMonitor(m, Checked(m))
      BY <1>1, <2>1, StartedMonitor
    <2>3. QED
      BY <2>2, SameIsOK DEF SameMonitor
  <1>4. QED
    BY <1>2, <1>3

(* What AddTrack does to the requests. *)
LEMMA AddedRequest ==
    ASSUME TracksInv, NEW c \in Cids, AddTrack(c)
    PROVE  /\ adds \in Nat /\ adds' = adds + 1 /\ adds + 1 \in Sids
           /\ \A k \in Cids \ {c} : pend'[k] = AfterRelease[k]
           /\ \/ Refused(c) /\ pend'[c] = AfterRelease[c]
              \/ /\ ~Refused(c) /\ SidFor(c) \in Sids
                 /\ pend'[c].infos # <<>> /\ 1 \in DOMAIN pend'[c].infos
                 /\ Len(pend'[c].infos) = Len(AfterRelease[c].infos) + 1
                 /\ \A i \in DOMAIN pend'[c].infos : pend'[c].infos[i].sid = SidFor(c)
                 /\ AfterRelease[c].infos = <<>> => SidFor(c) = adds + 1
                 /\ AfterRelease[c].infos # <<>> => /\ AfterRelease[c] = pend[c] /\ 1 \in DOMAIN pend[c].infos
                                                    /\ SidFor(c) = pend[c].infos[1].sid
  <1> DEFINE ar == AfterRelease
             s  == ar[c].infos
  <1>t. /\ pend \in [Cids -> PendingRecord] /\ adds \in Nat /\ tscope.adds \in 0 .. MaxAdds /\ SharedSid
    BY DEF TracksInv, PublishTypes, PublishScope
  <1>1. adds' = adds + 1 /\ adds + 1 \in Sids
    BY <1>t DEF AddTrack, Sids
  <1>2. /\ ar \in [Cids -> PendingRecord]
        /\ \A k \in Cids : ar[k] = pend[k] \/ ar[k] = NotPending
        /\ NotPending.infos = <<>>
    BY ReleaseShrinks
  <1>3. CASE Refused(c)
    BY <1>t, <1>1, <1>3 DEF AddTrack
  <1>4. CASE ~Refused(c)
    <2> DEFINE info == [sid |-> SidFor(c), muted |-> FALSE, want |-> FALSE]
               qu   == IF s = <<>> THEN Behind(c) ELSE ar[c].queued
               p    == [infos |-> Append(s, info), queued |-> qu]
    <2>1. pend' = [ar EXCEPT ![c] = p]
      BY <1>4 DEF AddTrack, AddPending
    <2>2. s \in Seq(InfoRecord)
      BY <1>2 DEF PendingRecord
    <2>3. s # <<>> => /\ ar[c] = pend[c] /\ s = pend[c].infos /\ SidFor(c) = s[1].sid
                      /\ 1 \in DOMAIN s /\ s[1] \in InfoRecord /\ \A i \in DOMAIN s : s[i].sid = s[1].sid
      <3> SUFFICES ASSUME s # <<>>
                   PROVE  /\ ar[c] = pend[c] /\ s = pend[c].infos /\ SidFor(c) = s[1].sid
                          /\ 1 \in DOMAIN s /\ s[1] \in InfoRecord /\ \A i \in DOMAIN s : s[i].sid = s[1].sid
        OBVIOUS
      <3>1. ar[c] = pend[c] /\ s = pend[c].infos
        BY <1>2
      <3>2. SidFor(c) = Head(s).sid
        BY DEF SidFor
      <3>3. Head(s) = s[1] /\ 1 \in DOMAIN s /\ s[1] \in InfoRecord
        BY <2>2, TailRequests
      <3>4. \A i \in DOMAIN s : s[i].sid = s[1].sid
        BY <1>t, <3>1, <3>3 DEF SharedSid
      <3>5. QED
        BY <3>1, <3>2, <3>3, <3>4
    <2>4. s = <<>> => SidFor(c) = adds + 1
      BY DEF SidFor
    <2>5. SidFor(c) \in Sids
      BY <1>1, <2>3, <2>4 DEF InfoRecord
    <2>6. info \in InfoRecord /\ info.sid = SidFor(c)
      BY <2>5 DEF InfoRecord
    <2> HIDE DEF info, s, ar, qu
    <2>7. /\ Append(s, info) # <<>> /\ Len(Append(s, info)) = Len(s) + 1 /\ Len(s) \in Nat
          /\ DOMAIN Append(s, info) = 1 .. Len(s) + 1 /\ DOMAIN s = 1 .. Len(s)
          /\ \A i \in DOMAIN s : Append(s, info)[i] = s[i]
          /\ Append(s, info)[Len(s) + 1] = info
      BY <2>2, <2>6, AppendProperties, LenProperties
    <2>8. pend'[c].infos = Append(s, info) /\ \A k \in Cids \ {c} : pend'[k] = ar[k]
      BY <1>2, <2>1
    <2>9. 1 \in DOMAIN Append(s, info) /\ \A i \in DOMAIN Append(s, info) : Append(s, info)[i].sid = SidFor(c)
      <3>1. ASSUME NEW i \in DOMAIN Append(s, info) PROVE Append(s, info)[i].sid = SidFor(c)
        <4>1. CASE i = Len(s) + 1
          BY <2>6, <2>7, <4>1
        <4>2. CASE i # Len(s) + 1
          <5>1. i \in DOMAIN s
            BY <2>7, <3>1, <4>2
          <5>2. s # <<>>
            BY <2>7, <3>1, <4>2
          <5>3. QED
            BY <2>3, <2>7, <5>1, <5>2
        <4>3. QED
          BY <4>1, <4>2
      <3>2. 1 \in DOMAIN Append(s, info)
        BY <2>7
      <3>3. QED
        BY <3>1, <3>2
    <2>10. QED
      BY <1>t, <1>1, <1>4, <2>3, <2>4, <2>5, <2>7, <2>8, <2>9 DEF s, ar
  <1>5. QED
    BY <1>3, <1>4

(* What addMediaTrack does: the first request becomes a track. *)
LEMMA AddedTrack ==
    ASSUME TracksInv, NEW m \in Media, pend[m[1]].infos # <<>>, AddedMediaTrack(m[1], m)
    PROVE  LET c == m[1]
               d == pend[c].infos[1].sid
           IN /\ m \in Tracks /\ c \in Cids /\ d \in Sids /\ 1 \in DOMAIN pend[c].infos
              /\ Len(pend[c].infos) \in Nat \ {0}
              /\ tracks'[m].cid = c /\ tracks'[m].sid = d /\ tracks'[m].state = "open"
              /\ \A o \in Tracks \ {m} : tracks'[o] = tracks[o]
              /\ \A k \in Cids \ {c} : pend'[k] = pend[k]
              /\ pend'[c].infos # <<>> => Len(pend'[c].infos) = Len(pend[c].infos) - 1 /\ 1 \in DOMAIN pend'[c].infos
              /\ \A i \in DOMAIN pend'[c].infos : pend'[c].infos[i].sid = d
              /\ \A e \in Sids : published'[e] = IF e = d /\ published[e] = NoTrack THEN m ELSE published[e]
              /\ monitors' = [monitors EXCEPT ![d] = SetPublishedTrack(monitors[d], m, connected)]
  <1>t. /\ pend \in [Cids -> PendingRecord] /\ tracks \in [Tracks -> ObjectRecord] /\ SharedSid
        /\ published \in [Sids -> MaybeTrack]
    BY DEF TracksInv, PublishTypes
  <1> DEFINE c  == m[1]
             s  == pend[c].infos
             ti == Head(s)
             x  == [cid |-> c, sid |-> ti.sid, state |-> "open", receiver |-> FALSE,
                    muted |-> ti.muted, want |-> ti.want]
             p  == IF Len(s) = 1 THEN NotPending ELSE [infos |-> Tail(s), queued |-> TRUE]
  <1>1. m \in Tracks /\ c \in Cids
    BY NoTrackIsNone DEF Tracks
  <1>2. s \in Seq(InfoRecord) /\ s # <<>>
    BY <1>t, <1>1 DEF PendingRecord
  <1>3. /\ ti \in InfoRecord /\ 1 \in DOMAIN s /\ ti = s[1] /\ s[1].sid \in Sids /\ Len(s) \in Nat \ {0}
        /\ Tail(s) \in Seq(InfoRecord) /\ Len(Tail(s)) = Len(s) - 1
        /\ Len(s) # 1 => Tail(s) # <<>>
        /\ \A i \in DOMAIN Tail(s) : i + 1 \in DOMAIN s /\ Tail(s)[i] = s[i + 1]
    BY <1>2, TailRequests DEF InfoRecord
  <1>4. /\ tracks' = [tracks EXCEPT ![m] = x]
        /\ published' = [published EXCEPT ![ti.sid] = IF published[ti.sid] = NoTrack THEN m ELSE published[ti.sid]]
        /\ monitors' = [monitors EXCEPT ![ti.sid] = SetPublishedTrack(monitors[ti.sid], m, connected)]
        /\ pend' = [pend EXCEPT ![c] = p]
    BY DEF AddedMediaTrack
  <1>5. x.cid = c /\ x.sid = ti.sid /\ x.state = "open"
    OBVIOUS
  <1>6. /\ p.infos # <<>> => Len(p.infos) = Len(s) - 1 /\ 1 \in DOMAIN p.infos
        /\ \A i \in DOMAIN p.infos : p.infos[i].sid = s[1].sid
    <2>1. CASE Len(s) = 1
      BY <2>1 DEF NotPending
    <2>2. CASE Len(s) # 1
      <3>1. p = [infos |-> Tail(s), queued |-> TRUE]
        BY <2>2
      <3>2. p.infos = Tail(s)
        <4> DEFINE tl == Tail(s)
        <4>1. p = [infos |-> tl, queued |-> TRUE]
          BY <3>1
        <4> HIDE DEF p, tl
        <4>2. p.infos = tl
          BY <4>1
        <4>3. QED
          BY <4>2 DEF tl
      <3>3. \A i \in DOMAIN Tail(s) : Tail(s)[i].sid = s[1].sid
        BY <1>t, <1>1, <1>3 DEF SharedSid
      <3>4. 1 \in DOMAIN Tail(s)
        BY <1>3, <2>2
      <3> HIDE DEF p
      <3>5. QED
        BY <1>3, <3>2, <3>3, <3>4
    <2>3. QED
      BY <2>1, <2>2
  <1> HIDE DEF x, p, ti, s, c
  <1>7. /\ tracks'[m] = x /\ \A o \in Tracks \ {m} : tracks'[o] = tracks[o]
        /\ pend'[c] = p /\ \A k \in Cids \ {c} : pend'[k] = pend[k]
        /\ \A e \in Sids : published'[e] = IF e = ti.sid /\ published[e] = NoTrack THEN m ELSE published[e]
    BY <1>t, <1>1, <1>3, <1>4
  <1> DEFINE d == s[1].sid
  <1>8. ti.sid = d /\ 1 \in DOMAIN s /\ d \in Sids /\ Len(s) \in Nat \ {0}
    BY <1>3
  <1> HIDE DEF d
  <1>9. tracks'[m].cid = c /\ tracks'[m].sid = d /\ tracks'[m].state = "open"
    BY <1>5, <1>7, <1>8
  <1>10. /\ pend'[c].infos # <<>> => Len(pend'[c].infos) = Len(s) - 1 /\ 1 \in DOMAIN pend'[c].infos
         /\ \A i \in DOMAIN pend'[c].infos : pend'[c].infos[i].sid = d
    BY <1>6, <1>7, Zenon DEF d
  <1>11. \A e \in Sids : published'[e] = IF e = d /\ published[e] = NoTrack THEN m ELSE published[e]
    BY <1>7, <1>8, Zenon
  <1>12. monitors' = [monitors EXCEPT ![d] = SetPublishedTrack(monitors[d], m, connected)]
    BY <1>4, <1>8, Zenon
  <1>13. QED
    BY <1>1, <1>7, <1>8, <1>9, <1>10, <1>11, <1>12, Zenon DEF s, c, d

(* mediaTrackReceived makes a track, or changes nothing but its task. *)
LEMMA MediaCases ==
    ASSUME TracksInv, NEW t \in TaskNames, MediaTrackReceived(t)
    PROVE  /\ UNCHANGED <<adds, unlisted, canPublish, parts, arrived, connected>> /\ tasks[t].pc = "handle"
           /\ t \notin {Admin, Closer, Mute}
           /\ \E v : /\ tasks' = [tasks EXCEPT ![t] = v]
                     /\ \/ v.pc \in {"handle", "attach"} /\ UNCHANGED <<pend, published, tracks, monitors>>
                        \/ \E m \in Media : /\ m \in tasks[t].todo /\ ~Created(m) /\ PublishedBy(m[1]) = {}
                                            /\ pend[m[1]].infos # <<>> /\ AddedMediaTrack(m[1], m)
                                            /\ v.pc = "attach" /\ v.track = m
  <1>1. UNCHANGED <<adds, unlisted, canPublish, parts, arrived, connected>> /\ tasks[t].pc = "handle"
    BY DEF MediaTrackReceived, tcountVars, roomVars
  <1>2. t \notin {Admin, Closer, Mute}
    BY <1>1, HandlerIs DEF Handling
  <1>3. PICK m \in tasks[t].todo :
          LET c    == m[1]
              rest == [tasks[t] EXCEPT !.todo = tasks[t].todo \ {m}]
          IN \/ tasks' = [tasks EXCEPT ![t] = rest] /\ UNCHANGED <<pend, published, tracks, monitors>>
             \/ /\ \E o \in PublishedBy(c) :
                      tasks' = [tasks EXCEPT ![t] = [rest EXCEPT !.pc = "attach", !.track = o, !.new = FALSE]]
                /\ UNCHANGED <<pend, published, tracks, monitors>>
             \/ /\ pend[c].infos # <<>> /\ AddedMediaTrack(c, m) /\ PublishedBy(c) = {}
                /\ tasks' = [tasks EXCEPT ![t] = [rest EXCEPT !.pc = "attach", !.track = m, !.new = TRUE]]
    BY DEF MediaTrackReceived, SetTask
  <1>4. m \in Media /\ ~Created(m) /\ tasks[t] \in TaskRecord
    BY DEF TracksInv, PublishTypes, TaskRecord, TaskOK
  <1> DEFINE rest == [tasks[t] EXCEPT !.todo = tasks[t].todo \ {m}]
             w    == [rest EXCEPT !.pc = "attach", !.track = m, !.new = TRUE]
             z(o) == [rest EXCEPT !.pc = "attach", !.track = o, !.new = FALSE]
  <1>5. /\ w.pc = "attach" /\ w.track = m /\ rest.pc = "handle" /\ \A o : z(o).pc = "attach"
    BY <1>1, <1>4 DEF TaskRecord
  <1>6. \/ \E v : /\ tasks' = [tasks EXCEPT ![t] = v] /\ UNCHANGED <<pend, published, tracks, monitors>>
                  /\ v = rest \/ \E o : v = z(o)
        \/ /\ pend[m[1]].infos # <<>> /\ AddedMediaTrack(m[1], m) /\ PublishedBy(m[1]) = {}
           /\ tasks' = [tasks EXCEPT ![t] = w]
    BY <1>3
  <1> HIDE DEF w, rest, z
  <1>7. \/ \E v : /\ tasks' = [tasks EXCEPT ![t] = v] /\ UNCHANGED <<pend, published, tracks, monitors>>
                  /\ v.pc \in {"handle", "attach"}
        \/ /\ pend[m[1]].infos # <<>> /\ AddedMediaTrack(m[1], m) /\ PublishedBy(m[1]) = {}
           /\ tasks' = [tasks EXCEPT ![t] = w]
    BY <1>5, <1>6
  <1>8. QED
    BY <1>1, <1>2, <1>4, <1>5, <1>7

-----------------------------------------------------------------------------
(* Track IDs, step by step.                                                 *)

LEMMA KeptSids ==
    ASSUME TracksInv, SidsOK, Kept
    PROVE  SidsOK'
  <1>1. adds \in Nat /\ adds' = adds
    BY DEF TracksInv, PublishTypes, Kept
  <1>2. \A c \in Cids : \A i \in DOMAIN pend'[c].infos :
              \E j \in DOMAIN pend[c].infos : pend'[c].infos[i].sid = pend[c].infos[j].sid
    <2>1. DOMAIN <<>> = {}
      OBVIOUS
    <2>2. QED
      BY <2>1 DEF Kept, KeptRequests
  <1>3. \A o \in Tracks : tracks'[o].state # "none" => /\ tracks[o].state # "none"
                                                        /\ tracks'[o].cid = tracks[o].cid
                                                        /\ tracks'[o].sid = tracks[o].sid
    BY DEF Kept, KeptObjects
  <1>4. \A d \in Sids, c \in Cids : Belongs(d, c)' => Belongs(d, c)
    BY <1>2, <1>3, SameBelongs
  <1>5. QED
    BY <1>1, <1>4, SidsFrame

LEMMA AddTrackSids ==
    ASSUME TracksInv, SidsOK, NEW c \in Cids, AddTrack(c)
    PROVE  SidsOK'
  <1>1. /\ adds \in Nat /\ adds' = adds + 1
        /\ \A k \in Cids \ {c} : pend'[k] = AfterRelease[k]
        /\ \/ pend'[c] = AfterRelease[c]
           \/ /\ \A i \in DOMAIN pend'[c].infos : pend'[c].infos[i].sid = SidFor(c)
              /\ AfterRelease[c].infos = <<>> => SidFor(c) = adds + 1
              /\ AfterRelease[c].infos # <<>> => 1 \in DOMAIN pend[c].infos /\ SidFor(c) = pend[c].infos[1].sid
    BY AddedRequest
  <1>2. /\ \A k \in Cids : AfterRelease[k] = pend[k] \/ AfterRelease[k] = NotPending
        /\ NotPending.infos = <<>> /\ DOMAIN <<>> = {}
    BY ReleaseShrinks
  <1>3. UNCHANGED tracks
    BY DEF AddTrack
  <1>4. \A k \in Cids : \A i \in DOMAIN pend'[k].infos :
           \/ k = c /\ pend'[k].infos[i].sid = adds + 1
           \/ \E j \in DOMAIN pend[k].infos : pend'[k].infos[i].sid = pend[k].infos[j].sid
    BY <1>1, <1>2
  <1>5. \A d \in Sids, k \in Cids : Belongs(d, k)' => Belongs(d, k) \/ (d = adds + 1 /\ k = c)
    BY <1>3, <1>4 DEF Belongs, Created
  <1>6. QED
    BY <1>1, <1>5, SidsFrame

LEMMA AddedTrackSids ==
    ASSUME TracksInv, SidsOK, NEW m \in Media, pend[m[1]].infos # <<>>, AddedMediaTrack(m[1], m), adds' = adds
    PROVE  SidsOK'
  <1> DEFINE c == m[1]
             d == pend[c].infos[1].sid
  <1>1. /\ m \in Tracks /\ c \in Cids /\ d \in Sids /\ 1 \in DOMAIN pend[c].infos
        /\ tracks'[m].cid = c /\ tracks'[m].sid = d
        /\ \A o \in Tracks \ {m} : tracks'[o] = tracks[o]
        /\ \A k \in Cids \ {c} : pend'[k] = pend[k]
        /\ \A i \in DOMAIN pend'[c].infos : pend'[c].infos[i].sid = d
    BY AddedTrack
  <1>2. Belongs(d, c)
    BY <1>1 DEF Belongs
  <1>3. \A e \in Sids, k \in Cids : Belongs(e, k)' => Belongs(e, k)
    <2> SUFFICES ASSUME NEW e \in Sids, NEW k \in Cids, Belongs(e, k)' PROVE Belongs(e, k)
      OBVIOUS
    <2>1. CASE e = d /\ k = c
      BY <1>2, <2>1
    <2>2. CASE \E i \in DOMAIN pend'[k].infos : pend'[k].infos[i].sid = e
      <3> HIDE DEF c, d
      <3>1. QED
        BY <1>1, <1>2, <2>2 DEF Belongs
    <2>3. CASE \E o \in Tracks : tracks'[o].state # "none" /\ tracks'[o].cid = k /\ tracks'[o].sid = e
      <3> HIDE DEF c, d
      <3>1. QED
        BY <1>1, <1>2, <2>3 DEF Belongs, Created
    <2>4. QED
      BY <2>2, <2>3 DEF Belongs, Created
  <1>4. adds \in Nat
    BY DEF TracksInv, PublishTypes
  <1>5. QED
    BY <1>3, <1>4, SidsFrame

-----------------------------------------------------------------------------
(* Monitors, step by step.                                                  *)

(* Monitors that still expect what they expected, and keep the open tracks. *)
LEMMA KeptMonitors ==
    ASSUME TracksInv, MonitorInv, Kept, Stage' = "open" => Stage = "open",
           DOMAIN monitors' = Sids, monitors' = [d \in Sids |-> monitors'[d]],
           \A d \in Sids :
              /\ MonitorOK(monitors'[d])
              /\ \A k \in Nat \ {0} : Expects(monitors[d], k) => Expects(monitors'[d], k)
              /\ \A o \in Tracks : monitors[d].exists /\ monitors[d].track = o /\ tracks'[o].state = "open"
                    => monitors'[d].exists /\ monitors'[d].track = o
    PROVE  MonitorInv'
  <1>t. pend \in [Cids -> PendingRecord]
    BY DEF TracksInv, PublishTypes
  <1>1. MonitorsOK'
    <2>1. monitors' \in [Sids -> MonitorRecord]
      BY DEF MonitorOK
    <2>2. QED
      BY <2>1 DEF MonitorsOK
  <1>2. RequestsExpected'
    <2> SUFFICES ASSUME NEW c \in Cids, pend'[c].infos # <<>>
                 PROVE  Expects(monitors'[pend'[c].infos[1].sid], Len(pend'[c].infos))
      BY DEF RequestsExpected
    <2> DEFINE s == pend[c].infos
    <2>1. /\ s # <<>> /\ Len(pend'[c].infos) = Len(s)
          /\ \A i \in DOMAIN s : pend'[c].infos[i].sid = s[i].sid
      BY DEF Kept, KeptRequests
    <2>2. 1 \in DOMAIN s /\ s[1] \in InfoRecord /\ Len(s) \in Nat \ {0}
      BY <1>t, <2>1, TailRequests DEF PendingRecord
    <2>3. Expects(monitors[s[1].sid], Len(s)) /\ s[1].sid \in Sids
      BY <2>1, <2>2 DEF MonitorInv, RequestsExpected, InfoRecord
    <2>4. QED
      BY <2>1, <2>2, <2>3
  <1>3. LiveIsMonitored'
    <2> SUFFICES ASSUME NEW o \in Tracks \ unlisted', tracks'[o].state = "open", Stage' = "open"
                 PROVE  monitors'[tracks'[o].sid].exists /\ monitors'[tracks'[o].sid].track = o
      BY DEF LiveIsMonitored, Open
    <2>1. o \in Tracks \ unlisted /\ Open(o) /\ Stage = "open" /\ tracks'[o].sid = tracks[o].sid
      BY DEF Kept, KeptObjects, Open
    <2>2. tracks[o].sid \in Sids
      BY <2>1 DEF TracksInv, ObjectOK, Created, Open
    <2>3. monitors[tracks[o].sid].exists /\ monitors[tracks[o].sid].track = o
      BY <2>1 DEF MonitorInv, LiveIsMonitored
    <2>4. QED
      BY <2>1, <2>2, <2>3
  <1>4. QED
    BY <1>1, <1>2, <1>3 DEF MonitorInv

LEMMA SameMonitors ==
    ASSUME TracksInv, MonitorInv, Kept, Stage' = "open" => Stage = "open",
           monitors' = [d \in Sids |-> monitors'[d]],
           \A d \in Sids : SameMonitor(monitors[d], monitors'[d])
    PROVE  MonitorInv'
  <1>1. \A d \in Sids : MonitorOK(monitors[d])
    BY DEF MonitorInv, MonitorsOK
  <1>2. \A d \in Sids :
              /\ MonitorOK(monitors'[d])
              /\ \A k \in Nat \ {0} : Expects(monitors[d], k) => Expects(monitors'[d], k)
    BY <1>1, SameIsOK
  <1>3. \A d \in Sids : \A o \in Tracks :
              monitors[d].exists /\ monitors[d].track = o => monitors'[d].exists /\ monitors'[d].track = o
    BY DEF SameMonitor
  <1>4. DOMAIN monitors' = Sids
    OBVIOUS
  <1>5. QED
    BY <1>2, <1>3, <1>4, KeptMonitors

LEMMA UnchangedMonitors ==
    ASSUME TracksInv, MonitorInv, Kept, Stage' = "open" => Stage = "open", UNCHANGED monitors
    PROVE  MonitorInv'
  <1>1. monitors \in [Sids -> MonitorRecord]
    BY DEF MonitorInv, MonitorsOK
  <1>2. \A d \in Sids : SameMonitor(monitors[d], monitors'[d])
    BY <1>1 DEF SameMonitor
  <1>3. monitors' = [d \in Sids |-> monitors'[d]]
    BY <1>1
  <1>4. QED
    BY <1>2, <1>3, SameMonitors

LEMMA PromoteMonitors ==
    ASSUME TracksInv, MonitorInv, NEW o \in Tracks, Promote(o)
    PROVE  MonitorInv'
  <1>1. Kept /\ UNCHANGED Stage
    BY TrackStepKeeps DEF TrackStep, Promote, Stage, roomVars
  <1>2. /\ tasks[CloseOf(o)].pc = "promote" /\ UNCHANGED tracks
        /\ monitors' = [monitors EXCEPT ![tracks[o].sid] = ClearPublishedTrack(monitors[tracks[o].sid], o, connected)]
    BY DEF Promote
  <1>3. tracks'[o].state # "open"
    BY <1>2 DEF TracksInv, ObjectOK
  <1>4. monitors \in [Sids -> MonitorRecord] /\ \A d \in Sids : MonitorOK(monitors[d])
    BY DEF MonitorInv, MonitorsOK
  <1> DEFINE s == tracks[o].sid
             r == ClearPublishedTrack(monitors[s], o, connected)
  <1>5. \A d \in Sids : monitors'[d] = monitors[d] \/ (d = s /\ monitors'[d] = r)
    BY <1>2, <1>4
  <1>6. monitors' = [d \in Sids |-> monitors'[d]] /\ DOMAIN monitors' = Sids
    BY <1>2, <1>4
  <1>7. s \in Sids =>
           /\ MonitorOK(r) /\ r.exists = monitors[s].exists
           /\ monitors[s].track # o => r.track = monitors[s].track
           /\ \A k \in Nat : Expects(monitors[s], k) => Expects(r, k)
    BY <1>4, ClearedMonitor
  <1> HIDE DEF r, s
  <1>8. \A d \in Sids :
              /\ MonitorOK(monitors'[d])
              /\ \A k \in Nat \ {0} : Expects(monitors[d], k) => Expects(monitors'[d], k)
    BY <1>4, <1>5, <1>7
  <1>9. ASSUME NEW d \in Sids, NEW q \in Tracks, monitors[d].exists, monitors[d].track = q, tracks'[q].state = "open"
        PROVE  monitors'[d].exists /\ monitors'[d].track = q
    <2>1. q # o
      BY <1>3, <1>9
    <2>2. CASE monitors'[d] = monitors[d]
      BY <1>9, <2>2
    <2>3. CASE d = s /\ monitors'[d] = r
      <3>1. r.exists
        BY <1>7, <1>9, <2>3, Zenon
      <3>2. r.track = q
        BY <1>7, <1>9, <2>1, <2>3
      <3>3. QED
        BY <2>3, <3>1, <3>2
    <2>4. QED
      BY <1>5, <2>2, <2>3
  <1>10. QED
    BY <1>1, <1>6, <1>8, <1>9, KeptMonitors

LEMMA SupervisorMonitors ==
    ASSUME TracksInv, MonitorInv,
           \/ PublisherConnected \/ CheckPublications \/ \E d \in Sids : WaitPasses(d)
           \/ \E d \in Sids, b \in BOOLEAN : SetTrackMuted(d, b)
    PROVE  MonitorInv'
  <1>t. monitors \in [Sids -> MonitorRecord] /\ \A d \in Sids : MonitorOK(monitors[d])
    BY DEF MonitorInv, MonitorsOK
  <1>1. Kept
    <2>1. CASE \E d \in Sids, b \in BOOLEAN : SetTrackMuted(d, b)
      BY <2>1, MuteKeeps
    <2>2. CASE PublisherConnected \/ CheckPublications \/ \E d \in Sids : WaitPasses(d)
      <3>1. UNCHANGED <<pend, tracks, adds, unlisted>>
        BY <2>2 DEF PublisherConnected, CheckPublications, WaitPasses, trackVars, tcountVars
      <3>2. QED
        BY <3>1, KeptSteps DEF Kept
    <2>3. QED
      BY <2>1, <2>2
  <1>2. CASE CheckPublications
    <2>1. Stage = "open" /\ monitors' = [d \in Sids |-> Checked(monitors[d])]
      BY <1>2 DEF CheckPublications
    <2>2. \A d \in Sids :
              /\ MonitorOK(monitors'[d])
              /\ \A k \in Nat \ {0} : Expects(monitors[d], k) => Expects(monitors'[d], k)
              /\ monitors[d].track # NoTrack =>
                    monitors'[d].exists = monitors[d].exists /\ monitors'[d].track = monitors[d].track
      BY <1>t, <2>1, CheckedMonitor
    <2>3. ASSUME NEW d \in Sids, NEW q \in Tracks, monitors[d].exists, monitors[d].track = q
          PROVE  monitors'[d].exists /\ monitors'[d].track = q
      <3>1. monitors[d].track # NoTrack
        BY <2>3, NoTrackIsNone
      <3>2. monitors'[d].exists = monitors[d].exists /\ monitors'[d].track = monitors[d].track
        BY <2>2, <3>1
      <3>3. QED
        BY <2>3, <3>2, Zenon
    <2>4. monitors' = [d \in Sids |-> monitors'[d]] /\ DOMAIN monitors' = Sids
      BY <2>1
    <2>5. QED
      BY <1>1, <2>1, <2>2, <2>3, <2>4, KeptMonitors
  <1>3. CASE PublisherConnected
    <2>1. /\ UNCHANGED Stage
          /\ monitors' = [d \in Sids |-> IF monitors[d].exists THEN MaybeStartMonitor(monitors[d], TRUE) ELSE monitors[d]]
      BY <1>3 DEF PublisherConnected, Stage, roomVars
    <2>2. \A d \in Sids : /\ SameMonitor(monitors[d], MaybeStartMonitor(monitors[d], TRUE))
                          /\ SameMonitor(monitors[d], monitors[d])
      BY <1>t, StartedMonitor, ZenonT(60) DEF SameMonitor
    <2>3. \A d \in Sids : SameMonitor(monitors[d], monitors'[d])
      BY <2>1, <2>2
    <2>4. monitors' = [d \in Sids |-> monitors'[d]]
      BY <2>1
    <2>5. QED
      BY <1>1, <2>1, <2>3, <2>4, SameMonitors
  <1>4. ASSUME NEW d \in Sids, NEW r, SameMonitor(monitors[d], r), monitors' = [monitors EXCEPT ![d] = r],
               UNCHANGED Stage
        PROVE  MonitorInv'
    <2>1. \A e \in Sids : SameMonitor(monitors[e], monitors'[e])
      BY <1>t, <1>4 DEF SameMonitor
    <2>2. monitors' = [e \in Sids |-> monitors'[e]]
      BY <1>t, <1>4
    <2>3. QED
      BY <1>1, <1>4, <2>1, <2>2, SameMonitors
  <1>5. ASSUME NEW d \in Sids, WaitPasses(d) PROVE MonitorInv'
    <2> DEFINE r == [monitors[d] EXCEPT !.timer = "due"]
    <2>1. monitors' = [monitors EXCEPT ![d] = r] /\ UNCHANGED Stage
      BY <1>5 DEF WaitPasses, Stage, roomVars
    <2>2. SameMonitor(monitors[d], r)
      BY <1>t, StartedMonitor
    <2> HIDE DEF r
    <2>3. QED
      BY <1>4, <2>1, <2>2
  <1>6. ASSUME NEW d \in Sids, NEW b \in BOOLEAN, SetTrackMuted(d, b) PROVE MonitorInv'
    <2> DEFINE r == SetPublicationMute(monitors[d], b, connected)
    <2>1. monitors' = [monitors EXCEPT ![d] = r] /\ UNCHANGED Stage
      BY <1>6 DEF SetTrackMuted, Stage, roomVars
    <2>2. SameMonitor(monitors[d], r)
      BY <1>t, StartedMonitor
    <2> HIDE DEF r
    <2>3. QED
      BY <1>4, <2>1, <2>2
  <1>7. QED
    BY <1>2, <1>3, <1>5, <1>6

(* Requests that stay do not lose their monitor to a release. *)
LEMMA StaysExpected ==
    ASSUME TracksInv, MonitorInv, NEW k \in Cids, AfterRelease[k].infos # <<>>
    PROVE  /\ AfterRelease[k] = pend[k] /\ pend[k].infos # <<>> /\ Len(pend[k].infos) \in Nat \ {0}
           /\ pend[k].infos[1].sid \in Sids \ Releases
           /\ Expects(monitors[pend[k].infos[1].sid], Len(pend[k].infos))
  <1>1. /\ AfterRelease[k] = pend[k] /\ pend[k].infos # <<>>
        /\ \A i \in DOMAIN pend[k].infos : pend[k].infos[i].sid \notin Releases
    BY DEF AfterRelease, NotPending
  <1>2. /\ 1 \in DOMAIN pend[k].infos /\ pend[k].infos[1] \in InfoRecord /\ Len(pend[k].infos) \in Nat \ {0}
    <2>1. pend[k].infos \in Seq(InfoRecord)
      BY DEF TracksInv, PublishTypes, PendingRecord
    <2>2. QED
      BY <1>1, <2>1, TailRequests
  <1>3. QED
    BY <1>1, <1>2 DEF MonitorInv, RequestsExpected, InfoRecord

LEMMA AddTrackMonitors ==
    ASSUME TracksInv, MonitorInv, NEW c \in Cids, AddTrack(c)
    PROVE  MonitorInv'
  <1>t. monitors \in [Sids -> MonitorRecord] /\ \A d \in Sids : MonitorOK(monitors[d])
    BY DEF MonitorInv, MonitorsOK
  <1> DEFINE left == [d \in Sids |-> IF d \in Releases THEN RemovePublication(monitors[d]) ELSE monitors[d]]
             x == SetPublicationMute(AddPublication(left[SidFor(c)], connected), FALSE, connected)
  <1>1. /\ \A k \in Cids \ {c} : pend'[k] = AfterRelease[k]
        /\ \/ Refused(c) /\ pend'[c] = AfterRelease[c]
           \/ /\ ~Refused(c) /\ SidFor(c) \in Sids
              /\ pend'[c].infos # <<>> /\ 1 \in DOMAIN pend'[c].infos
              /\ Len(pend'[c].infos) = Len(AfterRelease[c].infos) + 1
              /\ \A i \in DOMAIN pend'[c].infos : pend'[c].infos[i].sid = SidFor(c)
              /\ AfterRelease[c].infos # <<>> => SidFor(c) = pend[c].infos[1].sid
    BY AddedRequest
  <1>2. UNCHANGED <<Stage, tracks, unlisted>>
    BY DEF AddTrack, Stage, roomVars
  <1>3. /\ Refused(c) => monitors' = left
        /\ ~Refused(c) => monitors' = [left EXCEPT ![SidFor(c)] = x]
    BY DEF AddTrack
  <1>4. \A d \in Sids : /\ MonitorOK(left[d])
                        /\ d \notin Releases \/ monitors[d].track # NoTrack => left[d] = monitors[d]
    BY <1>t, RemovedMonitor
  <1>5. left \in [Sids -> MonitorRecord]
    BY <1>4 DEF MonitorOK
  <1> HIDE DEF left
  <1>6. SidFor(c) \in Sids =>
           /\ MonitorOK(x) /\ x.exists /\ x.track = left[SidFor(c)].track /\ Expects(x, 1)
           /\ \A n \in Nat : Expects(left[SidFor(c)], n) => Expects(x, n + 1) /\ Expects(x, n)
    <2> SUFFICES ASSUME SidFor(c) \in Sids
                 PROVE  /\ MonitorOK(x) /\ x.exists /\ x.track = left[SidFor(c)].track /\ Expects(x, 1)
                        /\ \A n \in Nat : Expects(left[SidFor(c)], n) => Expects(x, n + 1) /\ Expects(x, n)
      OBVIOUS
    <2> DEFINE m == left[SidFor(c)]
               a == AddPublication(m, connected)
    <2>1. /\ MonitorOK(a) /\ a.exists /\ a.track = m.track /\ Expects(a, 1)
          /\ \A n \in Nat : Expects(m, n) => Expects(a, n + 1)
      BY <1>4, AddedPublication
    <2> HIDE DEF m, a
    <2>2. SameMonitor(a, SetPublicationMute(a, FALSE, connected))
      BY <2>1, StartedMonitor DEF MonitorOK
    <2>3. x = SetPublicationMute(a, FALSE, connected)
      BY DEF a, m
    <2> HIDE DEF x
    <2>4. /\ MonitorOK(x) /\ x.track = m.track /\ Expects(x, 1)
          /\ \A n \in Nat : Expects(m, n) => Expects(x, n + 1)
      BY <2>1, <2>2, <2>3, SameIsOK DEF SameMonitor
    <2>5. x.exists
      BY <2>4 DEF Expects
    <2>6. Len(x.desired) \in Nat
      BY <2>4 DEF MonitorOK, MonitorRecord
    <2>7. \A n \in Nat : Expects(x, n + 1) => Expects(x, n)
      BY <2>6 DEF Expects
    <2>8. QED
      BY <2>4, <2>5, <2>7 DEF m
  <1> HIDE DEF x
  <1>7. /\ DOMAIN monitors' = Sids /\ monitors' = [d \in Sids |-> monitors'[d]]
        /\ \A d \in Sids : monitors'[d] = left[d] \/ (~Refused(c) /\ d = SidFor(c) /\ monitors'[d] = x)
        /\ ~Refused(c) /\ SidFor(c) \in Sids => monitors'[SidFor(c)] = x
    BY <1>3, <1>5
  <1>8. MonitorsOK'
    <2>1. \A d \in Sids : MonitorOK(monitors'[d])
      BY <1>4, <1>6, <1>7
    <2>2. \A d \in Sids : monitors'[d] \in MonitorRecord
      BY <2>1 DEF MonitorOK
    <2>3. monitors' \in [Sids -> MonitorRecord]
      BY <1>7, <2>2
    <2>4. QED
      BY <2>1, <2>3 DEF MonitorsOK
  <1>9. ASSUME NEW d \in Sids, NEW n \in Nat, Expects(left[d], n) PROVE Expects(monitors'[d], n)
    BY <1>6, <1>7, <1>9
  <1>10. RequestsExpected'
    <2> SUFFICES ASSUME NEW k \in Cids, pend'[k].infos # <<>>
                 PROVE  Expects(monitors'[pend'[k].infos[1].sid], Len(pend'[k].infos))
      BY DEF RequestsExpected
    <2>1. CASE pend'[k] = AfterRelease[k]
      <3>1. /\ AfterRelease[k] = pend[k] /\ Len(pend[k].infos) \in Nat \ {0}
            /\ pend[k].infos[1].sid \in Sids \ Releases
            /\ Expects(monitors[pend[k].infos[1].sid], Len(pend[k].infos))
        BY <2>1, StaysExpected
      <3>2. Expects(left[pend[k].infos[1].sid], Len(pend[k].infos))
        BY <1>4, <3>1
      <3>3. QED
        BY <1>9, <2>1, <3>1, <3>2
    <2>2. CASE k = c /\ ~Refused(c)
      <3>1. /\ SidFor(c) \in Sids /\ monitors'[SidFor(c)] = x /\ pend'[c].infos[1].sid = SidFor(c)
            /\ Len(pend'[c].infos) = Len(AfterRelease[c].infos) + 1
        BY <1>1, <1>7, <2>2
      <3>2. CASE AfterRelease[c].infos = <<>>
        <4>1. Len(pend'[c].infos) = 1
          BY <3>1, <3>2
        <4>2. QED
          BY <1>6, <2>2, <3>1, <4>1
      <3>3. CASE AfterRelease[c].infos # <<>>
        <4>1. /\ AfterRelease[c] = pend[c] /\ Len(pend[c].infos) \in Nat \ {0}
              /\ pend[c].infos[1].sid \in Sids \ Releases
              /\ Expects(monitors[pend[c].infos[1].sid], Len(pend[c].infos))
          BY <3>3, StaysExpected
        <4>2. SidFor(c) = pend[c].infos[1].sid
          BY <1>1, <2>2, <3>3
        <4>3. Expects(left[SidFor(c)], Len(pend[c].infos))
          BY <1>4, <4>1, <4>2
        <4>4. Len(pend[c].infos) \in Nat /\ Len(pend'[c].infos) = Len(pend[c].infos) + 1
          BY <3>1, <4>1
        <4>5. Expects(x, Len(pend[c].infos) + 1)
          BY <1>6, <3>1, <4>3, <4>4
        <4>6. QED
          BY <2>2, <3>1, <4>4, <4>5
      <3>4. QED
        BY <3>2, <3>3
    <2>3. QED
      BY <1>1, <2>1, <2>2
  <1>11. LiveIsMonitored'
    <2> SUFFICES ASSUME NEW o \in Tracks \ unlisted, Open(o), Stage = "open"
                 PROVE  monitors'[tracks[o].sid].exists /\ monitors'[tracks[o].sid].track = o
      BY <1>2 DEF LiveIsMonitored, Open
    <2>1. tracks[o].sid \in Sids /\ o # NoTrack
      BY NoTrackIsNone DEF TracksInv, ObjectOK, Created, Open
    <2>2. monitors[tracks[o].sid].exists /\ monitors[tracks[o].sid].track = o
      BY DEF MonitorInv, LiveIsMonitored
    <2>3. left[tracks[o].sid] = monitors[tracks[o].sid]
      BY <1>4, <2>1, <2>2
    <2>4. QED
      BY <1>6, <1>7, <2>1, <2>2, <2>3
  <1>12. QED
    BY <1>8, <1>10, <1>11 DEF MonitorInv

LEMMA AddedTrackMonitors ==
    ASSUME TracksInv, SidsOK, OpenInv, MonitorInv, UNCHANGED <<unlisted, parts>>,
           NEW m \in Media, ~Created(m), pend[m[1]].infos # <<>>, PublishedBy(m[1]) = {}, AddedMediaTrack(m[1], m)
    PROVE  MonitorInv'
  <1>t. monitors \in [Sids -> MonitorRecord] /\ \A d \in Sids : MonitorOK(monitors[d])
    BY DEF MonitorInv, MonitorsOK
  <1> DEFINE c == m[1]
             d == pend[c].infos[1].sid
             n == Len(pend[c].infos)
             r == SetPublishedTrack(monitors[d], m, connected)
  <1>1. /\ m \in Tracks /\ c \in Cids /\ d \in Sids /\ 1 \in DOMAIN pend[c].infos /\ n \in Nat \ {0}
        /\ tracks'[m].cid = c /\ tracks'[m].sid = d
        /\ \A o \in Tracks \ {m} : tracks'[o] = tracks[o]
        /\ \A k \in Cids \ {c} : pend'[k] = pend[k]
        /\ pend'[c].infos # <<>> => Len(pend'[c].infos) = n - 1 /\ 1 \in DOMAIN pend'[c].infos
        /\ \A i \in DOMAIN pend'[c].infos : pend'[c].infos[i].sid = d
        /\ monitors' = [monitors EXCEPT ![d] = r]
    BY AddedTrack
  <1>2. Expects(monitors[d], n)
    BY <1>1 DEF MonitorInv, RequestsExpected
  <1>3. MonitorOK(r) /\ r.exists /\ r.track = m /\ Expects(r, n - 1)
    <2>1. MonitorOK(monitors[d]) /\ m \in Tracks /\ n \in Nat \ {0}
      BY <1>t, <1>1
    <2> HIDE DEF d, n
    <2>2. QED
      BY <1>2, <2>1, LiveTrackMonitor
  <1>b. Belongs(d, c)
    BY <1>1 DEF Belongs
  <1> HIDE DEF c, d, n, r
  <1>4. monitors'[d] = r /\ \A e \in Sids \ {d} : monitors'[e] = monitors[e]
    BY <1>t, <1>1
  <1>5. MonitorsOK'
    <2>1. \A e \in Sids : MonitorOK(monitors'[e])
      BY <1>t, <1>3, <1>4
    <2>2. monitors' \in [Sids -> MonitorRecord]
      BY <1>t, <1>1, <1>3 DEF MonitorOK
    <2>3. QED
      BY <2>1, <2>2 DEF MonitorsOK
  <1>6. RequestsExpected'
    <2> SUFFICES ASSUME NEW k \in Cids, pend'[k].infos # <<>>
                 PROVE  Expects(monitors'[pend'[k].infos[1].sid], Len(pend'[k].infos))
      BY DEF RequestsExpected
    <2>1. CASE k = c
      BY <1>1, <1>3, <1>4, <2>1
    <2>2. CASE k # c
      <3>1. pend'[k] = pend[k] /\ pend[k].infos # <<>>
        BY <1>1, <2>2
      <3>2. pend[k].infos \in Seq(InfoRecord)
        BY DEF TracksInv, PublishTypes, PendingRecord
      <3>3. 1 \in DOMAIN pend[k].infos /\ pend[k].infos[1] \in InfoRecord
        BY <3>1, <3>2, TailRequests
      <3>4. pend[k].infos[1].sid \in Sids /\ Belongs(pend[k].infos[1].sid, k)
        BY <3>3 DEF Belongs, InfoRecord
      <3>5. pend[k].infos[1].sid # d
        BY <1>1, <1>b, <2>2, <3>4 DEF SidsOK
      <3>6. QED
        BY <1>4, <3>1, <3>4, <3>5 DEF MonitorInv, RequestsExpected
    <2>3. QED
      BY <2>1, <2>2
  <1>7. LiveIsMonitored'
    <2> SUFFICES ASSUME NEW o \in Tracks \ unlisted, tracks'[o].state = "open", Stage = "open"
                 PROVE  monitors'[tracks'[o].sid].exists /\ monitors'[tracks'[o].sid].track = o
      BY DEF LiveIsMonitored, Open, Stage
    <2>1. CASE o = m
      BY <1>1, <1>3, <1>4, <2>1
    <2>2. CASE o # m
      <3>1. tracks'[o] = tracks[o] /\ Open(o)
        BY <1>1, <2>2 DEF Open
      <3>2. Created(o) /\ tracks[o].cid = o[1] /\ o[1] \in Cids /\ tracks[o].sid \in Sids
        BY <3>1, NoTrackIsNone DEF TracksInv, ObjectOK, Created, Open
      <3>3. monitors[tracks[o].sid].exists /\ monitors[tracks[o].sid].track = o
        BY <3>1 DEF MonitorInv, LiveIsMonitored
      <3>4. o \in Listed
        BY <3>1 DEF OpenInv, OpenIsListed, CallsOK
      <3>5. tracks[o].sid # d
        <4> SUFFICES ASSUME tracks[o].sid = d PROVE FALSE
          OBVIOUS
        <4>1. Belongs(d, tracks[o].cid)
          BY <3>2 DEF Belongs
        <4>2. tracks[o].cid = c
          BY <1>1, <1>b, <3>2, <4>1 DEF SidsOK
        <4>3. o \in PublishedBy(c)
          BY <3>4, <4>2 DEF PublishedBy
        <4>4. QED
          BY <4>3 DEF c
      <3>6. QED
        BY <1>4, <3>1, <3>2, <3>3, <3>5
    <2>3. QED
      BY <2>1, <2>2
  <1>8. QED
    BY <1>5, <1>6, <1>7 DEF MonitorInv

-----------------------------------------------------------------------------
(* Open tracks, step by step.                                               *)

(* A task closes a track, and goes on as v. *)
LEMMA OpenClose ==
    ASSUME TracksInv, OpenInv, NEW o \in Tracks, NEW t \in TaskNames, NEW v \in TaskRecord, CloseTrack(o, t, v),
           UNCHANGED <<published, canPublish, parts, unlisted, arrived>>,
           tasks[t].pc # "idle", t \in Closes => v.pc # "idle" /\ tasks[t].pc \in Handling,
           t # Admin => v.list = tasks[t].list \/ t = Closer,
           t = Admin => /\ tasks[t].pc # "list" /\ v.list = tasks[t].list \ {o} /\ v.pc = "removing",
           t = Closer => /\ v.list = tasks[t].list \ {o} /\ v.pc = "close",
           Making(t) => tasks[t].track = o, v.pc = "removing" => v.track = o
    PROVE  OpenInv'
  <1>t. /\ tasks \in [TaskNames -> TaskRecord] /\ Admin \in TaskNames /\ Closer \in TaskNames
        /\ tracks \in [Tracks -> ObjectRecord]
    BY CallsAre DEF TracksInv, PublishTypes
  <1>c. CloseOf(o) \in TaskNames /\ CloseOf(o) \in Closes /\ CloseOf(o) # Admin /\ CloseOf(o) # Closer /\ CloseOf(o) \notin Media
    BY NamesDiffer DEF TaskNames, Calls
  <1>1. \E w \in {TRUE, FALSE} : LET z == [v EXCEPT !.wait = w] IN
           /\ tasks'[t] = z /\ z.pc = v.pc /\ z.list = v.list /\ z.track = v.track
           /\ \A u \in TaskNames \ {t} : \/ tasks'[u] = tasks[u]
                                         \/ /\ u = CloseOf(o) /\ tasks[u].pc = "idle" /\ tasks'[u].pc = "close"
                                            /\ tasks'[u].list = tasks[u].list
           /\ tracks'[o].state # "open" /\ \A q \in Tracks \ {o} : tracks'[q] = tracks[q]
    <2>1. CASE Open(o)
      <3> DEFINE z == [v EXCEPT !.wait = TRUE]
                 x == [tasks[CloseOf(o)] EXCEPT !.pc = "close"]
      <3>1. tasks[CloseOf(o)].pc = "idle"
        BY <2>1 DEF TracksInv, ObjectOK, Open
      <3>2. t # CloseOf(o)
        BY <3>1
      <3>3. tasks' = [tasks EXCEPT ![CloseOf(o)] = x, ![t] = z] /\ tracks' = [tracks EXCEPT ![o].state = "closed"]
        BY <2>1 DEF CloseTrack, Open
      <3>4. z.pc = v.pc /\ z.list = v.list /\ z.track = v.track
        BY DEF TaskRecord
      <3>5. x.pc = "close" /\ x.list = tasks[CloseOf(o)].list
        BY <1>t, <1>c DEF TaskRecord
      <3> HIDE DEF z, x
      <3>6. /\ tasks'[t] = z /\ tasks'[CloseOf(o)] = x
            /\ \A u \in TaskNames \ {t, CloseOf(o)} : tasks'[u] = tasks[u]
        BY <1>t, <1>c, <3>2, <3>3
      <3>7. tracks'[o].state # "open" /\ \A q \in Tracks \ {o} : tracks'[q] = tracks[q]
        BY <1>t, <3>3 DEF ObjectRecord
      <3>8. \A u \in TaskNames \ {t} : \/ tasks'[u] = tasks[u]
                                       \/ /\ u = CloseOf(o) /\ tasks[u].pc = "idle" /\ tasks'[u].pc = "close"
                                          /\ tasks'[u].list = tasks[u].list
        BY <3>1, <3>5, <3>6
      <3>9. QED
        BY <3>4, <3>6, <3>7, <3>8 DEF z
    <2>2. CASE ~Open(o)
      <3> DEFINE z == [v EXCEPT !.wait = FALSE]
      <3>1. tasks' = [tasks EXCEPT ![t] = z] /\ tracks' = tracks
        BY <2>2 DEF CloseTrack, Open, SetTask
      <3>2. z.pc = v.pc /\ z.list = v.list /\ z.track = v.track
        BY DEF TaskRecord
      <3> HIDE DEF z
      <3>3. tasks'[t] = z /\ \A u \in TaskNames \ {t} : tasks'[u] = tasks[u]
        BY <1>t, <3>1
      <3>4. QED
        BY <2>2, <3>1, <3>2, <3>3 DEF z, Open
    <2>3. QED
      BY <2>1, <2>2
  <1>2. /\ tasks'[t].pc = v.pc /\ tasks'[t].list = v.list /\ tasks'[t].track = v.track
        /\ \A u \in TaskNames \ {t} : \/ tasks'[u] = tasks[u]
                                      \/ /\ u = CloseOf(o) /\ tasks[u].pc = "idle" /\ tasks'[u].pc = "close"
                                         /\ tasks'[u].list = tasks[u].list
        /\ tracks'[o].state # "open" /\ \A q \in Tracks \ {o} : tracks'[q] = tracks[q]
    BY <1>1
  <1>3. \A q \in Tracks : tracks'[q].state = "open" => Open(q) /\ q # o
    BY <1>2 DEF Open
  <1>4. Listed' = Listed
    BY DEF Listed
  <1>5. \A u \in TaskNames : ~canPublish /\ Making(u) /\ tracks'[tasks[u].track].state = "open"
                => Making(u)' /\ tasks'[u].track = tasks[u].track
    <2> SUFFICES ASSUME NEW u \in TaskNames, Making(u), tracks'[tasks[u].track].state = "open"
                 PROVE  Making(u)' /\ tasks'[u].track = tasks[u].track
      OBVIOUS
    <2>1. u # t
      BY <1>2
    <2>2. tasks'[u] = tasks[u]
      BY <1>2, <2>1 DEF Making
    <2>3. QED
      BY <2>2 DEF Making
  <1>6. /\ tasks[Admin].pc = "list" => tasks'[Admin].pc = "list"
        /\ \A q \in tasks[Admin].list : tracks'[q].state = "open" => q \in tasks'[Admin].list
        /\ \A q \in tasks[Closer].list : tracks'[q].state = "open" => q \in tasks'[Closer].list
    <2>1. tasks[Admin].list \subseteq Tracks /\ tasks[Closer].list \subseteq Tracks
      BY <1>t DEF TaskRecord
    <2>2. QED
      BY <1>t, <1>c, <1>2, <1>3, <2>1
  <1>7. CallsOK'
    <2>1. tasks'[Admin] = tasks[Admin] \/ (t = Admin /\ tasks'[Admin].pc = "removing")
      BY <1>t, <1>c, <1>2
    <2>2. tasks'[Closer] = tasks[Closer] \/ (t = Closer /\ tasks'[Closer].pc = "close" /\ tasks[Closer].pc # "idle")
      BY <1>t, <1>c, <1>2
    <2>3. QED
      BY <2>1, <2>2 DEF OpenInv, CallsOK, Stage
  <1>8. MediaIdle'
    <2>1. \A m \in Media \ arrived : m \in TaskNames /\ tasks[m].pc = "idle"
      BY DEF OpenInv, MediaIdle, TaskNames
    <2>2. \A m \in Media \ arrived : tasks'[m] = tasks[m]
      BY <1>c, <1>2, <2>1
    <2>3. QED
      BY <2>1, <2>2 DEF MediaIdle
  <1>9. RemovingOK'
    <2> SUFFICES ASSUME NEW u \in TaskNames, tasks'[u].pc = "removing"
                 PROVE  tracks'[tasks'[u].track].state # "open"
      BY DEF RemovingOK, Open
    <2>1. CASE u = t
      BY <1>2, <2>1
    <2>2. CASE u # t
      <3>1. tasks'[u] = tasks[u] /\ tasks[u].pc = "removing"
        BY <1>2, <2>2
      <3>2. tasks[u].track \in Tracks /\ ~Open(tasks[u].track)
        BY <3>1 DEF OpenInv, RemovingOK, TracksInv, TaskOK, Attached
      <3>3. QED
        BY <1>3, <3>1, <3>2
    <2>3. QED
      BY <2>1, <2>2
  <1>10. QED
    BY <1>3, <1>4, <1>5, <1>6, <1>7, <1>8, <1>9, OpenFrame

(* Nothing of it changes. *)
LEMMA OpenSame ==
    ASSUME TracksInv, OpenInv, UNCHANGED <<tasks, tracks, published, canPublish, unlisted, arrived>>,
           Stage' = "open" => Stage = "open"
    PROVE  OpenInv'
  <1>1. /\ Listed' = Listed /\ \A o \in Tracks : tracks'[o].state = "open" => Open(o)
        /\ \A u \in TaskNames : Making(u) => Making(u)'
    BY DEF Listed, Open, Making
  <1>2. CallsOK' /\ MediaIdle' /\ RemovingOK'
    BY DEF OpenInv, CallsOK, MediaIdle, RemovingOK, Open
  <1>3. QED
    BY <1>1, <1>2, OpenFrame

(* Participant.Close begins or goes on, and has all that was listed in hand. *)
LEMMA OpenCloser ==
    ASSUME TracksInv, OpenInv, NEW v, tasks' = [tasks EXCEPT ![Closer] = v], v.pc \in {"clear", "uptracks", "close", "end"},
           UNCHANGED <<tracks, canPublish, unlisted, arrived>>, Stage' # "open",
           v.list # {} => v.pc = "close",
           tasks[Closer].list = {}, published' = published \/ Listed \subseteq v.list
    PROVE  OpenInv'
  <1>t. tasks \in [TaskNames -> TaskRecord] /\ Admin \in TaskNames /\ Closer \in TaskNames /\ Admin # Closer
    BY CallsAre, NamesDiffer DEF TracksInv, PublishTypes
  <1>1. tasks'[Closer] = v /\ \A u \in TaskNames \ {Closer} : tasks'[u] = tasks[u]
    BY <1>t
  <1>2. PcOK(Closer, tasks[Closer].pc)
    BY <1>t DEF TracksInv, TaskOK
  <1>3. ~Making(Closer)
    BY <1>2 DEF PcOK, Making
  <1>4. \A u \in TaskNames : Making(u) => Making(u)' /\ tasks'[u].track = tasks[u].track
    BY <1>1, <1>3 DEF Making
  <1>5. \A o \in Tracks : o \in Listed => o \in Listed' \/ o \in tasks'[Closer].list
    BY <1>1 DEF Listed
  <1>6. CallsOK'
    BY <1>t, <1>1 DEF OpenInv, CallsOK
  <1>7. MediaIdle'
    <2>1. \A m \in Media : m \in TaskNames /\ m # Closer
      BY NamesDiffer DEF TaskNames, Calls
    <2>2. QED
      BY <1>1, <2>1 DEF OpenInv, MediaIdle
  <1>8. RemovingOK'
    BY <1>1 DEF OpenInv, RemovingOK, Open
  <1>9. \A o \in Tracks : tracks'[o].state = "open" => Open(o)
    BY DEF Open
  <1>10. QED
    BY <1>t, <1>1, <1>4, <1>5, <1>6, <1>7, <1>8, <1>9, OpenFrame

(* Whoever is taken off the list without having ended is in unlisted. *)
LEMMA DelistKeeps ==
    ASSUME TracksInv, NEW o \in Tracks, ~Open(o), Delist(o), UNCHANGED tracks
    PROVE  /\ unlisted \subseteq unlisted'
           /\ \A q \in Tracks \ unlisted' : tracks'[q].state = "open" /\ q \in Listed => q \in Listed'
  <1>t. published \in [Sids -> MaybeTrack]
    BY DEF TracksInv, PublishTypes
  <1>1. /\ published' = [published EXCEPT ![tracks[o].sid] = NoTrack]
        /\ unlisted' = unlisted \union ({published[tracks[o].sid]} \ {o, NoTrack})
    BY DEF Delist
  <1>2. ASSUME NEW q \in Tracks \ unlisted', tracks[q].state = "open", q \in Listed
        PROVE  q \in Listed'
    <2>1. PICK d \in Sids : published[d] = q
      BY <1>2 DEF Listed
    <2>2. q # o /\ q # NoTrack
      BY <1>2, NoTrackIsNone DEF Open
    <2>3. d # tracks[o].sid
      BY <1>1, <1>2, <2>1, <2>2
    <2>4. published'[d] = q
      BY <1>t, <1>1, <2>1, <2>3
    <2>5. QED
      BY <2>2, <2>4 DEF Listed
  <1>3. QED
    BY <1>1, <1>2

LEMMA TaskStepOpen ==
    ASSUME TracksInv, OpenInv, NEW t \in TaskNames,
           TakeRemote(t) \/ AddReceiver(t) \/ Permitted(t) \/ RemovedTrack(t) \/ Handled(t)
    PROVE  OpenInv'
  <1>t. tasks[t] \in TaskRecord /\ PcOK(t, tasks[t].pc)
    BY DEF TracksInv, PublishTypes, TaskOK
  <1>k. unlisted \subseteq unlisted' /\ \A o \in Tracks : tracks'[o].state = "open" => Open(o)
    BY TaskStepKeeps DEF Kept, KeptObjects, Open
  <1>1. UNCHANGED <<canPublish, parts, arrived>>
    BY DEF TakeRemote, AddReceiver, Permitted, RemovedTrack, Handled, tcountVars, roomVars
  <1>2. tasks[t].pc \in Handling \union {"take"}
    BY DEF TakeRemote, AddReceiver, Permitted, RemovedTrack, Handled, Handling, Attached
  <1>3. t # Closer /\ (t = Admin => tasks[t].pc = "removing") /\ t \notin Media \ arrived
    <2>1. t # Closer /\ (t = Admin => tasks[t].pc = "removing")
      BY <1>t, <1>2, NamesDiffer DEF PcOK, Handling, Attached
    <2>2. t \notin Media \ arrived
      BY <1>2 DEF OpenInv, MediaIdle, Handling, Attached
    <2>3. QED
      BY <2>1, <2>2
  <1>4. CASE TakeRemote(t)
    <2> DEFINE v == [tasks[t] EXCEPT !.pc = "handle", !.todo = remote]
    <2>1. tasks' = [tasks EXCEPT ![t] = v] /\ UNCHANGED published /\ tasks[t].pc = "take"
      BY <1>4 DEF TakeRemote, SetTask
    <2>2. v.pc = "handle" /\ t # Admin
      BY <1>t, <1>3, <2>1 DEF TaskRecord
    <2> HIDE DEF v
    <2>3. ~Making(t) /\ Listed' = Listed
      BY <2>1 DEF Making, Listed
    <2>4. QED
      BY <1>k, <1>1, <1>3, <2>1, <2>2, <2>3, OpenTask
  <1>5. CASE AddReceiver(t)
    <2> DEFINE v == [tasks[t] EXCEPT !.pc = "permit"]
    <2>1. tasks' = [tasks EXCEPT ![t] = v] /\ UNCHANGED published /\ tasks[t].pc = "attach"
      BY <1>5 DEF AddReceiver, SetTask
    <2>2. v.pc = "permit" /\ v.track = tasks[t].track /\ t # Admin
      BY <1>t, <1>3, <2>1 DEF TaskRecord
    <2> HIDE DEF v
    <2>3. Listed' = Listed
      BY <2>1 DEF Listed
    <2>4. QED
      BY <1>k, <1>1, <1>3, <2>1, <2>2, <2>3, OpenTask
  <1>6. CASE Permitted(t)
    <2>1. UNCHANGED <<published, unlisted>> /\ tasks[t].pc = "permit"
      BY <1>6 DEF Permitted
    <2>2. Listed' = Listed /\ t # Admin
      BY <1>3, <2>1 DEF Listed
    <2>3. CASE canPublish
      <3> DEFINE v == [tasks[t] EXCEPT !.pc = "handle"]
      <3>1. tasks' = [tasks EXCEPT ![t] = v]
        BY <1>6, <2>3 DEF Permitted, SetTask
      <3>2. v.pc = "handle"
        BY <1>t DEF TaskRecord
      <3> HIDE DEF v
      <3>3. QED
        BY <1>k, <1>1, <1>3, <2>2, <2>3, <3>1, <3>2, OpenTask
    <2>4. CASE ~canPublish
      <3> DEFINE v == [tasks[t] EXCEPT !.pc = "removing"]
                 o == tasks[t].track
      <3>1. CloseTrack(o, t, v)
        BY <1>6, <2>4 DEF Permitted
      <3>2. v \in TaskRecord /\ v.pc = "removing" /\ v.list = tasks[t].list /\ v.track = o
        BY <1>t DEF TaskRecord, Handling, Attached
      <3>3. o \in Tracks /\ "permit" \in Handling
        BY <2>1 DEF TracksInv, TaskOK, Attached, Handling
      <3> HIDE DEF v
      <3>4. QED
        BY <1>1, <1>3, <2>1, <2>2, <3>1, <3>2, <3>3, OpenClose
    <2>5. QED
      BY <2>3, <2>4
  <1>7. CASE RemovedTrack(t)
    <2> DEFINE pc == IF t = Admin THEN "remove" ELSE "handle"
               v == [tasks[t] EXCEPT !.pc = pc]
    <2>1. /\ tasks' = [tasks EXCEPT ![t] = v] /\ tasks[t].pc = "removing" /\ Delist(tasks[t].track)
          /\ UNCHANGED tracks
      BY <1>7 DEF RemovedTrack, SetTask
    <2>2. tasks[t].track \in Tracks /\ ~Open(tasks[t].track)
      BY <2>1 DEF TracksInv, TaskOK, Attached, OpenInv, RemovingOK
    <2>3. \A q \in Tracks \ unlisted' : tracks'[q].state = "open" /\ q \in Listed => q \in Listed'
      BY <2>1, <2>2, DelistKeeps
    <2>4. v.pc = pc /\ v.list = tasks[t].list /\ pc \in {"remove", "handle"} /\ (t = Admin => pc = "remove")
      BY <1>t DEF TaskRecord
    <2> HIDE DEF v, pc
    <2>5. ~Making(t)
      BY <2>1 DEF Making
    <2>6. QED
      BY <1>k, <1>1, <1>3, <2>1, <2>3, <2>4, <2>5, OpenTask
  <1>8. CASE Handled(t)
    <2> DEFINE v == IF t \in Closes THEN [tasks[t] EXCEPT !.pc = "unpublish"] ELSE NoTask
    <2>1. tasks' = [tasks EXCEPT ![t] = v] /\ UNCHANGED published /\ tasks[t].pc = "handle"
      BY <1>8 DEF Handled, SetTask, trackVars
    <2>2. v.pc \in {"unpublish", "idle"} /\ t # Admin
      BY <1>t, <1>3, <2>1 DEF TaskRecord, NoTask
    <2> HIDE DEF v
    <2>3. ~Making(t) /\ Listed' = Listed
      BY <2>1 DEF Making, Listed
    <2>4. QED
      BY <1>k, <1>1, <1>3, <2>1, <2>2, <2>3, OpenTask
  <1>9. QED
    BY <1>4, <1>5, <1>6, <1>7, <1>8

LEMMA TrackStepOpen ==
    ASSUME TracksInv, OpenInv, NEW o \in Tracks, TrackStep(o) \/ ReceiverEnds(o)
    PROVE  OpenInv'
  <1> DEFINE t == CloseOf(o)
  <1>t. /\ t \in TaskNames \ {Closer} /\ t # Admin /\ t \notin Media /\ tasks[t] \in TaskRecord
        /\ NoTask \in TaskRecord
    BY NamesDiffer, NewTask DEF TaskNames, Calls, TracksInv, PublishTypes
  <1>k. unlisted \subseteq unlisted' /\ \A q \in Tracks : tracks'[q].state = "open" => Open(q)
    BY TrackStepKeeps DEF Kept, KeptObjects, Open
  <1>1. UNCHANGED <<canPublish, parts, arrived>>
    BY DEF TrackStep, Unlist, Promote, Unpublish, Announce, ReceiverEnds, tcountVars, roomVars
  <1>2. CASE Unlist(o)
    <2> DEFINE v == [tasks[t] EXCEPT !.pc = "promote"]
    <2>1. tasks' = [tasks EXCEPT ![t] = v] /\ tasks[t].pc = "close" /\ Delist(o) /\ UNCHANGED tracks
      BY <1>2 DEF Unlist, SetTask
    <2>2. ~Open(o)
      BY <2>1 DEF TracksInv, ObjectOK, Open
    <2>3. v.pc = "promote" /\ ~Making(t)
      BY <1>t, <2>1 DEF TaskRecord, Making
    <2> HIDE DEF v, t
    <2>4. QED
      BY <1>t, <1>k, <1>1, <2>1, <2>2, <2>3, DelistKeeps, OpenTask
  <1>3. CASE Promote(o) \/ Unpublish(o)
    <2>1. PICK pc \in {"take", "end"} : tasks' = [tasks EXCEPT ![t] = [tasks[t] EXCEPT !.pc = pc]]
      BY <1>3 DEF Promote, Unpublish, SetTask
    <2> DEFINE v == [tasks[t] EXCEPT !.pc = pc]
    <2>2. tasks[t].pc \in {"promote", "unpublish"} /\ UNCHANGED published
      BY <1>3 DEF Promote, Unpublish
    <2>3. v.pc = pc /\ ~Making(t) /\ Listed' = Listed
      BY <1>t, <2>2 DEF TaskRecord, Making, Listed
    <2>4. tasks' = [tasks EXCEPT ![t] = v]
      BY <2>1
    <2> HIDE DEF v, t
    <2>5. QED
      BY <1>t, <1>k, <1>1, <2>3, <2>4, OpenTask
  <1>4. CASE Announce(o)
    <2>1. UNCHANGED <<tasks, tracks, published, unlisted, Stage>>
      BY <1>4 DEF Announce, Stage, roomVars
    <2>2. QED
      BY <1>1, <2>1, OpenSame
  <1>5. CASE ReceiverEnds(o)
    <2> DEFINE v == [NoTask EXCEPT !.pc = "close"]
    <2>1. tasks' = [tasks EXCEPT ![t] = v] /\ tracks[o].state = "open" /\ UNCHANGED published
      BY <1>5 DEF ReceiverEnds, SetTask
    <2>2. tasks[t].pc = "idle"
      BY <2>1 DEF TracksInv, ObjectOK
    <2>3. v.pc = "close" /\ ~Making(t) /\ Listed' = Listed
      BY <2>1, <2>2 DEF NoTask, Making, Listed
    <2> HIDE DEF v, t
    <2>4. QED
      BY <1>t, <1>k, <1>1, <2>1, <2>3, OpenTask
  <1>6. QED
    BY <1>2, <1>3, <1>4, <1>5 DEF TrackStep

(* Calls that begin, and what changes neither tasks nor tracks. *)
LEMMA BeginOpen ==
    ASSUME TracksInv, OpenInv,
           \/ HandleOffer \/ (\E c \in Cids : AddTrack(c)) \/ (\E m \in Media : OnTrack(m)) \/ MuteStep
           \/ \E d \in Sids, b \in BOOLEAN : SetTrackMuted(d, b)
    PROVE  OpenInv'
  <1>t. /\ tasks \in [TaskNames -> TaskRecord] /\ Signal \in TaskNames /\ Mute \in TaskNames
        /\ Signal \notin {Closer, Admin} /\ Mute \notin {Closer, Admin}
        /\ Signal \notin Media /\ Mute \notin Media /\ tasks[Mute] \in TaskRecord
        /\ \A m \in Media : m \in TaskNames \ {Closer} /\ m # Admin
    BY CallsAre, NamesDiffer DEF TracksInv, PublishTypes, TaskNames, Calls
  <1>n. \A pc \in {"idle", "take", "handle", "pending"} : [NoTask EXCEPT !.pc = pc].pc = pc
    BY DEF NoTask
  <1>i. NoTask.pc = "idle"
    BY NewTask
  <1>1. /\ UNCHANGED <<canPublish, parts, published, unlisted>> /\ Listed' = Listed /\ arrived \subseteq arrived'
        /\ \A o \in Tracks : tracks'[o].state = "open" => Open(o)
    <2>1. UNCHANGED <<canPublish, parts, published, unlisted>> /\ arrived \subseteq arrived'
      BY DEF HandleOffer, AddTrack, OnTrack, MuteStep, SetTrackMuted, trackVars, tcountVars, roomVars
    <2>2. \A o \in Tracks : tracks'[o].state = "open" => Open(o)
      <3>1. CASE MuteStep \/ \E d \in Sids, b \in BOOLEAN : SetTrackMuted(d, b)
        BY <3>1, MuteKeeps DEF Kept, KeptObjects, Open
      <3>2. CASE HandleOffer \/ (\E c \in Cids : AddTrack(c)) \/ (\E m \in Media : OnTrack(m))
        BY <3>2 DEF HandleOffer, AddTrack, OnTrack, trackVars, Open
      <3>3. QED
        BY <3>1, <3>2
    <2>3. QED
      BY <2>1, <2>2 DEF Listed
  <1>2. CASE HandleOffer
    <2> DEFINE v == [NoTask EXCEPT !.pc = "take"]
    <2>1. tasks' = [tasks EXCEPT ![Signal] = v] /\ tasks[Signal].pc = "idle" /\ v.pc = "take"
      BY <1>2, <1>n, <1>i DEF HandleOffer, SetTask
    <2> HIDE DEF v
    <2>2. ~Making(Signal)
      BY <2>1 DEF Making
    <2>3. QED
      BY <1>t, <1>1, <2>1, <2>2, OpenTask
  <1>3. ASSUME NEW c \in Cids, AddTrack(c) PROVE OpenInv'
    <2> DEFINE pc == IF Behind(c) THEN "idle" ELSE "take"
               v == [NoTask EXCEPT !.pc = pc]
    <2>1. tasks[Signal].pc = "idle" /\ (UNCHANGED tasks \/ tasks' = [tasks EXCEPT ![Signal] = v])
      BY <1>3, <1>i DEF AddTrack, SetTask
    <2>2. v.pc \in {"idle", "take"}
      <3>1. pc \in {"idle", "take"}
        OBVIOUS
      <3> HIDE DEF pc
      <3>2. QED
        BY <1>n, <3>1
    <2> HIDE DEF v
    <2>3. ~Making(Signal)
      BY <2>1 DEF Making
    <2>4. CASE tasks' = [tasks EXCEPT ![Signal] = v]
      BY <1>t, <1>1, <2>1, <2>2, <2>3, <2>4, OpenTask
    <2>5. CASE UNCHANGED tasks
      <3>1. UNCHANGED <<tracks, arrived, Stage>>
        BY <1>3 DEF AddTrack, Stage, roomVars
      <3>2. QED
        BY <1>1, <2>5, <3>1, OpenSame
    <2>6. QED
      BY <2>1, <2>4, <2>5
  <1>4. ASSUME NEW m \in Media, OnTrack(m) PROVE OpenInv'
    <2> DEFINE v == [NoTask EXCEPT !.pc = "handle", !.todo = {m}]
    <2>1. tasks' = [tasks EXCEPT ![m] = v] /\ m \notin arrived /\ arrived' = arrived \union {m}
      BY <1>4 DEF OnTrack, SetTask
    <2>2. v.pc = "handle" /\ tasks[m].pc = "idle"
      BY <1>t, <2>1 DEF NoTask, OpenInv, MediaIdle
    <2> HIDE DEF v
    <2>3. ~Making(m)
      BY <2>2 DEF Making
    <2>4. QED
      BY <1>t, <1>1, <2>1, <2>2, <2>3, OpenTask
  <1>5. CASE MuteStep \/ \E d \in Sids, b \in BOOLEAN : SetTrackMuted(d, b)
    <2>1. \E v : tasks' = [tasks EXCEPT ![Mute] = v] /\ v.pc \in {"idle", "pending", "track"}
      <3>1. CASE MuteStep
        <4> DEFINE v == [tasks[Mute] EXCEPT !.pc = "track"]
        <4>1. v.pc = "track"
          BY <1>t DEF TaskRecord
        <4>2. tasks' = [tasks EXCEPT ![Mute] = v] \/ tasks' = [tasks EXCEPT ![Mute] = NoTask]
          BY <3>1 DEF MuteStep, SetTask
        <4> HIDE DEF v
        <4>3. QED
          BY <1>i, <4>1, <4>2
      <3>2. ASSUME NEW d \in Sids, NEW b \in BOOLEAN, SetTrackMuted(d, b)
            PROVE  \E v : tasks' = [tasks EXCEPT ![Mute] = v] /\ v.pc \in {"idle", "pending", "track"}
        <4> DEFINE v == [NoTask EXCEPT !.pc = "pending", !.sid = d, !.new = b]
        <4>1. v.pc = "pending"
          BY DEF NoTask
        <4>2. tasks' = [tasks EXCEPT ![Mute] = v]
          BY <3>2 DEF SetTrackMuted, SetTask
        <4> HIDE DEF v
        <4>3. QED
          BY <4>1, <4>2
      <3>3. QED
        BY <1>5, <3>1, <3>2
    <2>2. ~Making(Mute)
      <3>1. PcOK(Mute, tasks[Mute].pc)
        BY <1>t DEF TracksInv, TaskOK
      <3>2. QED
        BY <3>1 DEF PcOK, Making
    <2>3. PICK v : tasks' = [tasks EXCEPT ![Mute] = v] /\ v.pc \in {"idle", "pending", "track"}
      BY <2>1
    <2>4. QED
      BY <1>t, <1>1, <2>2, <2>3, OpenTask
  <1>6. QED
    BY <1>2, <1>3, <1>4, <1>5

(* SetPermission: a revoke is followed by RemoveTracks. *)
LEMMA SetPermissionOpen ==
    ASSUME TracksInv, OpenInv, SetPermission
    PROVE  OpenInv'
  <1>t. /\ tasks \in [TaskNames -> TaskRecord] /\ Admin \in TaskNames /\ Closer \in TaskNames /\ Admin # Closer
        /\ \A m \in Media : m \in TaskNames /\ m # Admin
    BY CallsAre, NamesDiffer DEF TracksInv, PublishTypes, TaskNames, Calls
  <1> DEFINE v == IF canPublish THEN [NoTask EXCEPT !.pc = "list"] ELSE NoTask
  <1>1. /\ UNCHANGED <<tracks, published, unlisted, arrived, parts>> /\ canPublish' = ~canPublish
        /\ tasks' = [tasks EXCEPT ![Admin] = v]
    BY DEF SetPermission, SetTask, trackVars, roomVars
  <1>2. v.list = {} /\ (canPublish => v.pc = "list") /\ v.pc \in {"list", "idle"}
    BY NewTask
  <1> HIDE DEF v
  <1>3. tasks'[Admin] = v /\ \A u \in TaskNames \ {Admin} : tasks'[u] = tasks[u]
    BY <1>t, <1>1
  <1>4. OpenIsListed'
    BY <1>t, <1>1, <1>3 DEF OpenInv, OpenIsListed, Listed, Open
  <1>5. CallsOK'
    BY <1>t, <1>1, <1>2, <1>3 DEF OpenInv, CallsOK, Stage
  <1>6. RevokeOK'
    BY <1>1, <1>2, <1>3 DEF RevokeOK, WillBeClosed
  <1>7. MediaIdle'
    BY <1>t, <1>1, <1>3 DEF OpenInv, MediaIdle
  <1>8. RemovingOK'
    BY <1>1, <1>2, <1>3 DEF OpenInv, RemovingOK, Open
  <1>9. QED
    BY <1>4, <1>5, <1>6, <1>7, <1>8 DEF OpenInv

LEMMA RemoveTracksOpen ==
    ASSUME TracksInv, OpenInv, RemoveTracks
    PROVE  OpenInv'
  <1> DEFINE task == tasks[Admin]
  <1>t. /\ tasks \in [TaskNames -> TaskRecord] /\ Admin \in TaskNames /\ Closer \in TaskNames /\ Admin # Closer
        /\ Admin \notin Closes /\ task \in TaskRecord /\ \A m \in Media : m \in TaskNames /\ m # Admin
    BY CallsAre, NamesDiffer DEF TracksInv, PublishTypes, TaskNames, Calls
  <1>1. UNCHANGED <<published, canPublish, parts, unlisted, arrived>>
    BY DEF RemoveTracks, tcountVars, roomVars
  <1>m. ~Making(Admin)
    <2>1. PcOK(Admin, tasks[Admin].pc)
      BY <1>t DEF TracksInv, TaskOK
    <2>2. QED
      BY <2>1, <1>t DEF PcOK, Making
  <1>2. ASSUME NEW v, tasks' = [tasks EXCEPT ![Admin] = v], UNCHANGED tracks,
               task.list \subseteq v.list, task.pc = "list" => Listed \subseteq v.list,
               v.pc = "remove" \/ (v.pc = "idle" /\ v.list = {})
        PROVE  OpenInv'
    <2>1. tasks'[Admin] = v /\ \A u \in TaskNames \ {Admin} : tasks'[u] = tasks[u]
      BY <1>t, <1>2
    <2>2. \A u \in TaskNames : Making(u) => Making(u)' /\ tasks'[u].track = tasks[u].track
      BY <1>m, <2>1 DEF Making
    <2>3. CallsOK'
      BY <1>t, <1>1, <1>2, <2>1 DEF OpenInv, CallsOK, Stage
    <2>4. MediaIdle'
      BY <1>t, <1>1, <2>1 DEF OpenInv, MediaIdle
    <2>5. RemovingOK'
      BY <1>2, <2>1 DEF OpenInv, RemovingOK, Open
    <2>6. Listed' = Listed /\ \A o \in Tracks : tracks'[o].state = "open" => Open(o)
      BY <1>1, <1>2 DEF Listed, Open
    <2>7. QED
      BY <1>t, <1>1, <1>2, <2>1, <2>2, <2>3, <2>4, <2>5, <2>6, OpenFrame
  <1>3. CASE task.pc = "list" /\ UNCHANGED tracks /\ SetTask(Admin, [task EXCEPT !.pc = "remove", !.list = Listed])
    <2> DEFINE v == [task EXCEPT !.pc = "remove", !.list = Listed]
    <2>1. tasks' = [tasks EXCEPT ![Admin] = v] /\ v.pc = "remove" /\ v.list = Listed
      BY <1>t, <1>3 DEF SetTask, TaskRecord
    <2> HIDE DEF v
    <2>2. task.list = {}
      BY <1>3 DEF OpenInv, CallsOK
    <2>3. QED
      BY <1>2, <1>3, <2>1, <2>2
  <1>4. ASSUME NEW o \in task.list, task.pc = "remove",
               CloseTrack(o, Admin, [task EXCEPT !.pc = "removing", !.track = o, !.list = task.list \ {o}])
        PROVE  OpenInv'
    <2> DEFINE v == [task EXCEPT !.pc = "removing", !.track = o, !.list = task.list \ {o}]
    <2>1. o \in Tracks
      BY <1>t DEF TaskRecord
    <2>2. v \in TaskRecord /\ v.pc = "removing" /\ v.track = o /\ v.list = task.list \ {o}
      BY <1>t, <2>1 DEF TaskRecord, MaybeTrack, Handling, Attached
    <2>3. CloseTrack(o, Admin, v)
      BY <1>4
    <2> HIDE DEF v
    <2>4. QED
      BY <1>t, <1>1, <1>m, <1>4, <2>1, <2>2, <2>3, OpenClose
  <1>5. CASE task.pc = "remove" /\ task.list = {} /\ SetTask(Admin, NoTask) /\ UNCHANGED tracks
    <2>1. tasks' = [tasks EXCEPT ![Admin] = NoTask] /\ NoTask.pc = "idle" /\ NoTask.list = {}
      BY <1>5, NewTask DEF SetTask
    <2>2. QED
      BY <1>2, <1>5, <2>1
  <1>6. QED
    BY <1>3, <1>4, <1>5 DEF RemoveTracks

LEMMA CloseStepOpen ==
    ASSUME TracksInv, OpenInv, CloseStep
    PROVE  OpenInv'
  <1> DEFINE task == tasks[Closer]
  <1>t. /\ Closer \in TaskNames /\ Closer # Admin /\ Closer \notin Closes /\ task \in TaskRecord
    BY CallsAre, NamesDiffer DEF TracksInv, PublishTypes, Calls
  <1>1. UNCHANGED <<canPublish, parts, unlisted, arrived>>
    BY DEF CloseStep, tcountVars, roomVars
  <1>m. ~Making(Closer)
    <2>1. PcOK(Closer, tasks[Closer].pc)
      BY <1>t DEF TracksInv, TaskOK
    <2>2. QED
      BY <2>1 DEF PcOK, Making
  <1>2. task.pc # "idle" /\ Stage' # "open"
    <2>1. task.pc # "idle"
      BY DEF CloseStep
    <2>2. QED
      BY <1>1, <2>1 DEF OpenInv, CallsOK, Stage
  <1>3. CASE /\ task.pc = "clear" /\ SetTask(Closer, [task EXCEPT !.pc = "uptracks"]) /\ UNCHANGED <<published, tracks>>
    <2> DEFINE v == [task EXCEPT !.pc = "uptracks"]
    <2>1. tasks' = [tasks EXCEPT ![Closer] = v] /\ v.pc = "uptracks" /\ v.list = task.list /\ task.list = {}
      BY <1>t, <1>3 DEF SetTask, TaskRecord, OpenInv, CallsOK
    <2> HIDE DEF v
    <2>2. QED
      BY <1>1, <1>2, <1>3, <2>1, OpenCloser
  <1>4. CASE task.pc = "uptracks" /\ SetTask(Closer, [task EXCEPT !.pc = "close", !.list = Listed]) /\ UNCHANGED tracks
    <2> DEFINE v == [task EXCEPT !.pc = "close", !.list = Listed]
    <2>1. tasks' = [tasks EXCEPT ![Closer] = v] /\ v.pc = "close" /\ v.list = Listed /\ task.list = {}
      BY <1>t, <1>4 DEF SetTask, TaskRecord, OpenInv, CallsOK
    <2> HIDE DEF v
    <2>2. QED
      BY <1>1, <1>2, <1>4, <2>1, OpenCloser
  <1>5. ASSUME NEW o \in task.list, task.pc = "close", UNCHANGED published,
               CloseTrack(o, Closer, [task EXCEPT !.track = o, !.list = task.list \ {o}])
        PROVE  OpenInv'
    <2> DEFINE v == [task EXCEPT !.track = o, !.list = task.list \ {o}]
    <2>1. o \in Tracks
      BY <1>t DEF TaskRecord
    <2>2. v \in TaskRecord /\ v.pc = "close" /\ v.list = task.list \ {o}
      BY <1>t, <1>5, <2>1 DEF TaskRecord, MaybeTrack
    <2>3. CloseTrack(o, Closer, v)
      BY <1>5
    <2> HIDE DEF v
    <2>4. QED
      BY <1>t, <1>1, <1>m, <1>5, <2>1, <2>2, <2>3, OpenClose
  <1>6. CASE /\ task.pc = "close" /\ task.list = {} /\ SetTask(Closer, [NoTask EXCEPT !.pc = "end"])
             /\ UNCHANGED <<published, tracks>>
    <2> DEFINE v == [NoTask EXCEPT !.pc = "end"]
    <2>1. tasks' = [tasks EXCEPT ![Closer] = v] /\ v.pc = "end" /\ v.list = {}
      BY <1>6, NewTask DEF SetTask
    <2> HIDE DEF v
    <2>2. QED
      BY <1>1, <1>2, <1>6, <2>1, OpenCloser
  <1>7. QED
    BY <1>3, <1>4, <1>5, <1>6 DEF CloseStep

(* The room or the supervisor may begin to close the participant. *)
LEMMA RoomOpen ==
    ASSUME RoomsInv, TracksInv, OpenInv, RoomsNext, Followed
    PROVE  OpenInv'
  <1>t. tasks \in [TaskNames -> TaskRecord] /\ Closer \in TaskNames /\ tasks[Closer] \in TaskRecord
    BY CallsAre DEF TracksInv, PublishTypes
  <1>1. UNCHANGED <<tracks, published, canPublish, unlisted, arrived>>
    BY DEF Followed, tcountVars
  <1>2. CASE UNCHANGED tasks
    BY <1>1, <1>2, StageStays, OpenSame
  <1>3. CASE Stage = "open" /\ Stage' = "closing" /\ tasks' = [tasks EXCEPT ![Closer].pc = "clear"]
    <2> DEFINE v == [tasks[Closer] EXCEPT !.pc = "clear"]
    <2>1. tasks' = [tasks EXCEPT ![Closer] = v] /\ v.pc = "clear" /\ v.list = tasks[Closer].list
      BY <1>t, <1>3 DEF TaskRecord
    <2> HIDE DEF v
    <2>2. tasks[Closer].list = {} /\ Stage' # "open"
      BY <1>3 DEF OpenInv, CallsOK
    <2>3. QED
      BY <1>1, <2>1, <2>2, OpenCloser
  <1>4. QED
    BY <1>2, <1>3 DEF Followed, Stage

LEMMA SupervisorOpen ==
    ASSUME RoomsInv, TracksInv, OpenInv,
           PublisherConnected \/ CheckPublications \/ \E d \in Sids : WaitPasses(d)
    PROVE  OpenInv'
  <1>1. UNCHANGED <<tracks, published, canPublish, unlisted, arrived>>
    BY DEF PublisherConnected, CheckPublications, WaitPasses, trackVars, tcountVars
  <1>2. CASE UNCHANGED <<parts, tasks>>
    BY <1>1, <1>2, OpenSame DEF Stage
  <1>3. CASE /\ Stage = "open" /\ parts' = Closing(parts, Publisher)
             /\ tasks' = [tasks EXCEPT ![Closer] = [NoTask EXCEPT !.pc = "clear"]]
    <2> DEFINE v == [NoTask EXCEPT !.pc = "clear"]
    <2>1. tasks' = [tasks EXCEPT ![Closer] = v] /\ v.pc = "clear" /\ v.list = {}
      BY <1>3, NewTask
    <2> HIDE DEF v
    <2>2. tasks[Closer].list = {}
      BY <1>3 DEF OpenInv, CallsOK
    <2>3. Stage' # "open"
      BY <1>3, ClosingPart DEF RoomsInv, RoomTypes, Stage
    <2>4. QED
      BY <1>1, <2>1, <2>2, <2>3, OpenCloser
  <1>4. QED
    BY <1>2, <1>3 DEF PublisherConnected, CheckPublications, WaitPasses, SetTask, roomVars

(* A new track is listed at once: the ID of its request belongs to its client *)
(* ID, of which nothing is listed. Who makes it looks at the permission next. *)
LEMMA AddedTrackOpen ==
    ASSUME TracksInv, SidsOK, OpenInv, UNCHANGED <<unlisted, canPublish, parts, arrived>>,
           NEW t \in TaskNames \ {Admin, Closer}, tasks[t].pc = "handle",
           NEW v, tasks' = [tasks EXCEPT ![t] = v], v.pc = "attach",
           NEW m \in Media, v.track = m, ~Created(m), pend[m[1]].infos # <<>>, PublishedBy(m[1]) = {},
           AddedMediaTrack(m[1], m)
    PROVE  OpenInv'
  <1> DEFINE c == m[1]
             d == pend[c].infos[1].sid
  <1>t. /\ tasks \in [TaskNames -> TaskRecord] /\ published \in [Sids -> MaybeTrack]
        /\ Admin \in TaskNames /\ Closer \in TaskNames
    BY CallsAre DEF TracksInv, PublishTypes
  <1>1. /\ m \in Tracks /\ c \in Cids /\ d \in Sids /\ 1 \in DOMAIN pend[c].infos
        /\ \A o \in Tracks \ {m} : tracks'[o] = tracks[o]
        /\ \A e \in Sids : published'[e] = IF e = d /\ published[e] = NoTrack THEN m ELSE published[e]
    BY AddedTrack
  <1>b. Belongs(d, c)
    BY <1>1 DEF Belongs
  <1>p. PublishedBy(c) = {}
    OBVIOUS
  <1> HIDE DEF c, d
  <1>2. published[d] = NoTrack
    <2> SUFFICES ASSUME published[d] # NoTrack PROVE FALSE
      OBVIOUS
    <2> DEFINE o == published[d]
    <2>1. o \in Tracks /\ Created(o) /\ tracks[o].sid = d /\ o \in Listed
      BY <1>t, <1>1 DEF TracksInv, ListedOK, MaybeTrack, Listed
    <2> HIDE DEF o
    <2>2. tracks[o].cid = o[1] /\ o[1] \in Cids
      BY <2>1, NoTrackIsNone DEF TracksInv, ObjectOK
    <2>3. Belongs(d, tracks[o].cid)
      BY <2>1, <2>2 DEF Belongs
    <2>4. tracks[o].cid = c
      BY <1>1, <1>b, <2>2, <2>3 DEF SidsOK
    <2>5. QED
      BY <1>p, <2>1, <2>4 DEF PublishedBy
  <1>3. m # NoTrack /\ published'[d] = m /\ \A e \in Sids : published[e] # NoTrack => published'[e] = published[e]
    BY <1>1, <1>2, NoTrackIsNone
  <1>4. m \in Listed' /\ \A o \in Listed : o \in Listed'
    BY <1>1, <1>3 DEF Listed
  <1>5. tasks'[t] = v /\ (\A u \in TaskNames \ {t} : tasks'[u] = tasks[u])
        /\ tasks'[Admin] = tasks[Admin] /\ tasks'[Closer] = tasks[Closer]
    BY <1>t
  <1>6. OpenIsListed'
    BY <1>1, <1>4, <1>5 DEF OpenInv, OpenIsListed, Open
  <1>7. CallsOK'
    BY <1>5 DEF OpenInv, CallsOK, Stage
  <1>8. RevokeOK'
    <2> SUFFICES ASSUME ~canPublish, NEW o \in Tracks \ unlisted, tracks'[o].state = "open"
                 PROVE  WillBeClosed(o)'
      BY DEF RevokeOK, Open
    <2>1. CASE o = m
      <3>1. tasks'[t].pc = "attach" /\ tasks'[t].track = o
        BY <1>5, <2>1
      <3>2. QED
        BY <3>1 DEF WillBeClosed, Making
    <2>2. CASE o # m
      <3>1. WillBeClosed(o)
        BY <1>1, <2>2 DEF OpenInv, RevokeOK, Open
      <3>2. ~Making(t) /\ \A u \in TaskNames : Making(u) => tasks'[u] = tasks[u]
        BY <1>5 DEF Making
      <3>3. QED
        BY <1>5, <3>1, <3>2 DEF WillBeClosed, Making
    <2>3. QED
      BY <2>1, <2>2
  <1>9. MediaIdle'
    <2>1. \A u \in Media \ arrived : u \in TaskNames /\ u # t
      BY DEF OpenInv, MediaIdle, TaskNames
    <2>2. QED
      BY <1>5, <2>1 DEF OpenInv, MediaIdle
  <1>10. RemovingOK'
    <2> SUFFICES ASSUME NEW u \in TaskNames, tasks'[u].pc = "removing"
                 PROVE  tracks'[tasks'[u].track].state # "open"
      BY DEF RemovingOK, Open
    <2>1. u # t /\ tasks'[u] = tasks[u]
      BY <1>5
    <2>2. tasks[u].track \in Tracks /\ Created(tasks[u].track) /\ ~Open(tasks[u].track)
      BY <2>1 DEF OpenInv, RemovingOK, TracksInv, TaskOK, Attached
    <2>3. QED
      BY <1>1, <2>1, <2>2 DEF Open
  <1>11. QED
    BY <1>6, <1>7, <1>8, <1>9, <1>10 DEF OpenInv

(* mediaTrackReceived, for all three parts of the invariant. *)
LEMMA MediaTrackReceivedListing ==
    ASSUME TracksInv, ListingInv, NEW t \in TaskNames, MediaTrackReceived(t)
    PROVE  ListingInv'
  <1>i. SidsOK /\ OpenInv /\ MonitorInv
    BY DEF ListingInv
  <1>1. /\ UNCHANGED <<adds, unlisted, canPublish, parts, arrived, Stage>> /\ tasks[t].pc = "handle"
        /\ t \notin {Admin, Closer}
    BY MediaCases DEF Stage
  <1>2. PICK v : /\ tasks' = [tasks EXCEPT ![t] = v]
                 /\ \/ v.pc \in {"handle", "attach"} /\ UNCHANGED <<pend, published, tracks, monitors>>
                    \/ \E m \in Media : /\ m \in tasks[t].todo /\ ~Created(m) /\ PublishedBy(m[1]) = {}
                                        /\ pend[m[1]].infos # <<>> /\ AddedMediaTrack(m[1], m)
                                        /\ v.pc = "attach" /\ v.track = m
    BY MediaCases
  <1>3. CASE v.pc \in {"handle", "attach"} /\ UNCHANGED <<pend, published, tracks, monitors>>
    <2>1. Kept
      BY <1>1, <1>3, KeptSteps DEF Kept
    <2>2. SidsOK' /\ MonitorInv'
      BY <1>i, <1>1, <1>3, <2>1, KeptSids, UnchangedMonitors
    <2>3. Listed' = Listed /\ ~Making(t) /\ t \notin Media \ arrived
      BY <1>i, <1>1, <1>3 DEF Listed, Making, OpenInv, MediaIdle
    <2>4. \A o \in Tracks : tracks'[o].state = "open" => Open(o)
      BY <1>3 DEF Open
    <2>5. OpenInv'
      BY <1>i, <1>1, <1>2, <1>3, <2>3, <2>4, OpenTask
    <2>6. QED
      BY <2>2, <2>5 DEF ListingInv
  <1>4. ASSUME NEW m \in Media, ~Created(m), PublishedBy(m[1]) = {}, pend[m[1]].infos # <<>>,
               AddedMediaTrack(m[1], m), v.pc = "attach", v.track = m
        PROVE  ListingInv'
    <2>1. SidsOK'
      BY <1>i, <1>1, <1>4, AddedTrackSids
    <2>2. MonitorInv'
      BY <1>i, <1>1, <1>4, AddedTrackMonitors
    <2>3. OpenInv'
      BY <1>i, <1>1, <1>2, <1>4, AddedTrackOpen
    <2>4. QED
      BY <2>1, <2>2, <2>3 DEF ListingInv
  <1>5. QED
    BY <1>2, <1>3, <1>4

LEMMA ListingInitInv == PublishInit => ListingInv
  <1> SUFFICES ASSUME PublishInit PROVE ListingInv
    OBVIOUS
  <1>1. PublishInv
    BY PublishInitInv
  <1>2. /\ \A c \in Cids : pend[c].infos = <<>>
        /\ \A o \in Tracks : ~Created(o) /\ ~Open(o)
        /\ \A t \in TaskNames : tasks[t] = NoTask
    BY DEF PublishInit, NotPending, NoObject, Created, Open, TaskNames
  <1>3. SidsOK
    <2>1. DOMAIN <<>> = {}
      OBVIOUS
    <2>2. \A d \in Sids, c \in Cids : ~Belongs(d, c)
      BY <1>2, <2>1 DEF Belongs
    <2>3. QED
      BY <2>2 DEF SidsOK
  <1>4. OpenInv
    <2>1. \A t \in TaskNames : tasks[t].pc = "idle" /\ tasks[t].list = {}
      BY <1>2, NewTask
    <2>2. Admin \in TaskNames /\ Closer \in TaskNames /\ Media \subseteq TaskNames
      BY CallsAre DEF TaskNames
    <2>3. QED
      BY <1>2, <2>1, <2>2 DEF OpenInv, OpenIsListed, CallsOK, RevokeOK, MediaIdle, RemovingOK
  <1>5. MonitorInv
    <2>1. \A d \in Sids : monitors[d] = NoMonitor
      BY DEF PublishInit
    <2>2. MonitorsOK
      BY <2>1, NoMonitorOK DEF PublishInit, MonitorsOK
    <2>3. RequestsExpected /\ LiveIsMonitored
      BY <1>2 DEF RequestsExpected, LiveIsMonitored
    <2>4. QED
      BY <2>2, <2>3 DEF MonitorInv
  <1>6. QED
    BY <1>3, <1>4, <1>5 DEF ListingInv

LEMMA ListingStepInv == PublishInv /\ ListingInv /\ [PublishNext]_allVars => ListingInv'
  <1> SUFFICES ASSUME PublishInv, ListingInv, [PublishNext]_allVars PROVE ListingInv'
    OBVIOUS
  <1>i. RoomsInv /\ TracksInv /\ SidsOK /\ OpenInv /\ MonitorInv
    BY DEF PublishInv, ListingInv
  <1>k. ASSUME Kept, Stage' = "open" => Stage = "open", UNCHANGED monitors
        PROVE  SidsOK' /\ MonitorInv'
    BY <1>i, <1>k, KeptSids, UnchangedMonitors
  <1>1. CASE UNCHANGED allVars
    <2>1. UNCHANGED <<tracks, pend, adds, unlisted, monitors, Stage, tasks, published, canPublish, arrived>>
      BY <1>1 DEF allVars, publishVars, trackVars, tcountVars, roomVars, Stage
    <2>2. Kept
      BY <2>1, KeptSteps DEF Kept
    <2>3. OpenInv'
      BY <1>i, <2>1, OpenSame
    <2>4. QED
      BY <1>k, <2>1, <2>2, <2>3 DEF ListingInv
  <1>2. CASE RoomsNext /\ Followed
    <2>1. UNCHANGED <<tracks, pend, adds, unlisted, monitors>>
      BY <1>2 DEF Followed, tcountVars
    <2>2. Kept
      BY <2>1, KeptSteps DEF Kept
    <2>3. OpenInv'
      BY <1>i, <1>2, RoomOpen
    <2>4. QED
      BY <1>i, <1>k, <1>2, <2>1, <2>2, <2>3, StageStays DEF ListingInv
  <1>3. ASSUME NEW t \in TaskNames, TaskStep(t) PROVE ListingInv'
    <2>1. CASE MediaTrackReceived(t)
      BY <1>i, <2>1, MediaTrackReceivedListing
    <2>2. CASE TakeRemote(t) \/ AddReceiver(t) \/ Permitted(t) \/ RemovedTrack(t) \/ Handled(t)
      <3>1. UNCHANGED <<monitors, Stage>>
        BY <2>2 DEF TakeRemote, AddReceiver, Permitted, RemovedTrack, Handled, roomVars, Stage
      <3>2. Kept /\ OpenInv'
        BY <1>i, <2>2, TaskStepKeeps, TaskStepOpen
      <3>3. QED
        BY <1>k, <3>1, <3>2 DEF ListingInv
    <2>3. QED
      BY <1>3, <2>1, <2>2 DEF TaskStep
  <1>4. ASSUME NEW o \in Tracks, TrackStep(o) \/ ReceiverEnds(o) PROVE ListingInv'
    <2>1. Kept /\ OpenInv'
      BY <1>i, <1>4, TrackStepKeeps, TrackStepOpen
    <2>2. SidsOK'
      BY <1>i, <2>1, KeptSids
    <2>3. MonitorInv'
      <3>1. CASE Promote(o)
        BY <1>i, <3>1, PromoteMonitors
      <3>2. CASE Unlist(o) \/ Unpublish(o) \/ Announce(o) \/ ReceiverEnds(o)
        <4>1. UNCHANGED <<monitors, Stage>>
          BY <3>2 DEF Unlist, Unpublish, Announce, ReceiverEnds, roomVars, Stage
        <4>2. QED
          BY <1>k, <2>1, <4>1
      <3>3. QED
        BY <1>4, <3>1, <3>2 DEF TrackStep
    <2>4. QED
      BY <2>1, <2>2, <2>3 DEF ListingInv
  <1>5. CASE RemoveTracks \/ MuteStep \/ CloseStep \/ HandleOffer \/ SetPermission
    <2>1. UNCHANGED <<monitors, Stage>>
      BY <1>5 DEF RemoveTracks, MuteStep, CloseStep, HandleOffer, SetPermission, roomVars, Stage
    <2>2. Kept
      BY <1>i, <1>5, CallKeeps, MuteKeeps
    <2>3. OpenInv'
      BY <1>i, <1>5, RemoveTracksOpen, BeginOpen, CloseStepOpen, SetPermissionOpen
    <2>4. QED
      BY <1>k, <2>1, <2>2, <2>3 DEF ListingInv
  <1>6. ASSUME NEW c \in Cids, AddTrack(c) PROVE ListingInv'
    BY <1>i, <1>6, AddTrackSids, AddTrackMonitors, BeginOpen DEF ListingInv
  <1>7. ASSUME NEW m \in Media, OnTrack(m) PROVE ListingInv'
    <2>1. UNCHANGED <<tracks, pend, adds, unlisted, monitors, Stage>>
      BY <1>7 DEF OnTrack, trackVars, roomVars, Stage
    <2>2. Kept
      BY <2>1, KeptSteps DEF Kept
    <2>3. OpenInv'
      BY <1>i, <1>7, BeginOpen
    <2>4. QED
      BY <1>k, <2>1, <2>2, <2>3 DEF ListingInv
  <1>8. ASSUME NEW d \in Sids, NEW b \in BOOLEAN, SetTrackMuted(d, b) PROVE ListingInv'
    <2>1. Kept /\ OpenInv' /\ MonitorInv'
      BY <1>i, <1>8, MuteKeeps, BeginOpen, SupervisorMonitors
    <2>2. QED
      BY <1>i, <2>1, KeptSids DEF ListingInv
  <1>9. CASE PublisherConnected \/ CheckPublications \/ \E d \in Sids : WaitPasses(d)
    <2>1. UNCHANGED <<tracks, pend, adds, unlisted>>
      BY <1>9 DEF PublisherConnected, CheckPublications, WaitPasses, trackVars, tcountVars
    <2>2. SidsOK'
      BY <1>i, <2>1, KeptSteps, KeptSids DEF Kept
    <2>3. QED
      BY <1>i, <1>9, <2>2, SupervisorOpen, SupervisorMonitors DEF ListingInv
  <1>10. QED
    <2>1. DOMAIN tasks = TaskNames /\ Signal \in TaskNames
      BY <1>i, CallsAre DEF TracksInv, PublishTypes
    <2>2. CASE PublishThreads
      BY <1>3, <1>4, <1>5, <2>1, <2>2 DEF PublishThreads
    <2>3. CASE PublishNext
      BY <1>2, <1>3, <1>4, <1>5, <1>6, <1>7, <1>8, <1>9, <2>1, <2>2, <2>3 DEF PublishNext
    <2>4. QED
      BY <1>1, <2>3

(* The list of published tracks and the monitors keep up with the tracks: an  *)
(* open track is listed or in the hands of Participant.Close, unless it was   *)
(* taken out of the list by another one; after a revoke somebody is about to  *)
(* close it; and a monitor waits for every request.                           *)
THEOREM ListingInvariant == PublishSpec => []ListingInv
  BY PublishInvariant, ListingInitInv, ListingStepInv, PTL DEF PublishSpec

(* Nobody publishes without the permission: whatever media, requests, ends    *)
(* and closes happen while SetPermission revokes it, its RemovePublishedTrack *)
(* or the second look of onMediaTrack ends every track that is not in         *)
(* unlisted.                                                                  *)
THEOREM RevokedTracksGo == PublishSpec => []RevokedIsRemoved
  <1>1. PublishInv /\ ListingInv => RevokedIsRemoved
    <2> SUFFICES ASSUME TracksInv, OpenInv, Quiet, ~canPublish, NEW o \in Tracks \ unlisted, Open(o)
                 PROVE  FALSE
      BY DEF PublishInv, ListingInv, RevokedIsRemoved
    <2>1. \A t \in TaskNames : tasks[t].pc \in {"idle", "end"}
      BY DEF Quiet, TracksInv, PublishTypes
    <2>2. tasks[Admin].pc \in {"idle", "end"} /\ tasks[Closer].pc \in {"idle", "end"}
      BY <2>1, CallsAre
    <2>3. tasks[Admin].list = {} /\ tasks[Closer].list = {}
      BY <2>2 DEF OpenInv, CallsOK
    <2>4. WillBeClosed(o)
      BY DEF OpenInv, RevokeOK
    <2>5. QED
      BY <2>1, <2>2, <2>3, <2>4 DEF WillBeClosed, Making
  <1>2. QED
    BY <1>1, PublishInvariant, ListingInvariant, PTL

(* A live track never loses its monitor: the releases of addPendingTrack, the *)
(* removal of idle monitors and the end of an earlier track with its ID all   *)
(* leave the monitor of a listed track alone.                                 *)
THEOREM LiveTracksAreMonitored == PublishSpec => []LiveIsMonitored
  <1>1. ListingInv => LiveIsMonitored
    BY DEF ListingInv, MonitorInv
  <1>2. QED
    BY <1>1, ListingInvariant, PTL
=============================================================================
