-------------------------- MODULE TrackPublication --------------------------
(***************************************************************************)
(* How one participant of a room publishes its tracks                      *)
(* (pkg/rtc/participant.go, uptrackmanager.go, roomtrackmanager.go): a     *)
(* request of the client is pending until media arrives for it, requests   *)
(* with the same client ID queue up behind each other, media that comes    *)
(* too early waits, the supervisor watches, and tracks end with their      *)
(* receiver, with the permission to publish or with the participant, whose *)
(* life is the one of RoomLifecycle.                                       *)
(*                                                                         *)
(* What happens under pendingTracksLock is one step. A client ID stands    *)
(* for one kind of track, so media is never matched by type.               *)
(***************************************************************************)
EXTENDS RoomLifecycle, PublicationMonitor

CONSTANTS
    Publisher,       \* the session that publishes
    Cids,            \* client IDs of its tracks
    MaxMedia,        \* bound: tracks that WebRTC announces per client ID
    MaxAdds,         \* bound: AddTrack requests
    MaxPending,      \* cMaxPendingTracks
    MaxQueued,       \* cMaxPendingQueuedTracks
    PublishScopes    \* what a behaviour ranges over, see PublishScope

Media  == Cids \X (1 .. MaxMedia)
Tracks == Media           \* MediaTrack objects, each named after the media it was made for
Sids   == 1 .. MaxAdds    \* track IDs

(* The scope of the room; bounds: AddTrack requests (and with them track      *)
(* IDs), mutes, changes of permission, receivers that end by themselves; the  *)
(* media that arrives; whether offers come, timeouts are seen, and are        *)
(* answered with a full reconnect.                                            *)
PublishScope == [room : RoomScopes, adds : 0 .. MaxAdds, media : SUBSET Media, mutes : Nat, toggles : Nat, ends : Nat,
                 offers : BOOLEAN, timeouts : BOOLEAN, reconnect : BOOLEAN]

ASSUME PublishAssumption ==
    /\ Publisher \in Sessions
    /\ IsFiniteSet(Cids) /\ MaxMedia \in Nat /\ MaxAdds \in Nat
    /\ MaxPending \in Nat \ {0} /\ MaxQueued \in Nat \ {0}
    /\ PublishScopes \in SUBSET PublishScope

VARIABLES
    tscope,       \* the scope of this behaviour, constant
    canPublish,   \* the grants
    pend,         \* pendingTracks: per client ID its requests, and whether they are queued
    remote,       \* pendingRemoteTracks
    released,     \* releasedTrackCids
    published,    \* publishedTracks of the UpTrackManager, per track ID
    tracks,       \* the MediaTrack objects
    registry,     \* RoomTrackManager.tracks of this participant
    announcing,   \* goroutines of handleTrackPublished
    tasks,        \* calls in progress, and the closing of every object
    monitors,     \* the supervisor, per track ID
    connected,    \* publisher peer connection is connected
    unheard,      \* objects whose announcement came after their end, or whose end after
                  \* the room stopped listening (history)
    unlisted,     \* objects that the end of another one with their ID took out of the list (history)
    arrived, adds, mutes, toggles, ends     \* counters for the bounds

trackVars   == <<pend, remote, released, published, tracks, registry, announcing, unheard, unlisted>>
tcountVars  == <<arrived, adds, mutes, toggles, ends>>
publishVars == <<tscope, canPublish, trackVars, tasks, monitors, connected, tcountVars>>

(* Tasks: calls in progress, goroutines of media, and Close of a track. *)
Signal  == <<"signal", 0>>
Admin   == <<"admin", 0>>
Mute    == <<"mute", 0>>
Closer  == <<"closer", 0>>
Calls   == {Signal, Admin, Mute, Closer}
CloseOf(o) == <<"track", o[1], o[2]>>
Closes  == {CloseOf(o) : o \in Tracks}
NotPending == [infos |-> <<>>, queued |-> FALSE]
NoObject   == [cid |-> "none", sid |-> 0, state |-> "none", receiver |-> FALSE, muted |-> FALSE, want |-> FALSE]
NoTask     == [pc |-> "idle", todo |-> {}, track |-> NoTrack, sid |-> 0, new |-> FALSE, wait |-> FALSE, list |-> {}]

PublishInit ==
    /\ RoomsInit
    /\ tscope \in PublishScopes /\ mscope = tscope.room
    /\ canPublish = TRUE
    /\ pend = [c \in Cids |-> NotPending]
    /\ remote = {} /\ released = {}
    /\ published = [d \in Sids |-> NoTrack]
    /\ tracks = [o \in Tracks |-> NoObject]
    /\ registry = {} /\ unheard = {} /\ unlisted = {}
    /\ announcing = [o \in Tracks |-> "none"]
    /\ tasks = [t \in Calls \union Media \union Closes |-> NoTask]
    /\ monitors = [d \in Sids |-> NoMonitor]
    /\ connected = FALSE
    /\ arrived = {} /\ adds = 0 /\ mutes = 0 /\ toggles = 0 /\ ends = 0

Serving      == starts[Publisher].pc \in {"release", "done"} /\ Joined(Publisher)
Stage        == parts[Publisher].stage
Listens      == parts[Publisher].listener
Listed       == {published[d] : d \in Sids} \ {NoTrack}
PublishedBy(c) == {o \in Listed : tracks[o].cid = c}
PendingCids(pd) == {c \in Cids : pd[c].infos # <<>>}
SetTask(t, task) == tasks' = [tasks EXCEPT ![t] = task]

-----------------------------------------------------------------------------
(* AddTrack.                                                                *)

TimedOutSids == {d \in Sids : TimedOut(monitors[d])}

PendingSids  == {ti.sid : ti \in UNION {ToSet(pend[c].infos) : c \in Cids}}

(* releasePendingTrackLocked, when the limit is reached. *)
Releases == IF Cardinality(PendingCids(pend)) >= MaxPending THEN TimedOutSids \intersect PendingSids ELSE {}

(* Requests of one client ID have one track ID (SidFor): they go together.    *)
AfterRelease ==
    [c \in Cids |-> IF \E i \in DOMAIN pend[c].infos : pend[c].infos[i].sid \in Releases THEN NotPending ELSE pend[c]]

ReleasedCids == {c \in Cids : AfterRelease[c].infos # pend[c].infos}

(* setTrackID: requests of one client ID share the track ID. *)
SidFor(c) == IF AfterRelease[c].infos # <<>> THEN Head(AfterRelease[c].infos).sid ELSE adds + 1

Behind(c)  == AfterRelease[c].infos # <<>> \/ PublishedBy(c) # {}

TooManyPending   == Cardinality(PendingCids(AfterRelease)) >= MaxPending
TooManyQueued(c) == Len(AfterRelease[c].infos) >= MaxQueued
Refused(c)       == TooManyPending \/ TooManyQueued(c)

(* addPendingTrack: behind a published or a pending track of the same client  *)
(* ID the request is queued.                                                  *)
AddPending(c) ==
    [AfterRelease EXCEPT ![c] =
        [infos |-> Append(@.infos, [sid |-> SidFor(c), muted |-> FALSE, want |-> FALSE]),
         queued |-> IF @.infos = <<>> THEN Behind(c) ELSE @.queued]]

AddTrack(c) ==
    /\ Serving /\ tasks[Signal] = NoTask
    /\ adds < tscope.adds /\ adds' = adds + 1
    /\ canPublish
    /\ LET left == [d \in Sids |-> IF d \in Releases THEN RemovePublication(monitors[d]) ELSE monitors[d]]
       IN IF Refused(c)
          THEN /\ pend' = AfterRelease /\ monitors' = left
               /\ released' = (released \union ReleasedCids) \ (IF TooManyPending THEN {} ELSE {c})
               /\ UNCHANGED tasks
          ELSE /\ pend' = AddPending(c)
               /\ monitors' = [left EXCEPT ![SidFor(c)] =
                                  SetPublicationMute(AddPublication(@, connected), FALSE, connected)]
               /\ released' = (released \union ReleasedCids) \ {c}
               /\ SetTask(Signal, [NoTask EXCEPT !.pc = IF Behind(c) THEN "idle" ELSE "take"])
    /\ UNCHANGED <<roomVars, tscope, canPublish, remote, published, tracks, registry, announcing, unheard,
                   unlisted, connected, arrived, mutes, toggles, ends>>

-----------------------------------------------------------------------------
(* Media. onMediaTrack runs in a goroutine of WebRTC, or for all media that *)
(* waits in whoever calls handlePendingRemoteTracks.                        *)

OnTrack(m) ==
    /\ Serving /\ m \in tscope.media \ arrived
    /\ arrived' = arrived \union {m}
    /\ SetTask(m, [NoTask EXCEPT !.pc = "handle", !.todo = {m}])
    /\ UNCHANGED <<roomVars, tscope, canPublish, trackVars, monitors, connected, adds, mutes, toggles, ends>>

(* The end of HandleOffer. *)
HandleOffer ==
    /\ Serving /\ tscope.offers /\ tasks[Signal] = NoTask /\ remote # {}
    /\ SetTask(Signal, [NoTask EXCEPT !.pc = "take"])
    /\ UNCHANGED <<roomVars, tscope, canPublish, trackVars, monitors, connected, tcountVars>>

TakeRemote(t) ==
    /\ tasks[t].pc = "take"
    /\ SetTask(t, [tasks[t] EXCEPT !.pc = "handle", !.todo = remote])
    /\ remote' = {}
    /\ UNCHANGED <<roomVars, tscope, canPublish, pend, released, published, tracks, registry, announcing, unheard,
                   unlisted, monitors, connected, tcountVars>>

(* addMediaTrack: the rest of the requests stays queued. *)
AddedMediaTrack(c, o) ==
    LET ti == Head(pend[c].infos)
    IN /\ tracks' = [tracks EXCEPT ![o] = [cid |-> c, sid |-> ti.sid, state |-> "open", receiver |-> FALSE,
                                           muted |-> ti.muted, want |-> ti.want]]
       /\ published' = [published EXCEPT ![ti.sid] = IF @ = NoTrack THEN o ELSE @]
       /\ monitors' = [monitors EXCEPT ![ti.sid] = SetPublishedTrack(@, o, connected)]
       /\ pend' = [pend EXCEPT ![c] = IF Len(@.infos) = 1 THEN NotPending
                                      ELSE [infos |-> Tail(@.infos), queued |-> TRUE]]

(* mediaTrackReceived: media of a published track; of a track that was        *)
(* released; without a request whose turn it is; of a new track.              *)
MediaTrackReceived(t) ==
    /\ tasks[t].pc = "handle"
    /\ \E m \in tasks[t].todo :
        LET c    == m[1]
            rest == [tasks[t] EXCEPT !.todo = @ \ {m}]
        IN \/ /\ \/ Stage \in {"disconnected", "closed"}
                 \/ PublishedBy(c) = {} /\ c \in released
              /\ SetTask(t, rest) /\ UNCHANGED <<pend, remote, published, tracks, monitors>>
           \/ /\ Stage \in {"open", "closing"} /\ PublishedBy(c) # {}
              /\ \E o \in PublishedBy(c) : SetTask(t, [rest EXCEPT !.pc = "attach", !.track = o, !.new = FALSE])
              /\ UNCHANGED <<pend, remote, published, tracks, monitors>>
           \/ /\ Stage \in {"open", "closing"} /\ PublishedBy(c) = {} /\ c \notin released
              /\ pend[c].infos = <<>> \/ pend[c].queued
              /\ remote' = remote \union {m}
              /\ SetTask(t, rest) /\ UNCHANGED <<pend, published, tracks, monitors>>
           \/ /\ Stage \in {"open", "closing"} /\ PublishedBy(c) = {} /\ c \notin released
              /\ pend[c].infos # <<>> /\ ~pend[c].queued
              /\ AddedMediaTrack(c, m)
              /\ SetTask(t, [rest EXCEPT !.pc = "attach", !.track = m, !.new = TRUE])
              /\ UNCHANGED remote
    /\ UNCHANGED <<roomVars, tscope, canPublish, released, registry, announcing, unheard, unlisted,
                   connected, tcountVars>>

(* AddReceiver, which a track that is not open refuses; a new track is        *)
(* announced in a goroutine.                                                  *)
AddReceiver(t) ==
    /\ tasks[t].pc = "attach"
    /\ LET o == tasks[t].track
       IN /\ tracks' = [tracks EXCEPT ![o].receiver = @ \/ tracks[o].state = "open"]
          /\ announcing' = IF tasks[t].new THEN [announcing EXCEPT ![o] = "load"] ELSE announcing
    /\ SetTask(t, [tasks[t] EXCEPT !.pc = "permit"])
    /\ UNCHANGED <<roomVars, tscope, canPublish, pend, remote, released, published, registry, unheard,
                   unlisted, monitors, connected, tcountVars>>

-----------------------------------------------------------------------------
(* The end of a track. Who closes it runs the callbacks, and goes on when   *)
(* they have returned; for everybody else Close returns at once.            *)

CloseTrack(o, t, task) ==
    IF tracks[o].state = "open"
    THEN /\ tracks' = [tracks EXCEPT ![o].state = "closed"]
         /\ tasks' = [tasks EXCEPT ![CloseOf(o)].pc = "close", ![t] = [task EXCEPT !.wait = TRUE]]
    ELSE /\ SetTask(t, [task EXCEPT !.wait = FALSE])
         /\ UNCHANGED tracks

Returned(t) == tasks[t].wait => tasks[CloseOf(tasks[t].track)].pc = "end"

(* Mutant: the permission is only looked at in AddTrack. *)
PermittedAlways(t) ==
    /\ tasks[t].pc = "permit"
    /\ SetTask(t, [tasks[t] EXCEPT !.pc = "handle"]) /\ UNCHANGED tracks
    /\ UNCHANGED <<roomVars, tscope, canPublish, pend, remote, released, published, registry, announcing, unheard,
                   unlisted, monitors, connected, tcountVars>>

(* onMediaTrack looks at the permission again, now that the track is there. *)
Permitted(t) ==
    /\ tasks[t].pc = "permit"
    /\ IF canPublish
       THEN SetTask(t, [tasks[t] EXCEPT !.pc = "handle"]) /\ UNCHANGED tracks
       ELSE CloseTrack(tasks[t].track, t, [tasks[t] EXCEPT !.pc = "removing"])
    /\ UNCHANGED <<roomVars, tscope, canPublish, pend, remote, released, published, registry, announcing, unheard,
                   unlisted, monitors, connected, tcountVars>>

(* The UpTrackManager deletes by track ID, whichever object is listed. *)
Delist(o) ==
    /\ published' = [published EXCEPT ![tracks[o].sid] = NoTrack]
    /\ unlisted' = unlisted \union ({published[tracks[o].sid]} \ {o, NoTrack})

(* RemovePublishedTrack, after Close. *)
RemovedTrack(t) ==
    /\ tasks[t].pc = "removing" /\ Returned(t)
    /\ Delist(tasks[t].track)
    /\ SetTask(t, [tasks[t] EXCEPT !.pc = IF t = Admin THEN "remove" ELSE "handle"])
    /\ UNCHANGED <<roomVars, tscope, canPublish, pend, remote, released, tracks, registry, announcing, unheard,
                   monitors, connected, tcountVars>>

(* Nothing is left to handle. *)
Handled(t) ==
    /\ tasks[t].pc = "handle" /\ tasks[t].todo = {}
    /\ SetTask(t, IF t \in Closes THEN [tasks[t] EXCEPT !.pc = "unpublish"] ELSE NoTask)
    /\ UNCHANGED <<roomVars, tscope, canPublish, trackVars, monitors, connected, tcountVars>>

(* The receiver ends: the media does, or the transport is closed.             *)
ReceiverEnds(o) ==
    /\ tracks[o].state = "open" /\ tracks[o].receiver
    /\ \/ ends < tscope.ends /\ ends' = ends + 1
       \/ Stage = "closed" /\ UNCHANGED ends
    /\ tracks' = [tracks EXCEPT ![o].state = "closed"]
    /\ SetTask(CloseOf(o), [NoTask EXCEPT !.pc = "close"])
    /\ UNCHANGED <<roomVars, tscope, canPublish, pend, remote, released, published, registry, announcing, unheard,
                   unlisted, monitors, connected, arrived, adds, mutes, toggles>>

(* The callbacks of Close: the UpTrackManager forgets the track ... *)
Unlist(o) ==
    /\ tasks[CloseOf(o)].pc = "close"
    /\ Delist(o)
    /\ SetTask(CloseOf(o), [tasks[CloseOf(o)] EXCEPT !.pc = "promote"])
    /\ UNCHANGED <<roomVars, tscope, canPublish, pend, remote, released, tracks, registry, announcing, unheard,
                   monitors, connected, tcountVars>>

(* Mutant: nobody looks at the media that waits. *)
PromoteLate(o) ==
    /\ tasks[CloseOf(o)].pc = "promote"
    /\ monitors' = [monitors EXCEPT ![tracks[o].sid] = ClearPublishedTrack(@, o, connected)]
    /\ pend' = [pend EXCEPT ![tracks[o].cid].queued = FALSE]
    /\ SetTask(CloseOf(o), [tasks[CloseOf(o)] EXCEPT !.pc = "handle"])
    /\ UNCHANGED <<roomVars, tscope, canPublish, remote, released, published, tracks, registry, announcing, unheard,
                   unlisted, connected, tcountVars>>

(* ... the supervisor too, and it is the turn of the next request. *)
Promote(o) ==
    /\ tasks[CloseOf(o)].pc = "promote"
    /\ monitors' = [monitors EXCEPT ![tracks[o].sid] = ClearPublishedTrack(@, o, connected)]
    /\ pend' = [pend EXCEPT ![tracks[o].cid].queued = FALSE]
    /\ SetTask(CloseOf(o), [tasks[CloseOf(o)] EXCEPT !.pc = "take"])
    /\ UNCHANGED <<roomVars, tscope, canPublish, remote, released, published, tracks, registry, announcing, unheard,
                   unlisted, connected, tcountVars>>

(* Mutant: the room is told only while the participant is open. *)
UnpublishOpen(o) ==
    /\ tasks[CloseOf(o)].pc = "unpublish"
    /\ registry' = IF Listens /\ Stage = "open" THEN registry \ {o} ELSE registry
    /\ unheard' = IF Listens THEN unheard ELSE unheard \union {o}
    /\ SetTask(CloseOf(o), [tasks[CloseOf(o)] EXCEPT !.pc = "end"])
    /\ UNCHANGED <<roomVars, tscope, canPublish, pend, remote, released, published, tracks, announcing, unlisted,
                   monitors, connected, tcountVars>>

(* OnTrackUnpublished: the room forgets the track, if it still listens. *)
Unpublish(o) ==
    /\ tasks[CloseOf(o)].pc = "unpublish"
    /\ registry' = IF Listens THEN registry \ {o} ELSE registry
    /\ unheard' = IF Listens THEN unheard ELSE unheard \union {o}
    /\ SetTask(CloseOf(o), [tasks[CloseOf(o)] EXCEPT !.pc = "end"])
    /\ UNCHANGED <<roomVars, tscope, canPublish, pend, remote, released, published, tracks, announcing, unlisted,
                   monitors, connected, tcountVars>>

(* handleTrackPublished: OnTrackPublished of whoever listens. *)
Announce(o) ==
    /\ \/ /\ announcing[o] = "load"
          /\ announcing' = [announcing EXCEPT ![o] = IF Listens THEN "add" ELSE "none"]
          /\ UNCHANGED <<registry, unheard>>
       \/ /\ announcing[o] = "add"
          /\ announcing' = [announcing EXCEPT ![o] = "none"]
          /\ registry' = registry \union {o}
          /\ unheard' = IF tracks[o].state = "open" /\ Listens THEN unheard ELSE unheard \union {o}
    /\ UNCHANGED <<roomVars, tscope, canPublish, pend, remote, released, published, tracks, tasks, unlisted,
                   monitors, connected, tcountVars>>

-----------------------------------------------------------------------------
(* SetPermission.                                                           *)

SetPermission ==
    /\ Serving /\ tasks[Admin] = NoTask
    /\ toggles < tscope.toggles /\ toggles' = toggles + 1
    /\ canPublish' = ~canPublish
    /\ SetTask(Admin, IF canPublish THEN [NoTask EXCEPT !.pc = "list"] ELSE NoTask)
    /\ UNCHANGED <<roomVars, tscope, trackVars, monitors, connected, arrived, adds, mutes, ends>>

RemoveTracks ==
    LET task == tasks[Admin]
    IN /\ \/ /\ task.pc = "list"
             /\ SetTask(Admin, [task EXCEPT !.pc = "remove", !.list = Listed])
             /\ UNCHANGED tracks
          \/ /\ task.pc = "remove" /\ task.list # {}
             /\ \E o \in task.list :
                   CloseTrack(o, Admin, [task EXCEPT !.pc = "removing", !.track = o, !.list = @ \ {o}])
          \/ /\ task.pc = "remove" /\ task.list = {}
             /\ SetTask(Admin, NoTask) /\ UNCHANGED tracks
       /\ UNCHANGED <<roomVars, tscope, canPublish, pend, remote, released, published, registry, announcing, unheard,
                      unlisted, monitors, connected, tcountVars>>

-----------------------------------------------------------------------------
(* SetTrackMuted of an administrator: requests first, then the track.       *)

Wanted(x, b) == [x EXCEPT !.want = b]
Muted(x, b)  == [x EXCEPT !.muted = b, !.want = b]

PendingWanted(d, b) == [c \in Cids |-> [pend[c] EXCEPT !.infos =
                          [i \in DOMAIN @ |-> IF @[i].sid = d THEN Wanted(@[i], b) ELSE @[i]]]]
PendingMuted(d, b)  == [c \in Cids |-> [pend[c] EXCEPT !.infos =
                          [i \in DOMAIN @ |-> IF @[i].sid = d THEN Muted(@[i], b) ELSE @[i]]]]

SetTrackMuted(d, b) ==
    /\ Serving /\ tasks[Mute] = NoTask
    /\ mutes < tscope.mutes /\ mutes' = mutes + 1
    /\ monitors[d].exists
    /\ monitors' = [monitors EXCEPT ![d] = SetPublicationMute(@, b, connected)]
    /\ pend' = PendingWanted(d, b)
    /\ tracks' = [o \in Tracks |-> IF tracks[o].sid = d THEN Wanted(tracks[o], b) ELSE tracks[o]]
    /\ SetTask(Mute, [NoTask EXCEPT !.pc = "pending", !.sid = d, !.new = b])
    /\ UNCHANGED <<roomVars, tscope, canPublish, remote, released, published, registry, announcing, unheard,
                   unlisted, connected, arrived, adds, toggles, ends>>

(* Mutant: the track first. *)
MuteStepTrackFirst ==
    LET task == tasks[Mute]
        d    == task.sid
    IN /\ \/ /\ task.pc = "pending"
             /\ tracks' = IF published[d] = NoTrack THEN tracks
                          ELSE [tracks EXCEPT ![published[d]] = Muted(@, task.new)]
             /\ SetTask(Mute, [task EXCEPT !.pc = "track"])
             /\ UNCHANGED pend
          \/ /\ task.pc = "track"
             /\ pend' = PendingMuted(d, task.new)
             /\ SetTask(Mute, NoTask)
             /\ UNCHANGED tracks
       /\ UNCHANGED <<roomVars, tscope, canPublish, remote, released, published, registry, announcing, unheard,
                      unlisted, monitors, connected, tcountVars>>

MuteStep ==
    LET task == tasks[Mute]
        d    == task.sid
    IN /\ \/ /\ task.pc = "pending"
             /\ pend' = PendingMuted(d, task.new)
             /\ SetTask(Mute, [task EXCEPT !.pc = "track"])
             /\ UNCHANGED tracks
          \/ /\ task.pc = "track"
             /\ tracks' = IF published[d] = NoTrack THEN tracks
                          ELSE [tracks EXCEPT ![published[d]] = Muted(@, task.new)]
             /\ SetTask(Mute, NoTask)
             /\ UNCHANGED pend
       /\ UNCHANGED <<roomVars, tscope, canPublish, remote, released, published, registry, announcing, unheard,
                      unlisted, monitors, connected, tcountVars>>

-----------------------------------------------------------------------------
(* The supervisor.                                                          *)

PublisherConnected ==
    /\ Serving /\ tscope.timeouts /\ ~connected
    /\ connected' = TRUE
    /\ monitors' = [d \in Sids |-> IF monitors[d].exists THEN MaybeStartMonitor(monitors[d], TRUE) ELSE monitors[d]]
    /\ UNCHANGED <<roomVars, tscope, canPublish, trackVars, tasks, tcountVars>>

WaitPasses(d) ==
    /\ monitors[d].timer = "armed" /\ monitors[d].desired # <<>> /\ Head(monitors[d].desired) = "start"
    /\ monitors' = [monitors EXCEPT ![d].timer = "due"]
    /\ UNCHANGED <<roomVars, tscope, canPublish, trackVars, tasks, connected, tcountVars>>

(* checkState, until the participant is closed; the first error of a          *)
(* publication may be answered with a full reconnect, which closes it.        *)
CheckPublications ==
    /\ tscope.timeouts /\ Stage = "open"
    /\ monitors' = [d \in Sids |-> Checked(monitors[d])]
    /\ IF tscope.reconnect /\ \E d \in Sids : Check(monitors[d]) /\ ~monitors[d].err
       THEN parts' = Closing(parts, Publisher) /\ SetTask(Closer, [NoTask EXCEPT !.pc = "clear"])
       ELSE UNCHANGED <<parts, tasks>>
    /\ UNCHANGED <<mscope, current, rooms, starts, threadVars, stored, sweeps, deletes,
                   tscope, canPublish, trackVars, connected, tcountVars>>

-----------------------------------------------------------------------------
(* Participant.Close: the requests are dropped, then the UpTrackManager     *)
(* closes its tracks, one after the other.                                  *)

CloseStep ==
    LET task == tasks[Closer]
    IN /\ \/ /\ task.pc = "clear"
             /\ pend' = [c \in Cids |-> NotPending]
             /\ SetTask(Closer, [task EXCEPT !.pc = "uptracks"])
             /\ UNCHANGED <<published, tracks>>
          \/ /\ task.pc = "uptracks"
             /\ published' = [d \in Sids |-> NoTrack]
             /\ SetTask(Closer, [task EXCEPT !.pc = "close", !.list = Listed])
             /\ UNCHANGED <<pend, tracks>>
          \/ /\ task.pc = "close" /\ Returned(Closer) /\ task.list # {}
             /\ \E o \in task.list : CloseTrack(o, Closer, [task EXCEPT !.track = o, !.list = @ \ {o}])
             /\ UNCHANGED <<pend, published>>
          \/ /\ task.pc = "close" /\ Returned(Closer) /\ task.list = {}
             /\ SetTask(Closer, [NoTask EXCEPT !.pc = "end"])
             /\ UNCHANGED <<pend, published, tracks>>
       /\ UNCHANGED <<roomVars, tscope, canPublish, remote, released, registry, announcing, unheard,
                      unlisted, monitors, connected, tcountVars>>

(* A step of the room: it may begin to close the publisher, and then waits    *)
(* for the tracks before the participant is disconnected; RemoveParticipant   *)
(* takes the published tracks out of the room before it stops listening.      *)
Followed ==
    /\ parts'[Publisher].stage = "disconnected" /\ Stage = "closing" => tasks[Closer].pc = "end"
    /\ tasks' = IF Stage = "open" /\ parts'[Publisher].stage = "closing"
                THEN [tasks EXCEPT ![Closer].pc = "clear"] ELSE tasks
    /\ registry' = IF Listens /\ ~parts'[Publisher].listener THEN registry \ Listed ELSE registry
    /\ UNCHANGED <<tscope, canPublish, pend, remote, released, published, tracks, announcing, unheard,
                   unlisted, monitors, connected, tcountVars>>

-----------------------------------------------------------------------------
TaskStep(t)  == \/ TakeRemote(t) \/ MediaTrackReceived(t) \/ AddReceiver(t) \/ Permitted(t)
                \/ RemovedTrack(t) \/ Handled(t)
TrackStep(o) == Unlist(o) \/ Promote(o) \/ Unpublish(o) \/ Announce(o)

PublishThreads ==
    \/ \E t \in DOMAIN tasks \ {Signal} : TaskStep(t)
    \/ \E o \in Tracks : TrackStep(o)
    \/ RemoveTracks \/ MuteStep \/ CloseStep

PublishNext ==
    \/ RoomsNext /\ Followed
    \/ PublishThreads \/ TaskStep(Signal)
    \/ \E c \in Cids : AddTrack(c)
    \/ \E m \in Media : OnTrack(m)
    \/ HandleOffer
    \/ \E o \in Tracks : ReceiverEnds(o)
    \/ SetPermission
    \/ \E d \in Sids, b \in BOOLEAN : SetTrackMuted(d, b)
    \/ PublisherConnected \/ CheckPublications
    \/ \E d \in Sids : WaitPasses(d)

allVars == <<roomVars, publishVars>>

(* The threads of the room, those of the tracks, and the one that handles     *)
(* signalling: offers may keep it busy forever.                               *)
PublishFairness ==
    /\ WF_allVars(RoomThreads /\ Followed)
    /\ WF_allVars(PublishThreads)
    /\ WF_allVars(TaskStep(Signal))

PublishSpec == PublishInit /\ [][PublishNext]_allVars /\ PublishFairness

-----------------------------------------------------------------------------
(* Properties.                                                              *)

Open(o) == tracks[o].state = "open"

(* Nothing is under way: no call, no callback and no announcement. *)
Quiet == /\ \A t \in DOMAIN tasks : tasks[t].pc \in {"idle", "end"}
         /\ \A o \in Tracks : announcing[o] = "none"

(* Types of rooms and of requests; the limits on requests hold.               *)
PublishTypeOK ==
    /\ RoomsTypeOK
    /\ Cardinality(PendingCids(pend)) <= MaxPending
    /\ \A c \in Cids : Len(pend[c].infos) <= MaxQueued /\ (pend[c].queued => pend[c].infos # <<>>)
    /\ \A d \in Sids : published[d] # NoTrack => tracks[published[d]].sid = d
    /\ remote \union arrived \subseteq Media /\ registry \subseteq Tracks

(* Whatever the order of requests, media and the ends of earlier tracks:      *)
(* media that was put aside is taken up when its request comes, or its turn,  *)
(* and is not left beside it; and a request is queued only behind a track of  *)
(* its client ID that has yet to end.                                         *)
NothingForgotten ==
    Quiet /\ Stage = "open" =>
        /\ \A m \in remote : pend[m[1]].infos = <<>> \/ pend[m[1]].queued
        /\ \A c \in Cids : pend[c].queued => \E o \in Tracks : Open(o) /\ tracks[o].cid = c

(* "so a publish that moves the track in between is still found": a mute      *)
(* reaches the track, whether it is pending or published or becomes published *)
(* meanwhile.                                                                 *)
MuteIsApplied ==
    tasks[Mute] = NoTask =>
        /\ \A c \in Cids : \A i \in DOMAIN pend[c].infos : pend[c].infos[i].muted = pend[c].infos[i].want
        /\ \A o \in Listed : tracks[o].muted = tracks[o].want

(* Nobody publishes without the permission: tracks that became published      *)
(* while it was revoked are removed as well. One case of the code is left     *)
(* out: requests that were queued share a track ID, so the end of one track   *)
(* can take the next one out of the list, and then the revoke misses it.      *)
RevokedIsRemoved ==
    Quiet /\ ~canPublish => \A o \in Tracks \ unlisted : ~Open(o)

(* "so a live track never loses its monitor": neither releases nor the        *)
(* removal of idle monitors take the monitor of a track that is published,    *)
(* unless that track was taken out of the list by another one.                *)
LiveIsMonitored ==
    \A o \in Tracks \ unlisted : Open(o) /\ Stage = "open" =>
        monitors[tracks[o].sid].exists /\ monitors[tracks[o].sid].track = o

(* The room has no track that has ended, apart from those that were announced *)
(* after their end or that ended after the room had stopped listening.        *)
ClosedIsForgotten ==
    Quiet => \A o \in registry \ unheard : Open(o)

=============================================================================
