-------------------------- MODULE PublishedTracks --------------------------
(***************************************************************************)
(* The publishing side of a room as one subscriber sees it:                *)
(*   - RoomTrackManager (pkg/rtc/roomtrackmanager.go): which MediaTrack    *)
(*     objects are registered under a track ID, and the change notifiers;  *)
(*   - MediaTrackReceiver (pkg/rtc/mediatrackreceiver.go): whether such an *)
(*     object is open, closing or closed;                                  *)
(*   - MediaTrackSubscriptions / SubscribedTrack / DownTrack: the          *)
(*     subscribed tracks that were created for this one subscriber;        *)
(*   - UpTrackManager: the publisher's permission for this subscriber.     *)
(* SubscriptionManager.tla extends this module with the subscriber's side. *)
(***************************************************************************)
EXTENDS Integers, FiniteSets

CONSTANTS
    Tracks,      \* track IDs
    MaxGen,      \* bound: MediaTrack objects ever published under one track ID
    MaxClose,    \* bound: MediaTrack objects that are closed
    MaxSubs      \* bound: SubscribedTrack objects ever created for the subscriber

ASSUME BoundsAssumption == /\ Tracks # {}
                           /\ IsFiniteSet(Tracks)
                           /\ MaxGen \in Nat \ {0}
                           /\ MaxClose \in Nat
                           /\ MaxSubs \in Nat \ {0}

Gens   == 1 .. MaxGen
SubIDs == 1 .. MaxSubs

VARIABLES
    infos,       \* RoomTrackManager.tracks: per track ID, its objects (numbered by arrival)
    mstate,      \* state of every MediaTrack object
    resuming,    \* MediaTrackReceiver.isExpectedToResume of every MediaTrack object
    permitted,   \* UpTrackManager: does the publisher allow this subscriber on the track
    revoking,    \* track IDs whose permission update is stored but not yet enforced
    epoch,       \* identity of the notifier objects RoomTrackManager holds for a track ID
    observers,   \* <<kind, track, epoch>>: our observer is registered on that notifier
    notes,       \* <<kind, track>>: NotifyChanged goroutines and how far they are
    dts,         \* the SubscribedTrack/DownTrack objects created for the subscriber
    nst,         \* how many were created
    senders,     \* <<track, id>>: RTP senders in the subscriber's peer connection
    cached       \* transceiver kept by CacheDownTrack for a track ID (0: none)

pubVars == <<infos, mstate, resuming, permitted, revoking, epoch>>
obsVars == <<observers, notes>>
dtVars  == <<dts, nst, senders, cached>>

(* The two notifiers of a track; "gone" is a removal whose track did not resolve again. *)
NoteKinds == {"changed", "removed", "gone"}

(* A SubscribedTrack with its DownTrack. "live" and "closing" ones are in   *)
(* MediaTrackSubscriptions.subscribedTracks; from "gone" on they are not.   *)
(* "entry": the entry its callbacks hold is still in the subscriptions map. *)
DTStates == {"none", "live", "closing", "gone", "notifiers", "dec", "unmark",
             "finish", "closed"}
NoDT == [t |-> CHOOSE t \in Tracks : TRUE, g |-> 1, state |-> "none",
         cb |-> "default", resume |-> FALSE, bind |-> "no", relieve |-> FALSE,
         entry |-> FALSE]

DTType == [t : Tracks, g : Gens, state : DTStates, cb : {"default", "manager"},
           resume : BOOLEAN, bind : {"no", "ok", "failed"}, relieve : BOOLEAN,
           entry : BOOLEAN]

(* What is left of a SubscribedTrack when its last callback has returned. *)
ClosedDT(i) == [NoDT EXCEPT !.t = dts[i].t, !.g = dts[i].g, !.state = "closed",
                               !.entry = dts[i].entry]

(* The type invariant of the publishing side. *)
PubTypeOK ==
    /\ infos \in [Tracks -> SUBSET Gens]
    /\ mstate \in [Tracks -> [Gens -> {"new", "open", "closing", "cleared", "closed"}]]
    /\ resuming \in [Tracks -> [Gens -> BOOLEAN]]
    /\ permitted \in [Tracks -> BOOLEAN]
    /\ revoking \in SUBSET Tracks
    /\ epoch \in [Tracks -> Nat]
    /\ observers \in SUBSET (NoteKinds \X Tracks \X Nat)
    /\ notes \in SUBSET (NoteKinds \X Tracks)
    /\ dts \in [SubIDs -> DTType]
    /\ nst \in 0 .. MaxSubs
    /\ senders \in SUBSET (Tracks \X SubIDs)
    /\ cached \in [Tracks -> 0 .. MaxSubs]

PubInit ==
    /\ infos = [t \in Tracks |-> {}]
    /\ mstate = [t \in Tracks |-> [g \in Gens |-> "new"]]
    /\ resuming = [t \in Tracks |-> [g \in Gens |-> FALSE]]
    /\ permitted \in [Tracks -> BOOLEAN]
    /\ revoking = {}
    /\ epoch = [t \in Tracks |-> 1]
    /\ observers = {}
    /\ notes = {}
    /\ dts = [i \in SubIDs |-> NoDT]
    /\ nst = 0
    /\ senders = {}
    /\ cached = [t \in Tracks |-> 0]

-----------------------------------------------------------------------------
(* Operators. *)

(* GetTrackInfo: only the earliest added object counts, and only while open. *)
EarliestOpen(t) == {g \in infos[t] : mstate[t][g] = "open" /\ \A h \in infos[t] : g <= h}
Resolved(t) == IF EarliestOpen(t) = {} THEN 0 ELSE CHOOSE g \in EarliestOpen(t) : TRUE

(* The subscribed track of object g in MediaTrackSubscriptions.subscribedTracks. *)
InMap(t, g) == {i \in SubIDs : dts[i].t = t /\ dts[i].g = g
                               /\ dts[i].state \in {"live", "closing"}}

(* DownTrack.CloseWithFlush: only the first call closes. *)
CloseOf(ids, resume) ==
    [i \in SubIDs |-> IF i \in ids /\ dts[i].state = "live"
                      THEN [dts[i] EXCEPT !.state = "closing", !.resume = resume]
                      ELSE dts[i]]

(* NotifyChanged: a goroutine calls whoever is registered at this moment. *)
Notified(kind, t) == IF <<kind, t, epoch[t]>> \in observers
                     THEN notes \cup {<<kind, t>>} ELSE notes

-----------------------------------------------------------------------------
(* The publisher. *)

(* A new MediaTrack object is published under t: Room.onTrackPublished calls *)
(* RoomTrackManager.AddTrack.                                                *)
AddTrack(t) ==
    /\ \E g \in Gens :
         /\ mstate[t][g] = "new"
         /\ \A h \in Gens : h < g => mstate[t][h] # "new"
         /\ mstate' = [mstate EXCEPT ![t][g] = "open"]
         /\ infos' = [infos EXCEPT ![t] = @ \cup {g}]
    /\ notes' = Notified("changed", t)
    /\ UNCHANGED <<resuming, permitted, revoking, epoch, observers, dtVars>>

(* MediaTrack.Close starts with MediaTrackReceiver.SetClosing. *)
SetClosing(t, g, resume) ==
    /\ mstate[t][g] = "open"
    /\ Cardinality({x \in Tracks \X Gens : mstate[x[1]][x[2]] \notin {"new", "open"}}) < MaxClose
    /\ mstate' = [mstate EXCEPT ![t][g] = "closing"]
    /\ resuming' = [resuming EXCEPT ![t][g] = resume]
    /\ UNCHANGED <<infos, permitted, revoking, epoch, obsVars, dtVars>>

(* MediaTrackReceiver.Close: ClearAllReceivers removes the subscribers. *)
ClearAllReceivers(t, g) ==
    /\ mstate[t][g] = "closing"
    /\ mstate' = [mstate EXCEPT ![t][g] = "cleared"]
    /\ dts' = CloseOf(InMap(t, g), resuming[t][g])
    /\ UNCHANGED <<infos, resuming, permitted, revoking, epoch, obsVars, nst, senders, cached>>

(* RoomTrackManager.RemoveTrack: the observers of removal are notified, then  *)
(* both notifier objects are dropped, whoever still observes them.            *)
RemoveTrack(t, g) ==
    IF g \in infos[t]
    THEN /\ infos' = [infos EXCEPT ![t] = @ \ {g}]
         /\ notes' = Notified("removed", t)
         /\ epoch' = [epoch EXCEPT ![t] = @ + 1]
    ELSE UNCHANGED <<infos, notes, epoch>>

(* The end of MediaTrackReceiver.Close: the onClose callbacks reach           *)
(* Room.onTrackUnpublished, which removes the track from the room. They run   *)
(* when ClearAllReceivers has returned: closes to resume do not flush and are *)
(* over by then with all their callbacks, the others have their goroutines.   *)
CloseMediaTrack(t, g) ==
    /\ mstate[t][g] = "cleared"
    /\ \A i \in SubIDs : dts[i].t = t /\ dts[i].g = g => ~dts[i].resume
    /\ mstate' = [mstate EXCEPT ![t][g] = "closed"]
    /\ RemoveTrack(t, g)
    /\ UNCHANGED <<resuming, permitted, revoking, observers, dtVars>>

(* Room.RemoveParticipant removes the publisher's tracks from the room while  *)
(* they are still open; closing the participant closes them afterwards.       *)
RemoveParticipant(t, g) ==
    /\ mstate[t][g] = "open"
    /\ g \in infos[t]
    /\ RemoveTrack(t, g)
    /\ UNCHANGED <<mstate, resuming, permitted, revoking, observers, dtVars>>

(* UpTrackManager.UpdateSubscriptionPermission stores the new permissions ... *)
UpdateSubscriptionPermission(t) ==
    /\ t \notin revoking
    /\ permitted' = [permitted EXCEPT ![t] = ~@]
    /\ revoking' = revoking \cup {t}
    /\ UNCHANGED <<infos, mstate, resuming, epoch, obsVars, dtVars>>

(* ... then maybeRevokeSubscriptions removes disallowed subscribers of the    *)
(* published (not yet closed) tracks, and the Room notifies the observers.    *)
MaybeRevokeSubscriptions(t) ==
    /\ t \in revoking
    /\ revoking' = revoking \ {t}
    /\ dts' = IF permitted[t] THEN dts
              ELSE CloseOf(UNION {InMap(t, g) : g \in {h \in Gens : mstate[t][h] # "closed"}},
                           FALSE)
    /\ notes' = Notified("changed", t)
    /\ UNCHANGED <<infos, mstate, resuming, permitted, epoch, observers, nst, senders, cached>>

-----------------------------------------------------------------------------
(* The DownTrack. *)

(* The negotiated answer binds the DownTrack, or binding fails: one result.  *)
BindDownTrack(i, result) ==
    /\ dts[i].state = "live" /\ dts[i].bind = "no"
    /\ dts' = [dts EXCEPT ![i].bind = result]
    /\ UNCHANGED <<nst, senders, cached>>

(* The end of CloseWithFlush: SubscribedTrack.OnDownTrackClose caches the     *)
(* transceiver if the session is expected to resume and deletes the           *)
(* subscribed track from the map; its onClose callback runs afterwards.       *)
OnDownTrackClose(i) ==
    /\ dts[i].state = "closing"
    /\ dts' = [dts EXCEPT ![i].state = "gone"]
    /\ cached' = IF dts[i].resume THEN [cached EXCEPT ![dts[i].t] = i] ELSE cached
    /\ UNCHANGED <<nst, senders>>

(* SubscribedTrack.Close with the callback AddSubscriber installed itself. *)
DefaultOnClose(i) ==
    /\ dts[i].state = "gone" /\ dts[i].cb = "default"
    /\ dts' = [dts EXCEPT ![i] = ClosedDT(i)]
    /\ senders' = IF dts[i].resume THEN senders ELSE senders \ {<<dts[i].t, i>>}
    /\ UNCHANGED <<nst, cached>>

=============================================================================
