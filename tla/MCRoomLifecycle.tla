--------------------------- MODULE MCRoomLifecycle ---------------------------
(* Two sessions of one identity, one of another and one that publishes, in a  *)
(* few scenarios; or the publisher's peer connection, in others.              *)
EXTENDS TrackPublication, TransportAnswerer

Ident == ("a1" :> "a") @@ ("a2" :> "a") @@ ("b1" :> "b") @@ ("p1" :> "p")

Room(sessions, active, leave, sweeping, deleting, limit) ==
    [sessions |-> sessions, active |-> active, leave |-> leave,
     sweeps |-> sweeping, deletes |-> deleting, limit |-> limit]

(* A replaced session leaves while the room is swept; the room is deleted     *)
(* while two sessions of one identity start.                                  *)
Swept    == Room({"a1", "a2"}, {}, {"a1"}, 1, 0, 0)
Deleted  == Room({"a1", "a2"}, {}, {}, 0, 1, 0)

(* An active participant leaves, with sweep and deletion; it is replaced.     *)
Ended    == Room({"a1"}, {"a1"}, {"a1"}, 1, 1, 0)
Replaced == Room({"a1", "a2"}, {"a1"}, {"a1"}, 0, 0, 0)

(* Two identities compete for one place. *)
Full     == Room({"a1", "b1"}, {}, {"a1", "b1"}, 0, 0, 1)

(* The publisher alone; it may leave. *)
Alone    == Room({"p1"}, {}, {}, 0, 0, 0)
Nobody   == Room({}, {}, {}, 0, 0, 0)
Leaving  == Room({"p1"}, {}, {"p1"}, 0, 0, 0)

NothingPublished(room) ==
    [room |-> room, adds |-> 0, media |-> {}, mutes |-> 0, toggles |-> 0, ends |-> 0,
     offers |-> FALSE, timeouts |-> FALSE, reconnect |-> FALSE]

Publish(room, requests, tracksOf, ending) ==
    [NothingPublished(room) EXCEPT !.adds = requests, !.media = tracksOf, !.ends = ending]

One  == {<<"c", 1>>}
Two  == {<<"c", 1>>, <<"c", 2>>}

(* Requests that queue up, with media of one or two tracks. *)
Queued  == [Publish(Alone, 2, Two, 1) EXCEPT !.offers = TRUE]
Limited == Publish(Alone, 3, One, 0)

(* Tracks that are muted, or lose the permission, while they are published.   *)
MuteQueued == [Publish(Alone, 2, One, 1) EXCEPT !.mutes = 1]
MutedTwice == [Publish(Alone, 1, One, 0) EXCEPT !.mutes = 2]
Revoked    == [Publish(Alone, 2, One, 0) EXCEPT !.toggles = 1]
Granted    == [Publish(Alone, 1, One, 0) EXCEPT !.toggles = 2]

(* Media that does not come in time; the participant leaves or reconnects.    *)
TimedOutRequest == [Publish(Alone, 3, One, 0) EXCEPT !.timeouts = TRUE]
TimedOutQueued  == [Publish(Alone, 2, One, 1) EXCEPT !.timeouts = TRUE]
Reconnected     == [Publish(Alone, 1, One, 0) EXCEPT !.timeouts = TRUE, !.reconnect = TRUE]
Left            == Publish(Leaving, 1, One, 1)

RoomScenarios    == {Swept, Deleted, Ended, Replaced, Full}
PublishScenarios == {Queued, Limited, MuteQueued, MutedTwice, Revoked, Granted,
                     TimedOutRequest, TimedOutQueued, Reconnected, Left}
AllRooms         == RoomScenarios \union {Alone, Leaving, Nobody}
AllScenarios     == {NothingPublished(r) : r \in RoomScenarios} \union PublishScenarios
Idle             == NothingPublished(Nobody)
DeleteScenario   == {NothingPublished(Deleted)}

Answer(add, remove, own, resumes, fails) ==
    [adds |-> add, removes |-> remove, offers |-> own, resumes |-> resumes,
     fails |-> fails, closes |-> fails]

Silent == Answer(0, 0, 0, 0, FALSE)

(* Tracks are added and removed; added while the client offers; a client that *)
(* resumes once, or twice; failures and a close.                              *)
AnswerScenarios == {Answer(2, 1, 0, 0, FALSE), Answer(2, 0, 1, 0, FALSE),
                    Answer(1, 0, 1, 1, FALSE), Answer(0, 0, 2, 2, FALSE),
                    Answer(1, 0, 1, 0, TRUE), Answer(1, 0, 0, 1, TRUE)}

Scenarios      == AllScenarios \union {Idle}
Answers        == AnswerScenarios \union {Silent}
SilentScenario == {Silent}

(* One of the two at a time. *)
PublisherInit == PublishInit /\ AnswererInit /\ (tscope = Idle \/ ascope = Silent)

PublisherNext == \/ PublishNext /\ UNCHANGED answererVars
                 \/ AnswererNext /\ UNCHANGED allVars

PublisherSpec == /\ PublisherInit /\ [][PublisherNext]_<<allVars, answererVars>>
                 /\ PublishFairness /\ AnswererFairness
=============================================================================
