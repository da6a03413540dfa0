---------------------------- MODULE RoomLifecycle ----------------------------
(***************************************************************************)
(* The rooms of one name on one node, from their creation to their end     *)
(* (pkg/service/roommanager.go, pkg/rtc/room.go), and the participants in  *)
(* them (pkg/rtc/participant.go): sessions that start, replace an earlier  *)
(* session of the same identity and end; the sweep that closes idle rooms; *)
(* deletion of the room; and what the store holds meanwhile.               *)
(*                                                                         *)
(* StartSession, Participant.Close and Room.Close are threads that take    *)
(* one lock, or one call of the store, per step. A session and its         *)
(* participant have one name.                                              *)
(***************************************************************************)
EXTENDS Integers, FiniteSets

CONSTANTS
    Sessions,      \* calls of StartSession
    Identity,      \* Identity[s]: identity of the participant of session s
    MaxRooms,      \* bound: rooms created
    RoomScopes     \* what a behaviour ranges over, see RoomScope

NoSession == "none"
NoRoom    == 0
RoomIds   == 1 .. MaxRooms
Identities == {Identity[s] : s \in Sessions}

(* The sessions that start and those that become active or leave; bounds:     *)
(* sweeps, deletions; the limit of participants, 0 for none.                  *)
RoomScope == [sessions : SUBSET Sessions, active : SUBSET Sessions, leave : SUBSET Sessions,
              sweeps : Nat, deletes : Nat, limit : Nat]

ASSUME RoomsAssumption == /\ RoomScopes \in SUBSET RoomScope
                          /\ IsFiniteSet(Sessions) /\ NoSession \notin Sessions
                          /\ MaxRooms \in Nat

VARIABLES
    mscope,     \* the scope of this behaviour, constant
    current,    \* RoomManager.rooms of the name
    rooms,      \* the rooms created: closed, holds, participants, and the thread of Close
    starts,     \* the threads of StartSession
    parts,      \* the participants: state, listener, onClose and the thread of Close
    removals,   \* goroutines of onStateChange that will call RemoveParticipant
    changes,    \* goroutines of onStateChange that store the participant
    stored,     \* the store: the room and the participant of every identity
    sweeper,    \* room that CloseIfEmpty has found idle
    sweeps, deletes   \* counters for the bounds

threadVars == <<removals, changes, sweeper>>
roomVars   == <<mscope, current, rooms, starts, parts, threadVars, stored, sweeps, deletes>>

NotCreated == [created |-> FALSE, closed |-> FALSE, holds |-> 0,
               members |-> [i \in Identities |-> NoSession],
               close |-> "none", todo |-> {}, own |-> {}]

NewParticipant == [state |-> "joining", stage |-> "open", listener |-> TRUE, hook |-> FALSE]

RoomsInit ==
    /\ mscope \in RoomScopes
    /\ current = NoRoom
    /\ rooms = [r \in RoomIds |-> NotCreated]
    /\ starts = [s \in Sessions |-> [pc |-> "start", seen |-> NoRoom, room |-> NoRoom, then |-> "allocate"]]
    /\ parts = [s \in Sessions |-> NewParticipant]
    /\ removals = {} /\ changes = [s \in Sessions |-> "none"]
    /\ stored = [room |-> FALSE, participants |-> [i \in Identities |-> NoSession]]
    /\ sweeper = NoRoom
    /\ sweeps = 0 /\ deletes = 0

-----------------------------------------------------------------------------
(* Participant.Close: isClosed is swapped once; the thread that did so goes *)
(* on through the stages "closing", "disconnected" and "closed".            *)

Closing(ps, s) == IF ps[s].stage = "open" THEN [ps EXCEPT ![s].stage = "closing"] ELSE ps

(* Mutant: nobody is told of a participant that never became active. *)
DisconnectedActive(s) ==
    /\ parts[s].stage = "closing"
    /\ parts' = [parts EXCEPT ![s].stage = "disconnected", ![s].state = "disconnected"]
    /\ removals' = IF parts[s].state = "active" THEN removals \union {s} ELSE removals
    /\ UNCHANGED <<mscope, current, rooms, starts, changes, stored, sweeper, sweeps, deletes>>

(* updateState(DISCONNECTED) tells the room, when it still listens. *)
Disconnected(s) ==
    /\ parts[s].stage = "closing"
    /\ parts' = [parts EXCEPT ![s].stage = "disconnected", ![s].state = "disconnected"]
    /\ removals' = IF parts[s].listener THEN removals \union {s} ELSE removals
    /\ UNCHANGED <<mscope, current, rooms, starts, changes, stored, sweeper, sweeps, deletes>>

(* The callback of onClose takes the identity out of the store, and stores    *)
(* the room, with its new count, unless the room is closed.                   *)
Unstored(s) == [room |-> stored.room \/ ~rooms[starts[s].room].closed,
                participants |-> [stored.participants EXCEPT ![Identity[s]] = NoSession]]

OnClose(s) ==
    /\ parts[s].stage = "disconnected"
    /\ parts' = [parts EXCEPT ![s].stage = "closed"]
    /\ stored' = IF parts[s].hook THEN Unstored(s) ELSE stored
    /\ UNCHANGED <<mscope, current, rooms, starts, threadVars, sweeps, deletes>>

Joined(s) == starts[s].pc \in {"stored", "hook", "release", "done"} /\ starts[s].room # NoRoom

(* The transport connects; onStateChange stores the participant unless it is  *)
(* disconnected by then, and then looks at its state again.                   *)
Activate(s) ==
    /\ s \in mscope.active /\ Joined(s) /\ parts[s].state = "joining"
    /\ parts' = [parts EXCEPT ![s].state = "active"]
    /\ changes' = [changes EXCEPT ![s] = IF parts[s].listener THEN "check" ELSE "none"]
    /\ UNCHANGED <<mscope, current, rooms, starts, removals, stored, sweeper, sweeps, deletes>>

StoreChange(s) ==
    /\ \/ /\ changes[s] = "check"
          /\ changes' = [changes EXCEPT ![s] = IF parts[s].state = "disconnected" THEN "look" ELSE "store"]
          /\ UNCHANGED <<stored, removals>>
       \/ /\ changes[s] = "store"
          /\ changes' = [changes EXCEPT ![s] = "look"]
          /\ stored' = [stored EXCEPT !.participants[Identity[s]] = s]
          /\ UNCHANGED removals
       \/ /\ changes[s] = "look"
          /\ changes' = [changes EXCEPT ![s] = "none"]
          /\ removals' = IF parts[s].state = "disconnected" THEN removals \union {s} ELSE removals
          /\ UNCHANGED stored
    /\ UNCHANGED <<mscope, current, rooms, starts, parts, sweeper, sweeps, deletes>>

-----------------------------------------------------------------------------
(* RemoveParticipant of session s from room r. A participant that was       *)
(* replaced by another session of its identity is left alone.               *)

(* Mutant: whoever has the identity is removed. *)
IsMemberByName(r, s) == rooms[r].members[Identity[s]] # NoSession

IsMember(r, s) == rooms[r].members[Identity[s]] = s

RemoveParticipant(r, s) ==
    IF IsMember(r, s)
    THEN /\ rooms' = [rooms EXCEPT ![r].members[Identity[s]] = NoSession]
         /\ parts' = [Closing(parts, s) EXCEPT ![s].listener = FALSE]
    ELSE UNCHANGED <<rooms, parts>>

(* From onStateChange. *)
RemoveDisconnected(s) ==
    /\ s \in removals
    /\ removals' = removals \ {s}
    /\ RemoveParticipant(starts[s].room, s)
    /\ UNCHANGED <<mscope, current, starts, changes, stored, sweeper, sweeps, deletes>>

(* A leave request of the client, and the timeout of a join. *)
Leave(s) ==
    /\ s \in mscope.leave /\ Joined(s) /\ parts[s].stage = "open" /\ parts[s].listener
    /\ RemoveParticipant(starts[s].room, s)
    /\ UNCHANGED <<mscope, current, starts, threadVars, stored, sweeps, deletes>>

(* The participant closes itself: lost connection, failed transport, errors   *)
(* that call for a full reconnect.                                            *)
Disconnect(s) ==
    /\ s \in mscope.leave /\ Joined(s) /\ parts[s].stage = "open"
    /\ parts' = Closing(parts, s)
    /\ UNCHANGED <<mscope, current, rooms, starts, threadVars, stored, sweeps, deletes>>

-----------------------------------------------------------------------------
(* Room.Close, and what leads to it.                                        *)

CloseRoom(r) ==
    rooms' = IF rooms[r].closed THEN rooms
             ELSE [rooms EXCEPT ![r].closed = TRUE, ![r].close = "members"]

Members(r) == {rooms[r].members[i] : i \in Identities} \ {NoSession}

ListMembers(r) ==
    /\ rooms[r].close = "members"
    /\ rooms' = [rooms EXCEPT ![r].close = "closing", ![r].todo = Members(r)]
    /\ UNCHANGED <<mscope, current, starts, parts, threadVars, stored, sweeps, deletes>>

(* One participant after the other; its Close returns when it is done, or at  *)
(* once when another thread has begun it.                                     *)
OwnClosed(r) == \A s \in rooms[r].own : parts[s].stage = "closed"

CloseMember(r, s) ==
    /\ rooms[r].close = "closing" /\ s \in rooms[r].todo /\ OwnClosed(r)
    /\ rooms' = [rooms EXCEPT ![r].todo = @ \ {s},
                              ![r].own = IF parts[s].stage = "open" THEN {s} ELSE {}]
    /\ parts' = Closing(parts, s)
    /\ UNCHANGED <<mscope, current, starts, threadVars, stored, sweeps, deletes>>

(* onClose of the manager: deleteRoom takes the name out of the map ... *)
DeleteFromMap(r) ==
    /\ rooms[r].close = "closing" /\ rooms[r].todo = {} /\ OwnClosed(r)
    /\ current' = NoRoom
    /\ rooms' = [rooms EXCEPT ![r].close = "store"]
    /\ UNCHANGED <<mscope, starts, parts, threadVars, stored, sweeps, deletes>>

(* ... and out of the store. *)
NothingStored == [room |-> FALSE, participants |-> [i \in Identities |-> NoSession]]

DeleteFromStore(r) ==
    /\ rooms[r].close = "store"
    /\ stored' = IF stored.room THEN NothingStored ELSE stored
    /\ rooms' = [rooms EXCEPT ![r].close = "done"]
    /\ UNCHANGED <<mscope, current, starts, parts, threadVars, sweeps, deletes>>

(* CloseIfEmpty of the sweep: the room is looked at under its lock and closed *)
(* after the lock was released. The time that passed is left open.            *)
Sweep ==
    /\ sweeps < mscope.sweeps /\ sweeps' = sweeps + 1
    /\ current # NoRoom /\ sweeper = NoRoom
    /\ ~rooms[current].closed /\ rooms[current].holds <= 0 /\ Members(current) = {}
    /\ sweeper' = current
    /\ UNCHANGED <<mscope, current, rooms, starts, parts, removals, changes, stored, deletes>>

SweepClose ==
    /\ sweeper # NoRoom
    /\ CloseRoom(sweeper)
    /\ sweeper' = NoRoom
    /\ UNCHANGED <<mscope, current, starts, parts, removals, changes, stored, sweeps, deletes>>

(* DeleteRoom; a room that nobody joined is only in the store. *)
DeleteRoom ==
    /\ deletes < mscope.deletes /\ deletes' = deletes + 1
    /\ IF current = NoRoom
       THEN stored' = (IF stored.room THEN NothingStored ELSE stored) /\ UNCHANGED rooms
       ELSE CloseRoom(current) /\ UNCHANGED stored
    /\ UNCHANGED <<mscope, current, starts, parts, threadVars, sweeps>>

-----------------------------------------------------------------------------
(* StartSession of session s.                                               *)

Goto(s, pc) == starts' = [starts EXCEPT ![s].pc = pc]

(* getOrCreateRoom: the room in the map is held, unless it was closed. *)
FindRoom(s) ==
    /\ starts[s].pc = "start" /\ s \in mscope.sessions
    /\ starts' = [starts EXCEPT ![s].seen = current, ![s].pc = IF current = NoRoom THEN "allocate" ELSE "hold"]
    /\ UNCHANGED <<mscope, current, rooms, parts, threadVars, stored, sweeps, deletes>>

HoldRoom(s) ==
    /\ starts[s].pc = "hold"
    /\ LET r == starts[s].seen
       IN IF rooms[r].closed
          THEN Goto(s, starts[s].then) /\ UNCHANGED rooms
          ELSE /\ rooms' = [rooms EXCEPT ![r].holds = @ + 1]
               /\ starts' = [starts EXCEPT ![s].pc = "lookup", ![s].room = r]
    /\ UNCHANGED <<mscope, current, parts, threadVars, stored, sweeps, deletes>>

(* CreateRoom of the allocator. *)
Allocate(s) ==
    /\ starts[s].pc = "allocate"
    /\ stored' = [stored EXCEPT !.room = TRUE]
    /\ starts' = [starts EXCEPT ![s].pc = "insert", ![s].then = "insert"]
    /\ UNCHANGED <<mscope, current, rooms, parts, threadVars, sweeps, deletes>>

(* Mutant: the room that left the map is waited for. *)
InsertSeenFirst(s) ==
    /\ starts[s].pc = "insert"
    /\ IF current # starts[s].seen
       THEN /\ current # NoRoom
            /\ starts' = [starts EXCEPT ![s].seen = current, ![s].pc = "hold"]
            /\ UNCHANGED <<current, rooms>>
       ELSE \E r \in RoomIds :
              /\ ~rooms[r].created /\ \A q \in RoomIds : q < r => rooms[q].created
              /\ rooms' = [rooms EXCEPT ![r].created = TRUE]
              /\ current' = r
              /\ starts' = [starts EXCEPT ![s].pc = "holdnew", ![s].room = r]
    /\ UNCHANGED <<mscope, parts, threadVars, stored, sweeps, deletes>>

(* Another room came into the map, or the room that was seen left it: try     *)
(* that one first; otherwise the new room takes the place of the one seen.    *)
Insert(s) ==
    /\ starts[s].pc = "insert"
    /\ IF current # starts[s].seen
       THEN /\ starts' = [starts EXCEPT ![s].seen = current,
                                        ![s].pc = IF current = NoRoom THEN "insert" ELSE "hold"]
            /\ UNCHANGED <<current, rooms>>
       ELSE \E r \in RoomIds :
              /\ ~rooms[r].created /\ \A q \in RoomIds : q < r => rooms[q].created
              /\ rooms' = [rooms EXCEPT ![r].created = TRUE]
              /\ current' = r
              /\ starts' = [starts EXCEPT ![s].pc = "holdnew", ![s].room = r]
    /\ UNCHANGED <<mscope, parts, threadVars, stored, sweeps, deletes>>

HoldNewRoom(s) ==
    /\ starts[s].pc = "holdnew"
    /\ rooms' = IF rooms[starts[s].room].closed THEN rooms
                ELSE [rooms EXCEPT ![starts[s].room].holds = @ + 1]
    /\ Goto(s, "lookup")
    /\ UNCHANGED <<mscope, current, parts, threadVars, stored, sweeps, deletes>>

(* A participant of the same identity is removed first. *)
FindParticipant(s) ==
    /\ starts[s].pc = "lookup"
    /\ LET old == rooms[starts[s].room].members[Identity[s]]
       IN starts' = [starts EXCEPT ![s].pc = IF old = NoSession THEN "join" ELSE "replace", ![s].then = old]
    /\ UNCHANGED <<mscope, current, rooms, parts, threadVars, stored, sweeps, deletes>>

ReplaceParticipant(s) ==
    /\ starts[s].pc = "replace"
    /\ RemoveParticipant(starts[s].room, starts[s].then)
    /\ starts' = [starts EXCEPT ![s].pc = "wait",
                     ![s].then = IF IsMember(starts[s].room, @) /\ parts[@].stage = "open" THEN @ ELSE NoSession]
    /\ UNCHANGED <<mscope, current, threadVars, stored, sweeps, deletes>>

(* Mutant: the room is not released when joining it failed. *)
AwaitCloseKeepsHold(s) ==
    /\ starts[s].pc = "wait"
    /\ starts[s].then # NoSession => parts[starts[s].then].stage = "closed"
    /\ Goto(s, IF starts[s].then = s THEN "done" ELSE "join")
    /\ UNCHANGED <<mscope, current, rooms, parts, threadVars, stored, sweeps, deletes>>

(* Participant.Close returns to the session that called it. *)
AwaitClose(s) ==
    /\ starts[s].pc = "wait"
    /\ starts[s].then # NoSession => parts[starts[s].then].stage = "closed"
    /\ Goto(s, IF starts[s].then = s THEN "release" ELSE "join")
    /\ UNCHANGED <<mscope, current, rooms, parts, threadVars, stored, sweeps, deletes>>

(* Mutant: a session joins a room that was closed after it was found. *)
CanJoinClosed(s) ==
    LET r == starts[s].room
    IN /\ rooms[r].members[Identity[s]] = NoSession
       /\ mscope.limit > 0 => Cardinality(Members(r)) < mscope.limit

CanJoin(s) ==
    LET r == starts[s].room
    IN /\ ~rooms[r].closed
       /\ rooms[r].members[Identity[s]] = NoSession
       /\ mscope.limit > 0 => Cardinality(Members(r)) < mscope.limit

(* Join stores the participant too; without success the participant is        *)
(* closed.                                                                    *)
Join(s) ==
    /\ starts[s].pc = "join"
    /\ IF CanJoin(s)
       THEN /\ rooms' = [rooms EXCEPT ![starts[s].room].members[Identity[s]] = s]
            /\ stored' = [stored EXCEPT !.participants[Identity[s]] = s]
            /\ Goto(s, "stored")
            /\ UNCHANGED parts
       ELSE /\ parts' = Closing(parts, s)
            /\ starts' = [starts EXCEPT ![s].pc = "wait", ![s].then = s]
            /\ UNCHANGED <<rooms, stored>>
    /\ UNCHANGED <<mscope, current, threadVars, sweeps, deletes>>

(* StoreParticipant, and the room unless it is closed. *)
StoreParticipant(s) ==
    /\ starts[s].pc = "stored"
    /\ stored' = [room |-> stored.room \/ ~rooms[starts[s].room].closed,
                  participants |-> [stored.participants EXCEPT ![Identity[s]] = s]]
    /\ Goto(s, "hook")
    /\ UNCHANGED <<mscope, current, rooms, parts, threadVars, sweeps, deletes>>

(* AddOnClose; the callback of a participant that is closed runs at once.     *)
AddOnClose(s) ==
    /\ starts[s].pc = "hook"
    /\ IF parts[s].stage = "open"
       THEN parts' = [parts EXCEPT ![s].hook = TRUE] /\ UNCHANGED stored
       ELSE stored' = Unstored(s) /\ UNCHANGED parts
    /\ Goto(s, "release")
    /\ UNCHANGED <<mscope, current, rooms, threadVars, sweeps, deletes>>

Release(s) ==
    /\ starts[s].pc = "release"
    /\ rooms' = [rooms EXCEPT ![starts[s].room].holds = @ - 1]
    /\ Goto(s, "done")
    /\ UNCHANGED <<mscope, current, parts, threadVars, stored, sweeps, deletes>>

StartSession(s) == \/ HoldRoom(s) \/ Allocate(s) \/ Insert(s) \/ HoldNewRoom(s)
                   \/ FindParticipant(s) \/ ReplaceParticipant(s) \/ AwaitClose(s) \/ Join(s)
                   \/ StoreParticipant(s) \/ AddOnClose(s) \/ Release(s)

-----------------------------------------------------------------------------
RoomStep(r)        == ListMembers(r) \/ (\E s \in Sessions : CloseMember(r, s)) \/ DeleteFromMap(r) \/ DeleteFromStore(r)
ParticipantStep(s) == Disconnected(s) \/ OnClose(s)

(* The threads under way. They are finite, so that it is enough that one of   *)
(* those that can go on does; nobody has to start a session or to leave.      *)
RoomThreads ==
    \/ \E s \in Sessions : \/ StartSession(s) \/ ParticipantStep(s)
                            \/ RemoveDisconnected(s) \/ StoreChange(s)
    \/ \E r \in RoomIds : RoomStep(r)
    \/ SweepClose

RoomsNext ==
    \/ RoomThreads
    \/ \E s \in Sessions : FindRoom(s) \/ Activate(s) \/ Leave(s) \/ Disconnect(s)
    \/ Sweep \/ DeleteRoom

RoomsSpec == RoomsInit /\ [][RoomsNext]_roomVars /\ WF_roomVars(RoomThreads)

-----------------------------------------------------------------------------
(* Properties.                                                              *)

Holding(s) == starts[s].room # NoRoom /\ starts[s].pc \notin {"holdnew", "done"}

(* Types; an open room counts as holds the sessions that are being started in *)
(* it, so that it is held until the last of them has returned.                *)
RoomsTypeOK ==
    /\ current \in {NoRoom} \union {r \in RoomIds : rooms[r].created}
    /\ \A s \in Sessions : parts[s].stage \in {"open", "closing", "disconnected", "closed"}
    /\ \A r \in RoomIds : ~rooms[r].closed =>
          rooms[r].holds = Cardinality({s \in Sessions : starts[s].room = r /\ Holding(s)})

(* A session that joined and was not closed stays in its room: the late       *)
(* removal of an earlier session of its identity does not take it out.        *)
LiveStaysMember ==
    \A s \in Sessions : Joined(s) /\ parts[s].stage = "open" =>
        rooms[starts[s].room].members[Identity[s]] = s

(* When a room was closed and its participants told, nobody is left in it     *)
(* that was not closed: no session slips in while it closes.                  *)
NobodyStaysInClosedRoom ==
    \A r \in RoomIds : rooms[r].close \in {"store", "done"} =>
        \A s \in Members(r) : parts[s].stage # "open"

(* A participant that was closed is taken out of its room: again and again    *)
(* there are only participants in the rooms that are not closed.              *)
ClosedIsRemoved ==
    []<>(\A r \in RoomIds : \A s \in Members(r) : parts[s].stage # "closed")

(* StartSession returns, whatever rooms come and go meanwhile: again and      *)
(* again no session is being started.                                         *)
SessionsReturn ==
    []<>(\A s \in Sessions : starts[s].pc \in {"start", "done"})

(* "People, devices, and AI agents join the same room as participants" and    *)
(* "ListRooms returns currently active rooms": a participant whose session    *)
(* was started in an open room is in the room of its name, which the next     *)
(* session, the sweep and a deletion will find, or is at least in the store,  *)
(* or its room is.                                                            *)
ActiveRoomIsFound ==
    \A s \in Sessions : starts[s].pc = "done" /\ starts[s].room # NoRoom =>
        LET r == starts[s].room
        IN ~rooms[r].closed /\ IsMember(r, s) =>
             \/ current = r
             \/ stored.room \/ stored.participants[Identity[s]] = s

=============================================================================
