------------------------ MODULE RoomLifecycleProofs ------------------------
(***************************************************************************)
(* Proofs about RoomLifecycle for every set of sessions and identities and *)
(* every number of rooms, sweeps and deletions: a room is held as often as *)
(* sessions are being started in it, a live session stays a member of its  *)
(* room, and nobody is left in a room that was closed.                     *)
(***************************************************************************)
EXTENDS RoomLifecycle, FiniteSetTheorems, TLAPS

USE RoomsAssumption

-----------------------------------------------------------------------------
(* The inductive invariant.                                                 *)

MaybeSession == Sessions \union {NoSession}
MaybeRoom    == RoomIds \union {NoRoom}

Finding == {"start", "hold", "allocate", "insert"}     \* the session has no room yet
Joining == {"holdnew", "lookup", "replace", "wait", "join"}
InRoom  == {"stored", "hook", "release", "done"}

RoomRecord == [created : BOOLEAN, closed : BOOLEAN, holds : Int,
               members : [Identities -> MaybeSession],
               close : {"none", "members", "closing", "store", "done"},
               todo : SUBSET Sessions, own : SUBSET Sessions]

StartRecord == [pc : Finding \union Joining \union InRoom, seen : MaybeRoom, room : MaybeRoom,
                then : MaybeSession \union {"allocate", "insert"}]

PartRecord == [state : {"joining", "active", "disconnected"},
               stage : {"open", "closing", "disconnected", "closed"},
               listener : BOOLEAN, hook : BOOLEAN]

RoomTypes ==
    /\ current \in MaybeRoom /\ sweeper \in MaybeRoom
    /\ rooms \in [RoomIds -> RoomRecord]
    /\ starts \in [Sessions -> StartRecord]
    /\ parts \in [Sessions -> PartRecord]

(* Where a session is in StartSession, and what it holds in its variables.    *)
(* One that waits for its own participant has closed it.                      *)
StartOK(s) ==
    /\ starts[s].pc \in Finding => starts[s].room = NoRoom /\ starts[s].then \in {"allocate", "insert"}
    /\ starts[s].pc \in Joining \union InRoom => starts[s].room # NoRoom
    /\ starts[s].pc = "hold" => starts[s].seen # NoRoom
    /\ starts[s].pc = "replace" => starts[s].then \in Sessions \ {s}
    /\ starts[s].pc = "wait" => starts[s].then \in MaybeSession
    /\ starts[s].pc = "wait" /\ starts[s].then = s => parts[s].stage # "open"

(* A member of a room is a session of that identity that joined this room. *)
MembersOK ==
    \A r \in RoomIds, i \in Identities :
        LET s == rooms[r].members[i]
        IN s # NoSession => Identity[s] = i /\ starts[s].room = r /\ starts[s].pc \in InRoom

(* While a room closes, the members that are open are still to be told. *)
ClosingOK ==
    \A r \in RoomIds :
        /\ rooms[r].closed <=> rooms[r].close # "none"
        /\ rooms[r].close = "closing" =>
             \A i \in Identities :
                 LET s == rooms[r].members[i]
                 IN s # NoSession /\ parts[s].stage = "open" => s \in rooms[r].todo
        /\ rooms[r].close \in {"store", "done"} =>
             \A i \in Identities :
                 LET s == rooms[r].members[i]
                 IN s # NoSession => parts[s].stage # "open"

(* Nobody knows of a room before it was created. *)
CreatedOK ==
    /\ current # NoRoom => rooms[current].created
    /\ \A s \in Sessions : /\ starts[s].seen # NoRoom => rooms[starts[s].seen].created
                           /\ starts[s].room # NoRoom => rooms[starts[s].room].created

Holders(r) == {s \in Sessions : starts[s].room = r /\ Holding(s)}

HoldsOK == \A r \in RoomIds : ~rooms[r].closed => rooms[r].holds = Cardinality(Holders(r))

RoomsInv ==
    /\ RoomTypes
    /\ \A s \in Sessions : StartOK(s)
    /\ MembersOK
    /\ LiveStaysMember
    /\ ClosingOK
    /\ CreatedOK
    /\ HoldsOK

-----------------------------------------------------------------------------
(* Initial states.                                                          *)

LEMMA RoomsInitInv == RoomsInit => RoomsInv
  <1> SUFFICES ASSUME RoomsInit PROVE RoomsInv
    OBVIOUS
  <1>1. \A s \in Sessions : Identity[s] \in Identities
    BY DEF Identities
  <1>2. NotCreated \in RoomRecord
    BY DEF NotCreated, RoomRecord, MaybeSession
  <1>3. RoomTypes
    BY <1>2 DEF RoomsInit, RoomTypes, StartRecord, PartRecord, NewParticipant, MaybeRoom, MaybeSession,
                Finding, Joining, InRoom
  <1>4. \A s \in Sessions : StartOK(s)
    BY DEF RoomsInit, StartOK, Finding, Joining, InRoom
  <1>5. \A r \in RoomIds, i \in Identities : rooms[r].members[i] = NoSession
    BY DEF RoomsInit, NotCreated
  <1>6. MembersOK
    BY <1>5 DEF MembersOK
  <1>7. LiveStaysMember
    BY DEF RoomsInit, LiveStaysMember, Joined
  <1>8. ClosingOK
    BY DEF RoomsInit, ClosingOK, NotCreated
  <1>9. CreatedOK
    BY DEF RoomsInit, CreatedOK
  <1>10. HoldsOK
    <2> SUFFICES ASSUME NEW r \in RoomIds PROVE rooms[r].holds = Cardinality(Holders(r))
      BY DEF HoldsOK
    <2>1. Holders(r) = {}
      BY DEF RoomsInit, Holders, Holding
    <2>2. rooms[r].holds = 0
      BY DEF RoomsInit, NotCreated
    <2>3. QED
      BY <2>1, <2>2, FS_EmptySet
  <1>11. QED
    BY <1>3, <1>4, <1>6, <1>7, <1>8, <1>9, <1>10 DEF RoomsInv

-----------------------------------------------------------------------------
(* What steps of one kind preserve.                                         *)

(* The holds are right as long as neither they nor the sessions that are      *)
(* being started in the room change.                                          *)
LEMMA HoldsFrame ==
    ASSUME HoldsOK,
           \A s \in Sessions :
              \/ /\ starts'[s].room = starts[s].room
                 /\ \/ starts[s].room = NoRoom
                    \/ starts'[s].pc \in {"holdnew", "done"} <=> starts[s].pc \in {"holdnew", "done"}
              \/ starts[s].room = NoRoom /\ starts'[s].pc = "holdnew",
           \A r \in RoomIds : ~rooms'[r].closed => ~rooms[r].closed /\ rooms'[r].holds = rooms[r].holds
    PROVE  HoldsOK'
  <1> SUFFICES ASSUME NEW r \in RoomIds, ~rooms'[r].closed
               PROVE  rooms'[r].holds = Cardinality(Holders(r)')
    BY DEF HoldsOK, Holders
  <1>1. r # NoRoom
    BY DEF RoomIds, NoRoom
  <1>2. Holders(r)' = Holders(r)
    BY <1>1 DEF Holders, Holding
  <1>3. QED
    BY <1>2 DEF HoldsOK

(* Participants change, and none of them opens again. *)
LEMMA PartsFrame ==
    ASSUME RoomsInv, UNCHANGED <<current, sweeper, rooms, starts>>,
           parts' \in [Sessions -> PartRecord],
           \A s \in Sessions : parts'[s].stage = "open" => parts[s].stage = "open"
    PROVE  RoomsInv'
  <1> USE DEF RoomsInv
  <1>1. RoomTypes'
    BY DEF RoomTypes
  <1>2. (\A s \in Sessions : StartOK(s))'
    BY DEF StartOK
  <1>3. MembersOK'
    BY DEF MembersOK
  <1>4. LiveStaysMember'
    BY DEF LiveStaysMember, Joined
  <1>5. ClosingOK'
    <2>1. \A r \in RoomIds, i \in Identities : rooms[r].members[i] \in MaybeSession
      BY DEF RoomTypes, RoomRecord
    <2>2. QED
      BY <2>1 DEF ClosingOK, MaybeSession
  <1>6. CreatedOK'
    BY DEF CreatedOK
  <1>7. HoldsOK'
    BY HoldsFrame
  <1>8. QED
    BY <1>1, <1>2, <1>3, <1>4, <1>5, <1>6, <1>7

(* One session goes on, with the same room or still without one. *)
LEMMA StartFrame ==
    ASSUME RoomsInv, UNCHANGED <<current, sweeper, rooms>>,
           NEW s \in Sessions, NEW v \in StartRecord,
           starts' = [starts EXCEPT ![s] = v],
           parts' \in [Sessions -> PartRecord],
           \A t \in Sessions : parts'[t].stage = parts[t].stage,
           StartOK(s)',
           v.room = starts[s].room,
           v.seen # NoRoom => rooms[v.seen].created,
           v.pc \in InRoom => starts[s].pc \in InRoom \/ parts[s].stage # "open",
           starts[s].pc \in InRoom => v.pc \in InRoom,
           v.room # NoRoom => (v.pc \in {"holdnew", "done"} <=> starts[s].pc \in {"holdnew", "done"})
    PROVE  RoomsInv'
  <1> USE DEF RoomsInv
  <1>a. /\ starts'[s] = v /\ DOMAIN starts = Sessions
        /\ \A t \in Sessions \ {s} : starts'[t] = starts[t]
        /\ \A t \in Sessions : starts'[t].room = starts[t].room
    BY DEF RoomTypes
  <1>1. RoomTypes'
    BY DEF RoomTypes
  <1>2. (\A t \in Sessions : StartOK(t))'
    BY <1>a DEF StartOK
  <1>b. \A r \in RoomIds, i \in Identities : rooms[r].members[i] \in MaybeSession
    BY DEF RoomTypes, RoomRecord
  <1>3. MembersOK'
    BY <1>a, <1>b DEF MembersOK, MaybeSession
  <1>4. LiveStaysMember'
    BY <1>a DEF LiveStaysMember, Joined, InRoom
  <1>5. ClosingOK'
    BY <1>b DEF ClosingOK, MaybeSession
  <1>6. CreatedOK'
    BY <1>a DEF CreatedOK
  <1>7. HoldsOK'
    BY <1>a, HoldsFrame
  <1>8. QED
    BY <1>1, <1>2, <1>3, <1>4, <1>5, <1>6, <1>7

(* Rooms are marked, and keep their members and their holds. *)
LEMMA RoomFrame ==
    ASSUME RoomsInv, UNCHANGED starts,
           current' \in MaybeRoom, sweeper' \in MaybeRoom,
           rooms' \in [RoomIds -> RoomRecord],
           parts' \in [Sessions -> PartRecord],
           \A s \in Sessions : parts'[s].stage = "open" => parts[s].stage = "open",
           \A r \in RoomIds : /\ rooms'[r].members = rooms[r].members
                              /\ rooms'[r].holds = rooms[r].holds
                              /\ rooms'[r].created = rooms[r].created
                              /\ rooms[r].closed => rooms'[r].closed,
           current' \in {current, NoRoom},
           ClosingOK'
    PROVE  RoomsInv'
  <1> USE DEF RoomsInv
  <1>1. RoomTypes'
    BY DEF RoomTypes
  <1>a. \A s \in Sessions : starts[s] \in StartRecord
    BY DEF RoomTypes
  <1>2. (\A s \in Sessions : StartOK(s))'
    BY DEF StartOK
  <1>3. MembersOK'
    BY DEF MembersOK
  <1>4. LiveStaysMember'
    <2> SUFFICES ASSUME NEW s \in Sessions, Joined(s)', parts'[s].stage = "open"
                 PROVE  rooms'[starts'[s].room].members[Identity[s]] = s
      BY DEF LiveStaysMember
    <2>1. Joined(s) /\ starts[s].room \in RoomIds
      BY <1>a DEF Joined, StartRecord, MaybeRoom
    <2>2. QED
      BY <2>1 DEF LiveStaysMember
  <1>6. CreatedOK'
    BY <1>a DEF CreatedOK, StartRecord, MaybeRoom, RoomTypes
  <1>7. HoldsOK'
    BY HoldsFrame
  <1>8. QED
    BY <1>1, <1>2, <1>3, <1>4, <1>6, <1>7

(* Close of a participant, with or without its listener. *)
LEMMA ClosingPart ==
    ASSUME parts \in [Sessions -> PartRecord], NEW t \in Sessions
    PROVE  /\ Closing(parts, t) \in [Sessions -> PartRecord]
           /\ [Closing(parts, t) EXCEPT ![t].listener = FALSE] \in [Sessions -> PartRecord]
           /\ Closing(parts, t)[t].stage # "open"
           /\ [Closing(parts, t) EXCEPT ![t].listener = FALSE][t].stage # "open"
           /\ \A s \in Sessions :
                /\ Closing(parts, t)[s].stage = "open" => parts[s].stage = "open"
                /\ [Closing(parts, t) EXCEPT ![t].listener = FALSE][s].stage = "open" => parts[s].stage = "open"
  BY ZenonT(60) DEF Closing, PartRecord

(* RemoveParticipant takes only t out of a room, and closes it; a session     *)
(* that replaces it then waits for it.                                        *)
LEMMA RemoveFrame ==
    ASSUME RoomsInv, UNCHANGED <<current, sweeper>>,
           starts' \in [Sessions -> StartRecord],
           \A s \in Sessions :
              starts'[s] = starts[s] \/ /\ starts[s].pc = "replace" /\ starts'[s].pc = "wait"
                                        /\ starts'[s].room = starts[s].room
                                        /\ starts'[s].seen = starts[s].seen
                                        /\ starts'[s].then \in MaybeSession \ {s},
           NEW r \in MaybeRoom, NEW t \in Sessions, RemoveParticipant(r, t)
    PROVE  RoomsInv'
  <1> USE DEF RoomsInv
  <1>t. /\ rooms \in [RoomIds -> RoomRecord] /\ parts \in [Sessions -> PartRecord]
        /\ starts \in [Sessions -> StartRecord]
    BY DEF RoomTypes
  <1>i. Identity[t] \in Identities
    BY DEF Identities
  <1> DEFINE Kept(q) == /\ rooms'[q].holds = rooms[q].holds
                        /\ rooms'[q].created = rooms[q].created
                        /\ rooms'[q].closed = rooms[q].closed
                        /\ rooms'[q].close = rooms[q].close
                        /\ rooms'[q].todo = rooms[q].todo
                        /\ \A i \in Identities :
                             \/ rooms'[q].members[i] = rooms[q].members[i]
                             \/ rooms'[q].members[i] = NoSession /\ rooms[q].members[i] = t
  <1>r. /\ parts' \in [Sessions -> PartRecord] /\ rooms' \in [RoomIds -> RoomRecord]
        /\ \A s \in Sessions : parts'[s].stage = "open" => parts[s].stage = "open"
        /\ \A q \in RoomIds : Kept(q)
        /\ ~(UNCHANGED rooms) => parts'[t].stage # "open"
    <2>1. CASE ~IsMember(r, t)
      <3>1. UNCHANGED <<rooms, parts>>
        BY <2>1 DEF RemoveParticipant
      <3>2. QED
        BY <1>t, <3>1
    <2>2. CASE IsMember(r, t)
      <3>1. /\ rooms' = [rooms EXCEPT ![r].members[Identity[t]] = NoSession]
            /\ parts' = [Closing(parts, t) EXCEPT ![t].listener = FALSE]
        BY <2>2 DEF RemoveParticipant
      <3>2. /\ parts' \in [Sessions -> PartRecord] /\ parts'[t].stage # "open"
            /\ \A s \in Sessions : parts'[s].stage = "open" => parts[s].stage = "open"
        BY <1>t, <3>1, ClosingPart
      <3>3. CASE r \in RoomIds
        <4>1. rooms' \in [RoomIds -> RoomRecord]
          BY <1>t, <1>i, <3>1, <3>3, SMTT(40) DEF RoomRecord, MaybeSession
        <4>2. rooms[r].members[Identity[t]] = t
          BY <2>2 DEF IsMember
        <4>3. \A q \in RoomIds : Kept(q)
          BY <1>t, <1>i, <3>1, <3>3, <4>2 DEF RoomRecord, MaybeSession
        <4>4. QED
          BY <3>2, <4>1, <4>3
      <3>4. CASE r \notin RoomIds
        BY <1>t, <3>1, <3>2, <3>4, ZenonT(60)
      <3>5. QED
        BY <3>3, <3>4
    <2>3. QED
      BY <2>1, <2>2
  <1>s. \A s \in Sessions : starts[s] \in StartRecord /\ starts'[s].room = starts[s].room
    BY <1>t
  <1>1. RoomTypes'
    BY <1>r DEF RoomTypes
  <1>2. (\A s \in Sessions : StartOK(s))'
    BY <1>r, <1>s DEF StartOK, Finding, Joining, InRoom, MaybeSession
  <1>3. MembersOK'
    <2>1. \A q \in RoomIds, i \in Identities : rooms[q].members[i] \in MaybeSession
      BY <1>t DEF RoomRecord
    <2>2. \A s \in Sessions : starts[s].pc \in InRoom => starts'[s] = starts[s]
      BY DEF InRoom
    <2>3. QED
      BY <1>r, <2>1, <2>2 DEF MembersOK, MaybeSession
  <1>4. LiveStaysMember'
    <2> SUFFICES ASSUME NEW s \in Sessions, Joined(s)', parts'[s].stage = "open"
                 PROVE  rooms'[starts'[s].room].members[Identity[s]] = s
      BY DEF LiveStaysMember
    <2>1. Joined(s) /\ starts[s].room \in RoomIds /\ parts[s].stage = "open" /\ starts'[s].room = starts[s].room
      BY <1>s, <1>r DEF Joined, StartRecord, MaybeRoom
    <2>2. rooms[starts[s].room].members[Identity[s]] = s
      BY <2>1 DEF LiveStaysMember
    <2>3. Identity[s] \in Identities
      BY DEF Identities
    <2>4. CASE s = t
      BY <1>r, <2>1, <2>2, <2>4
    <2>5. CASE s # t
      BY <1>r, <2>1, <2>2, <2>3, <2>5
    <2>6. QED
      BY <2>4, <2>5
  <1>5. ClosingOK'
    <2>1. \A q \in RoomIds, i \in Identities : rooms[q].members[i] \in MaybeSession
      BY <1>t DEF RoomRecord
    <2>2. QED
      BY <1>r, <2>1 DEF ClosingOK, MaybeSession
  <1>6. CreatedOK'
    <2>1. \A s \in Sessions : starts'[s].seen = starts[s].seen
      OBVIOUS
    <2>2. QED
      BY <1>r, <1>s, <2>1 DEF CreatedOK, StartRecord, MaybeRoom, RoomTypes
  <1>7. HoldsOK'
    BY <1>r, <1>s, HoldsFrame
  <1>8. QED
    BY <1>1, <1>2, <1>3, <1>4, <1>5, <1>6, <1>7

-----------------------------------------------------------------------------
(* One lemma per thread: every step of it preserves the invariant.          *)

(* Participant.Close and onStateChange. *)
LEMMA ParticipantInv ==
    ASSUME RoomsInv, NEW s \in Sessions,
           ParticipantStep(s) \/ StoreChange(s) \/ Activate(s) \/ Disconnect(s)
    PROVE  RoomsInv'
  <1>t. parts \in [Sessions -> PartRecord]
    BY DEF RoomsInv, RoomTypes
  <1>1. UNCHANGED <<current, sweeper, rooms, starts>>
    BY DEF ParticipantStep, Disconnected, OnClose, StoreChange, Activate, Disconnect, threadVars
  <1>2. /\ parts' \in [Sessions -> PartRecord]
        /\ \A t \in Sessions : parts'[t].stage = "open" => parts[t].stage = "open"
    BY <1>t DEF ParticipantStep, Disconnected, OnClose, StoreChange, Activate, Disconnect, Closing, PartRecord
  <1>3. QED
    BY <1>1, <1>2, PartsFrame

(* A participant that closes itself, whatever made it do so. *)
LEMMA ClosingInv ==
    ASSUME RoomsInv, NEW s \in Sessions, parts' = Closing(parts, s),
           UNCHANGED <<current, sweeper, rooms, starts>>
    PROVE  RoomsInv'
  <1>t. parts \in [Sessions -> PartRecord]
    BY DEF RoomsInv, RoomTypes
  <1>1. /\ parts' \in [Sessions -> PartRecord]
        /\ \A t \in Sessions : parts'[t].stage = "open" => parts[t].stage = "open"
    BY <1>t, ClosingPart
  <1>2. QED
    BY <1>1, PartsFrame

(* RemoveParticipant: late, of a participant that left, of one replaced. *)
LEMMA RemoveInv ==
    ASSUME RoomsInv, NEW s \in Sessions,
           RemoveDisconnected(s) \/ Leave(s) \/ ReplaceParticipant(s)
    PROVE  RoomsInv'
  <1>t. starts \in [Sessions -> StartRecord] /\ starts[s].room \in MaybeRoom
    BY DEF RoomsInv, RoomTypes, StartRecord
  <1>1. CASE RemoveDisconnected(s) \/ Leave(s)
    <2>1. UNCHANGED <<current, sweeper, starts>> /\ RemoveParticipant(starts[s].room, s)
      BY <1>1 DEF RemoveDisconnected, Leave, threadVars
    <2>2. QED
      BY <1>t, <2>1, RemoveFrame
  <1>2. CASE ReplaceParticipant(s)
    <2>1. starts[s].then \in Sessions \ {s} /\ NoSession # s
      BY <1>2 DEF ReplaceParticipant, RoomsInv, StartOK
    <2> DEFINE w == IF IsMember(starts[s].room, starts[s].then) /\ parts[starts[s].then].stage = "open"
                    THEN starts[s].then ELSE NoSession
    <2>a. starts[s].pc = "replace" /\ starts' = [starts EXCEPT ![s].pc = "wait", ![s].then = w]
      BY <1>2, <1>t DEF ReplaceParticipant
    <2>b. w \in MaybeSession \ {s}
      BY <2>1 DEF MaybeSession
    <2> HIDE DEF w
    <2>2. /\ starts' \in [Sessions -> StartRecord]
          /\ starts[s].pc = "replace" /\ starts'[s].pc = "wait"
          /\ starts'[s].room = starts[s].room /\ starts'[s].seen = starts[s].seen
          /\ starts'[s].then \in MaybeSession \ {s}
          /\ \A t \in Sessions \ {s} : starts'[t] = starts[t]
      BY <1>t, <2>a, <2>b DEF StartRecord, Joining
    <2>3. UNCHANGED <<current, sweeper>> /\ RemoveParticipant(starts[s].room, starts[s].then)
      BY <1>2 DEF ReplaceParticipant, threadVars
    <2>4. QED
      BY <1>t, <2>1, <2>2, <2>3, RemoveFrame
  <1>3. QED
    BY <1>1, <1>2

(* A room is marked closed: there is nobody to tell as yet. *)
LEMMA CloseRoomInv ==
    ASSUME RoomsInv, NEW r \in RoomIds, CloseRoom(r), UNCHANGED <<current, starts, parts>>,
           sweeper' \in MaybeRoom
    PROVE  RoomsInv'
  <1>t. rooms \in [RoomIds -> RoomRecord] /\ parts \in [Sessions -> PartRecord] /\ current \in MaybeRoom
    BY DEF RoomsInv, RoomTypes
  <1>1. /\ rooms' \in [RoomIds -> RoomRecord]
        /\ \A q \in RoomIds : /\ rooms'[q].members = rooms[q].members
                              /\ rooms'[q].holds = rooms[q].holds
                              /\ rooms'[q].created = rooms[q].created
                              /\ rooms[q].closed => rooms'[q].closed
                              /\ \/ rooms'[q] = rooms[q]
                                 \/ rooms'[q].closed /\ rooms'[q].close = "members"
    BY <1>t, ZenonT(60) DEF CloseRoom, RoomRecord
  <1>2. ClosingOK'
    BY <1>1 DEF RoomsInv, ClosingOK
  <1>3. QED
    BY <1>t, <1>1, <1>2, RoomFrame

(* The sweep and DeleteRoom. *)
LEMMA SweepInv ==
    ASSUME RoomsInv, Sweep \/ SweepClose \/ DeleteRoom
    PROVE  RoomsInv'
  <1>t. /\ current \in MaybeRoom /\ sweeper \in MaybeRoom /\ parts \in [Sessions -> PartRecord]
        /\ rooms \in [RoomIds -> RoomRecord]
    BY DEF RoomsInv, RoomTypes
  <1>1. CASE Sweep
    <2>1. UNCHANGED <<current, starts, rooms, parts>> /\ sweeper' \in MaybeRoom
      BY <1>1, <1>t DEF Sweep
    <2>2. ClosingOK'
      BY <2>1 DEF RoomsInv, ClosingOK
    <2>3. QED
      BY <1>t, <2>1, <2>2, RoomFrame
  <1>2. CASE SweepClose
    <2>1. sweeper \in RoomIds /\ CloseRoom(sweeper) /\ UNCHANGED <<current, starts, parts>> /\ sweeper' \in MaybeRoom
      BY <1>2, <1>t DEF SweepClose, MaybeRoom
    <2>2. QED
      BY <2>1, CloseRoomInv
  <1>3. CASE DeleteRoom /\ current = NoRoom
    <2>1. UNCHANGED <<current, starts, rooms, parts, sweeper>>
      BY <1>3 DEF DeleteRoom, threadVars
    <2>2. QED
      BY <1>t, <2>1, PartsFrame
  <1>4. CASE DeleteRoom /\ current # NoRoom
    <2>1. current \in RoomIds /\ CloseRoom(current) /\ UNCHANGED <<current, starts, parts>> /\ sweeper' \in MaybeRoom
      BY <1>4, <1>t DEF DeleteRoom, MaybeRoom, threadVars
    <2>2. QED
      BY <2>1, CloseRoomInv
  <1>5. QED
    BY <1>1, <1>2, <1>3, <1>4

(* Room.Close: the members are listed after the room was closed to new ones,  *)
(* and those that are open are closed before the room leaves the map.         *)
LEMMA RoomCloseInv ==
    ASSUME RoomsInv, NEW r \in RoomIds, RoomStep(r)
    PROVE  RoomsInv'
  <1>t. /\ rooms \in [RoomIds -> RoomRecord] /\ parts \in [Sessions -> PartRecord]
        /\ current \in MaybeRoom /\ sweeper \in MaybeRoom
    BY DEF RoomsInv, RoomTypes
  <1>m. \A q \in RoomIds, i \in Identities : rooms[q].members[i] \in MaybeSession
    BY <1>t DEF RoomRecord
  <1>c. ClosingOK
    BY DEF RoomsInv
  <1>1. CASE ListMembers(r)
    <2>1. /\ rooms[r].close = "members" /\ UNCHANGED <<current, sweeper, starts, parts>>
          /\ rooms' = [rooms EXCEPT ![r].close = "closing", ![r].todo = Members(r)]
      BY <1>1 DEF ListMembers, threadVars
    <2>2. Members(r) \in SUBSET Sessions /\ \A i \in Identities : rooms[r].members[i] \in Members(r) \union {NoSession}
      BY <1>m DEF Members, MaybeSession
    <2> HIDE DEF Members
    <2>3. /\ rooms' \in [RoomIds -> RoomRecord]
          /\ \A q \in RoomIds : /\ rooms'[q].members = rooms[q].members
                                /\ rooms'[q].holds = rooms[q].holds
                                /\ rooms'[q].created = rooms[q].created
                                /\ rooms'[q].closed = rooms[q].closed
                                /\ q # r => rooms'[q] = rooms[q]
          /\ rooms'[r].close = "closing" /\ rooms'[r].todo = Members(r)
      BY <1>t, <2>1, <2>2, ZenonT(60) DEF RoomRecord
    <2>4. ClosingOK'
      BY <1>c, <2>1, <2>2, <2>3 DEF ClosingOK
    <2>5. QED
      BY <1>t, <2>1, <2>3, <2>4, RoomFrame
  <1>2. ASSUME NEW s \in Sessions, CloseMember(r, s) PROVE RoomsInv'
    <2> DEFINE o == IF parts[s].stage = "open" THEN {s} ELSE {}
    <2>1. /\ rooms[r].close = "closing" /\ UNCHANGED <<current, sweeper, starts>>
          /\ rooms' = [rooms EXCEPT ![r].todo = @ \ {s}, ![r].own = o]
          /\ parts' = Closing(parts, s)
      BY <1>2 DEF CloseMember, threadVars
    <2>2. o \in SUBSET Sessions
      OBVIOUS
    <2> HIDE DEF o
    <2>3. /\ rooms' \in [RoomIds -> RoomRecord]
          /\ \A q \in RoomIds : /\ rooms'[q].members = rooms[q].members
                                /\ rooms'[q].holds = rooms[q].holds
                                /\ rooms'[q].created = rooms[q].created
                                /\ rooms'[q].closed = rooms[q].closed
                                /\ rooms'[q].close = rooms[q].close
                                /\ q # r => rooms'[q] = rooms[q]
          /\ rooms'[r].todo = rooms[r].todo \ {s}
      BY <1>t, <2>1, <2>2, ZenonT(60) DEF RoomRecord
    <2>4. /\ parts' \in [Sessions -> PartRecord] /\ parts'[s].stage # "open"
          /\ \A t \in Sessions : parts'[t].stage = "open" => parts[t].stage = "open"
      BY <1>t, <2>1, ClosingPart
    <2>5. ClosingOK'
      BY <1>c, <1>m, <2>3, <2>4 DEF ClosingOK, MaybeSession
    <2>6. QED
      BY <1>t, <2>1, <2>3, <2>4, <2>5, RoomFrame
  <1>3. CASE DeleteFromMap(r) \/ DeleteFromStore(r)
    <2>1. /\ UNCHANGED <<sweeper, starts, parts>> /\ current' \in {current, NoRoom}
          /\ \/ /\ rooms[r].close = "closing" /\ rooms[r].todo = {}
                /\ rooms' = [rooms EXCEPT ![r].close = "store"]
             \/ /\ rooms[r].close = "store"
                /\ rooms' = [rooms EXCEPT ![r].close = "done"]
      BY <1>3 DEF DeleteFromMap, DeleteFromStore, threadVars
    <2>2. /\ rooms' \in [RoomIds -> RoomRecord]
          /\ \A q \in RoomIds : /\ rooms'[q].members = rooms[q].members
                                /\ rooms'[q].holds = rooms[q].holds
                                /\ rooms'[q].created = rooms[q].created
                                /\ rooms'[q].closed = rooms[q].closed
                                /\ rooms'[q].todo = rooms[q].todo
                                /\ q # r => rooms'[q] = rooms[q]
          /\ rooms'[r].close \in {"store", "done"}
      <3>1. PICK c \in {"store", "done"} : rooms' = [rooms EXCEPT ![r].close = c]
        BY <2>1
      <3>2. QED
        BY <1>t, <3>1 DEF RoomRecord
    <2>3. /\ rooms[r].closed
          /\ \A i \in Identities : rooms[r].members[i] # NoSession => parts[rooms[r].members[i]].stage # "open"
      BY <1>c, <2>1 DEF ClosingOK
    <2>a. UNCHANGED parts
      BY <2>1
    <2>4. ClosingOK'
      BY <1>c, <2>2, <2>3, <2>a DEF ClosingOK
    <2>5. current' \in MaybeRoom
      BY <1>t, <2>1 DEF MaybeRoom
    <2>6. QED
      BY <1>t, <2>1, <2>2, <2>4, <2>5, RoomFrame
  <1>4. QED
    BY <1>1, <1>2, <1>3 DEF RoomStep

(* StartSession, up to the room. *)
LEMMA FindRoomInv ==
    ASSUME RoomsInv, NEW s \in Sessions,
           FindRoom(s) \/ Allocate(s) \/ (HoldRoom(s) /\ rooms[starts[s].seen].closed)
                       \/ (Insert(s) /\ current # starts[s].seen)
    PROVE  RoomsInv'
  <1>t. /\ starts \in [Sessions -> StartRecord] /\ current \in MaybeRoom /\ parts \in [Sessions -> PartRecord]
    BY DEF RoomsInv, RoomTypes
  <1>s. StartOK(s) /\ CreatedOK
    BY DEF RoomsInv
  <1>1. UNCHANGED <<current, sweeper, rooms, parts>>
    BY DEF FindRoom, Allocate, HoldRoom, Insert, threadVars
  <1> DEFINE v == starts'[s]
  <1>2. /\ v \in StartRecord /\ starts' = [starts EXCEPT ![s] = v] /\ v.room = starts[s].room
        /\ v.pc \in Finding /\ starts[s].pc \in Finding
        /\ v.then \in {"allocate", "insert"}
        /\ v.pc = "hold" => v.seen # NoRoom
        /\ v.seen # NoRoom => rooms[v.seen].created
    <2>1. CASE FindRoom(s)
      BY <1>t, <1>s, <2>1 DEF FindRoom, StartRecord, StartOK, Finding, CreatedOK
    <2>2. CASE Allocate(s)
      BY <1>t, <1>s, <2>2 DEF Allocate, StartRecord, StartOK, Finding, CreatedOK
    <2>3. CASE HoldRoom(s) /\ rooms[starts[s].seen].closed
      <3>1. starts[s].pc = "hold" /\ starts' = [starts EXCEPT ![s].pc = starts[s].then]
        BY <2>3 DEF HoldRoom, Goto
      <3>2. starts[s].then \in {"allocate", "insert"}
        BY <1>s, <3>1 DEF StartOK, Finding
      <3>3. QED
        BY <1>t, <1>s, <3>1, <3>2 DEF StartRecord, StartOK, Finding, CreatedOK
    <2>4. CASE Insert(s) /\ current # starts[s].seen
      <3> DEFINE c == IF current = NoRoom THEN "insert" ELSE "hold"
      <3>1. starts[s].pc = "insert" /\ starts' = [starts EXCEPT ![s].seen = current, ![s].pc = c]
        BY <2>4 DEF Insert
      <3>2. QED
        BY <1>t, <1>s, <3>1 DEF StartRecord, StartOK, Finding, CreatedOK
    <2>5. QED
      BY <2>1, <2>2, <2>3, <2>4
  <1>3. starts[s].room = NoRoom
    BY <1>s, <1>2 DEF StartOK
  <1>4. StartOK(s)'
    BY <1>2, <1>3 DEF StartOK, Finding, Joining, InRoom
  <1>5. v.pc \notin InRoom /\ starts[s].pc \notin InRoom
    BY <1>2 DEF Finding, InRoom
  <1> HIDE DEF v
  <1>6. QED
    BY <1>t, <1>1, <1>2, <1>3, <1>4, <1>5, StartFrame

(* A session goes on in room r, and rooms are created or held. *)
LEMMA SessionFrame ==
    ASSUME RoomsInv, UNCHANGED <<sweeper, parts>>,
           NEW s \in Sessions, NEW r \in RoomIds,
           starts' \in [Sessions -> StartRecord], rooms' \in [RoomIds -> RoomRecord],
           current' \in MaybeRoom, current' # NoRoom => rooms'[current'].created,
           \A t \in Sessions \ {s} : starts'[t] = starts[t],
           starts'[s].seen = starts[s].seen, starts'[s].room = r, rooms'[r].created,
           StartOK(s)',
           starts'[s].pc \in InRoom <=> starts[s].pc \in InRoom,
           starts[s].pc \in InRoom => starts[s].room = r,
           \A q \in RoomIds : /\ rooms'[q].members = rooms[q].members
                              /\ rooms[q].created => rooms'[q].created
                              /\ rooms'[q].closed = rooms[q].closed
                              /\ rooms'[q].close = rooms[q].close
                              /\ rooms'[q].todo = rooms[q].todo,
           HoldsOK'
    PROVE  RoomsInv'
  <1>t. starts \in [Sessions -> StartRecord] /\ rooms \in [RoomIds -> RoomRecord]
    BY DEF RoomsInv, RoomTypes
  <1>1. RoomTypes'
    BY DEF RoomsInv, RoomTypes
  <1>2. (\A t \in Sessions : StartOK(t))'
    <2>1. \A t \in Sessions \ {s} : StartOK(t)'
      BY DEF StartOK, RoomsInv
    <2>2. QED
      BY <2>1
  <1>3. MembersOK'
    <2>1. \A q \in RoomIds, i \in Identities : rooms[q].members[i] \in MaybeSession
      BY <1>t DEF RoomRecord
    <2>2. QED
      BY <2>1 DEF RoomsInv, MembersOK, MaybeSession
  <1>4. LiveStaysMember'
    <2> SUFFICES ASSUME NEW t \in Sessions, Joined(t)', parts'[t].stage = "open"
                 PROVE  rooms'[starts'[t].room].members[Identity[t]] = t
      BY DEF LiveStaysMember
    <2>1. Joined(t) /\ starts'[t].room = starts[t].room /\ starts[t].room \in RoomIds
      BY <1>t DEF Joined, StartRecord, MaybeRoom, InRoom, RoomIds, NoRoom
    <2>2. QED
      BY <2>1 DEF RoomsInv, LiveStaysMember
  <1>5. ClosingOK'
    BY DEF RoomsInv, ClosingOK
  <1>6. CreatedOK'
    <2>1. \A t \in Sessions : starts[t].seen \in MaybeRoom /\ starts[t].room \in MaybeRoom
      BY <1>t DEF StartRecord
    <2>2. QED
      BY <2>1 DEF RoomsInv, CreatedOK, MaybeRoom
  <1>7. QED
    BY <1>1, <1>2, <1>3, <1>4, <1>5, <1>6 DEF RoomsInv

(* Hold of a room counts the session, unless the room was closed. *)
LEMMA HoldInv ==
    ASSUME RoomsInv, NEW s \in Sessions, HoldNewRoom(s) \/ (HoldRoom(s) /\ ~rooms[starts[s].seen].closed)
    PROVE  RoomsInv'
  <1>t. /\ starts \in [Sessions -> StartRecord] /\ rooms \in [RoomIds -> RoomRecord]
        /\ current \in MaybeRoom
    BY DEF RoomsInv, RoomTypes
  <1>s. StartOK(s) /\ CreatedOK
    BY DEF RoomsInv
  <1>1. UNCHANGED <<current, sweeper, parts>>
    BY DEF HoldRoom, HoldNewRoom, threadVars
  <1> DEFINE r == starts'[s].room
  <1>2. /\ starts' \in [Sessions -> StartRecord]
        /\ starts'[s].pc = "lookup" /\ starts'[s].seen = starts[s].seen
        /\ \A t \in Sessions \ {s} : starts'[t] = starts[t]
        /\ r \in RoomIds /\ rooms[r].created
        /\ \/ starts[s].pc = "hold" /\ starts[s].room = NoRoom
           \/ starts[s].pc = "holdnew" /\ starts[s].room = r
        /\ IF rooms[r].closed THEN UNCHANGED rooms ELSE rooms' = [rooms EXCEPT ![r].holds = @ + 1]
    <2>1. CASE HoldNewRoom(s)
      BY <1>t, <1>s, <2>1 DEF HoldNewRoom, Goto, StartRecord, StartOK, Joining, CreatedOK, MaybeRoom
    <2>2. CASE HoldRoom(s) /\ ~rooms[starts[s].seen].closed
      BY <1>t, <1>s, <2>2 DEF HoldRoom, StartRecord, StartOK, Finding, Joining, CreatedOK, MaybeRoom
    <2>3. QED
      BY <2>1, <2>2
  <1> HIDE DEF r
  <1>3. /\ rooms' \in [RoomIds -> RoomRecord]
        /\ \A q \in RoomIds : /\ rooms'[q].members = rooms[q].members
                              /\ rooms'[q].created = rooms[q].created
                              /\ rooms'[q].closed = rooms[q].closed
                              /\ rooms'[q].close = rooms[q].close
                              /\ rooms'[q].todo = rooms[q].todo
                              /\ q # r => rooms'[q].holds = rooms[q].holds
        /\ ~rooms[r].closed => rooms'[r].holds = rooms[r].holds + 1
    <2>1. CASE rooms[r].closed
      BY <1>t, <1>2, <2>1
    <2>2. CASE ~rooms[r].closed
      <3>1. rooms' = [rooms EXCEPT ![r].holds = @ + 1]
        BY <1>2, <2>2
      <3>2. QED
        BY <1>t, <1>2, <3>1 DEF RoomRecord
    <2>3. QED
      BY <2>1, <2>2
  <1>4. StartOK(s)'
    BY <1>2 DEF StartOK, Finding, r, NoRoom, RoomIds
  <1>5. HoldsOK'
    <2> SUFFICES ASSUME NEW q \in RoomIds, ~rooms'[q].closed
                 PROVE  rooms'[q].holds = Cardinality(Holders(q)')
      BY DEF HoldsOK, Holders
    <2>0. q # NoRoom /\ rooms[q].holds = Cardinality(Holders(q))
      BY <1>3 DEF RoomsInv, HoldsOK, RoomIds, NoRoom
    <2>1. CASE q # r
      <3>1. Holders(q)' = Holders(q)
        BY <1>2, <2>0, <2>1 DEF Holders, Holding, r
      <3>2. QED
        BY <1>3, <2>0, <2>1, <3>1
    <2>2. CASE q = r
      <3>1. Holders(q)' = Holders(q) \union {s} /\ s \notin Holders(q)
        BY <1>2, <2>0, <2>2 DEF Holders, Holding, r
      <3>2. IsFiniteSet(Holders(q))
        BY FS_Subset DEF Holders
      <3>3. Cardinality(Holders(q)') = Cardinality(Holders(q)) + 1
        BY <3>1, <3>2, FS_AddElement
      <3>4. QED
        BY <1>3, <2>0, <2>2, <3>3
    <2>3. QED
      BY <2>1, <2>2
  <1>6. starts'[s].pc \notin InRoom /\ starts[s].pc \notin InRoom
    BY <1>2 DEF InRoom
  <1>7. current # NoRoom => rooms'[current].created
    BY <1>t, <1>s, <1>3 DEF CreatedOK, MaybeRoom
  <1>8. starts'[s].room = r
    BY DEF r
  <1>9. QED
    BY <1>t, <1>1, <1>2, <1>3, <1>4, <1>5, <1>6, <1>7, <1>8, SessionFrame

(* Release of the hold, when the session returns. *)
LEMMA ReleaseInv ==
    ASSUME RoomsInv, NEW s \in Sessions, Release(s)
    PROVE  RoomsInv'
  <1>t. /\ starts \in [Sessions -> StartRecord] /\ rooms \in [RoomIds -> RoomRecord]
        /\ current \in MaybeRoom
    BY DEF RoomsInv, RoomTypes
  <1>s. StartOK(s) /\ CreatedOK
    BY DEF RoomsInv
  <1> DEFINE r == starts[s].room
  <1>1. /\ UNCHANGED <<current, sweeper, parts>> /\ starts[s].pc = "release"
        /\ starts' = [starts EXCEPT ![s].pc = "done"]
        /\ rooms' = [rooms EXCEPT ![r].holds = @ - 1]
    BY DEF Release, Goto, threadVars
  <1>2. r \in RoomIds /\ rooms[r].created
    BY <1>t, <1>s, <1>1 DEF StartOK, InRoom, StartRecord, MaybeRoom, CreatedOK
  <1>3. /\ starts' \in [Sessions -> StartRecord] /\ starts'[s].pc = "done"
        /\ starts'[s].seen = starts[s].seen /\ starts'[s].room = r
        /\ \A t \in Sessions \ {s} : starts'[t] = starts[t]
    BY <1>t, <1>1 DEF StartRecord, InRoom
  <1> HIDE DEF r
  <1>4. /\ rooms' \in [RoomIds -> RoomRecord]
        /\ \A q \in RoomIds : /\ rooms'[q].members = rooms[q].members
                              /\ rooms'[q].created = rooms[q].created
                              /\ rooms'[q].closed = rooms[q].closed
                              /\ rooms'[q].close = rooms[q].close
                              /\ rooms'[q].todo = rooms[q].todo
                              /\ q # r => rooms'[q].holds = rooms[q].holds
        /\ rooms'[r].holds = rooms[r].holds - 1
    BY <1>t, <1>1, <1>2 DEF RoomRecord
  <1>5. StartOK(s)'
    BY <1>2, <1>3 DEF StartOK, Finding, NoRoom, RoomIds
  <1>6. HoldsOK'
    <2> SUFFICES ASSUME NEW q \in RoomIds, ~rooms'[q].closed
                 PROVE  rooms'[q].holds = Cardinality(Holders(q)')
      BY DEF HoldsOK, Holders
    <2>0. q # NoRoom /\ rooms[q].holds = Cardinality(Holders(q))
      BY <1>4 DEF RoomsInv, HoldsOK, RoomIds, NoRoom
    <2>1. CASE q # r
      <3>1. Holders(q)' = Holders(q)
        BY <1>3, <2>0, <2>1 DEF Holders, Holding, r
      <3>2. QED
        BY <1>4, <2>0, <2>1, <3>1
    <2>2. CASE q = r
      <3>1. Holders(q)' = Holders(q) \ {s} /\ s \in Holders(q)
        BY <1>1, <1>3, <2>0, <2>2 DEF Holders, Holding, r
      <3>2. IsFiniteSet(Holders(q))
        BY FS_Subset DEF Holders
      <3>3. Cardinality(Holders(q)') = Cardinality(Holders(q)) - 1
        BY <3>1, <3>2, FS_RemoveElement
      <3>4. QED
        BY <1>4, <2>0, <2>2, <3>3
    <2>3. QED
      BY <2>1, <2>2
  <1>7. starts'[s].pc \in InRoom /\ starts[s].pc \in InRoom
    BY <1>1, <1>3 DEF InRoom
  <1>8. current # NoRoom => rooms'[current].created
    BY <1>t, <1>s, <1>4 DEF CreatedOK, MaybeRoom
  <1>9. starts[s].room = r
    BY DEF r
  <1>10. QED
    BY <1>t, <1>1, <1>2, <1>3, <1>4, <1>5, <1>6, <1>7, <1>8, <1>9, SessionFrame

(* A new room comes into the map; it is held afterwards. *)
LEMMA CreateInv ==
    ASSUME RoomsInv, NEW s \in Sessions, Insert(s), current = starts[s].seen
    PROVE  RoomsInv'
  <1>t. /\ starts \in [Sessions -> StartRecord] /\ rooms \in [RoomIds -> RoomRecord]
        /\ current \in MaybeRoom
    BY DEF RoomsInv, RoomTypes
  <1>s. StartOK(s) /\ CreatedOK
    BY DEF RoomsInv
  <1>1. PICK r \in RoomIds :
           /\ rooms' = [rooms EXCEPT ![r].created = TRUE] /\ current' = r
           /\ starts' = [starts EXCEPT ![s].pc = "holdnew", ![s].room = r]
    BY DEF Insert
  <1>2. UNCHANGED <<sweeper, parts>> /\ starts[s].pc = "insert" /\ starts[s].room = NoRoom
    BY <1>s DEF Insert, threadVars, StartOK, Finding
  <1>3. /\ starts' \in [Sessions -> StartRecord] /\ starts'[s].pc = "holdnew"
        /\ starts'[s].seen = starts[s].seen /\ starts'[s].room = r
        /\ \A t \in Sessions \ {s} : starts'[t] = starts[t]
    BY <1>t, <1>1 DEF StartRecord, Joining, MaybeRoom
  <1>4. /\ rooms' \in [RoomIds -> RoomRecord] /\ rooms'[r].created
        /\ \A q \in RoomIds : /\ rooms'[q].members = rooms[q].members
                              /\ rooms[q].created => rooms'[q].created
                              /\ rooms'[q].closed = rooms[q].closed
                              /\ rooms'[q].close = rooms[q].close
                              /\ rooms'[q].todo = rooms[q].todo
                              /\ rooms'[q].holds = rooms[q].holds
    BY <1>t, <1>1, ZenonT(60) DEF RoomRecord
  <1>5. StartOK(s)'
    BY <1>3 DEF StartOK, Finding, NoRoom, RoomIds
  <1>6. HoldsOK'
    BY <1>2, <1>3, <1>4, HoldsFrame DEF RoomsInv
  <1>7. starts'[s].pc \notin InRoom /\ starts[s].pc \notin InRoom
    BY <1>2, <1>3 DEF InRoom
  <1>8. current' \in MaybeRoom /\ rooms'[current'].created
    BY <1>1, <1>4 DEF MaybeRoom
  <1>9. QED
    BY <1>2, <1>3, <1>4, <1>5, <1>6, <1>7, <1>8, SessionFrame

(* StartSession in its room, but for Join: a session that returns without     *)
(* having joined waited for its own participant, which it had closed.         *)
LEMMA SessionInv ==
    ASSUME RoomsInv, NEW s \in Sessions,
           FindParticipant(s) \/ AwaitClose(s) \/ StoreParticipant(s) \/ AddOnClose(s)
    PROVE  RoomsInv'
  <1>t. /\ starts \in [Sessions -> StartRecord] /\ rooms \in [RoomIds -> RoomRecord]
        /\ parts \in [Sessions -> PartRecord]
    BY DEF RoomsInv, RoomTypes
  <1>s. StartOK(s) /\ CreatedOK /\ MembersOK
    BY DEF RoomsInv
  <1>r. starts[s].pc \in Joining \union InRoom => starts[s].room \in RoomIds
    BY <1>t, <1>s DEF StartOK, StartRecord, MaybeRoom
  <1>i. Identity[s] \in Identities
    BY DEF Identities
  <1>1. /\ UNCHANGED <<current, sweeper, rooms>> /\ parts' \in [Sessions -> PartRecord]
        /\ \A t \in Sessions : parts'[t].stage = parts[t].stage
    <2>1. CASE FindParticipant(s) \/ AwaitClose(s) \/ StoreParticipant(s)
      BY <1>t, <2>1 DEF FindParticipant, AwaitClose, StoreParticipant, threadVars
    <2>2. CASE AddOnClose(s)
      <3>1. UNCHANGED parts \/ parts' = [parts EXCEPT ![s].hook = TRUE]
        BY <2>2 DEF AddOnClose
      <3>2. UNCHANGED <<current, sweeper, rooms>>
        BY <2>2 DEF AddOnClose, threadVars
      <3>3. QED
        <4>1. CASE UNCHANGED parts
          BY <1>t, <3>2, <4>1
        <4>2. CASE parts' = [parts EXCEPT ![s].hook = TRUE]
          BY <1>t, <3>2, <4>2 DEF PartRecord
        <4>3. QED
          BY <3>1, <4>1, <4>2
    <2>3. QED
      BY <2>1, <2>2
  <1> DEFINE v == starts'[s]
  <1>2. /\ v \in StartRecord /\ starts' = [starts EXCEPT ![s] = v]
        /\ v.room = starts[s].room /\ v.seen = starts[s].seen
        /\ v.pc \in (Joining \union InRoom) \ {"holdnew", "done"}
        /\ starts[s].pc \in (Joining \union InRoom) \ {"holdnew", "done"}
        /\ v.pc # "wait" /\ (v.pc = "replace" => v.then \in Sessions \ {s})
        /\ v.pc \in InRoom => starts[s].pc \in InRoom \/ parts[s].stage # "open"
        /\ starts[s].pc \in InRoom => v.pc \in InRoom
    <2>1. CASE FindParticipant(s)
      <3> DEFINE old == rooms[starts[s].room].members[Identity[s]]
                 c   == IF old = NoSession THEN "join" ELSE "replace"
      <3>1. starts[s].pc = "lookup" /\ starts' = [starts EXCEPT ![s].pc = c, ![s].then = old]
        BY <2>1 DEF FindParticipant
      <3>2. old \in MaybeSession
        BY <1>t, <1>r, <1>i, <3>1 DEF RoomRecord, Joining
      <3>3. old # s
        BY <1>r, <1>i, <1>s, <3>1 DEF MembersOK, InRoom, Joining
      <3>4. c = "replace" => old \in Sessions \ {s}
        BY <3>2, <3>3 DEF MaybeSession
      <3>5. c \in {"join", "replace"}
        OBVIOUS
      <3> HIDE DEF old, c
      <3>6. QED
        BY <1>t, <3>1, <3>2, <3>4, <3>5 DEF StartRecord, Joining, InRoom
    <2>2. CASE AwaitClose(s)
      <3> DEFINE c == IF starts[s].then = s THEN "release" ELSE "join"
      <3>1. starts[s].pc = "wait" /\ starts' = [starts EXCEPT ![s].pc = c]
        BY <2>2 DEF AwaitClose, Goto
      <3>2. starts[s].then = s => parts[s].stage # "open"
        BY <1>s, <3>1 DEF StartOK
      <3>3. QED
        BY <1>t, <3>1, <3>2 DEF StartRecord, Joining, InRoom
    <2>3. CASE StoreParticipant(s)
      BY <1>t, <2>3 DEF StoreParticipant, Goto, StartRecord, Joining, InRoom
    <2>4. CASE AddOnClose(s)
      <3>1. starts[s].pc = "hook" /\ starts' = [starts EXCEPT ![s].pc = "release"]
        BY <2>4 DEF AddOnClose, Goto
      <3>2. QED
        BY <1>t, <3>1 DEF StartRecord, Joining, InRoom
    <2>5. QED
      BY <2>1, <2>2, <2>3, <2>4
  <1>3. StartOK(s)'
    BY <1>s, <1>2 DEF StartOK, Finding, Joining, InRoom
  <1>4. v.seen # NoRoom => rooms[v.seen].created
    BY <1>s, <1>2 DEF CreatedOK
  <1> HIDE DEF v
  <1>5. QED
    BY <1>1, <1>2, <1>3, <1>4, StartFrame

(* Join: the place is free and the room is open, or the participant is        *)
(* closed.                                                                    *)
LEMMA JoinInv ==
    ASSUME RoomsInv, NEW s \in Sessions, Join(s)
    PROVE  RoomsInv'
  <1>t. /\ starts \in [Sessions -> StartRecord] /\ rooms \in [RoomIds -> RoomRecord]
        /\ parts \in [Sessions -> PartRecord] /\ current \in MaybeRoom
    BY DEF RoomsInv, RoomTypes
  <1>s. StartOK(s) /\ CreatedOK /\ MembersOK /\ ClosingOK
    BY DEF RoomsInv
  <1> DEFINE r == starts[s].room
  <1>1. UNCHANGED <<current, sweeper>> /\ starts[s].pc = "join"
    BY DEF Join, threadVars
  <1>r. r \in RoomIds /\ r # NoRoom
    BY <1>t, <1>s, <1>1 DEF StartOK, StartRecord, MaybeRoom, Joining, RoomIds, NoRoom
  <1>i. Identity[s] \in Identities
    BY DEF Identities
  <1>m. \A q \in RoomIds, i \in Identities : rooms[q].members[i] \in MaybeSession
    BY <1>t DEF RoomRecord
  <1>n. \A t \in Sessions : starts[t].seen \in MaybeRoom /\ starts[t].room \in MaybeRoom
    BY <1>t DEF StartRecord
  <1>2. CASE CanJoin(s)
    <2>1. /\ rooms' = [rooms EXCEPT ![r].members[Identity[s]] = s] /\ UNCHANGED parts
          /\ starts' = [starts EXCEPT ![s].pc = "stored"]
      BY <1>2 DEF Join, Goto
    <2>2. ~rooms[r].closed /\ rooms[r].members[Identity[s]] = NoSession
      BY <1>2 DEF CanJoin
    <2>4. /\ starts' \in [Sessions -> StartRecord] /\ starts'[s].pc = "stored" /\ starts'[s].room = r
          /\ starts'[s].seen = starts[s].seen
          /\ \A t \in Sessions \ {s} : starts'[t] = starts[t]
      BY <1>t, <2>1 DEF StartRecord, InRoom
    <2> HIDE DEF r
    <2>3. /\ rooms' \in [RoomIds -> RoomRecord]
          /\ \A q \in RoomIds : /\ rooms'[q].holds = rooms[q].holds
                                /\ rooms'[q].created = rooms[q].created
                                /\ rooms'[q].closed = rooms[q].closed
                                /\ rooms'[q].close = rooms[q].close
                                /\ rooms'[q].todo = rooms[q].todo
                                /\ q # r => rooms'[q].members = rooms[q].members
          /\ \A i \in Identities : rooms'[r].members[i] = IF i = Identity[s] THEN s ELSE rooms[r].members[i]
      <3>1. rooms' \in [RoomIds -> RoomRecord]
        BY <1>t, <1>i, <1>r, <2>1, ZenonT(60) DEF RoomRecord, MaybeSession
      <3>2. QED
        BY <1>t, <1>i, <1>r, <2>1, <3>1 DEF RoomRecord
    <2>5. RoomTypes'
      BY <1>1, <1>t, <2>1, <2>3, <2>4 DEF RoomsInv, RoomTypes
    <2>6. (\A t \in Sessions : StartOK(t))'
      <3>1. StartOK(s)'
        BY <1>r, <2>4 DEF StartOK, Finding
      <3>2. \A t \in Sessions \ {s} : StartOK(t)'
        BY <2>1, <2>4 DEF StartOK, RoomsInv
      <3>3. QED
        BY <3>1, <3>2
    <2>7. MembersOK'
      <3> SUFFICES ASSUME NEW q \in RoomIds, NEW i \in Identities, rooms'[q].members[i] # NoSession
                   PROVE  LET t == rooms'[q].members[i]
                          IN Identity[t] = i /\ starts'[t].room = q /\ starts'[t].pc \in InRoom
        BY DEF MembersOK
      <3>1. CASE q = r /\ i = Identity[s]
        BY <2>3, <2>4, <3>1 DEF InRoom
      <3>2. CASE ~(q = r /\ i = Identity[s])
        <4>1. rooms'[q].members[i] = rooms[q].members[i]
          BY <2>3, <3>2
        <4>2. rooms[q].members[i] # s /\ rooms[q].members[i] \in Sessions
          BY <1>1, <1>m, <1>s, <4>1 DEF MembersOK, InRoom, MaybeSession
        <4>3. QED
          BY <1>s, <2>4, <4>1, <4>2 DEF MembersOK
      <3>3. QED
        BY <3>1, <3>2
    <2>8. LiveStaysMember'
      <3> SUFFICES ASSUME NEW t \in Sessions, Joined(t)', parts'[t].stage = "open"
                   PROVE  rooms'[starts'[t].room].members[Identity[t]] = t
        BY DEF LiveStaysMember
      <3>1. CASE t = s
        BY <1>i, <2>3, <2>4, <3>1
      <3>2. CASE t # s
        <4>1. Joined(t) /\ starts'[t] = starts[t] /\ starts[t].room \in RoomIds /\ parts[t].stage = "open"
          BY <1>n, <2>1, <2>4, <3>2 DEF Joined, MaybeRoom
        <4>2. rooms[starts[t].room].members[Identity[t]] = t /\ Identity[t] \in Identities
          BY <4>1 DEF RoomsInv, LiveStaysMember, Identities
        <4>3. t # NoSession
          OBVIOUS
        <4>4. QED
          BY <2>2, <2>3, <4>1, <4>2, <4>3
      <3>3. QED
        BY <3>1, <3>2
    <2>9. ClosingOK'
      <3>1. rooms[r].close = "none"
        BY <1>r, <1>s, <2>2 DEF ClosingOK
      <3>2. \A q \in RoomIds : rooms'[q].close # "none" => q # r
        BY <2>3, <3>1
      <3>3. UNCHANGED parts
        BY <2>1
      <3>4. QED
        BY <1>s, <2>3, <3>2, <3>3 DEF ClosingOK
    <2>10. CreatedOK'
      BY <1>1, <1>n, <1>t, <1>s, <2>3, <2>4, <1>r DEF CreatedOK, MaybeRoom, r
    <2>11. HoldsOK'
      BY <1>1, <2>3, <2>4, HoldsFrame DEF RoomsInv, r
    <2>12. QED
      BY <2>5, <2>6, <2>7, <2>8, <2>9, <2>10, <2>11 DEF RoomsInv
  <1>3. CASE ~CanJoin(s)
    <2>1. /\ UNCHANGED rooms /\ parts' = Closing(parts, s)
          /\ starts' = [starts EXCEPT ![s].pc = "wait", ![s].then = s]
      BY <1>3 DEF Join
    <2>2. /\ starts' \in [Sessions -> StartRecord] /\ starts'[s].pc = "wait" /\ starts'[s].then = s
          /\ \A t \in Sessions \ {s} : starts'[t] = starts[t]
          /\ \A t \in Sessions : starts'[t].room = starts[t].room /\ starts'[t].seen = starts[t].seen
      BY <1>t, <2>1 DEF StartRecord, Joining, MaybeSession
    <2>3. /\ parts' \in [Sessions -> PartRecord] /\ parts'[s].stage # "open"
          /\ \A t \in Sessions : parts'[t].stage = "open" => parts[t].stage = "open"
      BY <1>t, <2>1, ClosingPart
    <2>4. RoomTypes'
      BY <1>1, <2>1, <2>2, <2>3 DEF RoomsInv, RoomTypes
    <2>5. (\A t \in Sessions : StartOK(t))'
      <3>1. StartOK(s)'
        BY <1>r, <2>2, <2>3 DEF StartOK, Finding, MaybeSession
      <3>2. \A t \in Sessions \ {s} : StartOK(t)'
        BY <2>2, <2>3 DEF StartOK, RoomsInv
      <3>3. QED
        BY <3>1, <3>2
    <2>6. MembersOK'
      <3>1. \A q \in RoomIds, i \in Identities : rooms[q].members[i] # s
        BY <1>1, <1>s DEF MembersOK, InRoom
      <3>2. QED
        BY <1>m, <1>s, <2>1, <2>2, <3>1 DEF MembersOK, MaybeSession
    <2>7. LiveStaysMember'
      <3>1. \A t \in Sessions : Joined(t)' => t # s /\ Joined(t)
        BY <2>2 DEF Joined
      <3>2. QED
        BY <2>1, <2>2, <2>3, <3>1 DEF RoomsInv, LiveStaysMember
    <2>8. ClosingOK'
      BY <1>m, <1>s, <2>1, <2>3 DEF ClosingOK, MaybeSession
    <2>9. CreatedOK'
      BY <1>1, <1>s, <2>1, <2>2 DEF CreatedOK
    <2>10. HoldsOK'
      BY <1>1, <2>1, <2>2, HoldsFrame DEF RoomsInv
    <2>11. QED
      BY <2>4, <2>5, <2>6, <2>7, <2>8, <2>9, <2>10 DEF RoomsInv
  <1>4. QED
    BY <1>2, <1>3

-----------------------------------------------------------------------------
(* The theorems.                                                            *)

(* Every step of the rooms preserves the inductive invariant. *)
LEMMA RoomsStepInv == RoomsInv /\ [RoomsNext]_roomVars => RoomsInv'
  <1> SUFFICES ASSUME RoomsInv, [RoomsNext]_roomVars PROVE RoomsInv'
    OBVIOUS
  <1>1. CASE UNCHANGED roomVars
    <2>1. UNCHANGED <<current, sweeper, rooms, starts, parts>> /\ parts \in [Sessions -> PartRecord]
      BY <1>1 DEF roomVars, threadVars, RoomsInv, RoomTypes
    <2>2. QED
      BY <2>1, PartsFrame
  <1>2. ASSUME NEW s \in Sessions, StartSession(s) PROVE RoomsInv'
    <2>1. CASE HoldRoom(s)
      BY <2>1, FindRoomInv, HoldInv
    <2>2. CASE Insert(s)
      BY <2>2, FindRoomInv, CreateInv
    <2>3. CASE Allocate(s) \/ HoldNewRoom(s) \/ ReplaceParticipant(s) \/ Join(s) \/ Release(s)
      BY <2>3, FindRoomInv, HoldInv, RemoveInv, JoinInv, ReleaseInv
    <2>4. CASE FindParticipant(s) \/ AwaitClose(s) \/ StoreParticipant(s) \/ AddOnClose(s)
      BY <2>4, SessionInv
    <2>5. QED
      BY <1>2, <2>1, <2>2, <2>3, <2>4 DEF StartSession
  <1>3. ASSUME NEW s \in Sessions,
               \/ ParticipantStep(s) \/ StoreChange(s) \/ Activate(s) \/ Disconnect(s)
               \/ RemoveDisconnected(s) \/ Leave(s) \/ FindRoom(s)
        PROVE  RoomsInv'
    BY <1>3, ParticipantInv, RemoveInv, FindRoomInv
  <1>4. CASE \E r \in RoomIds : RoomStep(r)
    BY <1>4, RoomCloseInv
  <1>5. CASE Sweep \/ SweepClose \/ DeleteRoom
    BY <1>5, SweepInv
  <1>6. QED
    BY <1>1, <1>2, <1>3, <1>4, <1>5 DEF RoomsNext, RoomThreads

(* What the inductive invariant says of the properties of the runs. *)
LEMMA RoomsInvImplies == RoomsInv => RoomsTypeOK /\ LiveStaysMember /\ NobodyStaysInClosedRoom
  <1> SUFFICES ASSUME RoomsInv PROVE RoomsTypeOK /\ NobodyStaysInClosedRoom
    BY DEF RoomsInv
  <1>1. RoomsTypeOK
    BY DEF RoomsInv, RoomsTypeOK, RoomTypes, PartRecord, MaybeRoom, CreatedOK, HoldsOK, Holders
  <1>2. NobodyStaysInClosedRoom
    BY DEF RoomsInv, NobodyStaysInClosedRoom, ClosingOK, Members
  <1>3. QED
    BY <1>1, <1>2

(* The inductive invariant holds throughout. *)
THEOREM RoomsInvariant == RoomsSpec => []RoomsInv
  BY RoomsInitInv, RoomsStepInv, PTL DEF RoomsSpec

(* Every open room is held exactly by the sessions that StartSession has not  *)
(* returned for: the sweep (CloseIfEmpty, which looks at holds) never takes a *)
(* room from under a session that is being started in it.                     *)
THEOREM RoomsAreHeld == RoomsSpec => []RoomsTypeOK
  BY RoomsInvariant, RoomsInvImplies, PTL

(* A session that joined and was not closed stays a member of its room,       *)
(* however late the removals of earlier sessions of its identity come         *)
(* (RemoveParticipant compares the session, not the identity).                *)
THEOREM LiveSessionStays == RoomsSpec => []LiveStaysMember
  BY RoomsInvariant, RoomsInvImplies, PTL

(* Room.Close leaves nobody behind: a session that joins while the room       *)
(* closes is refused, or it is in the list of those that are closed.          *)
THEOREM ClosedRoomIsEmpty == RoomsSpec => []NobodyStaysInClosedRoom
  BY RoomsInvariant, RoomsInvImplies, PTL

=============================================================================
