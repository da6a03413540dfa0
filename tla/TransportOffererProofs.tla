----------------------- MODULE TransportOffererProofs -----------------------
(***************************************************************************)
(* Proofs about the offering side of PCTransport: its safety properties    *)
(* hold for any number of media changes and ICE restarts, with and without *)
(* failures of the peer connection.                                        *)
(***************************************************************************)
EXTENDS TransportOfferer, TLAPS

(* What makes the properties inductive: a debounced negotiation is pending    *)
(* only while its timer or the callback of its timer is there, and the queue  *)
(* is stopped only after the transport has been closed.                       *)
DebounceHeld == debouncePending => armed \/ firing > 0

StoppedIsClosed == stopped => closed

Inv == TypeOK /\ DebounceHeld /\ StoppedIsClosed /\ NoLostNegotiation /\ StatesAgree
              /\ DeferredRestartRuns

Event == [kind : {"sendOffer", "answer", "gathered", "restart"}, id : Nat, ver : Nat]

In(q, k) == \E i \in 1 .. Len(q) : q[i].kind = k

-----------------------------------------------------------------------------
(* The queue. *)

(* Enqueue keeps what is queued and adds the event. *)
LEMMA InAppend ==
    ASSUME NEW q \in Seq(Event), NEW e \in Event, NEW k
    PROVE  /\ Append(q, e) \in Seq(Event)
           /\ In(q, k) => In(Append(q, e), k)
           /\ e.kind = k => In(Append(q, e), k)
<1>1. /\ Append(q, e) \in Seq(Event) /\ Len(Append(q, e)) = Len(q) + 1 /\ Len(q) \in Nat
      /\ \A i \in 1 .. Len(q) : Append(q, e)[i] = q[i]
      /\ Append(q, e)[Len(q) + 1] = e
  OBVIOUS
<1>2. ASSUME NEW i \in 1 .. Len(q), q[i].kind = k PROVE In(Append(q, e), k)
  <2>1. i \in 1 .. Len(Append(q, e)) /\ Append(q, e)[i].kind = k
    BY <1>1, <1>2
  <2> QED BY <2>1 DEF In
<1>3. ASSUME e.kind = k PROVE In(Append(q, e), k)
  <2>1. Len(q) + 1 \in 1 .. Len(Append(q, e)) /\ Append(q, e)[Len(q) + 1].kind = k
    BY <1>1, <1>3
  <2> QED BY <2>1 DEF In
<1> QED BY <1>1, <1>2, <1>3 DEF In

(* Taking an event of another kind off the queue keeps what is queued. *)
LEMMA InTail ==
    ASSUME NEW q \in Seq(Event), q # <<>>, NEW k
    PROVE  /\ Head(q) \in Event /\ Tail(q) \in Seq(Event)
           /\ Head(q).kind # k => (In(q, k) => In(Tail(q), k))
<1>1. /\ Head(q) \in Event /\ Tail(q) \in Seq(Event) /\ Head(q) = q[1]
      /\ Len(Tail(q)) = Len(q) - 1 /\ Len(q) \in Nat
      /\ \A i \in 1 .. Len(Tail(q)) : Tail(q)[i] = q[i + 1]
  OBVIOUS
<1>2. ASSUME Head(q).kind # k, NEW i \in 1 .. Len(q), q[i].kind = k PROVE In(Tail(q), k)
  <2>1. i # 1 BY <1>1, <1>2
  <2>2. i - 1 \in 1 .. Len(Tail(q)) /\ Tail(q)[i - 1] = q[i]
    <3>1. i - 1 \in 1 .. Len(Tail(q)) BY <1>1, <1>2, <2>1
    <3> QED BY <1>1, <3>1, <1>2
  <2> QED BY <2>2, <1>2 DEF In
<1> QED BY <1>1, <1>2 DEF In

LEMMA EnqueueKeeps ==
    ASSUME TypeOK, StoppedIsClosed, NEW e \in Event, Enqueue(e), NEW k
    PROVE  /\ events' \in Seq(Event)
           /\ Queued(k) => Queued(k)'
           /\ e.kind = k => Queued(k)' \/ closed
<1>1. events \in Seq(Event) BY DEF TypeOK, Event
<1>2. CASE stopped BY <1>1, <1>2 DEF Enqueue, Queued, StoppedIsClosed
<1>3. CASE ~stopped
  <2>1. events' = Append(events, e) BY <1>3 DEF Enqueue
  <2>2. /\ In(events, k) => In(events', k)
        /\ e.kind = k => In(events', k)
        /\ events' \in Seq(Event)
    BY <1>1, <2>1, InAppend
  <2> QED BY <2>2 DEF In, Queued
<1> QED BY <1>2, <1>3

LEMMA HandleKeeps ==
    ASSUME TypeOK, NEW h, Handle(h), NEW k
    PROVE  /\ events' \in Seq(Event)
           /\ Head(events) \in Event
           /\ h # k => (Queued(k) => Queued(k)')
<1>1. events \in Seq(Event) /\ events # <<>> /\ Head(events).kind = h /\ events' = Tail(events)
  BY DEF TypeOK, Event, Handle
<1>2. /\ Head(events) \in Event /\ Tail(events) \in Seq(Event)
      /\ h # k => (In(events, k) => In(events', k))
  BY <1>1, InTail
<1> QED BY <1>1, <1>2 DEF In, Queued

LEMMA PlainIsEvent == \A k \in {"sendOffer", "gathered", "restart"} :
                          Plain(k) \in Event /\ Plain(k).kind = k
  BY DEF Plain, Event

-----------------------------------------------------------------------------
(* What an offer, a restart and the sending of an offer do to the state. *)

Kinds == {"none", "remote", "retry"}

(* createAndSendOffer keeps the types, and either skips, or makes an offer of *)
(* all the media, or fails and says so.                                       *)
LEMMA CreateOfferResult ==
    ASSUME TypeOK, NEW ns \in Kinds, NEW sg \in {"stable", "offer"}, NEW r \in BOOLEAN,
           CreateOffer(ns, sg, r)
    PROVE  /\ nstate' \in Kinds /\ sending' \in {"no", "offer", "restart"}
           /\ sig' \in {"stable", "offer"} /\ local' \in Nat
           /\ gathering' \in {"new", "gathering", "complete"}
           /\ failed' \in BOOLEAN /\ restartAtNextOffer' \in BOOLEAN
           /\ gathering = "gathering" => gathering' = "gathering"
           /\ failed => failed'
           /\ \/ closed /\ nstate' = ns /\ local' = local
              \/ ns # "none" /\ nstate' = Skipped(ns) /\ sig' = sg /\ local' = local
              \/ ns = "none" /\ nstate' = "remote" /\ sig' = "offer" /\ local' = content
              \/ failed' /\ local' = local
<1>1. CASE (closed \/ ns # "none") /\ nstate' = (IF closed THEN ns ELSE Skipped(ns)) /\ sig' = sg
           /\ UNCHANGED <<sending, restartAtNextOffer, local, gathering, failed>>
  BY <1>1 DEF TypeOK, Kinds, Skipped
<1>2. CASE /\ ~closed /\ ns = "none" /\ restartAtNextOffer' = FALSE /\ nstate' = "remote"
           /\ sending' = (IF r \/ restartAtNextOffer THEN "restart" ELSE "offer")
           /\ sig' = "offer" /\ local' = content
           /\ gathering' = (IF (r \/ restartAtNextOffer) \/ gathering = "new"
                            THEN "gathering" ELSE gathering)
           /\ UNCHANGED failed
  <2>1. local' \in Nat BY <1>2, OffererAssumption DEF TypeOK
  <2> QED BY <1>2, <2>1 DEF TypeOK, Kinds
<1>3. CASE /\ ~closed /\ ns = "none" /\ restartAtNextOffer' = FALSE /\ nstate' = ns /\ sig' = sg
           /\ Fails /\ UNCHANGED <<sending, local, gathering>>
  <2>1. failed' = TRUE BY <1>3 DEF Fails
  <2> QED BY <1>3, <2>1 DEF TypeOK, Kinds
<1> QED BY <1>1, <1>2, <1>3 DEF CreateOffer

(* The offer goes to the client, or the failure is reported. *)
LEMMA OnOfferResult ==
    ASSUME TypeOK, OnOffer
    PROVE  /\ localOfferId' \in Nat /\ toClient' \in Seq(Descriptions) /\ failed' \in BOOLEAN
           /\ failed => failed'
<1>1. localOfferId' \in Nat /\ localOfferId' = localOfferId + 1 BY DEF TypeOK, OnOffer
<1>2. CASE /\ toClient' = Append(toClient, [id |-> localOfferId', ver |-> local])
           /\ UNCHANGED failed
  <2>1. [id |-> localOfferId', ver |-> local] \in Descriptions
    BY <1>1 DEF TypeOK, Descriptions
  <2> QED BY <1>1, <1>2, <2>1 DEF TypeOK
<1>3. CASE Fails /\ UNCHANGED toClient
  <2>1. failed' \in BOOLEAN /\ (failed => failed') BY <1>3 DEF Fails, TypeOK
  <2> QED BY <1>1, <1>3, <2>1 DEF TypeOK
<1> QED BY <1>2, <1>3 DEF OnOffer

(* doICERestart keeps the types; a restart that is put off waits for the end  *)
(* of gathering; the negotiation state stays with the signalling state.       *)
LEMMA DoICERestartResult ==
    ASSUME TypeOK, StatesAgree, NEW flag \in BOOLEAN, DoICERestart(flag)
    PROVE  /\ nstate' \in Kinds /\ sending' \in {"no", "offer", "restart"}
           /\ sig' \in {"stable", "offer"} /\ local' \in Nat
           /\ gathering' \in {"new", "gathering", "complete"}
           /\ failed' \in BOOLEAN /\ restartAtNextOffer' \in BOOLEAN
           /\ restartAfterGathering' \in BOOLEAN
           /\ localOfferId' \in Nat /\ toClient' \in Seq(Descriptions)
           /\ gathering = "gathering" => gathering' = "gathering"
           /\ restartAfterGathering' => flag \/ gathering' = "gathering"
           /\ failed => failed'
           /\ failed' \/ closed \/ (nstate' = "none" <=> sig' = "stable")
           /\ \/ closed \/ failed' \/ local' = content
              \/ nstate' = "retry"
              \/ nstate' = nstate /\ local' = local
<1> DEFINE Same == UNCHANGED <<nstate, sig, local, gathering, sending, restartAtNextOffer, failed,
                               localOfferId, toClient>>
<1>0. failed \/ closed \/ (nstate = "none" <=> sig = "stable") BY DEF StatesAgree
<1>1. CASE (closed \/ gathering = "new") /\ restartAfterGathering' = flag /\ Same
  BY <1>1, <1>0 DEF TypeOK, Kinds
<1>2. CASE ~closed /\ NotReady /\ restartAfterGathering' = TRUE /\ Same
  BY <1>2, <1>0 DEF TypeOK, Kinds, NotReady
<1>3. CASE /\ ~closed /\ gathering = "complete" /\ nstate = "none" /\ restartAfterGathering' = flag
           /\ CreateOffer("none", sig, TRUE) /\ UNCHANGED <<localOfferId, toClient>>
  <2>0. sig \in {"stable", "offer"} /\ "none" \in Kinds /\ TRUE \in BOOLEAN BY DEF TypeOK, Kinds
  <2>1. /\ nstate' \in Kinds /\ sending' \in {"no", "offer", "restart"}
        /\ sig' \in {"stable", "offer"} /\ local' \in Nat
        /\ gathering' \in {"new", "gathering", "complete"}
        /\ failed' \in BOOLEAN /\ restartAtNextOffer' \in BOOLEAN
        /\ failed => failed'
        /\ \/ nstate' = "remote" /\ sig' = "offer" /\ local' = content
           \/ failed'
    BY <1>3, <2>0, CreateOfferResult
  <2> QED BY <1>3, <2>1 DEF TypeOK
<1>4. CASE /\ ~closed /\ gathering = "complete" /\ nstate # "none" /\ restartAfterGathering' = flag
           /\ nstate' = "retry" /\ restartAtNextOffer' = TRUE /\ OnOffer
           /\ UNCHANGED <<sig, local, gathering, sending>>
  <2>1. /\ localOfferId' \in Nat /\ toClient' \in Seq(Descriptions) /\ failed' \in BOOLEAN
        /\ failed => failed'
    BY <1>4, OnOfferResult
  <2> QED BY <1>0, <1>4, <2>1 DEF TypeOK, Kinds
<1>5. CASE /\ ~closed /\ gathering = "complete" /\ restartAfterGathering' = flag
           /\ CreateOffer("none", "stable", TRUE) /\ UNCHANGED <<localOfferId, toClient>>
  <2>0. "stable" \in {"stable", "offer"} /\ "none" \in Kinds /\ TRUE \in BOOLEAN BY DEF Kinds
  <2>1. /\ nstate' \in Kinds /\ sending' \in {"no", "offer", "restart"}
        /\ sig' \in {"stable", "offer"} /\ local' \in Nat
        /\ gathering' \in {"new", "gathering", "complete"}
        /\ failed' \in BOOLEAN /\ restartAtNextOffer' \in BOOLEAN
        /\ failed => failed'
        /\ \/ nstate' = "remote" /\ sig' = "offer" /\ local' = content
           \/ failed'
    BY <1>5, <2>0, CreateOfferResult
  <2> QED BY <1>5, <2>1 DEF TypeOK
<1>6. CASE /\ ~closed /\ gathering = "complete" /\ restartAfterGathering' = flag /\ Fails
           /\ UNCHANGED <<nstate, sig, local, gathering, sending, restartAtNextOffer>>
           /\ UNCHANGED <<localOfferId, toClient>>
  <2>1. failed' = TRUE BY <1>6 DEF Fails
  <2> QED BY <1>6, <2>1 DEF TypeOK, Kinds
<1> QED BY <1>1, <1>2, <1>3, <1>4, <1>5, <1>6 DEF DoICERestart

-----------------------------------------------------------------------------
(* Type correctness. *)

LEMMA TypeStep ==
    ASSUME TypeOK, StatesAgree, StoppedIsClosed, [Next]_vars
    PROVE  TypeOK'
<1> USE DEF askVars, idVars, flagVars, timerVars, pcVars, linkVars, endVars
<1> DEFINE EventsOK == events' \in Seq(Event)
<1>1. CASE ChangeMedia
  <2>1. content' \in 1 .. MaxChanges /\ calls' \in Nat
    BY <1>1, OffererAssumption DEF TypeOK, ChangeMedia
  <2> QED BY <1>1, <2>1 DEF TypeOK, ChangeMedia
<1>2. ASSUME NEW force \in BOOLEAN, Negotiate(force) PROVE TypeOK'
  <2>1. calls' \in Nat /\ posts' \in Nat BY <1>2 DEF TypeOK, Negotiate
  <2>2. armed' \in BOOLEAN /\ debouncePending' \in BOOLEAN BY <1>2, Zenon DEF TypeOK, Negotiate
  <2> QED BY <1>2, <2>1, <2>2 DEF TypeOK, Negotiate
<1>3. CASE PostSendOffer
  <2>1. posts' \in Nat BY <1>3 DEF TypeOK, PostSendOffer
  <2>2. EventsOK BY <1>3, EnqueueKeeps, PlainIsEvent DEF PostSendOffer
  <2> QED BY <1>3, <2>1, <2>2 DEF TypeOK, PostSendOffer, Event
<1>4. CASE DebounceFires
  <2>1. firing' \in Nat BY <1>4 DEF TypeOK, DebounceFires
  <2>2. armed' \in BOOLEAN BY <1>4 DEF DebounceFires
  <2> QED BY <1>4, <2>1, <2>2 DEF TypeOK, DebounceFires
<1>5. CASE DebounceCallback
  <2>1. firing' \in Nat /\ posts' \in Nat BY <1>5 DEF TypeOK, DebounceCallback
  <2>2. debouncePending' \in BOOLEAN BY <1>5 DEF DebounceCallback
  <2> QED BY <1>5, <2>1, <2>2 DEF TypeOK, DebounceCallback
<1>6. CASE HandleSendOffer
  <2>1. EventsOK BY <1>6, HandleKeeps DEF HandleSendOffer
  <2>2. nstate \in Kinds /\ sig \in {"stable", "offer"} /\ CreateOffer(nstate, sig, FALSE)
    BY <1>6 DEF HandleSendOffer, TypeOK, Kinds
  <2>3. /\ nstate' \in Kinds /\ sending' \in {"no", "offer", "restart"}
        /\ sig' \in {"stable", "offer"} /\ local' \in Nat
        /\ gathering' \in {"new", "gathering", "complete"}
        /\ failed' \in BOOLEAN /\ restartAtNextOffer' \in BOOLEAN
    BY <2>2, CreateOfferResult
  <2> QED BY <1>6, <2>1, <2>3 DEF TypeOK, HandleSendOffer, Kinds, Event
<1>7. CASE HandleAnswer
  <2>1. EventsOK /\ Head(events) \in Event BY <1>7, HandleKeeps DEF HandleAnswer
  <2>2. Head(events).id \in Nat /\ Head(events).ver \in Nat BY <2>1 DEF Event
  <2>3. remote' \in Nat BY <1>7, <2>2 DEF HandleAnswer, TypeOK
  <2>4. /\ nstate' \in Kinds /\ sending' \in {"no", "offer", "restart"}
        /\ sig' \in {"stable", "offer"} /\ local' \in Nat
        /\ gathering' \in {"new", "gathering", "complete"}
        /\ failed' \in BOOLEAN /\ restartAtNextOffer' \in BOOLEAN
    <3>1. CASE CreateOffer("none", "stable", FALSE)
      <4>1. "none" \in Kinds /\ "stable" \in {"stable", "offer"} /\ FALSE \in BOOLEAN BY DEF Kinds
      <4> QED BY <3>1, <4>1, CreateOfferResult
    <3>2. CASE /\ nstate' \in {nstate, "none"} /\ sig' \in {sig, "stable"}
               /\ UNCHANGED <<local, gathering, sending, restartAtNextOffer>>
               /\ (Fails \/ UNCHANGED failed)
      <4>1. failed' \in BOOLEAN BY <3>2 DEF Fails, TypeOK
      <4> QED BY <3>2, <4>1 DEF TypeOK, Kinds
    <3> QED BY <1>7, <3>1, <3>2 DEF HandleAnswer, Negotiated
  <2> QED BY <1>7, <2>1, <2>2, <2>3, <2>4 DEF TypeOK, HandleAnswer, Kinds, Event
<1>8. CASE HandleICERestart
  <2>1. EventsOK BY <1>8, HandleKeeps DEF HandleICERestart
  <2>2. restartAfterGathering \in BOOLEAN /\ DoICERestart(restartAfterGathering)
    BY <1>8 DEF HandleICERestart, TypeOK
  <2>3. /\ nstate' \in Kinds /\ sending' \in {"no", "offer", "restart"}
        /\ sig' \in {"stable", "offer"} /\ local' \in Nat
        /\ gathering' \in {"new", "gathering", "complete"}
        /\ failed' \in BOOLEAN /\ restartAtNextOffer' \in BOOLEAN
        /\ restartAfterGathering' \in BOOLEAN
        /\ localOfferId' \in Nat /\ toClient' \in Seq(Descriptions)
    BY <2>2, DoICERestartResult
  <2> QED BY <1>8, <2>1, <2>3 DEF TypeOK, HandleICERestart, Kinds, Event
<1>9. CASE HandleGathered
  <2>1. EventsOK BY <1>9, HandleKeeps DEF HandleGathered
  <2>2. /\ nstate' \in Kinds /\ sending' \in {"no", "offer", "restart"}
        /\ sig' \in {"stable", "offer"} /\ local' \in Nat
        /\ gathering' \in {"new", "gathering", "complete"}
        /\ failed' \in BOOLEAN /\ restartAtNextOffer' \in BOOLEAN
        /\ restartAfterGathering' \in BOOLEAN
        /\ localOfferId' \in Nat /\ toClient' \in Seq(Descriptions)
    <3>1. CASE DoICERestart(FALSE) BY <3>1, DoICERestartResult
    <3>2. CASE UNCHANGED <<nstate, sig, local, gathering, sending, flagVars, failed, localOfferId,
                           toClient>>
      BY <3>2 DEF TypeOK, Kinds
    <3> QED BY <1>9, <3>1, <3>2 DEF HandleGathered
  <2> QED BY <1>9, <2>1, <2>2 DEF TypeOK, HandleGathered, Kinds, Event
<1>10. CASE SendOffer
  <2>1. counter' \in Nat /\ timer' \in {0, counter'} BY <1>10 DEF TypeOK, SendOffer, SetupTimer
  <2>2. localOfferId' \in Nat /\ toClient' \in Seq(Descriptions) /\ failed' \in BOOLEAN
    BY <1>10, OnOfferResult DEF SendOffer
  <2> QED BY <1>10, <2>1, <2>2 DEF TypeOK, SendOffer
<1>11. CASE TimerFires
  <2>1. timer \in Nat BY DEF TypeOK
  <2>2. [v |-> timer, at |-> "clear"] \in [v : Nat, at : {"clear", "check"}] BY <2>1
  <2> QED BY <1>11, <2>2 DEF TypeOK, TimerFires
<1>12. ASSUME NEW c \in callbacks, TimerClear(c) PROVE TypeOK'
  <2>1. [c EXCEPT !.at = "check"] \in [v : Nat, at : {"clear", "check"}] BY <1>12 DEF TypeOK
  <2>2. callbacks' \in SUBSET [v : Nat, at : {"clear", "check"}]
    BY <1>12, <2>1 DEF TypeOK, TimerClear
  <2> QED BY <1>12, <2>2 DEF TypeOK, TimerClear
<1>13. ASSUME NEW c \in callbacks, TimerCheck(c) PROVE TypeOK'
  <2>1. failed' \in BOOLEAN BY <1>13 DEF TypeOK, TimerCheck
  <2> QED BY <1>13, <2>1 DEF TypeOK, TimerCheck
<1>14. CASE GatheringCompletes
  BY <1>14 DEF TypeOK, GatheringCompletes
<1>15. CASE GatheringNotice
  <2>1. EventsOK BY <1>15, EnqueueKeeps, PlainIsEvent DEF GatheringNotice
  <2>2. notices' \in Nat BY <1>15 DEF TypeOK, GatheringNotice
  <2> QED BY <1>15, <2>1, <2>2 DEF TypeOK, GatheringNotice, Event
<1>16. CASE Connects
  BY <1>16 DEF TypeOK, Connects
<1>17. CASE ClientAnswers
  <2>1. Head(toClient) \in Descriptions /\ Tail(toClient) \in Seq(Descriptions)
    BY <1>17 DEF TypeOK, ClientAnswers
  <2>2. toClient' \in Seq(Descriptions) /\ toServer' \in Seq(Descriptions)
    BY <1>17, <2>1 DEF TypeOK, ClientAnswers
  <2> QED BY <1>17, <2>2 DEF TypeOK, ClientAnswers
<1>18. CASE AnswerArrives
  <2>1. Head(toServer) \in Descriptions /\ Tail(toServer) \in Seq(Descriptions)
    BY <1>18 DEF TypeOK, AnswerArrives
  <2>2. [kind |-> "answer", id |-> Head(toServer).id, ver |-> Head(toServer).ver] \in Event
    BY <2>1 DEF Descriptions, Event
  <2>3. EventsOK BY <1>18, <2>2, EnqueueKeeps DEF AnswerArrives
  <2> QED BY <1>18, <2>1, <2>3 DEF TypeOK, AnswerArrives, Event
<1>19. CASE ICERestart
  <2>1. EventsOK BY <1>19, EnqueueKeeps, PlainIsEvent DEF ICERestart
  <2>2. restarts' \in 0 .. MaxRestarts BY <1>19, OffererAssumption DEF TypeOK, ICERestart
  <2>3. connected' \in BOOLEAN BY <1>19 DEF TypeOK, ICERestart
  <2>4. <<>> \in Seq(Descriptions) OBVIOUS
  <2>5. toClient' \in {toClient, <<>>} /\ toServer' \in {toServer, <<>>} BY <1>19 DEF ICERestart
  <2>6. toClient' \in Seq(Descriptions) /\ toServer' \in Seq(Descriptions)
    BY <2>4, <2>5, Zenon DEF TypeOK
  <2> QED BY <1>19, <2>1, <2>2, <2>3, <2>6 DEF TypeOK, ICERestart, Event
<1>20. CASE Close
  <2>1. closed' \in BOOLEAN /\ connected' \in BOOLEAN BY <1>20 DEF Close
  <2> QED BY <1>20, <2>1 DEF TypeOK, Close
<1>21. CASE StopQueue
  BY <1>21 DEF TypeOK, StopQueue
<1>22. CASE UNCHANGED vars
  BY <1>22 DEF TypeOK, vars
<1> QED
  BY <1>1, <1>2, <1>3, <1>4, <1>5, <1>6, <1>7, <1>8, <1>9, <1>10, <1>11, <1>12, <1>13, <1>14, <1>15,
     <1>16, <1>17, <1>18, <1>19, <1>20, <1>21, <1>22 DEF Next, Requests, EventLoop, Timers

-----------------------------------------------------------------------------
(* The two facts the properties rest on. *)

LEMMA DebounceStep ==
    ASSUME TypeOK, DebounceHeld, [Next]_vars
    PROVE  DebounceHeld'
<1> USE DEF askVars, DebounceHeld
<1>1. ASSUME NEW force \in BOOLEAN, Negotiate(force) PROVE DebounceHeld'
  <2>1. firing' = firing BY <1>1 DEF Negotiate
  <2>2. CASE UNCHANGED <<armed, debouncePending>>
    BY <2>1, <2>2
  <2>3. CASE debouncePending' = FALSE
    BY <2>3
  <2>4. CASE armed' = (armed \/ ~debouncePending)
    <3>1. armed' <=> (armed \/ ~debouncePending) BY <2>4, Zenon
    <3> QED BY <2>1, <3>1
  <2> QED BY <1>1, <2>2, <2>3, <2>4 DEF Negotiate
<1>2. CASE DebounceFires
  <2>1. firing' > 0 BY <1>2 DEF DebounceFires, TypeOK
  <2> QED BY <2>1
<1>3. CASE DebounceCallback
  BY <1>3 DEF DebounceCallback
<1>4. CASE UNCHANGED <<armed, debouncePending, firing>>
  BY <1>4
<1>5. CASE EventLoop
  BY <1>5, <1>4 DEF EventLoop, HandleSendOffer, HandleAnswer, HandleICERestart, HandleGathered, SendOffer
<1>6. CASE ChangeMedia \/ PostSendOffer
  BY <1>6, <1>4 DEF ChangeMedia, PostSendOffer
<1>7. CASE TimerFires \/ Timers
  BY <1>7, <1>4 DEF TimerFires, Timers, TimerClear, TimerCheck
<1>8. CASE GatheringCompletes \/ GatheringNotice \/ Connects \/ ClientAnswers \/ AnswerArrives
  BY <1>8, <1>4 DEF GatheringCompletes, GatheringNotice, Connects, ClientAnswers, AnswerArrives
<1>9. CASE ICERestart \/ Close \/ StopQueue
  BY <1>9, <1>4 DEF ICERestart, Close, StopQueue
<1> QED BY <1>1, <1>2, <1>3, <1>4, <1>5, <1>6, <1>7, <1>8, <1>9 DEF Next, Requests, vars

LEMMA StoppedStep ==
    ASSUME TypeOK, StoppedIsClosed, [Next]_vars
    PROVE  StoppedIsClosed' /\ (closed => closed')
<1> USE DEF endVars, StoppedIsClosed
<1>1. CASE Close
  BY <1>1 DEF Close
<1>2. CASE StopQueue
  BY <1>2 DEF StopQueue
<1>3. CASE UNCHANGED <<closed, stopped>>
  BY <1>3
<1>4. CASE EventLoop
  BY <1>4, <1>3 DEF EventLoop, HandleSendOffer, HandleAnswer, HandleICERestart, HandleGathered, SendOffer
<1>5. CASE ChangeMedia \/ Requests \/ DebounceFires \/ DebounceCallback
  BY <1>5, <1>3 DEF ChangeMedia, Requests, Negotiate, PostSendOffer, DebounceFires, DebounceCallback
<1>6. CASE TimerFires \/ Timers
  BY <1>6, <1>3 DEF TimerFires, Timers, TimerClear, TimerCheck
<1>7. CASE GatheringCompletes \/ GatheringNotice \/ Connects \/ ClientAnswers \/ AnswerArrives
  BY <1>7, <1>3 DEF GatheringCompletes, GatheringNotice, Connects, ClientAnswers, AnswerArrives
<1>8. CASE ICERestart
  BY <1>8, <1>3 DEF ICERestart
<1> QED BY <1>1, <1>2, <1>3, <1>4, <1>5, <1>6, <1>7, <1>8 DEF Next, vars

(* Whoever reports a failure, it stays reported. *)
LEMMA FailedStep ==
    ASSUME TypeOK, StatesAgree, [Next]_vars
    PROVE  failed => failed'
<1> USE DEF endVars
<1>1. CASE UNCHANGED failed
  BY <1>1
<1>2. CASE HandleSendOffer
  <2>1. nstate \in Kinds /\ sig \in {"stable", "offer"} /\ CreateOffer(nstate, sig, FALSE)
    BY <1>2 DEF HandleSendOffer, TypeOK, Kinds
  <2> QED BY <2>1, CreateOfferResult
<1>3. CASE HandleAnswer
  <2>1. CASE CreateOffer("none", "stable", FALSE)
    <3>1. "none" \in Kinds /\ "stable" \in {"stable", "offer"} /\ FALSE \in BOOLEAN BY DEF Kinds
    <3> QED BY <2>1, <3>1, CreateOfferResult
  <2>2. CASE Fails
    BY <2>2 DEF Fails
  <2> QED BY <1>1, <1>3, <2>1, <2>2 DEF HandleAnswer
<1>4. CASE HandleICERestart
  BY <1>4, DoICERestartResult DEF HandleICERestart, TypeOK
<1>5. CASE HandleGathered
  BY <1>1, <1>5, DoICERestartResult DEF HandleGathered
<1>6. CASE SendOffer
  BY <1>6, OnOfferResult DEF SendOffer
<1>7. ASSUME NEW c \in callbacks, TimerCheck(c) PROVE failed => failed'
  BY <1>7 DEF TimerCheck
<1>8. ASSUME NEW c \in callbacks, TimerClear(c) PROVE failed => failed'
  BY <1>8 DEF TimerClear
<1>9. CASE ChangeMedia \/ Requests \/ DebounceFires \/ DebounceCallback
  BY <1>9, <1>1 DEF ChangeMedia, Requests, Negotiate, PostSendOffer, DebounceFires, DebounceCallback
<1>10. CASE GatheringCompletes \/ GatheringNotice \/ Connects \/ ClientAnswers \/ AnswerArrives
  BY <1>10, <1>1 DEF GatheringCompletes, GatheringNotice, Connects, ClientAnswers, AnswerArrives
<1>11. CASE TimerFires \/ ICERestart \/ Close \/ StopQueue
  BY <1>11, <1>1 DEF TimerFires, ICERestart, Close, StopQueue
<1> QED BY <1>1, <1>2, <1>3, <1>4, <1>5, <1>6, <1>7, <1>8, <1>9, <1>10, <1>11
        DEF Next, EventLoop, Timers, vars

-----------------------------------------------------------------------------
(* negotiationState and pion's signalling state. *)

LEMMA AgreeStep ==
    ASSUME TypeOK, StoppedIsClosed, StatesAgree, [Next]_vars
    PROVE  StatesAgree'
<1> USE DEF endVars, pcVars
<1>1. (failed => failed') /\ (closed => closed') BY FailedStep, StoppedStep
<1>2. CASE UNCHANGED <<nstate, sig>>
  BY <1>1, <1>2 DEF StatesAgree
<1>3. CASE HandleSendOffer
  <2>1. nstate \in Kinds /\ sig \in {"stable", "offer"} /\ CreateOffer(nstate, sig, FALSE)
    BY <1>3 DEF HandleSendOffer, TypeOK, Kinds
  <2>2. \/ closed
        \/ nstate # "none" /\ nstate' = Skipped(nstate) /\ sig' = sig
        \/ nstate' = "remote" /\ sig' = "offer"
        \/ failed'
    BY <2>1, CreateOfferResult
  <2> QED BY <1>1, <2>2 DEF StatesAgree, Skipped
<1>4. CASE HandleAnswer
  <2>1. CASE CreateOffer("none", "stable", FALSE)
    <3>1. "none" \in Kinds /\ "stable" \in {"stable", "offer"} /\ FALSE \in BOOLEAN BY DEF Kinds
    <3>2. closed \/ (nstate' = "remote" /\ sig' = "offer") \/ failed'
      BY <2>1, <3>1, CreateOfferResult
    <3> QED BY <1>1, <3>2 DEF StatesAgree
  <2>2. CASE Negotiated
    BY <2>2 DEF Negotiated, StatesAgree
  <2>3. CASE closed
    BY <1>1, <2>3 DEF StatesAgree
  <2>4. CASE ~closed /\ Fails
    BY <2>4 DEF Fails, StatesAgree
  <2> QED BY <1>4, <2>1, <2>2, <2>3, <2>4 DEF HandleAnswer
<1>5. CASE HandleICERestart
  <2>1. failed' \/ closed \/ (nstate' = "none" <=> sig' = "stable")
    BY <1>5, DoICERestartResult DEF HandleICERestart, TypeOK
  <2> QED BY <1>1, <2>1 DEF StatesAgree
<1>6. CASE HandleGathered
  <2>1. CASE DoICERestart(FALSE)
    <3>1. failed' \/ closed \/ (nstate' = "none" <=> sig' = "stable")
      BY <2>1, DoICERestartResult
    <3> QED BY <1>1, <3>1 DEF StatesAgree
  <2> QED BY <1>2, <1>6, <2>1 DEF HandleGathered
<1>7. CASE SendOffer
  BY <1>2, <1>7 DEF SendOffer
<1>8. CASE ChangeMedia \/ Requests \/ DebounceFires \/ DebounceCallback
  BY <1>8, <1>2 DEF ChangeMedia, Requests, Negotiate, PostSendOffer, DebounceFires, DebounceCallback
<1>9. CASE TimerFires \/ Timers
  BY <1>9, <1>2 DEF TimerFires, Timers, TimerClear, TimerCheck
<1>10. CASE GatheringCompletes \/ GatheringNotice \/ Connects \/ ClientAnswers \/ AnswerArrives
  BY <1>10, <1>2 DEF GatheringCompletes, GatheringNotice, Connects, ClientAnswers, AnswerArrives
<1>11. CASE ICERestart \/ Close \/ StopQueue
  BY <1>11, <1>2 DEF ICERestart, Close, StopQueue
<1> QED BY <1>2, <1>3, <1>4, <1>5, <1>6, <1>7, <1>8, <1>9, <1>10, <1>11 DEF Next, EventLoop, vars

-----------------------------------------------------------------------------
(* A restart that was put off. *)

LEMMA DeferredStep ==
    ASSUME TypeOK, StoppedIsClosed, StatesAgree, DeferredRestartRuns, [Next]_vars
    PROVE  DeferredRestartRuns'
<1> USE DEF endVars, pcVars, flagVars
<1>1. closed => closed' BY StoppedStep
<1>2. CASE /\ restartAfterGathering' = restartAfterGathering /\ notices' = notices
           /\ gathering = "gathering" => gathering' = "gathering"
           /\ Queued("gathered") => Queued("gathered")'
  BY <1>1, <1>2 DEF DeferredRestartRuns
<1>3. CASE UNCHANGED <<restartAfterGathering, notices, gathering, events>>
  BY <1>2, <1>3 DEF Queued
<1>4. CASE HandleSendOffer
  <2>1. nstate \in Kinds /\ sig \in {"stable", "offer"} /\ CreateOffer(nstate, sig, FALSE)
    BY <1>4 DEF HandleSendOffer, TypeOK, Kinds
  <2>2. gathering = "gathering" => gathering' = "gathering" BY <2>1, CreateOfferResult
  <2>3. Queued("gathered") => Queued("gathered")' BY <1>4, HandleKeeps DEF HandleSendOffer
  <2> QED BY <1>2, <1>4, <2>2, <2>3 DEF HandleSendOffer
<1>5. CASE HandleAnswer
  <2>1. Queued("gathered") => Queued("gathered")' BY <1>5, HandleKeeps DEF HandleAnswer
  <2>2. CASE CreateOffer("none", "stable", FALSE)
    <3>1. "none" \in Kinds /\ "stable" \in {"stable", "offer"} /\ FALSE \in BOOLEAN BY DEF Kinds
    <3>2. gathering = "gathering" => gathering' = "gathering"
      BY <2>2, <3>1, CreateOfferResult
    <3> QED BY <1>2, <1>5, <2>1, <3>2 DEF HandleAnswer
  <2>3. CASE UNCHANGED gathering
    BY <1>2, <1>5, <2>1, <2>3 DEF HandleAnswer
  <2> QED BY <1>5, <2>2, <2>3 DEF HandleAnswer
<1>6. CASE HandleICERestart
  <2>1. Queued("gathered") => Queued("gathered")' BY <1>6, HandleKeeps DEF HandleICERestart
  <2>2. /\ gathering = "gathering" => gathering' = "gathering"
        /\ restartAfterGathering' => restartAfterGathering \/ gathering' = "gathering"
    BY <1>6, DoICERestartResult DEF HandleICERestart, TypeOK
  <2>3. notices' = notices BY <1>6 DEF HandleICERestart
  <2> QED BY <1>1, <2>1, <2>2, <2>3 DEF DeferredRestartRuns
<1>7. CASE HandleGathered
  <2>1. CASE DoICERestart(FALSE)
    <3>1. restartAfterGathering' => gathering' = "gathering" BY <2>1, DoICERestartResult
    <3> QED BY <3>1 DEF DeferredRestartRuns
  <2>2. CASE ~restartAfterGathering /\ UNCHANGED restartAfterGathering
    BY <2>2 DEF DeferredRestartRuns
  <2> QED BY <1>7, <2>1, <2>2 DEF HandleGathered
<1>8. CASE GatheringCompletes
  <2>1. notices' > 0 BY <1>8 DEF GatheringCompletes, TypeOK
  <2> QED BY <2>1 DEF DeferredRestartRuns
<1>9. CASE GatheringNotice
  <2>1. Plain("gathered") \in Event /\ Plain("gathered").kind = "gathered" BY PlainIsEvent
  <2>2. Queued("gathered")' \/ closed BY <1>9, <2>1, EnqueueKeeps DEF GatheringNotice
  <2> QED BY <1>1, <2>2 DEF DeferredRestartRuns
<1>10. CASE PostSendOffer
  <2>1. Queued("gathered") => Queued("gathered")'
    BY <1>10, EnqueueKeeps, PlainIsEvent DEF PostSendOffer
  <2> QED BY <1>2, <1>10, <2>1 DEF PostSendOffer
<1>11. CASE ICERestart
  <2>1. Queued("gathered") => Queued("gathered")'
    BY <1>11, EnqueueKeeps, PlainIsEvent DEF ICERestart
  <2> QED BY <1>2, <1>11, <2>1 DEF ICERestart
<1>12. CASE AnswerArrives
  <2>1. Head(toServer) \in Descriptions
    BY <1>12 DEF TypeOK, AnswerArrives
  <2>2. [kind |-> "answer", id |-> Head(toServer).id, ver |-> Head(toServer).ver] \in Event
    BY <2>1 DEF Descriptions, Event
  <2>3. Queued("gathered") => Queued("gathered")' BY <1>12, <2>2, EnqueueKeeps DEF AnswerArrives
  <2> QED BY <1>2, <1>12, <2>3 DEF AnswerArrives
<1>13. CASE Close \/ StopQueue
  BY <1>13 DEF Close, StopQueue, DeferredRestartRuns
<1>14. CASE \E force \in BOOLEAN : Negotiate(force)
  BY <1>14, <1>3 DEF Negotiate
<1>15. CASE ChangeMedia \/ DebounceFires \/ DebounceCallback
  BY <1>15, <1>3 DEF ChangeMedia, DebounceFires, DebounceCallback
<1>16. CASE TimerFires \/ Timers
  BY <1>16, <1>3 DEF TimerFires, Timers, TimerClear, TimerCheck
<1>17. CASE Connects \/ ClientAnswers \/ SendOffer
  BY <1>17, <1>3 DEF Connects, ClientAnswers, SendOffer
<1> QED BY <1>3, <1>4, <1>5, <1>6, <1>7, <1>8, <1>9, <1>10, <1>11, <1>12, <1>13, <1>14, <1>15, <1>16,
           <1>17 DEF Next, Requests, EventLoop, vars

-----------------------------------------------------------------------------
(* Requests are not lost. *)

(* What keeps a request alive: see NoLostNegotiation. *)
Asked == calls > 0 \/ armed \/ firing > 0 \/ posts > 0 \/ Queued("sendOffer")

LEMMA NoLostStep ==
    ASSUME TypeOK, DebounceHeld, StoppedIsClosed, StatesAgree, NoLostNegotiation, [Next]_vars
    PROVE  NoLostNegotiation'
<1> USE DEF askVars, endVars, pcVars
<1>1. (failed => failed') /\ (closed => closed') BY FailedStep, StoppedStep
<1>2. NoLostNegotiation <=> (content # local => Asked \/ nstate = "retry" \/ failed \/ closed)
  BY DEF NoLostNegotiation, Asked
<1>3. NoLostNegotiation' <=> (content' # local' => Asked' \/ nstate' = "retry" \/ failed' \/ closed')
  BY DEF NoLostNegotiation, Asked
<1>4. CASE Asked' \/ closed
  BY <1>1, <1>3, <1>4
<1>5. CASE (Asked => Asked') /\ UNCHANGED <<content, local, nstate>>
  BY <1>1, <1>2, <1>3, <1>5
<1>6. CASE UNCHANGED <<askVars, events, local, nstate>>
  <2>1. Asked => Asked' BY <1>6 DEF Asked, Queued
  <2> QED BY <1>5, <1>6, <2>1
<1>7. CASE ChangeMedia
  <2>1. calls' > 0 BY <1>7 DEF ChangeMedia, TypeOK
  <2> QED BY <1>4, <2>1 DEF Asked
<1>8. ASSUME NEW force \in BOOLEAN, Negotiate(force) PROVE NoLostNegotiation'
  <2>1. CASE closed
    BY <1>4, <2>1
  <2>2. CASE posts' = posts + 1
    <3>1. posts' > 0 BY <2>2 DEF TypeOK
    <3> QED BY <1>4, <3>1 DEF Asked
  <2>3. CASE armed' = (armed \/ ~debouncePending) /\ firing' = firing
    <3>1. armed' <=> (armed \/ ~debouncePending) BY <2>3, Zenon
    <3>2. armed' \/ firing' > 0 BY <2>3, <3>1 DEF DebounceHeld
    <3> QED BY <1>4, <3>2 DEF Asked
  <2> QED BY <1>8, <2>1, <2>2, <2>3 DEF Negotiate
<1>9. CASE DebounceFires
  <2>1. firing' > 0 BY <1>9 DEF DebounceFires, TypeOK
  <2> QED BY <1>4, <2>1 DEF Asked
<1>10. CASE DebounceCallback
  <2>1. posts' > 0 BY <1>10 DEF DebounceCallback, TypeOK
  <2> QED BY <1>4, <2>1 DEF Asked
<1>11. CASE PostSendOffer
  <2>1. Plain("sendOffer") \in Event /\ Plain("sendOffer").kind = "sendOffer" BY PlainIsEvent
  <2>2. Queued("sendOffer")' \/ closed BY <1>11, <2>1, EnqueueKeeps DEF PostSendOffer
  <2> QED BY <1>4, <2>2 DEF Asked
<1>12. CASE HandleSendOffer
  <2>1. nstate \in Kinds /\ sig \in {"stable", "offer"} /\ CreateOffer(nstate, sig, FALSE)
    BY <1>12 DEF HandleSendOffer, TypeOK, Kinds
  <2>2. \/ closed
        \/ nstate # "none" /\ nstate' = Skipped(nstate)
        \/ local' = content
        \/ failed'
    BY <2>1, CreateOfferResult
  <2>3. closed \/ nstate' = "retry" \/ local' = content \/ failed'
    BY <2>1, <2>2 DEF Skipped, Kinds
  <2>4. content' = content BY <1>12 DEF HandleSendOffer
  <2> QED BY <1>1, <1>3, <2>3, <2>4
<1>13. CASE HandleAnswer
  <2>1. Queued("sendOffer") => Queued("sendOffer")' BY <1>13, HandleKeeps DEF HandleAnswer
  <2>2. (Asked => Asked') /\ content' = content BY <1>13, <2>1 DEF HandleAnswer, Asked
  <2>3. CASE CreateOffer("none", "stable", FALSE)
    <3>1. "none" \in Kinds /\ "stable" \in {"stable", "offer"} /\ FALSE \in BOOLEAN BY DEF Kinds
    <3>2. closed \/ local' = content \/ failed'
      BY <2>3, <3>1, CreateOfferResult
    <3> QED BY <1>1, <1>3, <2>2, <3>2
  <2>4. CASE nstate # "retry" /\ local' = local
    BY <1>1, <1>2, <1>3, <2>2, <2>4
  <2>5. CASE ~closed /\ Fails
    BY <1>3, <2>5 DEF Fails
  <2>6. CASE closed
    BY <1>4, <2>6
  <2> QED BY <1>13, <2>3, <2>4, <2>5, <2>6 DEF HandleAnswer
<1>14. CASE HandleICERestart
  <2>1. Queued("sendOffer") => Queued("sendOffer")' BY <1>14, HandleKeeps DEF HandleICERestart
  <2>2. (Asked => Asked') /\ content' = content BY <1>14, <2>1 DEF HandleICERestart, Asked
  <2>3. \/ closed \/ failed' \/ local' = content \/ nstate' = "retry"
        \/ nstate' = nstate /\ local' = local
    BY <1>14, DoICERestartResult DEF HandleICERestart, TypeOK
  <2> QED BY <1>1, <1>2, <1>3, <2>2, <2>3
<1>15. CASE HandleGathered
  <2>1. Queued("sendOffer") => Queued("sendOffer")' BY <1>15, HandleKeeps DEF HandleGathered
  <2>2. (Asked => Asked') /\ content' = content BY <1>15, <2>1 DEF HandleGathered, Asked
  <2>3. CASE DoICERestart(FALSE)
    <3>1. \/ closed \/ failed' \/ local' = content \/ nstate' = "retry"
          \/ nstate' = nstate /\ local' = local
      BY <2>3, DoICERestartResult
    <3> QED BY <1>1, <1>2, <1>3, <2>2, <3>1
  <2> QED BY <1>5, <1>15, <2>2, <2>3 DEF HandleGathered
<1>16. CASE GatheringNotice
  <2>1. Queued("sendOffer") => Queued("sendOffer")'
    BY <1>16, EnqueueKeeps, PlainIsEvent DEF GatheringNotice
  <2>2. Asked => Asked' BY <1>16, <2>1 DEF GatheringNotice, Asked
  <2> QED BY <1>5, <1>16, <2>2 DEF GatheringNotice
<1>17. CASE ICERestart
  <2>1. Queued("sendOffer") => Queued("sendOffer")'
    BY <1>17, EnqueueKeeps, PlainIsEvent DEF ICERestart
  <2>2. Asked => Asked' BY <1>17, <2>1 DEF ICERestart, Asked
  <2> QED BY <1>5, <1>17, <2>2 DEF ICERestart
<1>18. CASE AnswerArrives
  <2>1. Head(toServer) \in Descriptions
    BY <1>18 DEF TypeOK, AnswerArrives
  <2>2. [kind |-> "answer", id |-> Head(toServer).id, ver |-> Head(toServer).ver] \in Event
    BY <2>1 DEF Descriptions, Event
  <2>3. Queued("sendOffer") => Queued("sendOffer")' BY <1>18, <2>2, EnqueueKeeps DEF AnswerArrives
  <2>4. Asked => Asked' BY <1>18, <2>3 DEF AnswerArrives, Asked
  <2> QED BY <1>5, <1>18, <2>4 DEF AnswerArrives
<1>19. CASE StopQueue
  BY <1>4, <1>19 DEF StopQueue
<1>20. CASE TimerFires \/ Timers
  BY <1>20, <1>6 DEF TimerFires, Timers, TimerClear, TimerCheck
<1>21. CASE SendOffer \/ GatheringCompletes \/ Connects \/ ClientAnswers \/ Close
  BY <1>21, <1>6 DEF SendOffer, GatheringCompletes, Connects, ClientAnswers, Close
<1>22. CASE UNCHANGED vars
  BY <1>22, <1>6 DEF vars
<1> QED BY <1>7, <1>8, <1>9, <1>10, <1>11, <1>12, <1>13, <1>14, <1>15, <1>16, <1>17, <1>18, <1>19, <1>20,
           <1>21, <1>22 DEF Next, Requests, EventLoop

-----------------------------------------------------------------------------
(* The theorems. *)

LEMMA InitInv == Init => Inv
<1> SUFFICES ASSUME Init PROVE Inv OBVIOUS
<1> USE OffererAssumption DEF Init
<1>1. events \in Seq([kind : {"sendOffer", "answer", "gathered", "restart"}, id : Nat, ver : Nat])
  OBVIOUS
<1>2. toClient \in Seq(Descriptions) /\ toServer \in Seq(Descriptions) OBVIOUS
<1>3. content \in 1 .. MaxChanges /\ restarts \in 0 .. MaxRestarts OBVIOUS
<1>4. TypeOK BY <1>1, <1>2, <1>3 DEF TypeOK
<1>5. DebounceHeld /\ StoppedIsClosed /\ StatesAgree /\ DeferredRestartRuns
  BY DEF DebounceHeld, StoppedIsClosed, StatesAgree, DeferredRestartRuns
<1>6. NoLostNegotiation
  <2>1. calls > 0 OBVIOUS
  <2> QED BY <2>1 DEF NoLostNegotiation
<1> QED BY <1>4, <1>5, <1>6 DEF Inv

LEMMA InvInductive == Spec => []Inv
<1>1. Init => Inv BY InitInv
<1>2. Inv /\ [Next]_vars => Inv'
  <2> SUFFICES ASSUME Inv, [Next]_vars PROVE Inv' OBVIOUS
  <2> QED BY TypeStep, DebounceStep, StoppedStep, AgreeStep, DeferredStep, NoLostStep DEF Inv
<1> QED BY <1>1, <1>2, PTL DEF Spec

(* The state of PCTransport stays well-typed, and the running                 *)
(* signalStateCheckTimer is always the one of the latest negotiation.         *)
THEOREM OffererTypeCorrect == Spec => []TypeOK
<1>1. Inv => TypeOK BY DEF Inv
<1> QED BY <1>1, InvInductive, PTL

(* For any number of media changes and restarts, and whatever fails, Negotiate *)
(* and createAndSendOffer forget no change of the media.                       *)
THEOREM NegotiationsAreNotLost == Spec => []NoLostNegotiation
<1>1. Inv => NoLostNegotiation BY DEF Inv
<1> QED BY <1>1, InvInductive, PTL

(* negotiationState says what the peer connection is in: none of the recovery *)
(* paths of doICERestart and handleRemoteAnswerReceived lets them drift apart. *)
THEOREM StatesDoNotDrift == Spec => []StatesAgree
<1>1. Inv => StatesAgree BY DEF Inv
<1> QED BY <1>1, InvInductive, PTL

(* An ICE restart deferred by doICERestart always has the end of gathering    *)
(* still ahead of it.                                                         *)
THEOREM DeferredRestartIsNotStuck == Spec => []DeferredRestartRuns
<1>1. Inv => DeferredRestartRuns BY DEF Inv
<1> QED BY <1>1, InvInductive, PTL

=============================================================================
