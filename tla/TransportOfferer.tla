-------------------------- MODULE TransportOfferer --------------------------
(***************************************************************************)
(* pkg/rtc/transport.go: how a peer connection that makes the offers (the  *)
(* subscriber's) negotiates. Negotiate debounces requests and posts events *)
(* to a queue that one goroutine works off; answers, the end of ICE        *)
(* gathering and restarts are events of the same queue. A timer with a     *)
(* goroutine of its own reports negotiations that are never answered.      *)
(*                                                                         *)
(* External: pion's peer connection (sig, remote, local, gathering,        *)
(* connected) and the client behind a signal connection that keeps order   *)
(* but may be replaced, with the loss of what is under way, when the       *)
(* client resumes.                                                         *)
(***************************************************************************)
EXTENDS Naturals, Sequences

CONSTANTS
    MaxChanges,   \* bound: changes of the media to be negotiated
    MaxRestarts,  \* bound: ICE restarts
    Failures      \* whether descriptions may be rejected and messages fail

ASSUME OffererAssumption == /\ MaxChanges \in Nat \ {0}
                            /\ MaxRestarts \in Nat
                            /\ Failures \in BOOLEAN

VARIABLES
    content,               \* the media of the peer connection, a version number
    calls,                 \* callers that have changed it and not called Negotiate yet
    armed,                 \* debouncedNegotiate has a timer with the offer function
    debouncePending,
    firing, posts,         \* callbacks of that timer, and postEvent calls, under way
    events,                \* eventsQueue
    nstate,                \* negotiationState
    sending,               \* createAndSendOffer is about to send: no, offer, restart
    localOfferId, remoteAnswerId,
    restartAfterGathering, restartAtNextOffer,
    timer, counter,        \* signalStateCheckTimer (its version, 0: none), negotiateCounter
    callbacks,             \* callbacks of signalStateCheckTimer under way
    sig, local, remote,    \* signalling state, local description, current remote description
    gathering, connected,  \* ICEGatheringState, ConnectionState is connected
    notices,               \* onICEGatheringStateChange(complete) calls under way
    toClient, toServer,    \* offers and answers under way
    restarts,              \* counter for the bound
    failed,                \* OnNegotiationFailed was called: the participant reconnects
    closed, stopped        \* isClosed, the queue is stopped

askVars   == <<content, calls, armed, debouncePending, firing, posts>>
idVars    == <<localOfferId, remoteAnswerId>>
flagVars  == <<restartAfterGathering, restartAtNextOffer>>
timerVars == <<timer, counter, callbacks>>
pcVars    == <<sig, local, remote, gathering, connected, notices>>
linkVars  == <<toClient, toServer>>
endVars   == <<failed, closed, stopped>>
vars      == <<askVars, events, nstate, sending, idVars, flagVars, timerVars, pcVars, linkVars,
               restarts, endVars>>

Descriptions == [id : Nat, ver : Nat]

Plain(k) == [kind |-> k, id |-> 0, ver |-> 0]

(* The type invariant of the transport. *)
TypeOK ==
    /\ content \in 1 .. MaxChanges /\ calls \in Nat
    /\ armed \in BOOLEAN /\ debouncePending \in BOOLEAN /\ firing \in Nat /\ posts \in Nat
    /\ events \in Seq([kind : {"sendOffer", "answer", "gathered", "restart"}, id : Nat, ver : Nat])
    /\ nstate \in {"none", "remote", "retry"}
    /\ sending \in {"no", "offer", "restart"}
    /\ localOfferId \in Nat /\ remoteAnswerId \in Nat
    /\ restartAfterGathering \in BOOLEAN /\ restartAtNextOffer \in BOOLEAN
    /\ counter \in Nat /\ timer \in {0, counter}
    /\ callbacks \in SUBSET [v : Nat, at : {"clear", "check"}]
    /\ sig \in {"stable", "offer"} /\ local \in Nat /\ remote \in Nat
    /\ gathering \in {"new", "gathering", "complete"} /\ connected \in BOOLEAN /\ notices \in Nat
    /\ toClient \in Seq(Descriptions) /\ toServer \in Seq(Descriptions)
    /\ restarts \in 0 .. MaxRestarts
    /\ failed \in BOOLEAN /\ closed \in BOOLEAN /\ stopped \in BOOLEAN

(* A new transport, with media added but not negotiated. *)
Init ==
    /\ content = 1 /\ calls = 1
    /\ armed = FALSE /\ debouncePending = FALSE /\ firing = 0 /\ posts = 0
    /\ events = <<>> /\ nstate = "none" /\ sending = "no"
    /\ localOfferId = 1 /\ remoteAnswerId = 0
    /\ restartAfterGathering = FALSE /\ restartAtNextOffer = FALSE
    /\ timer = 0 /\ counter = 0 /\ callbacks = {}
    /\ sig = "stable" /\ local = 0 /\ remote = 0
    /\ gathering = "new" /\ connected = FALSE /\ notices = 0
    /\ toClient = <<>> /\ toServer = <<>> /\ restarts = 0
    /\ failed = FALSE /\ closed = FALSE /\ stopped = FALSE

-----------------------------------------------------------------------------
(* Requests, from any goroutine. *)

Enqueue(e) == events' = IF stopped THEN events ELSE Append(events, e)

(* A track is added to or removed from the peer connection. *)
ChangeMedia ==
    /\ content < MaxChanges
    /\ content' = content + 1 /\ calls' = calls + 1
    /\ UNCHANGED <<armed, debouncePending, firing, posts, events, nstate, sending, idVars, flagVars,
                   timerVars, pcVars, linkVars, restarts, endVars>>

(* A forced negotiation cancels a debounced one that has not fired. *)
Negotiate(force) ==
    /\ calls > 0 /\ calls' = calls - 1
    /\ \/ closed /\ UNCHANGED <<armed, debouncePending, posts>>
       \/ /\ ~closed /\ force
          /\ armed' = FALSE /\ debouncePending' = FALSE /\ posts' = posts + 1
       \/ /\ ~closed /\ ~force
          /\ armed' = (armed \/ ~debouncePending) /\ debouncePending' = TRUE
          /\ UNCHANGED posts
    /\ UNCHANGED <<content, firing, events, nstate, sending, idVars, flagVars,
                   timerVars, pcVars, linkVars, restarts, endVars>>

DebounceFires ==
    /\ armed /\ armed' = FALSE
    /\ firing' = firing + 1
    /\ UNCHANGED <<content, calls, debouncePending, posts, events, nstate, sending, idVars, flagVars,
                   timerVars, pcVars, linkVars, restarts, endVars>>

DebounceCallback ==
    /\ firing > 0 /\ firing' = firing - 1
    /\ debouncePending' = FALSE
    /\ posts' = posts + 1
    /\ UNCHANGED <<content, calls, armed, events, nstate, sending, idVars, flagVars,
                   timerVars, pcVars, linkVars, restarts, endVars>>

PostSendOffer ==
    /\ posts > 0 /\ posts' = posts - 1
    /\ Enqueue(Plain("sendOffer"))
    /\ UNCHANGED <<content, calls, armed, debouncePending, firing, nstate, sending, idVars, flagVars,
                   timerVars, pcVars, linkVars, restarts, endVars>>

-----------------------------------------------------------------------------
(* The goroutine of the events queue. *)

Handle(k) == /\ sending = "no" /\ ~stopped
             /\ events # <<>> /\ Head(events).kind = k
             /\ events' = Tail(events)

(* A handler that returns an error. *)
Fails == failed' = (failed \/ ~closed)

(* Mutant: a request that meets an ongoing negotiation is dropped. *)
SkippedDropped(ns) == ns

(* A request that meets an ongoing negotiation is remembered. *)
Skipped(ns) == IF ns = "remote" THEN "retry" ELSE ns

(* createAndSendOffer, entered in negotiation state ns and signalling state   *)
(* sg, up to the point where the new state is visible.                        *)
CreateOffer(ns, sg, restart) ==
    LET r == restart \/ restartAtNextOffer IN
    \/ /\ closed \/ ns # "none"
       /\ nstate' = IF closed THEN ns ELSE Skipped(ns)
       /\ sig' = sg
       /\ UNCHANGED <<sending, restartAtNextOffer, local, gathering, failed>>
    \/ /\ ~closed /\ ns = "none"
       /\ restartAtNextOffer' = FALSE
       /\ nstate' = "remote"
       /\ sending' = IF r THEN "restart" ELSE "offer"
       /\ sig' = "offer" /\ local' = content
       /\ gathering' = IF r \/ gathering = "new" THEN "gathering" ELSE gathering
       /\ UNCHANGED failed
    \/ /\ ~closed /\ ns = "none" /\ Failures
       /\ restartAtNextOffer' = FALSE
       /\ nstate' = ns /\ sig' = sg
       /\ Fails
       /\ UNCHANGED <<sending, local, gathering>>

(* Mutant: the error of OnOffer is ignored. *)
OnOfferUnchecked ==
    /\ localOfferId' = localOfferId + 1
    /\ \/ toClient' = Append(toClient, [id |-> localOfferId', ver |-> local]) /\ UNCHANGED failed
       \/ Failures /\ UNCHANGED <<failed, toClient>>

(* OnOffer writes to the signal connection, or fails. *)
OnOffer ==
    /\ localOfferId' = localOfferId + 1
    /\ \/ toClient' = Append(toClient, [id |-> localOfferId', ver |-> local]) /\ UNCHANGED failed
       \/ Failures /\ Fails /\ UNCHANGED toClient

(* setupSignalStateCheckTimer, with a version of its own for every timer. *)
SetupTimer == counter' = counter + 1 /\ timer' = counter'

(* The rest of createAndSendOffer. *)
SendOffer ==
    /\ sending # "no" /\ sending' = "no"
    /\ SetupTimer
    /\ OnOffer
    /\ UNCHANGED <<askVars, events, nstate, remoteAnswerId, flagVars, callbacks, pcVars, toServer,
                   restarts, closed, stopped>>

HandleSendOffer ==
    /\ Handle("sendOffer")
    /\ CreateOffer(nstate, sig, FALSE)
    /\ UNCHANGED <<askVars, idVars, restartAfterGathering, timerVars, remote, connected, notices, linkVars,
                   restarts, closed, stopped>>

(* Mutant: the negotiation state is left as it was. *)
NegotiatedNotReset == UNCHANGED nstate /\ sig' = "stable"

(* The answer is applied and nothing was put off. *)
Negotiated == nstate' = "none" /\ sig' = "stable"

(* handleRemoteAnswerReceived. An answer is applied whatever its id, as long  *)
(* as an offer is pending; then it is the time for a negotiation put off. It  *)
(* fails when pion rejects it, or accepts it and a cached candidate does not. *)
HandleAnswer ==
    LET a == Head(events) IN
    /\ Handle("answer")
    /\ remoteAnswerId' = a.id
    /\ timer' = 0
    /\ \/ /\ closed
          /\ nstate' = "none"
          /\ UNCHANGED <<sig, local, remote, gathering, sending, restartAtNextOffer, failed>>
       \/ /\ ~closed /\ sig = "offer"
          /\ remote' = a.ver
          /\ IF nstate = "retry"
             THEN CreateOffer("none", "stable", FALSE)
             ELSE /\ Negotiated
                  /\ UNCHANGED <<local, gathering, sending, restartAtNextOffer, failed>>
       \/ /\ ~closed /\ (sig # "offer" \/ Failures)
          /\ Fails
          /\ \/ UNCHANGED <<sig, remote>>
             \/ sig = "offer" /\ sig' = "stable" /\ remote' = a.ver
          /\ UNCHANGED <<nstate, local, gathering, sending, restartAtNextOffer>>
    /\ UNCHANGED <<askVars, localOfferId, restartAfterGathering, counter, callbacks, connected,
                   notices, linkVars, restarts, closed, stopped>>

(* Mutant: a restart is put off although nothing is being gathered. *)
NotReadyNew == gathering # "complete"

(* A restart has to wait for the end of gathering. *)
NotReady == gathering = "gathering"

(* doICERestart, entered with restartAfterGathering = flag. *)
DoICERestart(flag) ==
    \/ /\ closed \/ gathering = "new"
       /\ restartAfterGathering' = flag
       /\ UNCHANGED <<nstate, sig, local, gathering, sending, restartAtNextOffer, failed,
                      localOfferId, toClient>>
    \/ /\ ~closed /\ NotReady
       /\ restartAfterGathering' = TRUE
       /\ UNCHANGED <<nstate, sig, local, gathering, sending, restartAtNextOffer, failed,
                      localOfferId, toClient>>
    \/ /\ ~closed /\ gathering = "complete" /\ nstate = "none"
       /\ restartAfterGathering' = flag
       /\ CreateOffer("none", sig, TRUE)
       /\ UNCHANGED <<localOfferId, toClient>>
    \/ /\ ~closed /\ gathering = "complete" /\ nstate # "none" /\ remote = 0
       /\ restartAfterGathering' = flag
       /\ nstate' = "retry"
       /\ restartAtNextOffer' = TRUE
       /\ OnOffer                              \* the same offer once more
       /\ UNCHANGED <<sig, local, gathering, sending>>
    \/ /\ ~closed /\ gathering = "complete" /\ nstate # "none" /\ remote # 0
       /\ restartAfterGathering' = flag
       /\ \/ /\ sig = "offer"                      \* the last answer is applied once more
             /\ CreateOffer("none", "stable", TRUE)
          \/ /\ sig # "offer" \/ Failures
             /\ Fails
             /\ UNCHANGED <<nstate, sig, local, gathering, sending, restartAtNextOffer>>
       /\ UNCHANGED <<localOfferId, toClient>>

HandleICERestart ==
    /\ Handle("restart")
    /\ DoICERestart(restartAfterGathering)
    /\ UNCHANGED <<askVars, remoteAnswerId, timerVars, remote, connected, notices, toServer, restarts,
                   closed, stopped>>

HandleGathered ==
    /\ Handle("gathered")
    /\ IF restartAfterGathering THEN DoICERestart(FALSE)
       ELSE UNCHANGED <<nstate, sig, local, gathering, sending, flagVars, failed, localOfferId,
                        toClient>>
    /\ UNCHANGED <<askVars, remoteAnswerId, timerVars, remote, connected, notices, toServer, restarts,
                   closed, stopped>>

-----------------------------------------------------------------------------
(* signalStateCheckTimer: its callback clears the timer that is set by then,  *)
(* and reports a failure if it was not superseded. The field is not locked: a *)
(* Stop that meets an older timer lets the new one run, which is TimerFires   *)
(* before TimerClear here.                                                    *)

TimerFires ==
    /\ timer # 0 /\ timer' = 0
    /\ callbacks' = callbacks \cup {[v |-> timer, at |-> "clear"]}
    /\ UNCHANGED <<askVars, events, nstate, sending, idVars, flagVars, counter, pcVars, linkVars,
                   restarts, endVars>>

TimerClear(c) ==
    /\ c \in callbacks /\ c.at = "clear"
    /\ timer' = 0
    /\ callbacks' = (callbacks \ {c}) \cup {[c EXCEPT !.at = "check"]}
    /\ UNCHANGED <<askVars, events, nstate, sending, idVars, flagVars, counter, pcVars, linkVars,
                   restarts, endVars>>

TimerCheck(c) ==
    /\ c \in callbacks /\ c.at = "check"
    /\ callbacks' = callbacks \ {c}
    /\ failed' = (failed \/ (nstate # "none" /\ counter = c.v /\ connected))
    /\ UNCHANGED <<askVars, events, nstate, sending, idVars, flagVars, timer, counter, pcVars,
                   linkVars, restarts, closed, stopped>>

-----------------------------------------------------------------------------
(* Pion and the client. *)

GatheringCompletes ==
    /\ ~closed /\ gathering = "gathering" /\ gathering' = "complete"
    /\ notices' = notices + 1
    /\ UNCHANGED <<askVars, events, nstate, sending, idVars, flagVars, timerVars, sig, local, remote,
                   connected, linkVars, restarts, endVars>>

(* onICEGatheringStateChange: pion calls it after its state has changed. *)
GatheringNotice ==
    /\ notices > 0 /\ notices' = notices - 1
    /\ Enqueue(Plain("gathered"))
    /\ UNCHANGED <<askVars, nstate, sending, idVars, flagVars, timerVars, sig, local, remote,
                   gathering, connected, linkVars, restarts, endVars>>

Connects ==
    /\ ~closed /\ remote # 0 /\ ~connected /\ connected' = TRUE
    /\ UNCHANGED <<askVars, events, nstate, sending, idVars, flagVars, timerVars, sig, local, remote,
                   gathering, notices, linkVars, restarts, endVars>>

ClientAnswers ==
    /\ toClient # <<>>
    /\ toClient' = Tail(toClient)
    /\ toServer' = Append(toServer, Head(toClient))
    /\ UNCHANGED <<askVars, events, nstate, sending, idVars, flagVars, timerVars, pcVars, restarts,
                   endVars>>

(* HandleRemoteDescription *)
AnswerArrives ==
    /\ toServer # <<>>
    /\ toServer' = Tail(toServer)
    /\ Enqueue([kind |-> "answer", id |-> Head(toServer).id, ver |-> Head(toServer).ver])
    /\ UNCHANGED <<askVars, nstate, sending, idVars, flagVars, timerVars, pcVars, toClient, restarts,
                   endVars>>

(* ICERestart, for a client that resumes after its signal connection broke,   *)
(* or that is asked to use another ICE transport and has lost nothing.        *)
ICERestart ==
    /\ restarts < MaxRestarts /\ restarts' = restarts + 1
    /\ ~closed
    /\ toClient' \in {toClient, <<>>} /\ toServer' \in {toServer, <<>>}
    /\ connected' \in {connected, FALSE}
    /\ Enqueue(Plain("restart"))
    /\ UNCHANGED <<askVars, nstate, sending, idVars, flagVars, timerVars, sig, local, remote,
                   gathering, notices, endVars>>

(* Close closes the peer connection, then stops the queue. *)
Close ==
    /\ ~closed /\ closed' = TRUE /\ connected' = FALSE
    /\ UNCHANGED <<askVars, events, nstate, sending, idVars, flagVars, timerVars, sig, local, remote,
                   gathering, notices, linkVars, restarts, failed, stopped>>

StopQueue ==
    /\ closed /\ ~stopped /\ sending = "no"
    /\ stopped' = TRUE /\ events' = <<>> /\ timer' = 0
    /\ UNCHANGED <<askVars, nstate, sending, idVars, flagVars, counter, callbacks, pcVars, linkVars,
                   restarts, failed, closed>>

-----------------------------------------------------------------------------
EventLoop == HandleSendOffer \/ HandleAnswer \/ HandleICERestart \/ HandleGathered \/ SendOffer

Requests == (\E force \in BOOLEAN : Negotiate(force)) \/ PostSendOffer

Timers == \E c \in callbacks : TimerClear(c) \/ TimerCheck(c)

Next ==
    \/ ChangeMedia \/ Requests \/ DebounceFires \/ DebounceCallback
    \/ EventLoop
    \/ TimerFires \/ Timers
    \/ GatheringCompletes \/ GatheringNotice \/ Connects \/ ClientAnswers \/ AnswerArrives \/ ICERestart
    \/ Close \/ StopQueue

Spec == Init /\ [][Next]_vars

(* Goroutines run, timers fire and gathering ends. *)
Fairness ==
    /\ WF_vars(\E force \in BOOLEAN : Negotiate(force)) /\ WF_vars(PostSendOffer)
    /\ WF_vars(DebounceFires) /\ WF_vars(DebounceCallback)
    /\ WF_vars(EventLoop)
    /\ WF_vars(GatheringCompletes) /\ WF_vars(GatheringNotice)
    /\ WF_vars(TimerFires) /\ WF_vars(Timers)

(* The client answers and stays connected. *)
ClientFairness == WF_vars(ClientAnswers) /\ WF_vars(AnswerArrives)

FairSpec == Spec /\ Fairness

AnsweredSpec == Spec /\ Fairness /\ ClientFairness

-----------------------------------------------------------------------------
(* Properties. *)

Queued(k) == \E i \in 1 .. Len(events) : events[i].kind = k

(* However requests, answers and restarts interleave, a change of the media   *)
(* that no offer has carried yet is not forgotten: someone is still going to  *)
(* ask, a debounce or an event is pending, or the next answer triggers an     *)
(* offer (negotiationState RETRY).                                            *)
NoLostNegotiation ==
    content # local =>
        \/ calls > 0 \/ armed \/ firing > 0 \/ posts > 0 \/ Queued("sendOffer")
        \/ nstate = "retry" \/ failed \/ closed

(* negotiationState and pion's signalling state never drift apart: an offer   *)
(* is pending in the peer connection exactly while the transport waits.       *)
StatesAgree == (~failed /\ ~closed) => (nstate = "none" <=> sig = "stable")

(* A restart put off until gathering ends (restartAfterGathering) is not      *)
(* stuck, although pion changes its state before it tells the transport and   *)
(* the flag is set by an event that may overtake that notice: gathering has   *)
(* yet to end, or the event that says so has yet to be handled.               *)
DeferredRestartRuns ==
    restartAfterGathering =>
        gathering = "gathering" \/ notices > 0 \/ Queued("gathered") \/ closed

(* If the client answers, the media are negotiated in the end, or the         *)
(* participant is told to reconnect, whatever was lost at a resume.           *)
Settles == <>[](failed \/ closed \/ remote = content)

(* An offer made on a connected peer connection that stays connected is       *)
(* answered, or reported as a failed negotiation (signalStateCheckTimer).     *)
TimeoutReported ==
    (sending # "no" /\ connected) ~> (failed \/ nstate = "none" \/ ~connected \/ closed)

=============================================================================
