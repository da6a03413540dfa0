------------------------------ MODULE Dynacast ------------------------------
(***************************************************************************)
(* Dynacast of one published track (pkg/rtc/dynacast): subscribers and     *)
(* subscribing nodes say which quality of which codec they want, the       *)
(* manager works out the maximum per codec and tells the publisher, so     *)
(* that it sends no layer nobody watches. Covers the video and the audio   *)
(* manager, the quality of a codec with its timer, the debounce of         *)
(* downgrades, codec regression, and the track (mediatrack.go) that        *)
(* listens.                                                                *)
(*                                                                         *)
(* Every call is a thread that takes one lock per step. Qualities are      *)
(* ordered OffQuality < 1 < 2 ...; a codec the manager has no entry for    *)
(* is Absent.                                                              *)
(***************************************************************************)
EXTENDS Integers, SequencesExt

CONSTANTS
    Codecs, Subscribers, Nodes,
    TopQuality,       \* VideoQuality_HIGH
    RegressionTarget, \* RegressionTargetCodec, the codec other codecs may be regressed to
    DynacastScopes    \* what a behaviour ranges over, see DynacastScope

OffQuality == 0
Absent     == -1
Qualities  == OffQuality .. TopQuality
Peers      == Subscribers \union Nodes

(* The kind of track, whether downgrades are debounced (DynacastPauseDelay),  *)
(* which calls happen, by which peers, for which codecs, and how many.        *)
DynacastScope == [audio : BOOLEAN, debounce : BOOLEAN, peers : SUBSET Peers, codecs : SUBSET Codecs, calls : Nat,
                  kinds : SUBSET {"add", "notify", "regress", "restart", "clear", "resend", "mute", "close"}]

ASSUME DynacastAssumption ==
    /\ DynacastScopes \in SUBSET DynacastScope
    /\ RegressionTarget \in Codecs
    /\ TopQuality \in Nat \ {0}
    /\ Subscribers \intersect Nodes = {}

VARIABLES
    dscope,     \* the scope of this behaviour, constant
    mgr,        \* the manager: max and committed per codec, regressed codecs, debounce pending,
                \* notify queue stopped, closed
    quality,    \* per codec: its dynacastQuality
    debounce,   \* the debounce timer holds update(true)
    notices,    \* notifyOpsQueue
    heard,      \* what the track was last told by the manager
    told,       \* what the track last told the publisher
    muted,      \* the track is muted
    threads,    \* the calls in progress
    wants,      \* what every peer last asked for (history)
    overtaken,  \* codecs whose last stored maximum was out of date by then (history)
    ncalls      \* counter for the bound

dynacastVars == <<dscope, mgr, quality, debounce, notices, heard, told, muted, threads, wants, overtaken, ncalls>>

(* The calls of one peer come one after the other, and so do those of the     *)
(* track; timers have goroutines of their own.                                *)
Goroutines == Peers \union {"track", "timer", "debounce"}

Nothing   == [c \in Codecs |-> Absent]
NoWishes  == [p \in Peers |-> OffQuality]
Idle      == [pc |-> "idle"]
NoQuality == [exists |-> FALSE, wishes |-> NoWishes, max |-> OffQuality, initialized |-> FALSE,
              timer |-> FALSE, regressTo |-> "none"]

DynacastInit ==
    /\ dscope \in DynacastScopes
    /\ mgr = [max |-> Nothing, committed |-> Nothing, regressed |-> {}, pending |-> FALSE,
              stopped |-> FALSE, closed |-> FALSE]
    /\ quality = [c \in Codecs |-> NoQuality]
    /\ debounce = FALSE
    /\ notices = <<>> /\ heard = Nothing /\ told = Nothing
    /\ muted = FALSE
    /\ threads = [t \in Goroutines |-> Idle]
    /\ wants = [p \in Peers |-> [c \in Codecs |-> OffQuality]]
    /\ overtaken = {} /\ ncalls = 0

-----------------------------------------------------------------------------
(* Steps of the calls, one per lock that is taken.                          *)

At(t, pc)     == threads[t].pc = pc
Goto(t, task) == threads' = [threads EXCEPT ![t] = task]
Update(force, next) == [pc |-> "update", force |-> force, next |-> next]

(* getDynacastQualitiesLocked; Close empties the map. *)
Existing == {c \in Codecs : quality[c].exists /\ ~mgr.closed}

(* getOrCreateDynacastQuality; Start sets the timer. *)
Created(q, c) ==
    IF mgr.closed \/ q[c].exists THEN q
    ELSE [q EXCEPT ![c] = [NoQuality EXCEPT !.exists = TRUE, !.timer = ~dscope.audio]]

Lookup(t) ==
    /\ At(t, "lookup")
    /\ quality' = Created(quality, threads[t].codec)
    /\ Goto(t, IF mgr.closed THEN Idle ELSE threads[t].next)
    /\ UNCHANGED <<dscope, mgr, debounce, notices, heard, told, muted, wants, overtaken, ncalls>>

(* NotifySubscriberMaxQuality and NotifySubscription of a codec; a codec that *)
(* was regressed passes a subscriber's wish for a video on and ignores other  *)
(* wishes.                                                                    *)
Record(t) ==
    /\ At(t, "record")
    /\ LET k == threads[t]
           r == quality[k.codec].regressTo
       IN IF r # "none"
          THEN /\ Goto(t, IF k.peer \in Nodes \/ dscope.audio THEN Idle ELSE [k EXCEPT !.codec = r])
               /\ UNCHANGED quality
          ELSE /\ quality' = [quality EXCEPT ![k.codec].wishes[k.peer] = k.quality]
               /\ Goto(t, [pc |-> "compute", codec |-> k.codec, force |-> FALSE, todo |-> {}])
    /\ UNCHANGED <<dscope, mgr, debounce, notices, heard, told, muted, wants, overtaken, ncalls>>

(* updateQualityChange: the maximum is worked out under the lock of the codec *)
(* and handed on after the lock was released.                                 *)
MaxWish(c) == Max({OffQuality} \union {quality[c].wishes[p] : p \in Peers})

Compute(t) ==
    /\ At(t, "compute")
    /\ LET k == threads[t]
           c == k.codec
           same == MaxWish(c) = quality[c].max /\ quality[c].initialized /\ ~k.force
           after == IF k.todo = {} THEN Idle ELSE [pc |-> "clear", todo |-> k.todo]
       IN IF same
          THEN Goto(t, after) /\ UNCHANGED quality
          ELSE /\ quality' = [quality EXCEPT ![c].initialized = TRUE, ![c].max = MaxWish(c)]
               /\ Goto(t, [pc |-> "store", codec |-> c, quality |-> MaxWish(c), next |-> after])
    /\ UNCHANGED <<dscope, mgr, debounce, notices, heard, told, muted, wants, overtaken, ncalls>>

(* OnUpdateMaxQualityForMime, OnUpdateAudioCodecForMime *)
Store(t) ==
    /\ At(t, "store")
    /\ LET k == threads[t]
       IN /\ mgr' = IF k.codec \in mgr.regressed THEN mgr ELSE [mgr EXCEPT !.max[k.codec] = k.quality]
          /\ overtaken' = IF k.quality = quality[k.codec].max THEN overtaken \ {k.codec}
                          ELSE overtaken \union {k.codec}
          /\ Goto(t, Update(FALSE, k.next))
    /\ UNCHANGED <<dscope, quality, debounce, notices, heard, told, muted, wants, ncalls>>

(* update: what is new is committed and queued for the track; when nothing    *)
(* goes up it waits for the debounce timer.                                   *)
Upgraded(c) == mgr.committed[c] < mgr.max[c]

(* Mutant: a notice that waits replaces the debounced function but leaves     *)
(* the flag set.                                                              *)
CommittedPending == [mgr EXCEPT !.committed = mgr.max]

Committed == [mgr EXCEPT !.committed = mgr.max, !.pending = FALSE]

Debounced(force) == /\ ~force /\ dscope.debounce /\ ~dscope.audio
                    /\ \A c \in Codecs : ~Upgraded(c)

(* Enqueue, refused when the queue was stopped by Close. *)
Enqueue(notice) == notices' = IF mgr.stopped THEN notices ELSE Append(notices, notice)

UpdateStep(t) ==
    /\ At(t, "update")
    /\ LET force == threads[t].force
       IN \/ /\ mgr.max = Nothing \/ (~force /\ mgr.max = mgr.committed)
             /\ UNCHANGED <<mgr, debounce, notices>>
          \/ /\ mgr.max # Nothing /\ mgr.max # mgr.committed /\ Debounced(force)
             /\ mgr' = [mgr EXCEPT !.pending = TRUE]
             /\ debounce' = IF mgr.pending THEN debounce ELSE TRUE
             /\ UNCHANGED notices
          \/ /\ mgr.max # Nothing /\ (force \/ mgr.max # mgr.committed)
             /\ ~Debounced(force)
             /\ mgr' = Committed /\ debounce' = FALSE
             /\ Enqueue(mgr.max)
    /\ Goto(t, threads[t].next)
    /\ UNCHANGED <<dscope, quality, heard, told, muted, wants, overtaken, ncalls>>

-----------------------------------------------------------------------------
(* HandleCodecRegression, after its two lookups.                            *)

Mark(t) ==
    /\ At(t, "mark")
    /\ LET k == threads[t]
       IN IF mgr.closed THEN Goto(t, Idle) /\ UNCHANGED mgr
          ELSE /\ mgr' = [mgr EXCEPT !.regressed = @ \union {k.from},
                                     !.max[k.from] = OffQuality,
                                     !.max[k.to] = IF @ = Absent THEN TopQuality ELSE @]
               /\ Goto(t, Update(FALSE, [pc |-> "regress", from |-> k.from, to |-> k.to]))
    /\ UNCHANGED <<dscope, quality, debounce, notices, heard, told, muted, wants, overtaken, ncalls>>

(* Mutant: the wishes stay with the old codec. *)
RegressToCopy(t) ==
    /\ At(t, "regress")
    /\ LET k == threads[t]
       IN /\ quality' = [quality EXCEPT ![k.from].regressTo = k.to, ![k.from].timer = FALSE]
          /\ Goto(t, [pc |-> "replace", codec |-> k.to, moved |-> quality[k.from].wishes])
    /\ UNCHANGED <<dscope, mgr, debounce, notices, heard, told, muted, wants, overtaken, ncalls>>

(* Mutant: the wishes are dropped with the old codec. *)
RegressToNobody(t) ==
    /\ At(t, "regress")
    /\ LET k == threads[t]
       IN /\ quality' = [quality EXCEPT ![k.from].regressTo = k.to, ![k.from].timer = FALSE,
                                        ![k.from].wishes = IF dscope.audio THEN @ ELSE NoWishes]
          /\ Goto(t, [pc |-> "replace", codec |-> k.to, moved |-> NoWishes])
    /\ UNCHANGED <<dscope, mgr, debounce, notices, heard, told, muted, wants, overtaken, ncalls>>

(* Stop, and RegressTo: the wishes for a video move to the new codec. *)
RegressTo(t) ==
    /\ At(t, "regress")
    /\ LET k == threads[t]
       IN /\ quality' = [quality EXCEPT ![k.from].regressTo = k.to, ![k.from].timer = FALSE,
                                        ![k.from].wishes = IF dscope.audio THEN @ ELSE NoWishes]
          /\ Goto(t, [pc |-> "replace", codec |-> k.to,
                      moved |-> IF dscope.audio THEN NoWishes ELSE quality[k.from].wishes])
    /\ UNCHANGED <<dscope, mgr, debounce, notices, heard, told, muted, wants, overtaken, ncalls>>

Replace(t) ==
    /\ At(t, "replace")
    /\ LET k == threads[t]
       IN /\ quality' = [quality EXCEPT ![k.codec].wishes =
                            [p \in Peers |-> IF k.moved[p] > @[p] THEN k.moved[p] ELSE @[p]]]
          /\ Goto(t, [pc |-> "reset", todo |-> {k.codec}])
    /\ UNCHANGED <<dscope, mgr, debounce, notices, heard, told, muted, wants, overtaken, ncalls>>

(* reset of a codec: what its timer finds will be told again. *)
Reset(t) ==
    /\ At(t, "reset")
    /\ \E c \in threads[t].todo :
          /\ quality' = [quality EXCEPT ![c].initialized = FALSE, ![c].timer = ~dscope.audio]
          /\ Goto(t, IF threads[t].todo = {c} THEN Idle ELSE [threads[t] EXCEPT !.todo = @ \ {c}])
    /\ UNCHANGED <<dscope, mgr, debounce, notices, heard, told, muted, wants, overtaken, ncalls>>

(* ClearSubscriberNodes of one codec after the other. *)
ClearNodes(t) ==
    /\ At(t, "clear")
    /\ \E c \in threads[t].todo :
          /\ quality' = [quality EXCEPT ![c].wishes = [p \in Peers |-> IF p \in Nodes THEN OffQuality ELSE @[p]]]
          /\ wants' = [p \in Peers |-> IF p \in Nodes THEN [wants[p] EXCEPT ![c] = OffQuality] ELSE wants[p]]
          /\ Goto(t, [pc |-> "compute", codec |-> c, force |-> FALSE, todo |-> threads[t].todo \ {c}])
    /\ UNCHANGED <<dscope, mgr, debounce, notices, heard, told, muted, overtaken, ncalls>>

(* Close, after the queue was stopped; then every codec's timer. *)
CloseManager(t) ==
    /\ At(t, "close")
    /\ mgr' = [mgr EXCEPT !.closed = TRUE]
    /\ Goto(t, [pc |-> "stop", todo |-> Existing])
    /\ UNCHANGED <<dscope, quality, debounce, notices, heard, told, muted, wants, overtaken, ncalls>>

StopTimers(t) ==
    /\ At(t, "stop")
    /\ quality' = [c \in Codecs |-> IF c \in threads[t].todo THEN [quality[c] EXCEPT !.timer = FALSE]
                                                             ELSE quality[c]]
    /\ Goto(t, Idle)
    /\ UNCHANGED <<dscope, mgr, debounce, notices, heard, told, muted, wants, overtaken, ncalls>>

(* SetMuted, after ForceUpdate. *)
Unmute(t) ==
    /\ At(t, "unmute")
    /\ muted' = FALSE
    /\ Goto(t, Idle)
    /\ UNCHANGED <<dscope, mgr, quality, debounce, notices, heard, told, wants, overtaken, ncalls>>

(* The callback of a codec's timer stops the timer, even a newer one. *)
Expired(t) ==
    /\ At(t, "expired")
    /\ quality' = [quality EXCEPT ![threads[t].codec].timer = FALSE]
    /\ Goto(t, [pc |-> "compute", codec |-> threads[t].codec, force |-> TRUE, todo |-> {}])
    /\ UNCHANGED <<dscope, mgr, debounce, notices, heard, told, muted, wants, overtaken, ncalls>>

Step(t) == \/ Lookup(t) \/ Record(t) \/ Compute(t) \/ Store(t) \/ UpdateStep(t)
           \/ Mark(t) \/ RegressTo(t) \/ Replace(t) \/ Reset(t) \/ ClearNodes(t)
           \/ CloseManager(t) \/ StopTimers(t) \/ Unmute(t) \/ Expired(t)

-----------------------------------------------------------------------------
(* Calls from outside.                                                      *)

BeginCall(t, kind) ==
    /\ threads[t] = Idle
    /\ kind \in dscope.kinds /\ ncalls < dscope.calls /\ ncalls' = ncalls + 1
    /\ UNCHANGED <<dscope, debounce, heard, told, overtaken>>

AddCodec(c) ==
    /\ BeginCall("track", "add")
    /\ Goto("track", [pc |-> "lookup", codec |-> c, next |-> Idle])
    /\ UNCHANGED <<mgr, quality, notices, muted, wants>>

(* NotifySubscriberMaxQuality, NotifySubscription and those of nodes. *)
Notify(p, c, q) ==
    /\ BeginCall(p, "notify")
    /\ dscope.audio => q \in {OffQuality, TopQuality}
    /\ wants[p][c] # q
    /\ wants' = [wants EXCEPT ![p][c] = q]
    /\ Goto(p, [pc |-> "lookup", codec |-> c,
                next |-> [pc |-> "record", codec |-> c, peer |-> p, quality |-> q]])
    /\ UNCHANGED <<mgr, quality, notices, muted>>

(* HandleReceiverCodecChange regresses a codec once. *)
HandleCodecRegression(from) ==
    /\ BeginCall("track", "regress") /\ from \notin mgr.regressed \union {RegressionTarget}
    /\ Goto("track", [pc |-> "lookup", codec |-> from,
                      next |-> [pc |-> "lookup", codec |-> RegressionTarget,
                                next |-> [pc |-> "mark", from |-> from, to |-> RegressionTarget]]])
    /\ UNCHANGED <<mgr, quality, notices, muted, wants>>

RestartDynacast ==
    /\ BeginCall("track", "restart")
    /\ mgr' = [mgr EXCEPT !.committed = Nothing]
    /\ Goto("track", IF Existing = {} THEN Idle ELSE [pc |-> "reset", todo |-> Existing])
    /\ UNCHANGED <<quality, notices, muted, wants>>

ClearSubscriberNodes ==
    /\ BeginCall("track", "clear")
    /\ Goto("track", IF Existing = {} THEN Idle ELSE [pc |-> "clear", todo |-> Existing])
    /\ UNCHANGED <<mgr, quality, notices, muted, wants>>

(* Something is paused: the publisher is told again. *)
ResendCommittedQuality ==
    /\ BeginCall("track", "resend")
    /\ \E c \in Codecs : mgr.committed[c] \notin {Absent, TopQuality}
    /\ ~dscope.audio
    /\ Enqueue(mgr.committed)
    /\ UNCHANGED <<mgr, quality, muted, threads, wants>>

SetMuted(m) ==
    /\ BeginCall("track", "mute") /\ m # muted
    /\ IF m THEN muted' = TRUE /\ UNCHANGED threads
            ELSE Goto("track", Update(TRUE, [pc |-> "unmute"])) /\ UNCHANGED muted
    /\ UNCHANGED <<mgr, quality, notices, wants>>

CloseDynacast ==
    /\ BeginCall("track", "close") /\ ~mgr.stopped
    /\ mgr' = [mgr EXCEPT !.stopped = TRUE]
    /\ Goto("track", [pc |-> "close"])
    /\ UNCHANGED <<quality, notices, muted, wants>>

Call ==
    \/ \E c \in dscope.codecs : AddCodec(c)
    \/ \E p \in dscope.peers, c \in dscope.codecs, q \in Qualities : Notify(p, c, q)
    \/ \E from \in Codecs : HandleCodecRegression(from)
    \/ RestartDynacast \/ ClearSubscriberNodes \/ ResendCommittedQuality
    \/ \E m \in BOOLEAN : SetMuted(m)
    \/ CloseDynacast

(* The timer of a codec, ten seconds after its start or restart. *)
TimerFires(c) ==
    /\ quality[c].timer /\ threads["timer"] = Idle
    /\ quality' = [quality EXCEPT ![c].timer = FALSE]
    /\ Goto("timer", [pc |-> "expired", codec |-> c])
    /\ UNCHANGED <<dscope, mgr, debounce, notices, heard, told, muted, wants, overtaken, ncalls>>

DebounceFires ==
    /\ debounce /\ threads["debounce"] = Idle
    /\ debounce' = FALSE
    /\ Goto("debounce", Update(TRUE, Idle))
    /\ UNCHANGED <<dscope, mgr, quality, notices, heard, told, muted, wants, overtaken, ncalls>>

(* The notify queue runs OnDynacastSubscribedMaxQualityChange, which leaves   *)
(* the publisher of a muted video alone, or OnDynacastSubscribedAudioCodecChange. *)
Deliver ==
    /\ notices # <<>>
    /\ notices' = Tail(notices)
    /\ heard' = Head(notices)
    /\ told' = IF muted /\ ~dscope.audio THEN told ELSE Head(notices)
    /\ UNCHANGED <<dscope, mgr, quality, debounce, muted, threads, wants, overtaken, ncalls>>

DynacastNext ==
    \/ Call
    \/ \E t \in Goroutines : Step(t)
    \/ \E c \in Codecs : TimerFires(c)
    \/ DebounceFires \/ Deliver

(* Calls that began go on, timers fire and the queue is worked off. *)
DynacastFairness == /\ \A t \in Goroutines : WF_dynacastVars(Step(t))
                    /\ \A c \in Codecs : WF_dynacastVars(TimerFires(c))
                    /\ WF_dynacastVars(DebounceFires) /\ WF_dynacastVars(Deliver)

DynacastSpec == DynacastInit /\ [][DynacastNext]_dynacastVars /\ DynacastFairness

-----------------------------------------------------------------------------
(* Properties.                                                              *)

(* A regression leaves nobody behind: the codec that was regressed keeps no   *)
(* wish and stays off, whoever asks in the meantime.                          *)
NobodyLeftBehind ==
    \A c \in Codecs : /\ c \in mgr.regressed => mgr.max[c] = OffQuality
                      /\ quality[c].regressTo # "none" /\ ~dscope.audio => quality[c].wishes = NoWishes

(* Whatever the manager knows of the qualities reaches the track in the end:  *)
(* no debounce, restart or queue loses it.                                    *)
EveryChangeIsTold == <>[](mgr.stopped \/ heard = mgr.max)

(* A publisher ends up sending at least what everyone asked for, a            *)
(* subscriber's wish for a regressed codec included. Two orders in the code   *)
(* are left out: a maximum that is stored after a newer one (overtaken), and  *)
(* a notice that meets the track before SetMuted has unmuted it (told is not  *)
(* what was heard).                                                           *)
SendsFor(p, c) ==
    IF c \notin mgr.regressed THEN told[c]
    ELSE IF p \in Nodes \/ dscope.audio THEN TopQuality ELSE told[RegressionTarget]

FollowsSubscribers ==
    <>[](\/ mgr.stopped \/ told # heard \/ overtaken # {}
         \/ \A p \in Peers, c \in Codecs : wants[p][c] # OffQuality => wants[p][c] <= SendsFor(p, c))

=============================================================================
