------------------------ MODULE SubscriptionManager ------------------------
(***************************************************************************)
(* pkg/rtc/subscriptionmanager.go: one participant's media subscriptions.  *)
(* Clients and the publisher change what is wanted and what exists; a      *)
(* single reconcile worker, fed by a bounded channel and a ticker, brings  *)
(* the subscribed tracks in line; the close callbacks of subscribed tracks *)
(* run on goroutines of their own and update the same entries.             *)
(*                                                                         *)
(* Every step is what the code does between two points where another       *)
(* goroutine can run: a mutex section, an atomic operation or a call.      *)
(***************************************************************************)
EXTENDS PublishedTracks, Sequences

CONSTANTS
    QueueCap,     \* capacity of reconcileCh (50 in the code)
    KindOf,       \* kind of every track
    Limit,        \* SubscriptionLimitVideo / SubscriptionLimitAudio, 0: none
    MaxOps,       \* bound: calls of the client
    MaxPerm,      \* bound: changes of either permission
    MaxPending,   \* bound: RemoveSubscriber goroutines of one MediaTrack in flight
    Scopes        \* the sets of inputs the environment may be limited to

Kinds == {"audio", "video"}

AllInputs == {"subscribe", "settings", "clear", "time", "bind", "canSubscribe", "permission",
              "publish", "close", "resume", "leave", "end", "fail"}

ASSUME ParamAssumption == /\ QueueCap \in Nat \ {0}
                          /\ KindOf \in [Tracks -> Kinds]
                          /\ Limit \in [Kinds -> Nat]
                          /\ MaxOps \in Nat
                          /\ MaxPerm \in Nat
                          /\ MaxPending \in Nat \ {0}
                          /\ Scopes \in SUBSET (SUBSET AllInputs)

All == "subscriptions_reconcile"     \* trackIDForReconcileSubscriptions

ASSUME AllAssumption == All \notin Tracks

VARIABLES
    sub,           \* SubscriptionManager.subscriptions
    queue,         \* reconcileCh
    overflow,      \* reconcileOverflow
    count,         \* subscribedVideoCount / subscribedAudioCount
    subscribedTo,  \* tracks recorded in subscribedTo
    pending,       \* RemoveSubscriber goroutines in flight, per MediaTrack object
    delayed,       \* tracks whose reconcile is re-queued after a sleep
    dropping,      \* RemoveObserver goroutines in flight
    binds,         \* <<subscribed track, ok>>: bind callbacks in flight
    worker,        \* the reconcile worker
    session,       \* active, gone (participant closed), closing, closed
    canSubscribe,  \* the canSubscribe grant
    setPerm,       \* a SetPermission call that has stored the grant but not acted on it
    ops, perms,    \* counters for the bounds
    inputs         \* what the environment of this behaviour does, fixed at the start

subVars  == <<sub, dropping>>
qVars    == <<queue, overflow>>
accVars  == <<count, subscribedTo, pending, delayed>>
envVars  == <<session, canSubscribe, setPerm, ops, perms>>
smVars   == <<subVars, qVars, accVars, binds, worker, envVars>>
sysVars  == <<pubVars, obsVars, dtVars, smVars>>
vars     == <<sysVars, inputs>>

(* An entry of the subscriptions map. "age" abstracts durationSinceStart:    *)
(* 0 recent, 1 longer than maxUnsubscribeWait, 2 longer than the timeouts.   *)
NewSub == [present |-> TRUE, desired |-> FALSE, st |-> 0, bound |-> FALSE,
           perm |-> "unknown", age |-> 0, tried |-> FALSE, kept |-> FALSE,
           kind |-> FALSE, changed |-> 0, removed |-> 0]
NoSub  == [NewSub EXCEPT !.present = FALSE]

SubType == [present : BOOLEAN, desired : BOOLEAN, st : 0 .. MaxSubs, bound : BOOLEAN,
            perm : {"unknown", "yes", "no"}, age : 0 .. 2, tried : BOOLEAN,
            kept : BOOLEAN, kind : BOOLEAN, changed : Nat, removed : Nat]

WorkerPCs == {"idle", "next", "reconcile", "cleanup", "subscribe", "add", "insert", "post",
              "install", "record", "inc", "recheck", "mark", "done"}

WorkerType == [pc : WorkerPCs, t : Tracks, g : Gens, i : 0 .. MaxSubs,
               todo : SUBSET Tracks, tail : BOOLEAN]

(* The type invariant of the manager and of the tracks it subscribes to. *)
TypeOK ==
    /\ PubTypeOK
    /\ sub \in [Tracks -> SubType]
    /\ queue \in Seq(Tracks \cup {All})
    /\ Len(queue) <= QueueCap
    /\ overflow \in BOOLEAN
    /\ count \in [Kinds -> Int]
    /\ subscribedTo \in SUBSET Tracks
    /\ pending \in [Tracks -> [Gens -> 0 .. MaxPending]]
    /\ delayed \in SUBSET Tracks
    /\ dropping \in SUBSET (NoteKinds \X Tracks \X Nat)
    /\ binds \in SUBSET (SubIDs \X BOOLEAN)
    /\ worker \in WorkerType
    /\ session \in {"active", "gone", "closing", "closed"}
    /\ canSubscribe \in BOOLEAN
    /\ setPerm \in {"none", "grant", "revoke"}
    /\ ops \in 0 .. MaxOps
    /\ perms \in 0 .. MaxPerm

Idle == [pc |-> "idle", t |-> CHOOSE t \in Tracks : TRUE, g |-> 1, i |-> 0,
         todo |-> {}, tail |-> FALSE]

Init ==
    /\ PubInit
    /\ sub = [t \in Tracks |-> NoSub]
    /\ queue = <<>>
    /\ overflow = FALSE
    /\ count = [k \in Kinds |-> 0]
    /\ subscribedTo = {}
    /\ pending = [t \in Tracks |-> [g \in Gens |-> 0]]
    /\ delayed = {}
    /\ dropping = {}
    /\ binds = {}
    /\ worker = Idle
    /\ session = "active"
    /\ canSubscribe \in BOOLEAN
    /\ setPerm = "none"
    /\ ops = 0
    /\ perms = 0
    /\ inputs \in Scopes

-----------------------------------------------------------------------------
(* The entry: predicates and updates.                                      *)

(* Mutants: a track that is already recorded is ignored. *)
NeedsSubscribeAgain(s) == s.present /\ s.desired
NeedsCleanupEarly(s)   == s.present /\ ~s.desired /\ ~s.kept

NeedsSubscribe(s)   == s.present /\ s.desired /\ s.st = 0
NeedsUnsubscribe(s) == s.present /\ ~s.desired /\ s.st # 0
NeedsBind(s)        == s.present /\ s.desired /\ s.st # 0 /\ ~s.bound
NeedsCleanup(s)     == s.present /\ ~s.desired /\ s.st = 0 /\ ~s.kept

(* Mutants: the periodic pass forgets a kind of entry. *)
NeedsReconcileNoSubscribe == {t \in Tracks : \/ NeedsUnsubscribe(sub[t]) \/ NeedsBind(sub[t])
                                             \/ NeedsCleanup(sub[t])}
NeedsReconcileNoCleanup == {t \in Tracks : \/ NeedsSubscribe(sub[t]) \/ NeedsUnsubscribe(sub[t])
                                           \/ NeedsBind(sub[t])}

NeedsReconcile == {t \in Tracks : \/ NeedsSubscribe(sub[t]) \/ NeedsUnsubscribe(sub[t])
                                  \/ NeedsBind(sub[t]) \/ NeedsCleanup(sub[t])}

SetDesiredTrue(s) ==
    [s EXCEPT !.desired = TRUE, !.age = 0, !.kept = FALSE, !.tried = s.desired /\ s.tried]

(* Not desired any more: the notifiers are forgotten. *)
SetDesiredFalse(s) ==
    IF s.desired THEN [s EXCEPT !.desired = FALSE, !.changed = 0, !.removed = 0] ELSE s

(* Replacing a notifier starts a goroutine that removes our observer from the old one. *)
DropsOf(t, old, new) ==
    {<<"changed", t, old.changed>> : x \in {y \in {old.changed} : y # 0 /\ y # new.changed}}
      \cup
    {<<"removed", t, old.removed>> : x \in {y \in {old.removed} : y # 0 /\ y # new.removed}}

(* Entry t becomes s. *)
SetSub(t, s) ==
    /\ sub' = [sub EXCEPT ![t] = s]
    /\ dropping' = dropping \cup DropsOf(t, sub[t], s)

(* queueReconcile: when the channel is full, only the overflow flag is set. *)
QueueReconcile(x) ==
    IF Len(queue) < QueueCap
    THEN queue' = Append(queue, x) /\ UNCHANGED overflow
    ELSE overflow' = TRUE /\ UNCHANGED queue

(* Mutant: off by one. *)
HasCapacityInclusive(k) == Limit[k] = 0 \/ count[k] <= Limit[k]

HasCapacity(k) == Limit[k] = 0 \/ count[k] < Limit[k]

CanReconcile == session = "active"
IsClosed == session \in {"closing", "closed"}

-----------------------------------------------------------------------------
(* Calls of the client.                                                    *)

SubscribeToTrack(t) ==
    /\ ops < MaxOps /\ ops' = ops + 1
    /\ ~IsClosed
    /\ SetSub(t, SetDesiredTrue(IF sub[t].present THEN sub[t] ELSE NewSub))
    /\ QueueReconcile(t)
    /\ UNCHANGED <<pubVars, obsVars, dtVars, accVars, binds, worker,
                   session, canSubscribe, setPerm, perms>>

UnsubscribeFromTrack(t) ==
    IF sub[t].present /\ sub[t].desired
    THEN SetSub(t, SetDesiredFalse(sub[t])) /\ QueueReconcile(t)
    ELSE UNCHANGED <<subVars, qVars>>

(* The client's unsubscribe, or FailTrackBind for a track that cannot bind. *)
ClientUnsubscribe(t) ==
    /\ ops < MaxOps /\ ops' = ops + 1
    /\ UnsubscribeFromTrack(t)
    /\ UNCHANGED <<pubVars, obsVars, dtVars, accVars, binds, worker,
                   session, canSubscribe, setPerm, perms>>

(* Settings may come before the subscribe: the entry is kept for a while. *)
UpdateSubscribedTrackSettings(t) ==
    /\ ops < MaxOps /\ ops' = ops + 1
    /\ SetSub(t, LET s == IF sub[t].present THEN sub[t] ELSE NewSub
                 IN  [s EXCEPT !.kept = s.kept \/ ~s.desired])
    /\ UNCHANGED <<pubVars, obsVars, dtVars, qVars, accVars, binds, worker,
                   session, canSubscribe, setPerm, perms>>

(* ClearAllSubscriptions, when the participant moves to another room. *)
ClearAllSubscriptions ==
    /\ ops < MaxOps /\ ops' = ops + 1
    /\ sub' = [t \in Tracks |-> SetDesiredFalse(sub[t])]
    /\ dropping' = dropping \cup UNION {DropsOf(t, sub[t], SetDesiredFalse(sub[t])) : t \in Tracks}
    /\ QueueReconcile(All)
    /\ UNCHANGED <<pubVars, obsVars, dtVars, accVars, binds, worker,
                   session, canSubscribe, setPerm, perms>>

-----------------------------------------------------------------------------
(* ParticipantImpl.SetPermission: the grant is stored, and then either      *)
(* everything is reconciled or the recorded subscriptions are removed.      *)

SetPermission ==
    /\ perms < MaxPerm /\ perms' = perms + 1
    /\ setPerm = "none"
    /\ canSubscribe' = ~canSubscribe
    /\ setPerm' = IF canSubscribe THEN "revoke" ELSE "grant"
    /\ UNCHANGED <<pubVars, obsVars, dtVars, subVars, qVars, accVars, binds, worker, session, ops>>

(* Mutant: tracks that are not bound yet are left out. *)
RecordedAndBound == {i \in SubIDs : \E t \in Tracks : sub[t].st = i /\ sub[t].bound}

(* GetSubscribedTracks *)
Recorded == {i \in SubIDs : \E t \in Tracks : sub[t].present /\ sub[t].st = i}

ApplyGrant ==
    /\ setPerm = "grant"
    /\ setPerm' = "none"
    /\ QueueReconcile(All)
    /\ UNCHANGED <<pubVars, obsVars, dtVars, subVars, accVars, binds, worker,
                   session, canSubscribe, ops, perms>>

ApplyRevoke ==
    /\ setPerm = "revoke"
    /\ setPerm' = "none"
    /\ dts' = CloseOf(Recorded, FALSE)
    /\ UNCHANGED <<pubVars, obsVars, nst, senders, cached, subVars, qVars, accVars, binds, worker,
                   session, canSubscribe, ops, perms>>

-----------------------------------------------------------------------------
(* Goroutines that call back into the manager.                             *)

(* unsubscribe: the MediaTrack removes its subscriber, whichever subscribed   *)
(* track that is by now, then pendingUnsubscribes is decremented.             *)
RemoveSubscriber(t, g) ==
    /\ pending[t][g] > 0
    /\ pending' = [pending EXCEPT ![t][g] = @ - 1]
    /\ dts' = CloseOf(InMap(t, g), FALSE)
    /\ UNCHANGED <<pubVars, obsVars, nst, senders, cached, subVars, qVars,
                   count, subscribedTo, delayed, binds, worker, envVars>>

(* The sleep before a subscribe that found unsubscribes pending is over. *)
DelayedReconcile(t) ==
    /\ t \in delayed
    /\ delayed' = delayed \ {t}
    /\ QueueReconcile(t)
    /\ UNCHANGED <<pubVars, obsVars, dtVars, subVars, count, subscribedTo, pending,
                   binds, worker, envVars>>

RemoveObserver(o) ==
    /\ o \in dropping
    /\ dropping' = dropping \ {o}
    /\ observers' = observers \ {o}
    /\ UNCHANGED <<pubVars, notes, dtVars, sub, qVars, accVars, binds, worker, envVars>>

TrackChanged(t) ==
    /\ <<"changed", t>> \in notes
    /\ notes' = notes \ {<<"changed", t>>}
    /\ QueueReconcile(t)
    /\ UNCHANGED <<pubVars, observers, dtVars, subVars, accVars, binds, worker, envVars>>

(* The observer resolves the track again, in case it has been published again. *)
TrackRemoved(t) ==
    /\ <<"removed", t>> \in notes
    /\ notes' = (notes \ {<<"removed", t>>}) \cup
                  IF Resolved(t) = 0 THEN {<<"gone", t>>} ELSE {}
    /\ UNCHANGED <<pubVars, observers, dtVars, subVars, qVars, accVars, binds, worker, envVars>>

(* It did not find the track: the entry is not desired any more. *)
HandleSourceTrackRemoved(t) ==
    /\ <<"gone", t>> \in notes
    /\ notes' = notes \ {<<"gone", t>>}
    /\ IF sub[t].present
       THEN SetSub(t, [sub[t] EXCEPT !.desired = FALSE, !.changed = 0, !.removed = 0])
       ELSE UNCHANGED subVars
    /\ UNCHANGED <<pubVars, observers, dtVars, qVars, accVars, binds, worker, envVars>>

(* SubscribedTrack.Bound runs the callbacks that are installed by then. *)
Bound(i, ok) ==
    /\ BindDownTrack(i, IF ok THEN "ok" ELSE "failed")
    /\ binds' = IF dts[i].cb = "manager" THEN binds \cup {<<i, ok>>} ELSE binds
    /\ UNCHANGED <<pubVars, obsVars, subVars, qVars, accVars, worker, envVars>>

BindCallback(i, ok) ==
    /\ <<i, ok>> \in binds
    /\ binds' = binds \ {<<i, ok>>}
    /\ IF ok
       THEN /\ sub' = [sub EXCEPT ![dts[i].t].bound = @ \/ dts[i].entry]
            /\ UNCHANGED <<dropping, qVars>>
       ELSE UnsubscribeFromTrack(dts[i].t)          \* handleBindFailure
    /\ UNCHANGED <<pubVars, obsVars, dtVars, accVars, worker, envVars>>

(* Time passes for an entry. *)
Age(t) ==
    /\ sub[t].present
    /\ \/ sub[t].age < 2 /\ sub' = [sub EXCEPT ![t].age = @ + 1]
       \/ sub[t].kept /\ sub' = [sub EXCEPT ![t].kept = FALSE]
    /\ UNCHANGED <<pubVars, obsVars, dtVars, dropping, qVars, accVars, binds, worker, envVars>>

-----------------------------------------------------------------------------
(* handleSubscribedTrackClose, on the goroutine that closed the DownTrack.  *)

CloseStep(i, from, to) == dts[i].state = from /\ dts' = [dts EXCEPT ![i].state = to]

(* Mutant: the subscribed track is not checked for nil. *)
AfterUnsetNoNilCheck(i) == [dts[i] EXCEPT !.state = "notifiers"]

AfterUnset(i) == IF sub[dts[i].t].st = 0 THEN ClosedDT(i)
                 ELSE [dts[i] EXCEPT !.state = "notifiers"]

(* setSubscribedTrack(nil); nothing is left to do if it is nil already. *)
UnsetSubscribedTrack(i) ==
    LET t == dts[i].t IN
    /\ dts[i].cb = "manager"
    /\ dts[i].state = "gone"
    /\ dts' = [dts EXCEPT ![i] = AfterUnset(i)]
    /\ sub' = [sub EXCEPT ![t].st = 0, ![t].bound = FALSE]
    /\ UNCHANGED <<pubVars, obsVars, nst, senders, cached, dropping, qVars, accVars, binds,
                   worker, envVars>>

ClearNotifiers(i) ==
    LET t == dts[i].t IN
    /\ CloseStep(i, "notifiers", "dec")
    /\ IF dts[i].entry THEN SetSub(t, [sub[t] EXCEPT !.changed = 0, !.removed = 0])
       ELSE UNCHANGED subVars
    /\ UNCHANGED <<pubVars, obsVars, nst, senders, cached, qVars, accVars, binds, worker, envVars>>

(* The counter goes down; going below the limit wakes everyone up at the end. *)
DecrementCount(i) ==
    LET k == KindOf[dts[i].t] IN
    /\ dts[i].state = "dec"
    /\ count' = [count EXCEPT ![k] = @ - 1]
    /\ dts' = [dts EXCEPT ![i].state = "unmark",
                          ![i].relieve = Limit[k] > 0 /\ count[k] = Limit[k]]
    /\ UNCHANGED <<pubVars, obsVars, nst, senders, cached, subVars, qVars, subscribedTo, pending,
                   delayed, binds, worker, envVars>>

UnmarkSubscribedTo(i) ==
    /\ CloseStep(i, "unmark", "finish")
    /\ subscribedTo' = subscribedTo \ {dts[i].t}
    /\ UNCHANGED <<pubVars, obsVars, nst, senders, cached, subVars, qVars, count, pending,
                   delayed, binds, worker, envVars>>

(* Mutant: the sender stays for a track that was published again. *)
FinishTrackCloseKeeps(i) ==
    /\ dts[i].state = "finish"
    /\ dts' = [dts EXCEPT ![i] = ClosedDT(i)]
    /\ senders' = IF dts[i].resume \/ sub[dts[i].t].st # 0 THEN senders ELSE senders \ {<<dts[i].t, i>>}
    /\ sub' = IF dts[i].resume /\ dts[i].entry THEN [sub EXCEPT ![dts[i].t].age = 0] ELSE sub
    /\ QueueReconcile(IF dts[i].relieve THEN All ELSE dts[i].t)
    /\ UNCHANGED <<pubVars, obsVars, nst, cached, dropping, accVars, binds, worker, envVars>>

(* RemoveTrackLocal and Negotiate, or a restart of the timer if the track is  *)
(* expected to resume, and a reconcile of the entry, or of all entries if a   *)
(* limit was reached.                                                         *)
FinishTrackClose(i) ==
    /\ dts[i].state = "finish"
    /\ dts' = [dts EXCEPT ![i] = ClosedDT(i)]
    /\ senders' = IF dts[i].resume THEN senders ELSE senders \ {<<dts[i].t, i>>}
    /\ sub' = IF dts[i].resume /\ dts[i].entry THEN [sub EXCEPT ![dts[i].t].age = 0] ELSE sub
    /\ QueueReconcile(IF dts[i].relieve THEN All ELSE dts[i].t)
    /\ UNCHANGED <<pubVars, obsVars, nst, cached, dropping, accVars, binds, worker, envVars>>

-----------------------------------------------------------------------------
(* The reconcile worker.                                                   *)

At(pc) == worker.pc = pc
Goto(pc) == worker' = IF pc = "next" THEN [Idle EXCEPT !.pc = pc, !.todo = worker.todo,
                                                       !.tail = worker.tail]
                      ELSE [worker EXCEPT !.pc = pc]

(* One branch of the worker's select. *)
Tick ==
    /\ At("idle") /\ NeedsReconcile # {}
    /\ worker' = [worker EXCEPT !.pc = "next", !.todo = NeedsReconcile, !.tail = FALSE]
    /\ UNCHANGED <<pubVars, obsVars, dtVars, subVars, qVars, accVars, binds, envVars>>

Dequeue ==
    /\ At("idle") /\ queue # <<>>
    /\ queue' = Tail(queue)
    /\ worker' = [worker EXCEPT !.pc = "next", !.tail = TRUE,
                                !.todo = IF Head(queue) \in {t \in Tracks : sub[t].present}
                                         THEN {Head(queue)} ELSE NeedsReconcile]
    /\ UNCHANGED <<pubVars, obsVars, dtVars, subVars, overflow, accVars, binds, envVars>>

WorkerExit ==
    /\ At("idle") /\ session = "closing"
    /\ Goto("done")
    /\ UNCHANGED <<pubVars, obsVars, dtVars, subVars, qVars, accVars, binds, envVars>>

(* The next entry of this pass, or the check of the overflow flag after it. *)
NextEntry ==
    /\ At("next")
    /\ \/ /\ \E t \in worker.todo :
               worker' = [worker EXCEPT !.pc = "reconcile", !.t = t, !.todo = @ \ {t}]
          /\ UNCHANGED overflow
       \/ /\ worker.todo = {}
          /\ worker' = IF worker.tail /\ overflow
                       THEN [worker EXCEPT !.todo = NeedsReconcile, !.tail = FALSE]
                       ELSE Idle
          /\ overflow' = (overflow /\ ~worker.tail)
    /\ UNCHANGED <<pubVars, obsVars, dtVars, subVars, queue, accVars, binds, envVars>>

NoPending == \A t \in Tracks, g \in Gens : pending[t][g] = 0

(* reconcileSubscription decides what the entry needs. A subscribe is put off *)
(* while unsubscribes are pending, for at most maxUnsubscribeWait.            *)
ReconcileSubscription ==
    LET s == sub[worker.t] IN
    /\ At("reconcile")
    /\ \/ /\ ~CanReconcile
          /\ Goto("next") /\ UNCHANGED <<pending, delayed>>
       \/ /\ CanReconcile /\ NeedsSubscribe(s) /\ ~NoPending /\ s.age = 0
          /\ delayed' = delayed \cup {worker.t}
          /\ Goto("next") /\ UNCHANGED pending
       \/ /\ CanReconcile /\ NeedsSubscribe(s) /\ (NoPending \/ s.age > 0)
          /\ Goto("subscribe") /\ UNCHANGED <<pending, delayed>>
       \/ /\ CanReconcile /\ NeedsUnsubscribe(s)
          /\ pending[worker.t][dts[s.st].g] < MaxPending
          /\ pending' = [pending EXCEPT ![worker.t][dts[s.st].g] = @ + 1]
          /\ Goto("next") /\ UNCHANGED delayed
       \/ /\ CanReconcile /\ ~NeedsSubscribe(s) /\ ~NeedsUnsubscribe(s)
          /\ Goto("cleanup") /\ UNCHANGED <<pending, delayed>>
    /\ UNCHANGED <<pubVars, obsVars, dtVars, subVars, qVars, count, subscribedTo, binds, envVars>>

(* The entry is deleted only if it still needs no more than that. Observers   *)
(* it still has stay registered, unless a close callback that holds the entry *)
(* is about to clear its notifiers.                                           *)
Cleanup ==
    LET t == worker.t
        clearing == \E i \in SubIDs : dts[i].t = t /\ dts[i].entry /\ dts[i].state = "notifiers"
    IN
    /\ At("cleanup")
    /\ IF NeedsCleanup(sub[t])
       THEN /\ sub' = [sub EXCEPT ![t] = NoSub]
            /\ dropping' = IF clearing THEN dropping \cup DropsOf(t, sub[t], NoSub) ELSE dropping
            /\ dts' = [i \in SubIDs |-> IF dts[i].t = t THEN [dts[i] EXCEPT !.entry = FALSE]
                                        ELSE dts[i]]
       ELSE UNCHANGED <<subVars, dts>>
    /\ Goto("next")
    /\ UNCHANGED <<pubVars, obsVars, nst, senders, cached, qVars, accVars, binds, envVars>>

(* recordAttempt(false): the first failure starts the timer. *)
Failed(s) == [s EXCEPT !.tried = TRUE, !.age = IF s.tried THEN s.age ELSE 0]

(* setHasPermission: a grant restarts the timer. *)
WithPermission(s, p) ==
    IF s.perm = (IF p THEN "yes" ELSE "no") THEN s
    ELSE [s EXCEPT !.perm = IF p THEN "yes" ELSE "no", !.age = IF p THEN 0 ELSE s.age]

(* subscribe, up to the decision to add a subscriber. The observers are       *)
(* registered before it is known whether the track exists.                    *)
Resolve ==
    LET t    == worker.t
        g    == Resolved(t)
        s0   == sub[t]
        s1   == [s0 EXCEPT !.changed = epoch[t], !.removed = IF g # 0 THEN epoch[t] ELSE @]
        s2   == [s1 EXCEPT !.kind = TRUE]
        s3   == WithPermission(s2, permitted[t])
        obs  == {<<"changed", t, epoch[t]>> : x \in {y \in {1} : s0.changed # epoch[t]}}
                \cup {<<"removed", t, epoch[t]>> : x \in {y \in {1} : g # 0 /\ s0.removed # epoch[t]}}
        notFoundForGood == g = 0 /\ s0.tried /\ s0.age = 2
    IN
    /\ At("subscribe")
    /\ IF ~canSubscribe \/ (s0.kind /\ ~HasCapacity(KindOf[t]))
       THEN /\ SetSub(t, Failed(s0)) /\ Goto("next")
            /\ UNCHANGED <<observers, qVars>>
       ELSE /\ observers' = observers \cup obs
            /\ CASE notFoundForGood ->        \* ErrTrackNotFound for longer than notFoundTimeout
                       /\ SetSub(t, SetDesiredFalse(Failed(s1)))
                       /\ QueueReconcile(t)
                       /\ Goto("next")
                 [] g = 0 /\ ~notFoundForGood -> SetSub(t, Failed(s1)) /\ Goto("next")
                                                /\ UNCHANGED qVars
                 [] g # 0 /\ ~HasCapacity(KindOf[t]) -> SetSub(t, Failed(s2)) /\ Goto("next")
                                                       /\ UNCHANGED qVars
                 [] g # 0 /\ HasCapacity(KindOf[t]) /\ ~permitted[t] ->
                       SetSub(t, Failed(s3)) /\ Goto("next") /\ UNCHANGED qVars
                 [] OTHER -> /\ SetSub(t, s3)
                             /\ worker' = [worker EXCEPT !.pc = "add", !.g = g]
                             /\ UNCHANGED qVars
    /\ UNCHANGED <<pubVars, notes, dtVars, accVars, binds, envVars>>

AttemptFailed == SetSub(worker.t, Failed(sub[worker.t])) /\ Goto("next")

(* MediaTrackReceiver.AddSubscriber: the track must be open ... *)
AddSubscriber ==
    /\ At("add")
    /\ IF mstate[worker.t][worker.g] # "open" THEN AttemptFailed
       ELSE IF InMap(worker.t, worker.g) # {} THEN Goto("mark") /\ UNCHANGED subVars
       ELSE Goto("insert") /\ UNCHANGED subVars
    /\ UNCHANGED <<pubVars, obsVars, dtVars, qVars, accVars, binds, envVars>>

(* ... MediaTrackSubscriptions.AddSubscriber creates the subscribed track, on *)
(* a cached transceiver if its sender accepts the new track; otherwise that   *)
(* transceiver is stopped, and a new one may be refused as well ...           *)
InsertSubscriber ==
    LET i     == nst + 1
        t     == worker.t
        freed == senders \ {<<t, cached[t]>>}
    IN
    /\ At("insert")
    /\ \/ /\ nst < MaxSubs
          /\ nst' = i
          /\ dts' = [dts EXCEPT ![i] = [NoDT EXCEPT !.t = t, !.g = worker.g, !.state = "live"]]
          /\ senders' = freed \cup {<<t, i>>}
          /\ \/ cached' = [cached EXCEPT ![t] = 0]
             \/ cached[t] # 0 /\ UNCHANGED cached
          /\ worker' = [worker EXCEPT !.pc = "post", !.i = i]
          /\ UNCHANGED subVars
       \/ /\ "fail" \in inputs
          /\ senders' \in {senders, freed}
          /\ AttemptFailed
          /\ UNCHANGED <<dts, nst, cached>>
    /\ UNCHANGED <<pubVars, obsVars, qVars, accVars, binds, envVars>>

(* ... and the track must still be open afterwards. A close to resume does    *)
(* not flush: unless somebody else is at it, it is over with its callbacks,   *)
(* OnDownTrackClose and then the default one, before the worker goes on.      *)
RecheckOpen ==
    LET t      == worker.t
        i      == worker.i
        resume == resuming[t][worker.g]
        atOnce == resume /\ dts[i].state = "live"
    IN
    /\ At("post")
    /\ IF mstate[t][worker.g] # "open"
       THEN /\ dts' = IF atOnce THEN [dts EXCEPT ![i] = ClosedDT(i)] ELSE CloseOf({i}, resume)
            /\ cached' = IF atOnce THEN [cached EXCEPT ![t] = i] ELSE cached
            /\ AttemptFailed
       ELSE UNCHANGED <<dts, cached, subVars>> /\ Goto("install")
    /\ UNCHANGED <<pubVars, obsVars, nst, senders, qVars, accVars, binds, envVars>>

(* OnClose and AddOnBind, which calls back at once if the track is bound ... *)
Install ==
    LET i == worker.i IN
    /\ At("install")
    /\ dts' = [dts EXCEPT ![i].cb = "manager", ![i].entry = TRUE]
    /\ binds' = IF dts[i].bind = "ok" THEN binds \cup {<<i, TRUE>>} ELSE binds
    /\ Goto("record")
    /\ UNCHANGED <<pubVars, obsVars, nst, senders, cached, subVars, qVars, accVars, envVars>>

(* ... then the subscribed track is recorded: setSubscribedTrack. *)
SetSubscribedTrack ==
    /\ At("record")
    /\ sub' = [sub EXCEPT ![worker.t].st = worker.i, ![worker.t].bound = FALSE]
    /\ Goto("inc")
    /\ UNCHANGED <<pubVars, obsVars, dtVars, dropping, qVars, accVars, binds, envVars>>

IncrementCount ==
    /\ At("inc")
    /\ count' = [count EXCEPT ![KindOf[worker.t]] = @ + 1]
    /\ Goto("recheck")
    /\ UNCHANGED <<pubVars, obsVars, dtVars, subVars, qVars, subscribedTo, pending, delayed, binds,
                   envVars>>

(* Mutant: the grant is not checked again. *)
RecheckSkipped ==
    /\ At("recheck")
    /\ Goto("mark")
    /\ UNCHANGED <<pubVars, obsVars, dtVars, subVars, qVars, accVars, binds, envVars>>

(* A revoke that came while the subscribe was in flight has missed it. *)
RecheckCanSubscribe ==
    /\ At("recheck")
    /\ IF canSubscribe
       THEN Goto("mark") /\ UNCHANGED <<dts, subVars>>
       ELSE dts' = CloseOf({worker.i}, FALSE) /\ AttemptFailed
    /\ UNCHANGED <<pubVars, obsVars, nst, senders, cached, qVars, accVars, binds, envVars>>

MarkSubscribedTo ==
    LET t == worker.t IN
    /\ At("mark")
    /\ subscribedTo' = subscribedTo \cup {t}
    /\ sub' = [sub EXCEPT ![t].tried = FALSE]
    /\ Goto("next")
    /\ UNCHANGED <<pubVars, obsVars, dtVars, dropping, qVars, count, pending, delayed, binds, envVars>>

-----------------------------------------------------------------------------
(* The end of the session.                                                 *)

ParticipantClosed ==
    /\ session = "active" /\ session' = "gone"
    /\ UNCHANGED <<pubVars, obsVars, dtVars, subVars, qVars, accVars, binds, worker,
                   canSubscribe, setPerm, ops, perms>>

(* Close signals the worker and waits for it ... *)
StartClose ==
    /\ session \in {"active", "gone"} /\ session' = "closing"
    /\ UNCHANGED <<pubVars, obsVars, dtVars, subVars, qVars, accVars, binds, worker,
                   canSubscribe, setPerm, ops, perms>>

(* ... then forgets the notifiers and closes what is subscribed. *)
FinishClose(resume) ==
    LET cleared(t) == [sub[t] EXCEPT !.changed = 0, !.removed = 0,
                                     !.desired = @ /\ sub[t].st = 0]
    IN
    /\ session = "closing" /\ At("done")
    /\ session' = "closed"
    /\ sub' = [t \in Tracks |-> cleared(t)]
    /\ dropping' = dropping \cup UNION {DropsOf(t, sub[t], cleared(t)) : t \in Tracks}
    /\ dts' = CloseOf(Recorded, resume)
    /\ UNCHANGED <<pubVars, obsVars, nst, senders, cached, qVars, accVars, binds, worker,
                   canSubscribe, setPerm, ops, perms>>

-----------------------------------------------------------------------------
Worker ==
    \/ Tick \/ Dequeue \/ NextEntry \/ ReconcileSubscription \/ Cleanup
    \/ Resolve \/ AddSubscriber \/ InsertSubscriber \/ RecheckOpen
    \/ Install \/ SetSubscribedTrack \/ IncrementCount \/ RecheckCanSubscribe \/ MarkSubscribedTo

(* Steps of the publisher, and the rest of a close or update it has begun. *)
Publisher(t) ==
    \/ "publish" \in inputs /\ AddTrack(t)
    \/ \E g \in Gens :
         \/ "close" \in inputs /\ SetClosing(t, g, FALSE)
         \/ "resume" \in inputs /\ SetClosing(t, g, TRUE)
         \/ "leave" \in inputs /\ RemoveParticipant(t, g)
         \/ ClearAllReceivers(t, g)
         \/ CloseMediaTrack(t, g)
    \/ MaybeRevokeSubscriptions(t)

ChangePermission(t) ==
    /\ "permission" \in inputs
    /\ perms < MaxPerm /\ perms' = perms + 1
    /\ UpdateSubscriptionPermission(t)
    /\ UNCHANGED <<subVars, qVars, accVars, binds, worker, session, canSubscribe, setPerm, ops>>

TrackClose(i) ==
    \/ OnDownTrackClose(i) /\ UNCHANGED <<pubVars, obsVars, smVars>>
    \/ DefaultOnClose(i) /\ UNCHANGED <<pubVars, obsVars, smVars>>
    \/ UnsetSubscribedTrack(i) \/ ClearNotifiers(i) \/ DecrementCount(i)
    \/ UnmarkSubscribedTo(i) \/ FinishTrackClose(i)

Goroutine ==
    \/ \E i \in SubIDs : TrackClose(i)
    \/ \E t \in Tracks, g \in Gens : RemoveSubscriber(t, g)
    \/ \E t \in Tracks : \/ DelayedReconcile(t) \/ TrackChanged(t)
                        \/ TrackRemoved(t) \/ HandleSourceTrackRemoved(t)
    \/ \E o \in dropping : RemoveObserver(o)
    \/ \E b \in binds : BindCallback(b[1], b[2])
    \/ ApplyGrant \/ ApplyRevoke

Environment ==
    \/ \E t \in Tracks :
         \/ "subscribe" \in inputs /\ (SubscribeToTrack(t) \/ ClientUnsubscribe(t))
         \/ "settings" \in inputs /\ UpdateSubscribedTrackSettings(t)
         \/ "time" \in inputs /\ Age(t)
         \/ ChangePermission(t)
    \/ "clear" \in inputs /\ ClearAllSubscriptions
    \/ "canSubscribe" \in inputs /\ SetPermission
    \/ "bind" \in inputs /\ \E i \in SubIDs, ok \in BOOLEAN : Bound(i, ok)
    \/ "end" \in inputs /\ (ParticipantClosed \/ StartClose)

Step ==
    \/ Worker
    \/ WorkerExit
    \/ \E t \in Tracks : Publisher(t) /\ UNCHANGED smVars
    \/ Goroutine
    \/ Environment
    \/ \E r \in BOOLEAN : FinishClose(r)

Next == Step /\ UNCHANGED inputs

Spec == Init /\ [][Next]_vars

(* Goroutines run, the worker runs, a close that was begun goes on; Go's      *)
(* select picks among the ready channels at random, so the worker cannot      *)
(* miss closeCh for ever. Clients, publishers and time owe nothing.           *)
Fairness ==
    /\ WF_sysVars(Worker)
    /\ SF_sysVars(WorkerExit)
    /\ WF_sysVars(\E r \in BOOLEAN : FinishClose(r))
    /\ WF_sysVars(ApplyGrant) /\ WF_sysVars(ApplyRevoke)
    /\ \A i \in SubIDs : WF_sysVars(TrackClose(i))
                          /\ WF_sysVars(\E ok \in BOOLEAN : BindCallback(i, ok))
    /\ \A t \in Tracks :
         /\ WF_sysVars(DelayedReconcile(t)) /\ WF_sysVars(TrackChanged(t))
         /\ WF_sysVars(TrackRemoved(t)) /\ WF_sysVars(HandleSourceTrackRemoved(t))
         /\ WF_sysVars(MaybeRevokeSubscriptions(t) /\ UNCHANGED smVars)
         /\ \A g \in Gens : WF_sysVars(RemoveSubscriber(t, g))
         /\ \A g \in Gens : WF_sysVars((ClearAllReceivers(t, g) \/ CloseMediaTrack(t, g))
                                     /\ UNCHANGED smVars)

FairSpec == Spec /\ Fairness

-----------------------------------------------------------------------------
(* Properties.                                                             *)

(* The tracks of a kind that are recorded, and those whose close callback has *)
(* taken the record away but has not given the count back yet.                *)
Leaving == {"notifiers", "dec"}
RecordedOf(k) == {t \in Tracks : KindOf[t] = k /\ sub[t].st # 0}
LeavingOf(k)  == {i \in SubIDs : KindOf[dts[i].t] = k /\ dts[i].state \in Leaving}

(* subscribedVideoCount / subscribedAudioCount agree with the recorded        *)
(* subscribed tracks, up to the steps between recording a track and counting  *)
(* it, on either side: nothing is counted twice or never given back.          *)
CountMatchesRecords ==
    \A k \in Kinds :
        count[k] = Cardinality(RecordedOf(k)) + Cardinality(LeavingOf(k))
                   - (IF At("inc") /\ KindOf[worker.t] = k THEN 1 ELSE 0)

(* hasCapacityForSubscription is checked long before the track is recorded,   *)
(* and closes run concurrently; still no more tracks of a kind are ever       *)
(* recorded than SubscriptionLimitVideo / SubscriptionLimitAudio allow.       *)
WithinLimit ==
    \A k \in Kinds : Limit[k] > 0 => Cardinality(RecordedOf(k)) <= Limit[k]

(* Why: from the check on, the worker holds a place that is not counted yet.  *)
Counting == {"add", "insert", "post", "install", "record", "inc"}
PlaceIsHeld ==
    \A k \in Kinds : Limit[k] > 0 =>
        count[k] + (IF worker.pc \in Counting /\ KindOf[worker.t] = k THEN 1 ELSE 0) <= Limit[k]

(* A DownTrack that forwards media is always known to the manager: recorded   *)
(* in the subscriptions map, or in the worker's hands before it is recorded.  *)
(* Otherwise no unsubscribe and no Close could ever stop it.                  *)
LiveIsOwned ==
    \A i \in SubIDs : dts[i].state = "live" =>
        \/ sub[dts[i].t].present /\ sub[dts[i].t].st = i
        \/ worker.pc \in {"post", "install", "record"} /\ worker.i = i

(* Once SetPermission has revoked canSubscribe, nothing is forwarded, even if *)
(* a subscribe was in flight, except while the worker is about to check the   *)
(* grant again (addSubscriber's re-check).                                    *)
RevokeComplete ==
    (~canSubscribe /\ setPerm = "none" /\ worker.pc \notin {"post", "install", "record", "inc", "recheck"})
        => \A i \in SubIDs : dts[i].state # "live"

(* When handleSubscribedTrackClose runs, the entry it holds is still in the   *)
(* map and records the very track that closed, or none because the worker has *)
(* not recorded it yet: it never clears the record of a newer track.          *)
ClosesItsOwnRecord ==
    \A i \in SubIDs : dts[i].state = "gone" /\ dts[i].cb = "manager" =>
        dts[i].entry /\ (sub[dts[i].t].st = i \/ (At("record") /\ worker.i = i))

(* SubscriptionManager.Close waits for the worker, so that when it returns no *)
(* DownTrack of the participant forwards media, and none ever will again.     *)
NothingLiveAfterClose == session = "closed" => \A i \in SubIDs : dts[i].state # "live"

(* The inductive invariant behind the four properties above: who holds a      *)
(* subscribed track at every point of its life. A track with the manager's    *)
(* callback is recorded until that callback runs, or about to be recorded; a  *)
(* track without it is in the worker's hands; the worker subscribes only for  *)
(* entries that are in the map and record nothing.                            *)
Adding == {"post", "install", "record", "inc", "recheck"}

Ownership ==
    /\ \A i \in SubIDs :
         /\ (dts[i].cb = "manager" /\ dts[i].state \in {"live", "closing", "gone"}) =>
               /\ dts[i].entry
               /\ \/ sub[dts[i].t].present /\ sub[dts[i].t].st = i
                  \/ worker.pc = "record" /\ worker.i = i
         /\ (dts[i].cb = "default" /\ dts[i].state = "live") =>
               worker.pc \in {"post", "install"} /\ worker.i = i
         /\ (~canSubscribe /\ setPerm = "none" /\ dts[i].state = "live") =>
               worker.pc \in Adding /\ worker.i = i
         /\ session = "closed" => dts[i].state # "live"
         /\ i > nst => dts[i].state = "none"
    /\ \A t \in Tracks : ~sub[t].present => sub[t].st = 0
    /\ worker.pc \in {"subscribe", "add", "insert", "post", "install", "record"} =>
         sub[worker.t].present /\ sub[worker.t].st = 0
    /\ worker.pc \in Adding =>
         worker.i \in 1 .. nst /\ dts[worker.i].t = worker.t /\ dts[worker.i].state # "none"
    /\ session = "closed" => worker.pc = "done"
    /\ setPerm = "grant" => canSubscribe

(* A subscribed track is recorded whose close callback has already run. *)
Orphaned(t) == sub[t].st # 0 /\ dts[sub[t].st].state = "closed"

(* The comments on needsUnsubscribe rely on the close callback to reset the   *)
(* recorded track: a track whose callbacks are over must not stay recorded.   *)
NoOrphan == \A t \in Tracks : ~Orphaned(t)

(* "the track is removed from the peer connection before re-published track   *)
(* is re-subscribed and added back to the SDP": the sender of an earlier      *)
(* subscription never stays beside a newer one. The comment promises more:    *)
(* the close callback, which resets the record first, may still be on its way *)
(* to RemoveTrackLocal; and a track that is expected to resume leaves its     *)
(* transceiver in the cache.                                                  *)
OneSenderPerTrack ==
    \A i, j \in SubIDs : \A t \in Tracks :
        i < j /\ <<t, i>> \in senders /\ <<t, j>> \in senders =>
            cached[t] = i \/ dts[i].state \in {"closing", "gone", "notifiers", "dec", "unmark", "finish"}

(* Once the publisher's revoke has been enforced and everything is quiet, the *)
(* subscriber has no forwarding DownTrack of a track it may not have.         *)
PermissionRevokeComplete ==
    \A i \in SubIDs : (dts[i].state = "live" /\ worker.pc \in {"idle", "done"})
        => permitted[dts[i].t] \/ dts[i].t \in revoking

(* A subscription that could be served: wanted, resolvable and allowed. *)
Servable(t) ==
    /\ CanReconcile /\ canSubscribe /\ permitted[t] /\ Resolved(t) # 0
    /\ sub[t].present /\ sub[t].desired
    /\ Limit[KindOf[t]] = 0

Served(t) == sub[t].st # 0 /\ dts[sub[t].st].state = "live"

(* Whatever was dropped, overflowed, raced or retried before: a subscription  *)
(* that stays wanted and servable ends up with a forwarding DownTrack, unless *)
(* a track was orphaned (NoOrphan).                                           *)
EventuallySubscribed ==
    \A t \in Tracks : <>[](Servable(t) /\ ~Orphaned(t)) => <>[]Served(t)

(* An unwanted subscription is taken apart: whatever close callbacks, pending *)
(* unsubscribes or lost reconcile requests there were, its entry goes away.   *)
EventuallyUnsubscribed ==
    \A t \in Tracks :
        <>[](CanReconcile /\ ~sub[t].desired /\ ~sub[t].kept /\ ~Orphaned(t)) => <>[](~sub[t].present)

=============================================================================
