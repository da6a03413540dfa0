# A TLA+ verification of LiveKit server

LiveKit is a selective forwarding unit: clients hold a signal connection and one or two peer
connections; the server decides which published tracks each participant receives and forwards their
packets. The code around that is concurrent Go: reconcile loops, callbacks on goroutines of their own,
debounced requests, retries, timers, restarts, and one lock per object. These modules are about what the
objects promise each other when their steps interleave.

Modules are translated from the code at the commit in `src/`. `PROJECT.json` maps every definition to
the lines it stands for. Paths below are relative to `src/pkg/`.

## 1. Inventory

| Component | State | Operations | Talks to | What is hard | What makes it correct |
|---|---|---|---|---|---|
| `rtc/subscriptionmanager.go` | subscriptions map, reconcile channel, counters, subscribedTo | subscribe, unsubscribe, settings, reconcile, close callback, Close | tracks of the room, the subscriber's transport | one worker against API calls, close callbacks, observers, permission changes | every forwarding track has an owner; what is wanted is served in the end; revoke and Close are complete |
| `rtc/roomtrackmanager.go`, `mediatrackreceiver.go`, `mediatracksubscriptions.go`, `subscribedtrack.go`, `uptrackmanager.go` | tracks by ID, their state and subscribers, permissions | publish, close, republish, add and remove subscriber, change permissions | subscription managers, DownTracks | a track that closes or is published again during a subscribe | a subscriber is added only to an open track and removed once |
| `routing/signal.go`, `messagechannel.go`, `service/signal.go` | sequence numbers, send queue, bounded channel | write, send with retry, read, close | psrpc streams between nodes | Send that times out but arrives; give up; close while sending | FIFO without duplicates, nothing lost silently at a clean end |
| `rtc/transport.go` (offering side) | negotiation state, event queue, debounce, timer | negotiate, offer, answer, ICE restart, close | pion, the client, the participant | requests that meet a negotiation, restarts in the middle of one, timers | no change forgotten, state follows the peer connection, failures reported |
| `rtc/transport.go` (answering side), `transportmanager.go` | pending restart offer, ICE credential, tracks without a media section; ICE configuration | remote offer, answer, requirement of sections; fallback | client, participant | restart offers during gathering; tracks added while they are counted; lost requirements | the last offer is applied and answered, every track gets a section |
| `rtc/participant*.go`, `rtc/supervisor` | participant state, pending and published tracks, media that waits, permissions, publication monitors | request, media, mute, unpublish, permission, close, time-outs | room, tracks, client | requests, media and ends of tracks in any order; mutes and revokes during a publication | media meets its request, a mute reaches its track, a revoked track goes, a live track is monitored |
| `rtc/room.go`, `service/roommanager.go`, `roomallocator.go` | rooms by name, holds, participants by identity | start session, join, remove, sweep, delete, close | participants, stores, routers | duplicate identities, a room that closes while a session joins it, late removals | one participant per identity; nobody stays in a closed room; sessions return |
| `rtc/dynacast`, `rtc/mediatrack.go` | wishes per subscriber and node, maximum and committed quality per codec | notify, aggregate, debounce, regress, restart, mute, close | publishers | reductions that wait against increases, two locks, a codec that is taken away | the publisher hears of every change and sends what is wanted |
| `sfu/receiver_base.go`, `receiver.go`, `buffer/buffer_base.go` | forwarding goroutines, their generation, buffers | add a layer, restart, detect a restart, close | DownTracks | a restart that waits for goroutines that wait for packets; layers added meanwhile | each layer has its goroutine; nothing of a new stream before the resync |
| `sfu/forwarder.go`, `rtpmunger.go`, `codecmunger`, `sequencer.go`, `downtrack.go` | offsets, last numbers, layers, meta data of sent packets | write, filter, switch source, mute, pad, NACK, restart | receivers, stream allocator | late packets, padding, switches, restarts, numbering under one lock and recording under another | outgoing numbers without repeats or unfillable holes; a NACK finds its packet |
| `sfu/streamallocator`, `bwe`, `ccutils` | channel capacity, track allocations, probe clusters | allocate, probe | DownTracks, pacer | feedback against allocation | the sum of allocations respects the capacity |
| `agent`, `service/agenthandler.go` | workers, jobs | register, assign, update, disconnect | rooms, clients | disconnect during an assignment | a job is run by at most one worker |
| stores and routers (`service/redisstore.go`, `routing/redisrouter.go`) | Redis keys | lock, load, store | Redis | lock time-out | one node owns a room |
| services, TURN, WHIP, telemetry, configuration | requests | request handlers | all | mostly I/O | not modelled |

`PROJECT.json` lists all of them under `components`, each with what is or is not modelled and why, and
under `hazards` what a test would hardly reach, each at its line.

### How the modelled parts interact

A client's session starts in a room (`RoomLifecycle`); it asks to publish, its media arrives
(`TrackPublication`), and the published track (`MediaTrack`) reads packets layer by layer
(`ReceiverRestart`) and tells its publisher what to send (`Dynacast`). Another client asks for the track over its signal
connection. If its socket and its room are on different nodes, each direction of that connection is a
relay (`SignalRelay`). The participant passes the request to its `SubscriptionManager`, whose worker
resolves the track in the room (`PublishedTracks`), adds itself as a subscriber and has a DownTrack
added to the subscriber's peer connection; the change of media makes it call `Negotiate` on the
transport (`TransportOfferer`), whose offer and answer go over the signal connection, or, with one peer
connection for both directions, on the one that answers (`TransportAnswerer`). The
DownTrack then numbers, sends and retransmits packets (`DownTrackPackets`).

Compositions: `SubscriptionManager` with `PublishedTracks`; `TrackPublication` with `RoomLifecycle` and
`PublicationMonitor`; `MediaTrack` of `Dynacast` and `ReceiverRestart`; `DownTrackPackets` with
`RTPMunger` and `Sequencer`. Between these groups little is assumed: the transport sees only "media changed,
then Negotiate was called"; the manager does not wait for a negotiation; a DownTrack sees a restart of
its receiver as "told to resync, then sequencer emptied".

## 2. Modules

| Module | Models | Used by |
|---|---|---|
| `PublishedTracks` | the published side as one subscriber sees it | `SubscriptionManager` extends it |
| `SubscriptionManager` | one participant's media subscriptions, composed with the published tracks | `MCSubscriptionManager`, `MCSubscriptionScenarios`, `SubscriptionManagerProofs` |
| `SignalFIFO` | abstract: what a signal connection promises | `SignalRelay` instantiates it |
| `SignalRelay` | one direction of a relayed signal connection | `MCSignalRelay`, `SignalRelayProofs` |
| `TransportOfferer` | the offering side of PCTransport | `MCTransportOfferer`, `TransportOffererProofs` |
| `TransportAnswerer` | the answering side of PCTransport | `MCRoomLifecycle` |
| `RangeMap` | the map from source numbers to offsets | `RTPMunger`, `Sequencer` |
| `RTPMunger` | numbers and timestamps of outgoing packets, as operators on a record | `DownTrackPackets` |
| `Sequencer` | meta data of sent packets in a ring, as operators on a record | `DownTrackPackets` |
| `DownTrackPackets` | the packet path of one DownTrack: layers, padding, NACKs, mutes, restarts | `MCDownTrackPackets`, `DownTrackPacketsProofs` |
| `Dynacast` | the dynacast manager of a track, for video and audio | `MediaTrack` |
| `ReceiverRestart` | forwarding goroutines of a receiver and its restarts | `MediaTrack` |
| `MediaTrack` | a published track: both, and its close | `MCMediaTrack`, `MediaTrackProofs` |
| `RoomLifecycle` | rooms of one name, the sessions in them | `TrackPublication`, `RoomLifecycleProofs` |
| `PublicationMonitor` | one monitor of the supervisor, as operators on a record | `TrackPublication` |
| `TrackPublication` | how a participant publishes, in a room that may end | `MCRoomLifecycle`, `TrackPublicationProofs`, `PublicationListingProofs` |

Runs share a module's *scopes*: a set of records, one chosen in Init, that says which inputs a behaviour
has and how often. One run then asks its question of several environments, each small.

### PublishedTracks and SubscriptionManager

*Grain.* A step is what the code does between two points where another goroutine can run: a mutex
section, an atomic operation, a call. The worker's subscribe is ten steps (`worker.pc`): resolve, check,
`add`, `insert` (the subscriber map of the track), `post` (the open check that follows), `install` (OnClose and
AddOnBind), `record`, `inc`, `recheck` (canSubscribe), `mark`. The close callback is five steps
(`dts[i].state`: gone, notifiers, dec, unmark, finish), on a goroutine of its own.

*State.* `sub` is the subscriptions map, one record per track ID (`present` is membership; the
fields are those of `trackSubscription`). `queue` is the reconcile channel with its capacity and
`overflow` the flag that a dropped request leaves. `dts` are the SubscribedTrack objects, numbered in
order of creation: an object keeps the callback it was given (`cb`), and `entry` says whether the entry that callback
closes over is still in the map. `infos` and `mstate` are the MediaTrack objects registered under a track
ID: a re-publication is a new object under the same ID. `senders` are the RTP senders in the
subscriber's peer connection.

*Abstractions.* Durations are an `age` of three values (recent, older than the wait for an
unsubscribe, older than the time-outs). Retry pauses and the ticker are nondeterministic. A close "expected to
resume" is synchronous, as in `closeSubscribedTrack` (`mediatracksubscriptions.go:270`): the worker that closes its own new track
has put the transceiver in the cache when the step is over (`RecheckOpen`), and ClearAllReceivers
returns only when the tracks it closes have done so (`CloseMediaTrack`). Error
reports to the client, telemetry and settings other than their effect on keeping an entry are left out.
The `errAlreadySubscribed` answer of AddSubscriber (and its second look, `mediatrackreceiver.go:584-602`) is unreachable in every instance:
the manager is the only caller for its participant. One step each: the resolver's mutex sections (`Resolve`), RemoveTrack
with its notifications, the goroutine that ends a close callback (`Finish`). Calls of SetPermission for one participant are
taken to be serialised. Not modelled: data track subscriptions; `subscribeSynchronous`, used in the
one-shot signalling mode only.

*Bounds.* `MaxGen` objects per track ID, `MaxClose` closes, `MaxSubs` subscribed tracks, `MaxOps`
client calls, `MaxPerm` changes of each permission, `MaxPending` RemoveSubscriber goroutines. `Scopes`
selects which kinds of input an instance has; `MCSubscriptionScenarios` lists six environments, because
all inputs together are out of TLC's reach; the proofs cover all of them. Every run uses a queue of
capacity one, so that dropping happens at once; `SubscriptionLive` has one track, so that what is dropped is a request of the
same track, and one track's requests do not crowd out another's. One track suffices except for the limits; two objects
under its ID make republication, two subscribed tracks a second subscribe while the first closes.

### SignalRelay and SignalFIFO

`WriteMessage`, `Close`, the write goroutine (`SendBatch`, `SendOK`, `Retry`, `GiveUp`), the reader
(`ReadBatch`, `PutMessage`, `CloseStream`, `StreamEnds`) and the message channel. The psrpc stream is
external: a batch under way may arrive at any later time, also after its Send has timed out, or
never; a Send succeeds only after an acknowledgement. `MaxRetries` stands for RetryTimeout. Both values
of `CloseOnFailure` are chosen in Init: the client's node sets it, the room's node does not. A second
`Close` changes nothing and is left out.

`SignalFIFO` is the abstract specification: two histories, `accepted` and `received`, and every
delivery is the next accepted message. `RelayIsFIFO` says that the relay implements it, under the
mapping `accepted <- written, received <- delivered` (history variables of the relay).

Bounds: two messages, one retry, one place in the stream buffer and in the channel. Two messages
give a resent batch that has grown, a batch that overlaps with what was read, and a channel that fills in the
middle of a batch.

### TransportOfferer

`Negotiate(force)`, the debouncer, the event queue with one handler at a time (`HandleSendOffer`,
`HandleAnswer`, `HandleICERestart`, `HandleGathered`), the timer that reports unanswered
negotiations, and `Close`. A handler is one step, except that `createAndSendOffer` is split before it
sets up its timer and sends (`sending`, `SendOffer`), because callbacks of the timer run between. The timer's field is not
protected in the code; what an unlucky order of reads and writes can do is already among the
orders of `TimerFires` and `TimerClear`. Media are a version number, `content`; an offer and its answer
carry the version the offer was made from.

External: pion (signalling state, descriptions, gathering state, connection state) and the client. Pion
changes its gathering state before it calls the handler, so the two are separate steps. The signal
connection keeps the order; when the client resumes (`ICERestart`) anything under way in either
direction may be lost. With `Failures`, pion may reject a description or a candidate and OnOffer may fail at any time.

Not modelled: candidates, `previousAnswer` of a migration (`transport.go:2673-2677`), data channels, one-shot mode, clients that
send no answer id.

Bounds: two versions, one restart. Two versions give a request during a negotiation; one restart meets
every state of the negotiation and of gathering.

### TransportAnswerer

The publisher's peer connection gets offers; when a participant has only this one, the server also sends on
it. The event loop: `HandleOfferReceived`, `HandleGatheredAnswerer` (an offer put off in
`pendingRestartIceOffer`), `HandleNegotiate`, and `createAndSendAnswer` in the steps that other goroutines can
come between: `CountUnmatched` (without the lock), `StoreCounts`, `SendAnswer`, `RequireSections`. The other
goroutines: `AddSender`, then `AdjustOutstanding`; `RemoveSender`; `AskToNegotiate`. One kind of media stands for
both. `Negotiate` with its debounce is one flag here, `TransportOfferer` has the detail.

External: pion gives new sections to transceivers that wait, in any order, may or may not reuse a
transceiver for a new track, restarts ICE when the credential changes, and changes its gathering state before it
says so. The client behaves as the client in `transport_media_sections_test.go`: it adds the sections it is
asked for, offers, waits for the answer; when it resumes it offers once more with a new credential, and anything under
way in either direction may be lost.

`AnswererSettles` holds with one exemption, `end.stale`. When gathering ends after a second restart offer was queued and
before it is handled, that offer is applied at once, and the event that gathering is complete then applies
the older one that was put off and answers it under the id of the newer. The peer connection is left with
a remote description the client has replaced; TLC finds this as soon as the exemption is dropped and the client
may resume twice.

`AnswererSettles` thus does not catch the second half of that hazard: it is stated, not excluded.

Simplified: AdjustOutstanding's look at the transceiver's mid and its lock (`transport.go:2614-2624`) are one step. Not modelled:
candidates, codec restrictions (`suppressCodecMismatchedSenders`, 3348-3392), tracks that keep their section after a migration.

Bounds: two tracks, two offers of the client's own and two resumes, in six scenarios. Two tracks give one that is added
while another is counted, two resumes an offer that overtakes one put off.

### RangeMap, RTPMunger, Sequencer and DownTrackPackets

`RTPMunger` and `Sequencer` are the code's operations as operators on records: translate, late packet, filter, padding,
source switch; push, push padding, flush, look up. Both keep offsets in a `RangeMap`, with its limit on
ranges and its pruning. `DownTrackPackets` runs them as the goroutines do: one per layer writes packets
(`flight` is the packet that has its number but is not recorded yet, since the forwarder and the
sequencer have a lock each), one pads, one answers NACKs (`nacker` has looked up the meta data and not read
the payload yet), and a restart of the receiver resyncs the forwarder first and empties the sequencer later. Three
selectors are distinguished because they decide differently which packet begins a stream: simulcast,
dependency descriptor, VP9.

Which packets a selector drops within a layer, and whether a codec munger drops a temporal layer, are
data of the stream and hence a choice. Outgoing numbers are unbounded in the model, as the 64-bit extended numbers are in
the code; the 16-bit number of a NACK is taken modulo `SNModulus`, and the first number is close to the
wrap. Timestamps are those of the frame, one per source number. Not modelled: codec headers (picture IDs), which target layer the
allocator chooses, pacing, the RTX gate's timing. Also left out: malformed or oversized packets, for which
WriteRTP returns after the number was given (`downtrack.go:1054-1076`, `forwarder.go:2404`), so that the number stays a hole that nothing fills;
a dependency descriptor that cannot be marshalled (`videolayerselector/dependencydescriptor.go:302-372`); two refinements of the simulcast selector,
its pull of the target towards the maximum and its way back from an overshoot (`simulcast.go:136-155`), after which the current layer
is one whose key frame has come, as after the switches that are modelled; ReceiverRestart of a closed DownTrack or another codec (`downtrack.go:1832-1841`). ReceiverRestart determines
the codec last, and thereby goes back to the stream's own selector; `RestartForwarder` does so at once, no packet is written between.

Exemptions, each at its definition. `OutOfSync`: the VP9 selector acquires a layer on packets it does not
select, so that the munger is switched late (`videolayerselector/vp9.go:47`); the code promises nothing between. `gaveUp` and
`passed`: numbers whose packet was withheld on a downgrade, left behind by a switch, or came before a
late key frame switched to its layer. `Forgotten`: numbers before the first range when the map of offsets
is full, whose late packets the munger rejects as too old. `wiped`: padding pushed late for a number exactly one turn of
the ring behind passes for recent and clears the slot of the newest packet (`sequencer.go:315`).

Bounds: two to four source numbers per layer with two key frames, three slots and two ranges: enough for a
ring that turns, a map that is pruned, and a late packet on each side of a switch.

### Dynacast, ReceiverRestart and MediaTrack

`Dynacast`: each call is a thread that takes one lock per step; `threads[t]` says what it does next. A
call states a wish (`Record`), computes the maximum under the codec's lock (`Compute`), stores it under the
manager's (`Store`), and commits or debounces it (`UpdateStep`); a queue of notices is delivered to the track,
which passes them on unless it is muted. `FollowsSubscribers` exempts two orders that the code
admits: a maximum stored after a newer one (`overtaken`; it is corrected by the next change only), and a
notice that meets the track before `SetMuted` has unmuted it.

`ReceiverRestart`: a packet is the epoch of its stream, that is how often the stream of its layer has begun again. A forwarding
goroutine checks the generation, reads, writes; a restart advances the generation, marks the buffers, waits, begins
them again, tells the DownTracks, and starts goroutines. A buffer that detects a new stream starts a restart
that marks nothing. `ResyncBeforePackets` leaves detected restarts out: there the mark may be consumed
before the generation advances, and packets of the new stream are written before the resync.

`AskedRestartCompletes` is exempt where a buffer is read twice (`ReadTwice`). A restart that ends between AddBuffer
and StartBuffer has started a goroutine for the new layer, and StartBuffer (`receiver_base.go:782`) starts another one. The
next restart marks the buffer once (`buffer_base.go:557`), one of the two takes the mark (662-665) and ends, the other waits on, and
waitForForwardersStop (`receiver_base.go:363`) does not return until packets come. The scope `RestartIn({1}, 1, 2, 0, FALSE)` of `MCMediaTrack` has
these steps: without `~ReadTwice` in the property TLC reports them.

`MediaTrack` closes the manager before the receiver; a receiver that closes by itself first (`mediatrack.go:422-430`) is left out.
One step each: reset of a codec's quality with the start of its timer (`dynacastqualityvideo.go:184-190`, 226-239), Stop and RegressTo of a codec
(`dynacastmanagerbase.go:107-108`). ForceQuality and ForceEnable, which nothing outside the tests calls, are left out. Bounds: one subscriber and one node, two codecs, two
layers, at most three calls, two restarts, two packets per layer.

### RoomLifecycle, PublicationMonitor and TrackPublication

`RoomLifecycle` has a thread per StartSession (lookup, hold, replace the earlier session, join, release), per
`Participant.Close` (closing, disconnected, closed) and per `Room.Close`; a sweep whose decision and
close are two steps; DeleteRoom; and the goroutines of the state-change notices. The room map, `holds`,
members by identity and the store's entries are state.

`TrackPublication` adds one publishing session: `pend` are the pending requests per client ID, of which
all but the first are queued; `remote` is media without a request; `tracks` are the MediaTrack objects with the steps of
their close (`tasks[CloseOf(o)]`); `announcing` are goroutines of handleTrackPublished, `registry` the
room's track manager. AddTrack, media, offers (whose end takes up media that waits), mutes,
permissions, ends of receivers, time-outs and the supervisor's answer run against each other and
against the end of the participant. `ClosedIsForgotten` exempts `unheard`: tracks that were announced after they had ended, or that
ended after the room had cleared its listener, stay registered until the room closes. `RevokedIsRemoved` and `LiveIsMonitored` exempt
`unlisted`: AddPublishedTrack's callback and RemovePublishedTrack (`uptrackmanager.go:277-292`) delete by track ID, and queued requests of a client
ID share it. If the queued one is published before the removal of the first gets there, the newer track goes from the list while it is open: a later
revoke does not find it, and the next track of that ID takes over its monitor. It takes two requests, two media of one client ID and three changes of
the permission (a trace of 40 states: the permission is granted again in between), more than the scenarios have.

Simplified: a failing SendJoinResponse, resume, dependent participants, one-shot and WHIP sessions, tracks that are
matched by type, requests with several codecs, and eviction of the oldest released IDs are left out; RemoveParticipant
(deletion under the lock, later the listener and the close, `room.go:1403-1485`), AddOnClose (check and addition), the sweep's reading of the map with CloseIfEmpty's decision,
the storing of a room, and the end of a track that promotes the next request (`participant.go:3801`, 3813-3818) are one step each. getOrCreateRoom that fails after it
allocated the room (topics, `roommanager.go:689-701`; egress, 740-758) is left out. Of publishing: media whose transceiver has no mid yet (`participant.go:3502-3510`; it waits
like media without a request, whatever its request does), matching by type (3898-3912), the codec check of a migrated track (3547-3571), a further codec for a
published track (`req.Sid`, 3113-3131), requests that are muted from the start (3369, 3394) are left out, and calls of SetPermission by
an administrator and by the client are serialised.

Bounds: two sessions of one identity, one of another, three rooms, one sweep or deletion; two or three requests, two
media of one client ID, two pending client IDs (so that requests can queue up behind a pending one, and the third
is at the limit) and two queued requests, `MaxAdds` = 3 requests over a session.

## 3. Runs

No run takes more than five minutes with two workers. "Violated" runs show that the code does not do what
a comment, a test or a document says.

| Run | Shows | Result |
|---|---|---|
| `SubscriptionSafety` | ownership, counters, limits, senders; a revoke of canSubscribe and the end of the session are complete although a subscribe is in flight | holds |
| `SubscriptionLive` | what is wanted and possible is served, what is unwanted removed, although requests are dropped | holds |
| `SubscriptionOrphan` | a track that closes before OnClose is installed stays recorded for ever | violated |
| `SubscriptionPermission` | a publisher's revoke during a subscribe is lost | violated |
| `SignalRelay` | refinement of the FIFO, complete clean end, termination of Close, no silent loss on the client's side | holds |
| `TransportOfferer` | no change forgotten, states agree, deferred restarts run, everything settles | holds |
| `TransportTimeout` | an old timer's callback stops the timer of the next negotiation | violated |
| `DownTrackPackets` | numbers unique, holes fillable, timestamps advance, no jump after a resync, NACKs find their packet | holds |
| `MediaTrack` | dynacast tells every change and follows the subscribers; every layer is served, resync comes first, restarts end | holds |
| `RoomLifecycle` | members, holds and closing of rooms, sessions return; publication: nothing forgotten, mutes, revokes, monitors; the answering transport settles | holds |
| `ReceiverDetected` | a detected restart waits for a layer that gets no packets, and never ends | violated |
| `RoomReplaced` | the end of a closed room takes its successor out of the map | violated |

Deadlock checking is off throughout: once the bounded environment has no more inputs, and after
a close, all of these components rest.

Each property has a mutant: a plausible slip in one mapped definition (the operator marked
"Mutant" above it) that TLC shows to break it.

### What the violations mean

* *Orphan.* The window is between the return of AddSubscriber and `OnClose` in `addSubscriber`. The
  subscription stays recorded and desired but nothing forwards and no reconcile helps, until the
  client unsubscribes; and then nothing comes to reset the record. `EventuallySubscribed` and
  `EventuallyUnsubscribed` therefore exclude orphaned tracks.
* *Permission.* canSubscribe is checked again after the record is made, the publisher's permission is not.
* *Timeout.* It needs a callback that is delayed while an answer arrives and the next offer is made. The
  participant is then not told to reconnect, and media changes wait for an answer that never comes.
* *Detected.* Marks wake the goroutines, and a detected restart sets none but that of the buffer that
  detected it. A paused layer gets no packets, so the restart and with it every layer stops until
  its packets come back or the receiver closes. `LayersAreServed` is about the time outside a restart.
* *Replaced.* `deleteRoom` deletes by name. A session that could not hold the closed room has put a new
  one in its place; when the old room's OnClose runs, the new one is no longer found by the next
  session, the sweep or a deletion, although participants are in it; nor is it or its participant in the
  store, until something about the room changes (OnRoomUpdated, not modelled, stores it again).

Some properties exempt an order of steps that the code admits, each at its definition, and so do not catch it:
`OneSenderPerTrack` (the close callback resets the record before it removes the sender, and until it has done so a second sender is there),
`AnswererSettles` (`end.stale`), `AskedRestartCompletes` (`ReadTwice`), `FollowsSubscribers` (`overtaken`, and the notice before the unmute),
`ClosedIsForgotten` (`unheard`), `ResyncBeforePackets` (detected restarts). The hazards in `PROJECT.json` say so.

## 4. Fairness

* Subscriptions: goroutines that exist run (weak fairness); the worker runs, its ticker included. The
  worker leaves its loop under strong fairness: Go's select chooses at random between the ready
  close channel and a ready queue. Clients, publishers, permissions and time owe nothing.
* Relay: the writer runs, because Send returns within its timeout; the reader's range loop runs; a
  close of the stream reaches the other end. Batches and acknowledgements owe nothing.
* Transport: the event loop, debounce and timers run, gathering ends. That the client answers is assumed
  only for `Settles` (`AnsweredSpec`); `TimeoutReported` is about a client that need not (`FairSpec`).
  `AnswererSettles` assumes the same of the client that offers: it takes what it is sent and negotiates.
* Published track: calls in progress, timers, the debounce and the notice queue run
  (`DynacastFairness`); a restart, the goroutine that announces a detected one, an AddUpTrack that has begun and
  every layer's goroutines run (`RestartFairness`). No packet is promised.
* Rooms: the started threads as a whole run (`RoomThreads`), and so do those of the publisher and its signal
  queue (`PublishFairness`). Weak fairness of the whole is less than Go's scheduler gives each thread; the two
  liveness properties need no more. Clients, sweeps and deletions owe nothing.
* Packets: safety only.

## 5. Proofs

The theorems hold for every value of the constants that the named assumptions admit: any tracks, limits,
channel capacities, numbers of writes, retries, media changes and restarts; any sessions, rooms, requests,
layers, codecs, streams and sizes of the range map.

**SubscriptionManagerProofs.** `Ownership` is the inductive invariant, with `TypeOK`. `LiveIsOwned` alone is not
inductive: that a recorded track is still the one its callback resets depends on the callback's
entry being in the map, which depends on cleanup only removing entries without a record, which depends
on the worker subscribing only for entries that are present and record nothing. `Ownership` states
exactly these, together with what the revoke and Close leave. From it follow `LiveTracksAreOwned`,
`RevokeIsComplete`, `CloseCallbackOwnsRecord` and `ClosedMeansSilent`; `OwnershipHolds` and `TypeCorrect`
are the invariant itself.
The counters: `CountMatchesRecords` is inductive given `Ownership`, since a callback decrements what its own record
counted. The limit needs `PlaceIsHeld` as well: from the capacity check to the count only the worker adds,
so the place it saw stays free. `CountsDoNotDrift` and `LimitIsKept` follow.
The senders: the cache has room for one transceiver per track ID, and `CacheDownTrack` only warns when it overwrites one
(`participant.go:4093`). `SenderInv` says why it does not: of a track ID at most one track without a close callback under way
waits to be cached (`SendersOK`), a track that is being parted from belongs to the oldest published object still in the room, so that
Resolve finds nothing to subscribe to beside it (`PartingOK`, `SourcesOK`), and what the worker has in hand is the latest
(`NoneParts`). TLC checked `SenderInv` before the proof (10 million states, and as many simulated). `SendersDoNotPileUp`
follows, for environments with `LeavesForGood`: a publisher that was removed from the room is not closed for a migration as well.
RemoveParticipant closes it, and not to resume (`room.go:815`), so the hypothesis fails only when a migration (`room.go:971`) closes it between
the two. Then the cache is overwritten: the track leaves the room, the migration closes the worker's new track, not yet cached,
which answers that the track is not open; the next publication is subscribed to; the first transceiver is cached, and the
close of the second one to resume takes its place. The sender of the first one stays. An instance with both inputs and two
closes shows this order in 25 steps.

**SignalRelayProofs.** The invariant is `TypeOK /\ Numbering`: wherever a message is (queue, batch being sent, copies
under way, stream buffer, batch half copied), its number is its place in the order of writing; and
until the sink gives up, no batch starts beyond what the reader has or is about to read. From it `CleanClose` and, step by step,
`RelayImplementsFIFO`: only `WriteMessage` maps to Write, only `PutMessage` to Deliver, all others stutter.

**TransportOffererProofs.** The invariant adds two facts to the three properties: a debounced request is
pending only while its timer or its callback exists (else a non-forced Negotiate that finds
`debouncePending` set would be lost), and the queue stops only after the close (else a posted event
could be dropped). `NegotiationsAreNotLost`, `StatesDoNotDrift`, `DeferredRestartIsNotStuck` and
`OffererTypeCorrect` follow.

**RoomLifecycleProofs.** `RoomsInv`: what a thread of StartSession knows at each step (`StartOK`; one that waits for
its own participant has closed it), that a member is a session of that identity that joined this very room (`MembersOK`; this
makes the removal by session safe), that while a room closes its open members are still in the list of those to
be told (`ClosingOK`), and that the holds of an open room are the sessions being started in it (`HoldsOK`).
Theorems: `RoomsAreHeld`, `LiveSessionStays`, `ClosedRoomIsEmpty`.

**TrackPublicationProofs.** `PublishInv` is `RoomsInv` with `TracksInv`. The parts that are needed beyond the
properties: media is in the hands of at most one task (`TaskOK`), the Close of an object runs once and its state says
where it is (`ObjectOK`), a mute that is not applied yet is ahead of the mute that is being applied (`MuteOK`), and
all requests queued for a client ID share the track ID (`SharedSid`; it is why releasing by track ID takes the whole queue).
Theorems: `RequestsAreLimited`, `MuteReachesTheTrack`, `NothingIsForgotten`, `ClosedTrackIsForgotten`; and `PublisherInRoom`, the
promises of the room for a participant that also publishes and that the supervisor may close.

**PublicationListingProofs.** On top of `PublishInv`, `ListingInv` in three parts. `SidsOK`: a track ID belongs to one client ID and is not
used again, so what mediaTrackReceived makes while nothing of its client ID is listed finds its place in the list free. `OpenInv`: an open
track is listed, or in the hands of Participant.Close, or in `unlisted`; and after a revoke somebody is about to close it: who made it and has yet to look at
the permission, RemoveTracks, or Participant.Close. `MonitorInv`: a monitor waits for starts and ends in turn, for an end exactly while it has a
track, and for at least two changes per pending request, so that neither a release nor the removal of idle monitors can hit a live one. Lemmas say what each
operation of `PublicationMonitor` does to such a monitor. TLC checked `ListingInv` on two scenarios (2.4 million states) before the proof. Theorems:
`ListingInvariant`, `RevokedTracksGo`, `LiveTracksAreMonitored`.

**MediaTrackProofs.** `DynacastInv`: what each call may hold at each of its steps, and that the codec others are
regressed to is never regressed itself, so that a wish that moves does so once. `RestartInv`: the flag is set exactly
while a restart runs, all goroutines are in the current wait group (so a restart that waited has none left), outside a restart
they are of the current generation, and, without detected restarts, buffers hold packets of the epoch that the DownTracks know.
Theorems: `RegressionLeavesNobody`, `EveryLayerIsServed`, `DownTracksAreTold`.

**DownTrackPacketsProofs.** Lemmas on `RangeMap`: the ranges stay in order and so do the outgoing numbers of their keys, hence no two keys
share a number; closing or excluding a range changes nothing for older keys unless they are dropped (`Kept`, `Moved`).
Lemmas on `RTPMunger`: after every operation the next source number is in the open range and its outgoing number is not below
the last one (`MungerOK`). `NumbersInv`: every selector but VP9's has a current layer only together with a source, no number above the
last was sent, and the numbers late packets would get are unused. Hence `NumbersStayUnique`, `TimestampsDoAdvance` and
`NumbersDoNotJump`. `HolesInv` adds that the last number is spent, that the munger has seen what came of its source, and that
every number up to the last is explained; hence `HolesStayAwaited`. The proof needed `Forgotten`: TLC's scopes are too short for a
full map to reject a packet that a hole waits for.
`RecordsInv` relates the sequencer to what was sent: it leaves out only padding, a packet that is not recorded is in flight, and what
was recorded is in the slot of its number. That slot is its own because positions of numbers in the ring's reach differ by less
than `Slots`. The map of the sequencer never forgets a number in reach: a closed range and its gap take at least two numbers, and there are
`(Slots + 1) \div 2` of them. The assumption used is `2 * Slots <= SNModulus` (the code has 2^16 numbers and far fewer slots). Hence
`RecentStaysFound`, and `RecordedIsNotMistaken`: for a recorded packet of the current stream at most half a turn behind, the look-up returns exactly
that packet or nothing, in every turn of the numbers.
`SlotsInv` is about what a slot holds whatever its age: a packet sent under a number with those 16 bits. Hence `AnswersAreOfTheirNumber` for every NACK, and
`NacksFindWhatWasSent` in the first turn of the numbers (`FirstTurn`; every scope of the run is in it), where the NACKed number may also be
one that is not recorded, was wiped, or is of a stream before a restart. In a later turn a number that is not recorded and
half a turn or more ahead of the highest recorded one is taken for an old one, and a slot that padding after a gap passed over
keeps its old packet; the code relies on recording keeping up. `FirstTurn` also leaves VP9's selector out: it may spend a number a second time
(`OutOfSync`), and then the history no longer tells what was sent first.

**Only model-checked.** Liveness (`EventuallySubscribed`, `EventuallyUnsubscribed`, `CloseReturns`,
`DeliveredOrTold`, `Settles`, `EveryChangeIsTold`, `FollowsSubscribers`, `AskedRestartCompletes`,
`ClosedIsRemoved`, `SessionsReturn`, `AnswererSettles`) is beyond the prover used. Every safety property
of the passing runs is stated by a theorem; two of them under a hypothesis, `OneSenderPerTrack` (`LeavesForGood`) and `NackFindsWhatWasSent`
(`FirstTurn`). No scope of the runs is outside the hypotheses except
those of VP9, on which only TLC checks `NackFindsWhatWasSent`.

The type invariants `TypeOK` and the inductive invariants `Ownership`, `SenderInv`, `Numbering`, `RoomsInv`, `TracksInv`, `ListingInv`, `DynacastInv`, `RestartInv`,
`PacketInv`, `RecordsInv` and `SlotsInv` are in no run: they are proved for every instance.

## 6. Plan

1. TransportManager's fallback; candidates on both sides of PCTransport.
2. Theorems: refinement of a sequencer that is a finite map; the counters of `TransportAnswerer`.
3. Participant: migration, resume, the queue of participant updates. Data tracks.
4. Stream allocator: allocation and probing states. Agents: job assignment. The room lock in Redis.

Abstract specifications worth stating: a published track's promise to a subscriber (at most one
DownTrack, closed exactly once), the transport's promise to the manager (every change is negotiated or
a failure reported), and the sequencer as a finite map from sent numbers to packets.

Hazards that were met while modelling and have no property: the observer of a removal marks a track
as not desired that was published again meanwhile (`subscriptionmanager.go:832`); markSubscribedTo and
unmarkSubscribedTo in the wrong order (1265); a bind before the record is made is forgotten (1543);
DeleteParticipant and StoreParticipant by identity against a newer session (`roommanager.go:619`, 724); DeleteRoom of a room
that is allocated and not yet in the map (952); a callback added while Close collects them
(`participant.go:1038`); a signal connection that ends during a resume (1060); media attached to a track that is closing
(3520); a request queued behind a published track that is timed at once (3329); a restart asked for while a
detected one runs is skipped, as its comment accepts (`receiver_base.go:328`). The code states no promise for most of these
orders, or they belong to parts that are not modelled.

## 7. Not modelled

Packet parsing, statistics, congestion estimation and connection quality are numerical and driven by
real time. Services, authentication, configuration, telemetry, TURN and the protocol front ends keep no
state that their own requests do not fully determine. Stores and routers are key-value I/O, except for
the room lock. Third-party code (pion, psrpc, Redis) appears only as the modelled code uses it.

The map covers the control code of the parts above. A large share of the repository's lines is generated test
doubles (`*fakes`), codecs of wire formats, statistics, front ends, agents and tests' support, which keep no
protocol state; they stay unmapped.

## 8. Running

    tlc -config SubscriptionSafety.cfg MCSubscriptionScenarios
    tlc -config SubscriptionLive.cfg MCSubscriptionManager
    tlc -config SignalRelay.cfg MCSignalRelay
    tlc -config TransportOfferer.cfg MCTransportOfferer
    tlc -config DownTrackPackets.cfg MCDownTrackPackets
    tlc -config MediaTrack.cfg MCMediaTrack
    tlc -config RoomLifecycle.cfg MCRoomLifecycle
    tlapm SubscriptionManagerProofs.tla
    tlapm DownTrackPacketsProofs.tla

and likewise for the other configurations and proof modules.
