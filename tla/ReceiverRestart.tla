--------------------------- MODULE ReceiverRestart ---------------------------
(***************************************************************************)
(* The receiver of one published track (pkg/sfu/receiver_base.go,          *)
(* receiver.go) with its buffers (pkg/sfu/buffer/buffer_base.go): a        *)
(* goroutine per layer moves packets from the buffer to the DownTracks; a  *)
(* restart stops them all, begins the buffers again, tells the DownTracks  *)
(* to resynchronise, and starts new ones. A restart is asked for from      *)
(* outside, or a buffer detects that its stream has begun again.           *)
(*                                                                         *)
(* A packet is abstracted to the epoch of its buffer: how often the stream *)
(* of that layer has begun again.                                          *)
(***************************************************************************)
EXTENDS Naturals, SequencesExt

CONSTANTS
    UpLayers,      \* layers of the track
    RestartScopes  \* what a behaviour ranges over, see RestartScope

(* The layers whose addition may still be under way when a restart begins;    *)
(* bounds: packets per layer, restarts from outside, detected restarts;       *)
(* whether the receiver may be closed.                                        *)
RestartScope == [late : SUBSET UpLayers, packets : Nat, asked : Nat, found : Nat, close : BOOLEAN]

ASSUME RestartAssumption == RestartScopes \in SUBSET RestartScope

VARIABLES
    rscope,       \* the scope of this behaviour, constant
    rcv,          \* forwardersGeneration, restartInProgress, current wait group, isClosed
    buf,          \* per layer: "none", "added" (not started yet), "open" or "closed"
    pending,      \* per layer: isRestartPending
    epoch,        \* per layer: epoch of the stream
    queue,        \* per layer: epochs of the packets in the buffer
    forwarders,   \* per layer: the goroutines of forwardRTP
    restarter,    \* the call of restartInternal that is not a duplicate
    detected,     \* calls of onStreamRestart that have not begun
    synced,       \* per layer: epoch the DownTracks were last told to resync to
    received, asked, found     \* counters for the bounds

bufVars     == <<pending, epoch, queue>>
rcountVars  == <<received, asked, found>>
restartVars == <<rscope, rcv, buf, bufVars, forwarders, restarter, detected, synced, rcountVars>>

NoRestart == [pc |-> "idle", detected |-> FALSE, todo |-> {}]

RestartInit ==
    /\ rscope \in RestartScopes
    /\ rcv = [gen |-> 0, inProgress |-> FALSE, group |-> 0, closed |-> FALSE]
    /\ buf = [l \in UpLayers |-> "none"]
    /\ pending = [l \in UpLayers |-> FALSE]
    /\ epoch = [l \in UpLayers |-> 0]
    /\ queue = [l \in UpLayers |-> <<>>]
    /\ forwarders = [l \in UpLayers |-> <<>>]
    /\ restarter = NoRestart
    /\ detected = 0
    /\ synced = [l \in UpLayers |-> 0]
    /\ received = [l \in UpLayers |-> 0] /\ asked = 0 /\ found = 0

-----------------------------------------------------------------------------
(* Buffers: AddUpTrack is AddBuffer and then StartBuffer.                   *)

Buffers == {l \in UpLayers : buf[l] \in {"added", "open"}}

(* Bound on the interleavings of AddUpTrack with restarts. *)
LayersInPlace == \A l \in UpLayers \ rscope.late : buf[l] \in {"open", "closed"}

NewForwarder == [gen |-> rcv.gen, group |-> rcv.group, pc |-> "check", packet |-> 0]

(* startForwarderForBufferLocked defers to the restart in progress. *)
StartForwarders(layers) ==
    forwarders' = [l \in UpLayers |-> IF l \in layers THEN Append(forwarders[l], NewForwarder)
                                                      ELSE forwarders[l]]

AddBuffer(l) ==
    /\ buf[l] = "none" /\ ~rcv.closed
    /\ rscope.packets > 0
    /\ buf' = [buf EXCEPT ![l] = "added"]
    /\ UNCHANGED <<rscope, rcv, bufVars, forwarders, restarter, detected, synced, rcountVars>>

StartBuffer(l) ==
    /\ buf[l] = "added"
    /\ buf' = [buf EXCEPT ![l] = "open"]
    /\ StartForwarders(IF rcv.inProgress THEN {} ELSE {l})
    /\ UNCHANGED <<rscope, rcv, bufVars, restarter, detected, synced, rcountVars>>

(* HandleIncomingPacketLocked: a packet is queued ... *)
Arrive(l) ==
    /\ l \in Buffers /\ received[l] < rscope.packets
    /\ received' = [received EXCEPT ![l] = @ + 1]
    /\ queue' = [queue EXCEPT ![l] = Append(@, epoch[l])]
    /\ UNCHANGED <<rscope, rcv, buf, pending, epoch, forwarders, restarter, detected, synced, asked, found>>

(* ... or it is the first of a new stream: the buffer begins again, and the   *)
(* receiver is told in a goroutine of its own.                                *)
DetectRestart(l) ==
    /\ l \in Buffers /\ found < rscope.found /\ received[l] > 0
    /\ LayersInPlace
    /\ found' = found + 1
    /\ epoch' = [epoch EXCEPT ![l] = @ + 1]
    /\ queue' = [queue EXCEPT ![l] = <<epoch[l] + 1>>]
    /\ pending' = [pending EXCEPT ![l] = TRUE]
    /\ detected' = detected + 1
    /\ UNCHANGED <<rscope, rcv, buf, forwarders, restarter, synced, received, asked>>

-----------------------------------------------------------------------------
(* forwardRTP, the i-th goroutine of layer l.                               *)

SetPC(l, i, pc) == forwarders' = [forwarders EXCEPT ![l][i].pc = pc]
Stop(l, i)      == forwarders' = [forwarders EXCEPT ![l] = RemoveAt(@, i)]

(* The generation is looked at before every packet. *)
CheckGeneration(l, i) ==
    /\ forwarders[l][i].pc = "check"
    /\ IF forwarders[l][i].gen = rcv.gen THEN SetPC(l, i, "read") ELSE Stop(l, i)
    /\ UNCHANGED <<rscope, rcv, buf, bufVars, restarter, detected, synced, rcountVars>>

(* ReadExtended waits for the end, a mark or a packet. *)
ReadExtended(l, i) ==
    /\ forwarders[l][i].pc = "read"
    /\ \/ /\ buf[l] = "closed"
          /\ Stop(l, i) /\ UNCHANGED bufVars
       \/ /\ buf[l] # "closed" /\ pending[l]
          /\ pending' = [pending EXCEPT ![l] = FALSE]
          /\ SetPC(l, i, "check") /\ UNCHANGED <<epoch, queue>>
       \/ /\ buf[l] # "closed" /\ ~pending[l] /\ queue[l] # <<>>
          /\ forwarders' = [forwarders EXCEPT ![l][i] = [@ EXCEPT !.pc = "write", !.packet = Head(queue[l])]]
          /\ queue' = [queue EXCEPT ![l] = Tail(@)]
          /\ UNCHANGED <<pending, epoch>>
    /\ UNCHANGED <<rscope, rcv, buf, restarter, detected, synced, rcountVars>>

(* The packet is written to the DownTracks. *)
Broadcast(l, i) ==
    /\ forwarders[l][i].pc = "write"
    /\ forwarders' = [forwarders EXCEPT ![l][i] = [@ EXCEPT !.pc = "check", !.packet = 0]]
    /\ UNCHANGED <<rscope, rcv, buf, bufVars, restarter, detected, synced, rcountVars>>

Forward == \E l \in UpLayers : \E i \in 1 .. Len(forwarders[l]) :
              CheckGeneration(l, i) \/ ReadExtended(l, i) \/ Broadcast(l, i)

-----------------------------------------------------------------------------
(* restartInternal. A second call while one runs returns at once.           *)

Begin(isDetected) ==
    IF rcv.closed \/ rcv.inProgress THEN UNCHANGED <<rcv, restarter>>
    ELSE /\ rcv' = [rcv EXCEPT !.inProgress = TRUE, !.gen = @ + 1]
         /\ restarter' = [pc |-> IF isDetected THEN "wait" ELSE "collect", detected |-> isDetected, todo |-> {}]

Restart ==
    /\ asked < rscope.asked /\ asked' = asked + 1
    /\ LayersInPlace
    /\ Begin(FALSE)
    /\ UNCHANGED <<rscope, buf, bufVars, forwarders, detected, synced, received, found>>

OnStreamRestart ==
    /\ detected > 0 /\ detected' = detected - 1
    /\ Begin(TRUE)
    /\ UNCHANGED <<rscope, buf, bufVars, forwarders, synced, rcountVars>>

(* 3. GetAllBuffers, and a mark for every one of them, which wakes up one     *)
(* goroutine.                                                                 *)
CollectBuffers ==
    /\ restarter.pc = "collect"
    /\ restarter' = [restarter EXCEPT !.pc = "mark", !.todo = Buffers]
    /\ UNCHANGED <<rscope, rcv, buf, bufVars, forwarders, detected, synced, rcountVars>>

(* Mutant: the goroutines are not woken up. *)
NotMarked(l) ==
    /\ restarter.pc = "mark" /\ l \in restarter.todo
    /\ restarter' = [restarter EXCEPT !.todo = @ \ {l}]
    /\ UNCHANGED <<rscope, rcv, buf, bufVars, forwarders, detected, synced, rcountVars>>

MarkForRestart(l) ==
    /\ restarter.pc = "mark" /\ l \in restarter.todo
    /\ restarter' = [restarter EXCEPT !.todo = @ \ {l}]
    /\ pending' = [pending EXCEPT ![l] = TRUE]
    /\ UNCHANGED <<rscope, rcv, buf, epoch, queue, forwarders, detected, synced, rcountVars>>

Marked ==
    /\ restarter.pc = "mark" /\ restarter.todo = {}
    /\ restarter' = [restarter EXCEPT !.pc = "wait"]
    /\ UNCHANGED <<rscope, rcv, buf, bufVars, forwarders, detected, synced, rcountVars>>

(* Mutant: only the goroutines of the new generation are awaited. *)
StoppedAtOnce == \A l \in UpLayers : \A i \in 1 .. Len(forwarders[l]) : forwarders[l][i].gen # rcv.gen

(* 4. All goroutines of the wait group are awaited. *)
Stopped == \A l \in UpLayers : \A i \in 1 .. Len(forwarders[l]) : forwarders[l][i].group # rcv.group

ForwardersStopped ==
    /\ restarter.pc = "wait" /\ Stopped
    /\ restarter' = IF restarter.detected THEN [restarter EXCEPT !.pc = "signal"]
                    ELSE [restarter EXCEPT !.pc = "restart", !.todo = Buffers]
    /\ UNCHANGED <<rscope, rcv, buf, bufVars, forwarders, detected, synced, rcountVars>>

(* 5. Every buffer begins again. *)
RestartStream(l) ==
    /\ restarter.pc = "restart" /\ l \in restarter.todo
    /\ restarter' = [restarter EXCEPT !.todo = @ \ {l}]
    /\ epoch' = [epoch EXCEPT ![l] = @ + 1]
    /\ queue' = [queue EXCEPT ![l] = <<>>]
    /\ UNCHANGED <<rscope, rcv, buf, pending, forwarders, detected, synced, rcountVars>>

Restarted ==
    /\ restarter.pc = "restart" /\ restarter.todo = {}
    /\ restarter' = [restarter EXCEPT !.pc = "signal"]
    /\ UNCHANGED <<rscope, rcv, buf, bufVars, forwarders, detected, synced, rcountVars>>

(* 6, 7. The trackers are reset and the DownTracks told. *)
SignalDownTracks ==
    /\ restarter.pc = "signal"
    /\ synced' = epoch
    /\ restarter' = [restarter EXCEPT !.pc = "generation"]
    /\ UNCHANGED <<rscope, rcv, buf, bufVars, forwarders, detected, rcountVars>>

(* 8. startForwardersGeneration *)
NewGeneration ==
    /\ restarter.pc = "generation"
    /\ rcv' = [rcv EXCEPT !.gen = @ + 1, !.group = @ + 1]
    /\ restarter' = [restarter EXCEPT !.pc = "finish"]
    /\ UNCHANGED <<rscope, buf, bufVars, forwarders, detected, synced, rcountVars>>

(* Mutant: goroutines are started only for the buffers of the first round. *)
RestartForwardersOfOpen ==
    /\ restarter.pc = "finish"
    /\ rcv' = [rcv EXCEPT !.inProgress = FALSE]
    /\ StartForwarders({l \in Buffers : epoch[l] > 0})
    /\ restarter' = NoRestart
    /\ UNCHANGED <<rscope, buf, bufVars, detected, synced, rcountVars>>

(* 9, 10. The hold is released and the goroutines are started. *)
RestartForwarders ==
    /\ restarter.pc = "finish"
    /\ rcv' = [rcv EXCEPT !.inProgress = FALSE]
    /\ StartForwarders(Buffers)
    /\ restarter' = NoRestart
    /\ UNCHANGED <<rscope, buf, bufVars, detected, synced, rcountVars>>

RestartStep == \/ \E l \in UpLayers : MarkForRestart(l) \/ RestartStream(l)
               \/ CollectBuffers \/ Marked \/ ForwardersStopped \/ Restarted \/ SignalDownTracks \/ NewGeneration
               \/ RestartForwarders

(* Close, with its buffers. *)
CloseReceiver ==
    /\ rscope.close /\ ~rcv.closed
    /\ rcv' = [rcv EXCEPT !.closed = TRUE]
    /\ buf' = [l \in UpLayers |-> IF l \in Buffers THEN "closed" ELSE buf[l]]
    /\ UNCHANGED <<rscope, bufVars, forwarders, restarter, detected, synced, rcountVars>>

-----------------------------------------------------------------------------
ReceiverNext ==
    \/ \E l \in UpLayers : AddBuffer(l) \/ StartBuffer(l) \/ Arrive(l) \/ DetectRestart(l)
    \/ Forward \/ Restart \/ OnStreamRestart \/ RestartStep

RestartNext == ReceiverNext \/ CloseReceiver

(* Goroutines that can run do; packets need not come.                         *)
RestartFairness == /\ WF_restartVars(RestartStep) /\ WF_restartVars(OnStreamRestart)
                   /\ \A l \in UpLayers : /\ WF_restartVars(StartBuffer(l))
                                          /\ WF_restartVars(\E i \in 1 .. Len(forwarders[l]) :
                                                 CheckGeneration(l, i) \/ ReadExtended(l, i) \/ Broadcast(l, i))

RestartSpec == RestartInit /\ [][RestartNext]_restartVars /\ RestartFairness

-----------------------------------------------------------------------------
(* Properties.                                                              *)

Running(l) == {i \in 1 .. Len(forwarders[l]) : forwarders[l][i].gen = rcv.gen}

(* A layer whose buffer is in place is served: outside a restart, and with    *)
(* AddUpTrack done, a goroutine of the current generation reads its buffer,   *)
(* whatever additions, restarts and detections came in between.               *)
LayersAreServed ==
    ~rcv.inProgress => \A l \in UpLayers : buf[l] = "open" => Running(l) # {}

(* "signal attached downtracks to resync so that they can have proper         *)
(* sequencing on a receiver restart": no packet is written that belongs to    *)
(* another epoch than the one the DownTracks were told of; without detected   *)
(* restarts.                                                                  *)
ResyncBeforePackets ==
    found = 0 => \A l \in UpLayers : \A i \in 1 .. Len(forwarders[l]) :
                     forwarders[l][i].pc = "write" => forwarders[l][i].packet = synced[l]

(* A restart that comes to its end between AddBuffer and StartBuffer starts a *)
(* goroutine for the layer, and StartBuffer a second one: both read one       *)
(* buffer from then on.                                                       *)
ReadTwice == \E l \in UpLayers : Len(forwarders[l]) > 1

(* A restart from outside comes to its end: the goroutine of every layer,     *)
(* also one that waits for a packet that never comes, is woken up, whatever   *)
(* layers are being added. Left out is a restart that begins while a buffer   *)
(* is read twice: its one mark wakes up one of the two readers.               *)
AskedRestartCompletes ==
    (restarter.pc = "collect" /\ ~ReadTwice) ~> (restarter.pc = "idle")

(* "wait for the forwarders to finish ... restart forwarders": the same of    *)
(* every restart.                                                             *)
RestartCompletes == (restarter.pc # "idle") ~> (restarter.pc = "idle")

=============================================================================
