---------------------------- MODULE SignalRelay ----------------------------
(***************************************************************************)
(* One direction of a signal connection relayed between the node that      *)
(* holds the client's socket and the node that holds the room              *)
(* (pkg/routing/signal.go, pkg/service/signal.go): signalMessageSink       *)
(* batches messages and sends them, with retries and a deadline, over a    *)
(* psrpc stream; CopySignalStreamToMessageChannel reads the stream, drops  *)
(* what it has seen and fills a bounded MessageChannel.                    *)
(*                                                                         *)
(* The stream is external. As the sink uses it, a Send succeeds only if    *)
(* the batch was put into the peer's stream buffer; a Send that fails may  *)
(* still arrive later, after newer ones, or never.                         *)
(***************************************************************************)
EXTENDS Naturals, Sequences

CONSTANTS
    Messages,     \* signal messages
    MaxWrites,    \* bound: messages written
    MaxRetries,   \* retries of a batch before RetryTimeout has passed
    StreamCap,    \* StreamBufferSize
    ChanCap       \* DefaultMessageChannelSize

ASSUME RelayAssumption == /\ MaxWrites \in Nat
                          /\ MaxRetries \in Nat
                          /\ StreamCap \in Nat \ {0}
                          /\ ChanCap \in Nat \ {0}

VARIABLES
    written,        \* history: what WriteMessage accepted
    seq, queue,     \* signalMessageSink.seq, .queue
    draining,       \* signalMessageSink.draining
    closeOnFailure, \* SignalSinkParams.CloseOnFailure: set on the client's side only
    pc,             \* the write goroutine: off (writing = false), top, wait
    batch, tries,   \* the batch being sent, its failed attempts
    acked,          \* the peer has acknowledged that attempt
    gaveUp,         \* history: a batch was abandoned at its deadline
    sClosed,        \* the stream is closed at the sink
    net,            \* batches in flight
    stream,         \* the peer's stream buffer
    rClosed,        \* the stream is closed at the reader
    rseq,           \* signalMessageReader.seq
    todo, last,     \* messages of the batch being copied, and whether it has Close set
    rstate,         \* how the copy ended: open, clean, dropped, refused, closed
    delivered,      \* history: messages put into the channel
    backlog,        \* how many of them nobody has read yet
    chanOpen        \* MessageChannel.isClosed is false

sinkVars == <<written, seq, queue, draining, closeOnFailure, pc, batch, tries, gaveUp>>
readVars == <<rseq, todo, last, rstate, delivered, backlog, chanOpen>>
netVars  == <<acked, sClosed, net, stream, rClosed>>
vars     == <<sinkVars, readVars, netVars>>

Batches == [seq : Nat, try : Nat, close : BOOLEAN, msgs : Seq(Messages)]

NoBatch == [seq |-> 0, try |-> 0, close |-> FALSE, msgs |-> <<>>]

(* The type invariant of the relay. *)
TypeOK ==
    /\ written \in Seq(Messages) /\ queue \in Seq(Messages)
    /\ seq \in Nat /\ tries \in 0 .. MaxRetries
    /\ draining \in BOOLEAN /\ closeOnFailure \in BOOLEAN /\ gaveUp \in BOOLEAN
    /\ pc \in {"off", "top", "wait"}
    /\ batch \in Batches /\ acked \in BOOLEAN
    /\ sClosed \in BOOLEAN /\ rClosed \in BOOLEAN
    /\ net \in SUBSET Batches
    /\ stream \in Seq(Batches) /\ Len(stream) <= StreamCap
    /\ rseq \in Nat /\ todo \in Seq(Messages) /\ last \in BOOLEAN
    /\ rstate \in {"open", "clean", "dropped", "refused", "closed"}
    /\ delivered \in Seq(Messages)
    /\ backlog \in 0 .. ChanCap /\ chanOpen \in BOOLEAN

Init ==
    /\ written = <<>> /\ queue = <<>> /\ seq = 0 /\ tries = 0
    /\ draining = FALSE /\ closeOnFailure \in BOOLEAN /\ gaveUp = FALSE
    /\ pc = "off"
    /\ batch = NoBatch
    /\ acked = FALSE /\ sClosed = FALSE /\ rClosed = FALSE
    /\ net = {} /\ stream = <<>>
    /\ rseq = 0 /\ todo = <<>> /\ last = FALSE /\ rstate = "open"
    /\ delivered = <<>> /\ backlog = 0 /\ chanOpen = TRUE

-----------------------------------------------------------------------------
(* The sink. *)

(* A write goroutine is started unless there is one. *)
StartWriter ==
    /\ pc' = IF pc = "off" THEN "top" ELSE pc
    /\ tries' = IF pc = "off" THEN 0 ELSE tries

(* Mutant: messages are accepted after Close. *)
WriteMessageLate(m) ==
    /\ Len(written) < MaxWrites
    /\ ~sClosed
    /\ written' = Append(written, m)
    /\ queue' = Append(queue, m)
    /\ StartWriter
    /\ UNCHANGED <<seq, draining, closeOnFailure, batch, gaveUp, readVars, netVars>>

WriteMessage(m) ==
    /\ Len(written) < MaxWrites
    /\ ~sClosed /\ ~draining
    /\ written' = Append(written, m)
    /\ queue' = Append(queue, m)
    /\ StartWriter
    /\ UNCHANGED <<seq, draining, closeOnFailure, batch, gaveUp, readVars, netVars>>

(* Close: the caller then blocks until the stream is closed. *)
Close ==
    /\ ~draining
    /\ draining' = TRUE
    /\ StartWriter
    /\ UNCHANGED <<written, seq, queue, closeOnFailure, batch, gaveUp, readVars, netVars>>

(* Send has returned. *)
SendReturns == batch' = NoBatch /\ acked' = FALSE

(* Mutant: the stream is left open after the last batch. *)
EndWriteOpen(failed) ==
    /\ pc' = "off"
    /\ sClosed' = (sClosed \/ (failed /\ closeOnFailure))

(* The end of write, with the lock held. *)
EndWrite(failed) ==
    /\ pc' = "off"
    /\ sClosed' = (sClosed \/ draining \/ (failed /\ closeOnFailure))

(* The top of the loop: stop, or send all that is queued as one batch. *)
SendBatch ==
    /\ pc = "top"
    /\ IF (~draining /\ queue = <<>>) \/ sClosed
       THEN EndWrite(FALSE) /\ UNCHANGED <<batch, net>>
       ELSE /\ batch' = [seq |-> seq, try |-> tries, close |-> draining, msgs |-> queue]
            /\ net' = net \cup {batch'}
            /\ pc' = "wait"
            /\ UNCHANGED sClosed
    /\ UNCHANGED <<written, seq, queue, draining, closeOnFailure, tries, gaveUp, readVars,
                   acked, stream, rClosed>>

(* Mutant: one batch per write goroutine. *)
SendOKOnce ==
    /\ pc = "wait" /\ acked
    /\ seq' = seq + Len(batch.msgs)
    /\ queue' = SubSeq(queue, Len(batch.msgs) + 1, Len(queue))
    /\ tries' = 0
    /\ IF batch.close THEN EndWrite(FALSE) ELSE pc' = "off" /\ UNCHANGED sClosed
    /\ SendReturns
    /\ UNCHANGED <<written, draining, closeOnFailure, gaveUp, readVars,
                   net, stream, rClosed>>

(* Send returned: the batch leaves the queue, which may have grown meanwhile. *)
SendOK ==
    /\ pc = "wait" /\ acked
    /\ seq' = seq + Len(batch.msgs)
    /\ queue' = SubSeq(queue, Len(batch.msgs) + 1, Len(queue))
    /\ tries' = 0
    /\ IF batch.close THEN EndWrite(FALSE) ELSE pc' = "top" /\ UNCHANGED sClosed
    /\ SendReturns
    /\ UNCHANGED <<written, draining, closeOnFailure, gaveUp, readVars,
                   net, stream, rClosed>>

(* Send failed or timed out, even if the acknowledgement is on its way. *)
Retry ==
    /\ pc = "wait" /\ tries < MaxRetries
    /\ tries' = tries + 1
    /\ pc' = "top"
    /\ SendReturns
    /\ UNCHANGED <<written, seq, queue, draining, closeOnFailure, gaveUp, readVars,
                   sClosed, net, stream, rClosed>>

(* The deadline has passed: everything queued is abandoned. *)
GiveUp ==
    /\ pc = "wait" /\ tries = MaxRetries
    /\ seq' = seq + Len(queue)
    /\ queue' = <<>>
    /\ gaveUp' = TRUE
    /\ EndWrite(TRUE)
    /\ SendReturns
    /\ UNCHANGED <<written, draining, closeOnFailure, tries, readVars,
                   net, stream, rClosed>>

-----------------------------------------------------------------------------
(* The stream. *)

(* A batch arrives; its acknowledgement reaches the sink in time or not. *)
Arrive(b) ==
    /\ b \in net /\ ~rClosed /\ Len(stream) < StreamCap
    /\ net' = net \ {b}
    /\ stream' = Append(stream, b)
    /\ acked' \in {acked, acked \/ (pc = "wait" /\ b = batch)}
    /\ UNCHANGED <<sinkVars, readVars, sClosed, rClosed>>

Lose(b) ==
    /\ b \in net
    /\ net' = net \ {b}
    /\ UNCHANGED <<sinkVars, readVars, acked, sClosed, stream, rClosed>>

(* The other end has closed the stream. *)
CloseNotice ==
    /\ sClosed # rClosed
    /\ sClosed' = TRUE /\ rClosed' = TRUE
    /\ UNCHANGED <<sinkVars, readVars, acked, net, stream>>

(* The other direction of the connection closes the stream, at either end. *)
OtherDirectionCloses ==
    /\ \/ ~sClosed /\ sClosed' = TRUE /\ UNCHANGED rClosed
       \/ ~rClosed /\ rClosed' = TRUE /\ UNCHANGED sClosed
    /\ UNCHANGED <<sinkVars, readVars, acked, net, stream>>

-----------------------------------------------------------------------------
(* CopySignalStreamToMessageChannel and the channel. *)

CopyEnds(how) == rstate' = how /\ chanOpen' = FALSE

(* Mutant: what was seen before is copied again. *)
UnseenAll(b) == b.msgs

(* signalMessageReader.Read: what is left of a batch. *)
Unseen(b) == LET n == IF rseq - b.seq > Len(b.msgs) THEN Len(b.msgs) ELSE rseq - b.seq
             IN  SubSeq(b.msgs, n + 1, Len(b.msgs))

Gap(b) == rseq < b.seq

ReadBatch ==
    LET b == Head(stream) IN
    /\ rstate = "open" /\ todo = <<>> /\ ~last
    /\ stream # <<>>
    /\ stream' = Tail(stream)
    /\ IF Gap(b)
       THEN CopyEnds("dropped") /\ UNCHANGED <<todo, rseq, last>>
       ELSE /\ todo' = Unseen(b)
            /\ rseq' = rseq + Len(todo')
            /\ last' = b.close
            /\ UNCHANGED <<rstate, chanOpen>>
    /\ UNCHANGED <<sinkVars, delivered, backlog, acked, sClosed, net, rClosed>>

HasRoom == chanOpen /\ backlog < ChanCap

(* MessageChannel.WriteMessage refuses when the channel is full or closed. *)
PutMessage ==
    /\ rstate = "open" /\ todo # <<>>
    /\ IF HasRoom
       THEN /\ delivered' = Append(delivered, Head(todo))
            /\ backlog' = backlog + 1
            /\ todo' = Tail(todo)
            /\ UNCHANGED <<rstate, chanOpen>>
       ELSE CopyEnds("refused") /\ todo' = <<>> /\ UNCHANGED <<delivered, backlog>>
    /\ UNCHANGED <<sinkVars, rseq, last, netVars>>

(* The batch with Close is copied: the reader closes the stream. *)
CloseStream ==
    /\ rstate = "open" /\ todo = <<>> /\ last
    /\ rClosed' = TRUE
    /\ CopyEnds("clean")
    /\ UNCHANGED <<sinkVars, rseq, todo, last, delivered, backlog, acked, sClosed, net, stream>>

(* A closed stream ends the range loop, after what it has buffered. *)
StreamEnds ==
    /\ rstate = "open" /\ todo = <<>> /\ ~last
    /\ rClosed /\ stream = <<>>
    /\ CopyEnds("closed")
    /\ UNCHANGED <<sinkVars, rseq, todo, last, delivered, backlog, netVars>>

(* The session at the far end of the channel. *)
Consume ==
    /\ backlog > 0
    /\ backlog' = backlog - 1
    /\ UNCHANGED <<sinkVars, rseq, todo, last, rstate, delivered, chanOpen, netVars>>

ConsumerCloses ==
    /\ chanOpen
    /\ chanOpen' = FALSE
    /\ UNCHANGED <<sinkVars, rseq, todo, last, rstate, delivered, backlog, netVars>>

-----------------------------------------------------------------------------
Writer == SendBatch \/ SendOK \/ Retry \/ GiveUp

Reader == ReadBatch \/ PutMessage \/ CloseStream \/ StreamEnds

Next ==
    \/ \E m \in Messages : WriteMessage(m)
    \/ Close
    \/ Writer
    \/ Reader
    \/ \E b \in net : Arrive(b) \/ Lose(b)
    \/ CloseNotice \/ OtherDirectionCloses
    \/ Consume \/ ConsumerCloses

Spec == Init /\ [][Next]_vars

(* The two goroutines run: a Send returns within its timeout and the range    *)
(* loop goes on. A close reaches the other end. Batches, acknowledgements and *)
(* the users of the connection owe nothing.                                   *)
FairSpec == Spec /\ WF_vars(Writer) /\ WF_vars(Reader) /\ WF_vars(CloseNotice)

-----------------------------------------------------------------------------
(* Properties. *)

FIFO == INSTANCE SignalFIFO WITH accepted <- written, received <- delivered

(* Retries, late copies, lost acknowledgements and abandoned batches never    *)
(* duplicate, reorder or skip a message for the reader: the sequence numbers  *)
(* of the sink and the reader make the relay a FIFO channel that may stop.    *)
RelayIsFIFO == FIFO!Spec

(* A batch with Close is the last one: a reader that ends by it has delivered *)
(* every message the sink ever accepted (a leave message above all).          *)
CleanCloseIsComplete == rstate = "clean" => delivered = written

(* The position behind the last message of a batch. *)
EndOf(b) == b.seq + Len(b.msgs)

(* The reader, or a batch it has yet to read, is past the first n messages. *)
Covered(n) == rseq >= n \/ \E i \in 1 .. Len(stream) : EndOf(stream[i]) >= n

(* The sink forgets a message only once the reader's side has it, unless it   *)
(* gave up: an acknowledged batch covers all that was numbered before seq.    *)
NothingForgotten == ~gaveUp => Covered(seq)

(* A batch holds the messages its number says, a Close batch all the rest. *)
Faithful(b) ==
    /\ EndOf(b) <= Len(written)
    /\ \A j \in 1 .. Len(b.msgs) : b.msgs[j] = written[b.seq + j]
    /\ b.close => draining /\ EndOf(b) = Len(written)

QueueNumbered ==
    /\ Len(written) = seq + Len(queue)
    /\ \A j \in 1 .. Len(queue) : queue[j] = written[seq + j]

BatchNumbered ==
    IF pc = "wait"
    THEN /\ Faithful(batch) /\ batch.seq = seq /\ EndOf(batch) <= Len(written)
         /\ (acked /\ ~gaveUp) => Covered(EndOf(batch))
    ELSE ~acked

NetNumbered == \A b \in net : Faithful(b) /\ (~gaveUp => Covered(b.seq))

StreamNumbered ==
    \A i \in 1 .. Len(stream) :
        /\ Faithful(stream[i])
        /\ ~gaveUp => \/ rseq >= stream[i].seq
                      \/ \E j \in 1 .. i - 1 : EndOf(stream[j]) >= stream[i].seq

ReaderNumbered ==
    /\ Len(delivered) <= rseq /\ rseq <= Len(written)
    /\ \A j \in 1 .. Len(delivered) : delivered[j] = written[j]
    /\ rstate = "open" =>
         /\ rseq = Len(delivered) + Len(todo)
         /\ \A j \in 1 .. Len(todo) : todo[j] = written[Len(delivered) + j]
    /\ last => draining /\ rseq = Len(written)
    /\ rstate = "clean" => draining /\ Len(delivered) = Len(written)

(* The inductive invariant behind the three properties above: wherever a      *)
(* message is (queued, in a batch under way, buffered, half copied), its      *)
(* number is its place in the order of writing, and until the sink gives up   *)
(* no batch starts beyond what the reader has or is about to read.            *)
Numbering == /\ QueueNumbered /\ BatchNumbered /\ NetNumbered /\ StreamNumbered
             /\ ReaderNumbered /\ NothingForgotten

(* Close with BlockOnClose returns: the stream gets closed whatever happens   *)
(* to the batches.                                                            *)
CloseReturns == draining ~> sClosed

(* Every accepted message reaches the channel, or the reader is told that the *)
(* connection is over, except on the side that keeps the stream open after an *)
(* abandoned batch.                                                           *)
DeliveredOrTold ==
    \A k \in 1 .. MaxWrites :
        Len(written) >= k ~> (Len(delivered) >= k \/ rstate # "open"
                              \/ (gaveUp /\ ~closeOnFailure))

=============================================================================
