------------------------- MODULE SignalRelayProofs -------------------------
(***************************************************************************)
(* Proofs about SignalRelay for every number of messages and retries and   *)
(* every buffer size: the relay implements a FIFO channel, a clean close   *)
(* is complete, and the sink forgets nothing before the reader has it.     *)
(***************************************************************************)
EXTENDS SignalRelay, SequenceTheorems, TLAPS

USE RelayAssumption

-----------------------------------------------------------------------------
(* The type invariant. *)

(* A batch built from the queue is a batch. *)
LEMMA BatchType ==
    ASSUME TypeOK
    PROVE  [seq |-> seq, try |-> tries, close |-> draining, msgs |-> queue] \in Batches
  BY DEF TypeOK, Batches

LEMMA NoBatchType == NoBatch \in Batches
  BY DEF NoBatch, Batches

(* What is left of a batch, and how much. *)
LEMMA UnseenFacts ==
    ASSUME NEW b \in Batches, rseq \in Nat, ~Gap(b)
    PROVE  /\ Unseen(b) \in Seq(Messages)
           /\ EndOf(b) > rseq => /\ Len(Unseen(b)) = EndOf(b) - rseq
                                 /\ \A j \in 1 .. Len(Unseen(b)) :
                                      Unseen(b)[j] = b.msgs[rseq - b.seq + j]
           /\ EndOf(b) <= rseq => Unseen(b) = <<>>
  <1>1. /\ b.seq \in Nat /\ b.msgs \in Seq(Messages) /\ Len(b.msgs) \in Nat
        /\ rseq >= b.seq
    BY DEF Batches, Gap
  <1>2. CASE EndOf(b) > rseq
    <2> DEFINE k == rseq - b.seq
    <2>1. k \in Nat /\ k < Len(b.msgs)
      BY <1>1, <1>2 DEF EndOf
    <2>a. (IF rseq - b.seq > Len(b.msgs) THEN Len(b.msgs) ELSE rseq - b.seq) = k
      BY <1>1, <2>1
    <2>2. Unseen(b) = SubSeq(b.msgs, k + 1, Len(b.msgs))
      BY <2>a, Zenon DEF Unseen
    <2>3. \A i \in k + 1 .. Len(b.msgs) : b.msgs[i] \in Messages
      BY <1>1, <2>1
    <2> HIDE DEF k
    <2>4. /\ SubSeq(b.msgs, k + 1, Len(b.msgs)) \in Seq(Messages)
          /\ Len(SubSeq(b.msgs, k + 1, Len(b.msgs))) = Len(b.msgs) - k
          /\ \A i \in 1 .. Len(b.msgs) - k :
               SubSeq(b.msgs, k + 1, Len(b.msgs))[i] = b.msgs[k + i]
      BY <1>1, <2>1, <2>3, SubSeqProperties
    <2>5. /\ Unseen(b) \in Seq(Messages)
          /\ Len(Unseen(b)) = Len(b.msgs) - k
          /\ \A i \in 1 .. Len(b.msgs) - k : Unseen(b)[i] = b.msgs[k + i]
      BY <2>2, <2>4
    <2>6. EndOf(b) - rseq = Len(b.msgs) - k
      BY <1>1 DEF EndOf, k
    <2>7. \A i \in 1 .. Len(Unseen(b)) : Unseen(b)[i] = b.msgs[rseq - b.seq + i]
      BY <2>5 DEF k
    <2>8. QED
      BY <1>1, <1>2, <2>5, <2>6, <2>7 DEF EndOf
  <1>3. CASE EndOf(b) <= rseq
    <2>a. (IF rseq - b.seq > Len(b.msgs) THEN Len(b.msgs) ELSE rseq - b.seq) = Len(b.msgs)
      BY <1>1, <1>3 DEF EndOf
    <2>1. Unseen(b) = SubSeq(b.msgs, Len(b.msgs) + 1, Len(b.msgs))
      BY <2>a, Zenon DEF Unseen
    <2>2. Unseen(b) = <<>>
      BY <1>1, <2>1, SubSeqEmpty
    <2>3. QED
      BY <1>1, <1>3, <2>2 DEF EndOf
  <1>4. QED
    BY <1>1, <1>2, <1>3 DEF EndOf

(* Send has returned, and write may have ended. *)
LEMMA ReturnType ==
    ASSUME SendReturns
    PROVE  batch' \in Batches /\ acked' \in BOOLEAN
  BY NoBatchType, Zenon DEF SendReturns

LEMMA EndType ==
    ASSUME NEW failed \in BOOLEAN, EndWrite(failed)
    PROVE  sClosed' \in BOOLEAN /\ pc' = "off"
  BY Zenon DEF EndWrite

LEMMA TypeStep == TypeOK /\ [Next]_vars => TypeOK'
  <1>1. SUFFICES ASSUME TypeOK, [Next]_vars PROVE TypeOK'
    OBVIOUS
  <1>2. CASE UNCHANGED vars
    BY <1>1, <1>2 DEF TypeOK, vars, sinkVars, readVars, netVars
  <1>3. CASE \E m \in Messages : WriteMessage(m)
    <2>1. PICK m \in Messages : WriteMessage(m)
      BY <1>3
    <2>2. Append(written, m) \in Seq(Messages) /\ Append(queue, m) \in Seq(Messages)
      BY <1>1 DEF TypeOK
    <2>3. QED
      BY <1>1, <2>1, <2>2 DEF TypeOK, WriteMessage, StartWriter, readVars, netVars
  <1>4. CASE Close
    BY <1>1, <1>4 DEF TypeOK, Close, StartWriter, readVars, netVars
  <1>5. CASE SendBatch
    <2>1. CASE (~draining /\ queue = <<>>) \/ sClosed
      <3>1. EndWrite(FALSE)
        BY <1>5, <2>1, Zenon DEF SendBatch
      <3>2. QED
        BY <1>1, <1>5, <2>1, <3>1, EndType DEF TypeOK, SendBatch, readVars
    <2>2. CASE ~((~draining /\ queue = <<>>) \/ sClosed)
      <3>1. batch' \in Batches
        BY <1>1, <1>5, <2>2, BatchType DEF SendBatch
      <3>2. QED
        BY <1>1, <1>5, <2>2, <3>1 DEF TypeOK, SendBatch, readVars
    <2>3. QED
      BY <2>1, <2>2
  <1>6. CASE SendOK
    <2>1. batch.msgs \in Seq(Messages) /\ Len(batch.msgs) \in Nat
      BY <1>1 DEF TypeOK, Batches
    <2>2. SubSeq(queue, Len(batch.msgs) + 1, Len(queue)) \in Seq(Messages)
      BY <1>1, <2>1, SubSeqProperties DEF TypeOK
    <2>3. batch' \in Batches /\ acked' \in BOOLEAN
      BY <1>6, ReturnType DEF SendOK
    <2>4. CASE batch.close
      <3>1. EndWrite(FALSE)
        BY <1>6, <2>4, Zenon DEF SendOK
      <3>2. sClosed' \in BOOLEAN /\ pc' = "off"
        BY <3>1, EndType
      <3>3. QED
        BY <1>1, <1>6, <2>1, <2>2, <2>3, <3>2 DEF TypeOK, SendOK, readVars
    <2>5. CASE ~batch.close
      BY <1>1, <1>6, <2>1, <2>2, <2>3, <2>5 DEF TypeOK, SendOK, readVars
    <2>6. QED
      BY <2>4, <2>5
  <1>7. CASE Retry
    <2>1. batch' \in Batches /\ acked' \in BOOLEAN
      BY <1>7, ReturnType DEF Retry
    <2>2. QED
      BY <1>1, <1>7, <2>1 DEF TypeOK, Retry, readVars
  <1>8. CASE GiveUp
    <2>1. batch' \in Batches /\ acked' \in BOOLEAN
      BY <1>8, ReturnType DEF GiveUp
    <2>2. sClosed' \in BOOLEAN /\ pc' = "off"
      BY <1>8, EndType DEF GiveUp
    <2>3. QED
      BY <1>1, <1>8, <2>1, <2>2 DEF TypeOK, GiveUp, readVars
  <1>9. CASE ReadBatch
    <2>1. Head(stream) \in Batches /\ Tail(stream) \in Seq(Batches)
          /\ Len(Tail(stream)) <= StreamCap
      BY <1>1, <1>9, HeadTailProperties DEF TypeOK, ReadBatch
    <2>2. CASE Gap(Head(stream))
      BY <1>1, <1>9, <2>1, <2>2 DEF TypeOK, ReadBatch, CopyEnds, sinkVars
    <2>3. CASE ~Gap(Head(stream))
      <3>1. Unseen(Head(stream)) \in Seq(Messages)
        BY <1>1, <2>1, <2>3, UnseenFacts DEF TypeOK
      <3>2. Head(stream).close \in BOOLEAN
        BY <2>1 DEF Batches
      <3>3. QED
        BY <1>1, <1>9, <2>1, <2>3, <3>1, <3>2 DEF TypeOK, ReadBatch, sinkVars
    <2>4. QED
      BY <2>2, <2>3
  <1>10. CASE PutMessage
    <2>1. Head(todo) \in Messages /\ Tail(todo) \in Seq(Messages)
      BY <1>1, <1>10, HeadTailProperties DEF TypeOK, PutMessage
    <2>2. Append(delivered, Head(todo)) \in Seq(Messages)
      BY <1>1, <2>1 DEF TypeOK
    <2>3. CASE HasRoom
      <3>1. /\ delivered' = Append(delivered, Head(todo)) /\ backlog' = backlog + 1
            /\ todo' = Tail(todo) /\ backlog < ChanCap
            /\ UNCHANGED <<rstate, chanOpen, sinkVars, rseq, last, netVars>>
        BY <1>10, <2>3, Zenon DEF PutMessage, HasRoom
      <3>2. QED
        BY <1>1, <2>1, <2>2, <3>1 DEF TypeOK, sinkVars, netVars
    <2>4. CASE ~HasRoom
      <3>1. /\ rstate' = "refused" /\ chanOpen' \in BOOLEAN /\ todo' = <<>>
            /\ UNCHANGED <<delivered, backlog, sinkVars, rseq, last, netVars>>
        BY <1>10, <2>4, Zenon DEF PutMessage, CopyEnds
      <3>2. QED
        BY <1>1, <3>1 DEF TypeOK, sinkVars, netVars
    <2>5. QED
      BY <2>3, <2>4
  <1>11. CASE CloseStream \/ StreamEnds
    BY <1>1, <1>11 DEF TypeOK, CloseStream, StreamEnds, CopyEnds, sinkVars, netVars
  <1>12. CASE \E b \in net : Arrive(b) \/ Lose(b)
    <2>1. PICK b \in net : Arrive(b) \/ Lose(b)
      BY <1>12
    <2>2. b \in Batches
      BY <1>1 DEF TypeOK
    <2>3. CASE Arrive(b)
      <3>1. Append(stream, b) \in Seq(Batches) /\ Len(Append(stream, b)) <= StreamCap
        BY <1>1, <2>2, <2>3, AppendProperties DEF TypeOK, Arrive
      <3>2. acked' \in BOOLEAN
        BY <1>1, <2>3, Zenon DEF TypeOK, Arrive
      <3>3. QED
        BY <1>1, <2>2, <2>3, <3>1, <3>2 DEF TypeOK, Arrive, sinkVars, readVars
    <2>4. CASE Lose(b)
      BY <1>1, <2>4 DEF TypeOK, Lose, sinkVars, readVars
    <2>5. QED
      BY <2>1, <2>3, <2>4
  <1>13. CASE CloseNotice \/ OtherDirectionCloses
    <2>1. sClosed' \in BOOLEAN /\ rClosed' \in BOOLEAN
      BY <1>1, <1>13, Zenon DEF TypeOK, CloseNotice, OtherDirectionCloses
    <2>2. UNCHANGED <<sinkVars, readVars, acked, net, stream>>
      BY <1>13, Zenon DEF CloseNotice, OtherDirectionCloses
    <2>3. QED
      BY <1>1, <2>1, <2>2 DEF TypeOK, sinkVars, readVars
  <1>14. CASE Consume \/ ConsumerCloses
    <2>1. CASE Consume
      BY <1>1, <2>1 DEF TypeOK, Consume, sinkVars, netVars
    <2>2. CASE ConsumerCloses
      BY <1>1, <2>2, ZenonT(60) DEF TypeOK, ConsumerCloses, sinkVars, netVars
    <2>3. QED
      BY <1>14, <2>1, <2>2
  <1>15. QED
    BY <1>1, <1>2, <1>3, <1>4, <1>5, <1>6, <1>7, <1>8, <1>9, <1>10, <1>11, <1>12, <1>13, <1>14
       DEF Next, Writer, Reader

-----------------------------------------------------------------------------
(* The numbering of messages: one lemma for each group of actions. *)

(* Actions that touch nothing that Numbering speaks of. *)
LEMMA FrameNumbering ==
    ASSUME Numbering,
           UNCHANGED <<written, seq, queue, draining, pc, batch, acked, gaveUp, net, stream,
                       rseq, todo, last, rstate, delivered>>
    PROVE  Numbering'
  BY DEF Numbering, QueueNumbered, BatchNumbered, NetNumbered, StreamNumbered, ReaderNumbered,
         NothingForgotten, Faithful, Covered, EndOf

(* Facts about the members of the buffers. *)
LEMMA BatchFacts ==
    ASSUME TypeOK
    PROVE  /\ \A b \in Batches : b.seq \in Nat /\ b.msgs \in Seq(Messages) /\ Len(b.msgs) \in Nat
                                /\ EndOf(b) \in Nat /\ b.seq <= EndOf(b)
           /\ \A i \in 1 .. Len(stream) : stream[i] \in Batches
           /\ Len(stream) \in Nat /\ Len(written) \in Nat /\ Len(queue) \in Nat
           /\ Len(todo) \in Nat /\ Len(delivered) \in Nat
  <1>1. ASSUME NEW b \in Batches
        PROVE  b.seq \in Nat /\ b.msgs \in Seq(Messages) /\ Len(b.msgs) \in Nat
    BY DEF Batches
  <1>2. ASSUME NEW b \in Batches
        PROVE  EndOf(b) \in Nat /\ b.seq <= EndOf(b)
    BY <1>1 DEF EndOf
  <1>3. /\ Len(stream) \in Nat /\ Len(written) \in Nat /\ Len(queue) \in Nat
        /\ Len(todo) \in Nat /\ Len(delivered) \in Nat
    BY LenProperties DEF TypeOK
  <1>4. \A i \in 1 .. Len(stream) : stream[i] \in Batches
    BY ElementOfSeq DEF TypeOK
  <1>5. QED
    BY <1>1, <1>2, <1>3, <1>4

LEMMA WriteNumbering ==
    ASSUME TypeOK, Numbering, NEW m \in Messages, WriteMessage(m)
    PROVE  Numbering'
  <1>1. /\ Len(written') = Len(written) + 1 /\ written'[Len(written) + 1] = m
        /\ \A j \in 1 .. Len(written) : written'[j] = written[j]
    BY AppendProperties DEF WriteMessage, TypeOK
  <1>2. /\ Len(queue') = Len(queue) + 1 /\ queue'[Len(queue) + 1] = m
        /\ \A j \in 1 .. Len(queue) : queue'[j] = queue[j]
    BY AppendProperties DEF WriteMessage, TypeOK
  <1>3. /\ ~draining /\ ~draining' /\ pc' \in {pc, "top"} /\ (pc = "wait" <=> pc' = "wait")
        /\ UNCHANGED <<seq, batch, acked, gaveUp, net, stream, rseq, todo, last, rstate, delivered>>
    BY DEF WriteMessage, StartWriter, readVars, netVars, TypeOK
  <1>4. \A b \in Batches : Faithful(b) => /\ EndOf(b) <= Len(written')
                                         /\ \A j \in 1 .. Len(b.msgs) : b.msgs[j] = written'[b.seq + j]
                                         /\ ~b.close
    <2>1. TAKE b \in Batches
    <2>2. HAVE Faithful(b)
    <2>3. \A j \in 1 .. Len(b.msgs) : b.seq + j \in 1 .. Len(written)
      BY <2>2, BatchFacts DEF Faithful, EndOf
    <2>4. EndOf(b) <= Len(written) /\ ~b.close
      BY <1>3, <2>2, Zenon DEF Faithful
    <2>5. \A j \in 1 .. Len(b.msgs) : b.msgs[j] = written[b.seq + j]
      BY <2>2, Zenon DEF Faithful
    <2>6. EndOf(b) <= Len(written')
      BY <1>1, <2>4, BatchFacts
    <2>7. QED
      BY <1>1, <2>3, <2>4, <2>5, <2>6
  <1>5. QueueNumbered'
    <2>1. Len(written) = seq + Len(queue) /\ \A j \in 1 .. Len(queue) : queue[j] = written[seq + j]
      BY DEF Numbering, QueueNumbered
    <2>2. seq \in Nat /\ Len(queue) \in Nat
      BY BatchFacts DEF TypeOK
    <2>3. ASSUME NEW j \in 1 .. Len(queue) + 1
          PROVE  queue'[j] = written'[seq + j]
      <3>1. CASE j = Len(queue) + 1
        BY <1>1, <1>2, <2>1, <2>2, <3>1
      <3>2. CASE j \in 1 .. Len(queue)
        <4>1. seq + j \in 1 .. Len(written)
          BY <2>1, <2>2, <3>2
        <4>2. QED
          BY <1>1, <1>2, <2>1, <3>2, <4>1
      <3>3. QED
        BY <2>2, <3>1, <3>2
    <2>4. QED
      BY <1>1, <1>2, <1>3, <2>1, <2>2, <2>3 DEF QueueNumbered
  <1>6. BatchNumbered'
    BY <1>3, <1>4, BatchFacts DEF Numbering, BatchNumbered, Faithful, Covered, TypeOK
  <1>7. NetNumbered'
    BY <1>3, <1>4, BatchFacts DEF Numbering, NetNumbered, Faithful, Covered, TypeOK
  <1>8. StreamNumbered'
    BY <1>3, <1>4, BatchFacts DEF Numbering, StreamNumbered, Faithful, TypeOK
  <1>9. ReaderNumbered'
    <2>1. ReaderNumbered
      BY DEF Numbering
    <2>2. ~last
      BY <1>3, <2>1, Zenon DEF ReaderNumbered
    <2>3. rstate # "clean"
      BY <1>3, <2>1, Zenon DEF ReaderNumbered
    <2>4. \A j \in 1 .. Len(delivered) : j \in 1 .. Len(written)
      BY <2>1, BatchFacts DEF ReaderNumbered, TypeOK
    <2>5. rstate = "open" => \A j \in 1 .. Len(todo) : Len(delivered) + j \in 1 .. Len(written)
      BY <2>1, BatchFacts DEF ReaderNumbered, TypeOK
    <2>6. \A j \in 1 .. Len(delivered) : delivered'[j] = written'[j]
      BY <1>1, <1>3, <2>1, <2>4 DEF ReaderNumbered
    <2>7. rstate = "open" => \A j \in 1 .. Len(todo) : todo[j] = written'[Len(delivered) + j]
      BY <1>1, <2>1, <2>5 DEF ReaderNumbered
    <2>8. Len(delivered) <= rseq /\ rseq <= Len(written')
      BY <1>1, <2>1, BatchFacts DEF ReaderNumbered, TypeOK
    <2>9. QED
      BY <1>3, <2>1, <2>2, <2>3, <2>6, <2>7, <2>8 DEF ReaderNumbered
  <1>10. NothingForgotten'
    BY <1>3 DEF Numbering, NothingForgotten, Covered
  <1>11. QED
    BY <1>5, <1>6, <1>7, <1>8, <1>9, <1>10 DEF Numbering

LEMMA CloseNumbering ==
    ASSUME TypeOK, Numbering, Close
    PROVE  Numbering'
  <1>1. /\ draining' /\ (pc = "wait" <=> pc' = "wait")
        /\ UNCHANGED <<written, seq, queue, batch, acked, gaveUp, net, stream, rseq, todo, last,
                       rstate, delivered>>
    BY DEF Close, StartWriter, readVars, netVars, TypeOK
  <1>2. QED
    BY <1>1 DEF Numbering, QueueNumbered, BatchNumbered, NetNumbered, StreamNumbered,
                ReaderNumbered, NothingForgotten, Faithful, Covered, EndOf

LEMMA SendNumbering ==
    ASSUME TypeOK, Numbering, SendBatch \/ Retry
    PROVE  Numbering'
  <1>1. UNCHANGED <<written, seq, queue, draining, gaveUp, stream, rseq, todo, last, rstate,
                    delivered>>
    BY DEF SendBatch, Retry, readVars
  <1>2. QueueNumbered' /\ StreamNumbered' /\ ReaderNumbered' /\ NothingForgotten'
    BY <1>1 DEF Numbering, QueueNumbered, StreamNumbered, ReaderNumbered, NothingForgotten,
                Faithful, Covered, EndOf
  <1>3. CASE pc' = "wait"
    <2> DEFINE b == [seq |-> seq, try |-> tries, close |-> draining, msgs |-> queue]
    <2>1. batch' = b /\ net' = net \cup {b} /\ ~acked'
      BY <1>3 DEF SendBatch, EndWrite, Retry, Numbering, BatchNumbered
    <2>2. /\ b \in Batches /\ b.seq = seq /\ b.msgs = queue /\ (b.close <=> draining)
      BY BatchType
    <2> HIDE DEF b
    <2>3. Faithful(b)
      BY <2>2, BatchFacts DEF Numbering, QueueNumbered, Faithful, EndOf
    <2>4. ~gaveUp => Covered(b.seq)
      BY <2>2 DEF Numbering, NothingForgotten
    <2>5. BatchNumbered'
      BY <1>1, <1>3, <2>1, <2>2, <2>3 DEF BatchNumbered, Faithful, EndOf
    <2>6. NetNumbered'
      BY <1>1, <2>1, <2>3, <2>4 DEF Numbering, NetNumbered, Faithful, Covered, EndOf
    <2>7. QED
      BY <1>2, <2>5, <2>6 DEF Numbering
  <1>4. CASE pc' # "wait"
    <2>1. net' = net /\ ~acked'
      BY <1>4 DEF SendBatch, EndWrite, Retry, SendReturns, Numbering, BatchNumbered
    <2>2. BatchNumbered' /\ NetNumbered'
      BY <1>1, <1>4, <2>1 DEF Numbering, BatchNumbered, NetNumbered, Faithful, Covered, EndOf
    <2>3. QED
      BY <1>2, <2>2 DEF Numbering
  <1>5. QED
    BY <1>3, <1>4

LEMMA ReturnNumbering ==
    ASSUME TypeOK, Numbering, SendOK \/ GiveUp
    PROVE  Numbering'
  <1>1. /\ UNCHANGED <<written, draining, net, stream, rseq, todo, last, rstate, delivered>>
        /\ ~acked' /\ pc' # "wait" /\ pc = "wait"
    BY Zenon DEF SendOK, GiveUp, EndWrite, SendReturns, readVars
  <1>2. BatchNumbered' /\ ReaderNumbered'
    BY <1>1 DEF Numbering, BatchNumbered, ReaderNumbered
  <1>3. CASE SendOK
    <2> DEFINE n == Len(batch.msgs)
    <2>1. /\ n \in Nat /\ n <= Len(queue) /\ seq \in Nat /\ EndOf(batch) = seq + n
      BY <1>1, BatchFacts DEF Numbering, BatchNumbered, QueueNumbered, EndOf, TypeOK
    <2>2. seq' = seq + n /\ queue' = SubSeq(queue, n + 1, Len(queue)) /\ gaveUp' = gaveUp /\ acked
      BY <1>3 DEF SendOK
    <2> HIDE DEF n
    <2>3. \A i \in n + 1 .. Len(queue) : queue[i] \in Messages
      BY <2>1 DEF TypeOK
    <2>4. /\ Len(queue') = Len(queue) - n
          /\ \A i \in 1 .. Len(queue) - n : queue'[i] = queue[n + i]
      BY <2>1, <2>2, <2>3, BatchFacts, SubSeqProperties
    <2>5. QueueNumbered'
      <3>1. Len(written) = seq + Len(queue) /\ \A j \in 1 .. Len(queue) : queue[j] = written[seq + j]
        BY DEF Numbering, QueueNumbered
      <3>2. ASSUME NEW i \in 1 .. Len(queue')
            PROVE  queue'[i] = written'[seq' + i]
        <4>1. n + i \in 1 .. Len(queue) /\ seq + (n + i) = seq' + i
          BY <2>1, <2>2, <2>4, BatchFacts
        <4>2. queue[n + i] = written[seq + (n + i)]
          BY <3>1, <4>1
        <4>3. QED
          BY <1>1, <2>4, <4>1, <4>2
      <3>3. Len(written') = seq' + Len(queue')
        <4>1. written' = written /\ seq' = seq + n
          BY <1>1, <2>2
        <4>2. Len(written') = seq + Len(queue) /\ Len(queue) \in Nat
          BY <3>1, <4>1, BatchFacts
        <4>3. Len(queue') = Len(queue) - n
          BY <2>4
        <4>4. n \in Nat /\ seq \in Nat
          BY <2>1
        <4>5. QED
          BY <4>1, <4>2, <4>3, <4>4
      <3>4. QED
        BY <3>2, <3>3 DEF QueueNumbered
    <2>6. NothingForgotten'
      BY <1>1, <2>1, <2>2 DEF Numbering, BatchNumbered, NothingForgotten, Covered
    <2>7. NetNumbered' /\ StreamNumbered'
      BY <1>1, <2>2 DEF Numbering, NetNumbered, StreamNumbered, Faithful, Covered, EndOf
    <2>8. QED
      BY <1>2, <2>5, <2>6, <2>7 DEF Numbering
  <1>4. CASE GiveUp
    <2>1. seq' = seq + Len(queue) /\ queue' = <<>> /\ gaveUp'
      BY <1>4 DEF GiveUp
    <2>2. QueueNumbered'
      BY <1>1, <2>1, BatchFacts DEF Numbering, QueueNumbered, TypeOK
    <2>3. NothingForgotten' /\ NetNumbered' /\ StreamNumbered'
      BY <1>1, <2>1 DEF Numbering, NetNumbered, StreamNumbered, NothingForgotten, Faithful
    <2>4. QED
      BY <1>2, <2>2, <2>3 DEF Numbering
  <1>5. QED
    BY <1>3, <1>4

(* What a batch that arrives, or is lost, leaves behind. *)
LEMMA NetworkNumbering ==
    ASSUME TypeOK, Numbering, NEW b \in net, Arrive(b) \/ Lose(b)
    PROVE  Numbering'
  <1>1. UNCHANGED <<written, seq, queue, draining, pc, batch, gaveUp, rseq, todo, last, rstate,
                    delivered>>
    BY DEF Arrive, Lose, sinkVars, readVars
  <1>2. b \in Batches /\ net' \subseteq net
    BY DEF TypeOK, Arrive, Lose
  <1>3. QueueNumbered' /\ ReaderNumbered'
    BY <1>1 DEF Numbering, QueueNumbered, ReaderNumbered
  <1>4. CASE Lose(b)
    <2>1. stream' = stream /\ acked' = acked
      BY <1>4 DEF Lose
    <2>2. BatchNumbered'
      BY <1>1, <2>1 DEF Numbering, BatchNumbered, Faithful, Covered, EndOf
    <2>3. NetNumbered'
      BY <1>1, <1>2, <2>1 DEF Numbering, NetNumbered, Faithful, Covered, EndOf
    <2>4. StreamNumbered' /\ NothingForgotten'
      BY <1>1, <2>1 DEF Numbering, StreamNumbered, NothingForgotten, Faithful, Covered, EndOf
    <2>5. QED
      BY <1>3, <2>2, <2>3, <2>4 DEF Numbering
  <1>5. CASE Arrive(b)
    <2>1. /\ Len(stream') = Len(stream) + 1 /\ stream'[Len(stream) + 1] = b
          /\ \A i \in 1 .. Len(stream) : stream'[i] = stream[i]
      BY <1>2, <1>5, AppendProperties DEF Arrive, TypeOK
    <2>2. Len(stream) \in Nat
      BY BatchFacts
    <2>3. \A n : Covered(n) => Covered(n)'
      BY <1>1, <2>1, <2>2 DEF Covered
    <2>4. \A c : Faithful(c) <=> Faithful(c)'
      BY <1>1 DEF Faithful, EndOf
    <2>5. Faithful(b) /\ (~gaveUp => Covered(b.seq))
      BY DEF Numbering, NetNumbered
    <2>6. BatchNumbered'
      <3>1. CASE acked' = acked
        BY <1>1, <2>3, <2>4, <3>1 DEF Numbering, BatchNumbered, EndOf
      <3>2. CASE acked' # acked
        <4>1. pc = "wait" /\ b = batch
          <5>1. acked \in BOOLEAN /\ acked' = (acked \/ (pc = "wait" /\ b = batch))
            BY <1>5, <3>2, Zenon DEF Arrive, TypeOK
          <5>2. QED
            BY <3>2, <5>1, Zenon
        <4>2. EndOf(batch) >= EndOf(batch)
          BY <1>2, <4>1, BatchFacts
        <4>3. Len(stream) + 1 \in 1 .. Len(stream')
          BY <2>1, <2>2
        <4>4. Covered(EndOf(batch))'
          BY <1>1, <2>1, <4>1, <4>2, <4>3 DEF Covered, EndOf
        <4>5. QED
          BY <1>1, <2>4, <4>1, <4>4 DEF Numbering, BatchNumbered, EndOf
      <3>3. QED
        BY <3>1, <3>2
    <2>7. NetNumbered'
      BY <1>1, <1>2, <2>3, <2>4 DEF Numbering, NetNumbered
    <2>8. NothingForgotten'
      BY <1>1, <2>3 DEF Numbering, NothingForgotten
    <2>9. StreamNumbered'
      <3>1. ASSUME NEW i \in 1 .. Len(stream) + 1
            PROVE  /\ Faithful(stream'[i])
                   /\ ~gaveUp => \/ rseq >= stream'[i].seq
                                 \/ \E j \in 1 .. i - 1 : EndOf(stream'[j]) >= stream'[i].seq
        <4>1. CASE i \in 1 .. Len(stream)
          <5>1. stream'[i] = stream[i] /\ \A j \in 1 .. i - 1 : stream'[j] = stream[j]
            BY <2>1, <2>2, <4>1
          <5>2. QED
            BY <4>1, <5>1 DEF Numbering, StreamNumbered
        <4>2. CASE i = Len(stream) + 1
          <5>1. stream'[i] = b /\ i - 1 = Len(stream)
            BY <2>1, <2>2, <4>2
          <5>2. QED
            BY <2>1, <2>5, <5>1 DEF Covered
        <4>3. QED
          BY <2>2, <4>1, <4>2
      <3>2. QED
        BY <1>1, <2>1, <2>4, <3>1 DEF StreamNumbered, EndOf
    <2>10. QED
      BY <1>3, <2>6, <2>7, <2>8, <2>9 DEF Numbering
  <1>6. QED
    BY <1>4, <1>5

(* The reader copies what it has read: the sink and the stream keep theirs. *)
LEMMA CopyNumbering ==
    ASSUME TypeOK, Numbering, PutMessage \/ CloseStream \/ StreamEnds
    PROVE  Numbering'
  <1>1. UNCHANGED <<written, seq, queue, draining, pc, batch, acked, gaveUp, net, stream, rseq, last>>
    BY Zenon DEF PutMessage, CloseStream, StreamEnds, sinkVars, netVars
  <1>2. QueueNumbered' /\ NothingForgotten'
    BY <1>1 DEF Numbering, QueueNumbered, NothingForgotten, Covered, EndOf
  <1>3. BatchNumbered' /\ NetNumbered' /\ StreamNumbered'
    BY <1>1 DEF Numbering, BatchNumbered, NetNumbered, StreamNumbered, Faithful, Covered, EndOf
  <1>4. ReaderNumbered
    BY DEF Numbering
  <1>5. CASE PutMessage
    <2>1. /\ rstate = "open" /\ todo # <<>> /\ todo \in Seq(Messages) /\ delivered \in Seq(Messages)
          /\ rseq \in Nat
      BY <1>5 DEF PutMessage, TypeOK
    <2>2. CASE HasRoom
      <3>1. delivered' = Append(delivered, Head(todo)) /\ todo' = Tail(todo) /\ rstate' = "open"
        BY <1>5, <2>1, <2>2, Zenon DEF PutMessage
      <3>2. /\ Head(todo) = todo[1] /\ Head(todo) \in Messages /\ Len(todo') = Len(todo) - 1
            /\ \A i \in 1 .. Len(todo') : todo'[i] = todo[i + 1]
        BY <2>1, <3>1, HeadTailProperties
      <3>3. /\ Len(delivered') = Len(delivered) + 1 /\ delivered'[Len(delivered) + 1] = todo[1]
            /\ \A i \in 1 .. Len(delivered) : delivered'[i] = delivered[i]
        BY <2>1, <3>1, <3>2, AppendProperties
      <3>4. Len(todo) \in Nat /\ Len(todo) >= 1 /\ Len(delivered) \in Nat
        BY <2>1
      <3>5. /\ rseq = Len(delivered) + Len(todo)
            /\ \A j \in 1 .. Len(todo) : todo[j] = written[Len(delivered) + j]
            /\ \A j \in 1 .. Len(delivered) : delivered[j] = written[j]
            /\ rseq <= Len(written)
        BY <1>4, <2>1 DEF ReaderNumbered
      <3>6. \A j \in 1 .. Len(delivered') : delivered'[j] = written[j]
        <4>1. TAKE j \in 1 .. Len(delivered')
        <4>2. CASE j \in 1 .. Len(delivered)
          BY <3>3, <3>5, <4>2
        <4>3. CASE j = Len(delivered) + 1
          BY <3>3, <3>4, <3>5, <4>3
        <4>4. QED
          BY <3>3, <3>4, <4>2, <4>3
      <3>7. \A j \in 1 .. Len(todo') : todo'[j] = written[Len(delivered') + j]
        <4>1. TAKE j \in 1 .. Len(todo')
        <4>2. j + 1 \in 1 .. Len(todo) /\ Len(delivered) + (j + 1) = Len(delivered') + j
          BY <3>2, <3>3, <3>4
        <4>3. QED
          BY <3>2, <3>5, <4>2
      <3>8. Len(delivered') <= rseq /\ rseq = Len(delivered') + Len(todo')
        BY <3>2, <3>3, <3>4, <3>5
      <3>9. written' = written /\ rseq' = rseq
        BY <1>1
      <3>10. last' => draining' /\ rseq' = Len(written')
        BY <1>1, <1>4, Zenon DEF ReaderNumbered
      <3>11. ReaderNumbered'
        BY <3>1, <3>5, <3>6, <3>7, <3>8, <3>9, <3>10 DEF ReaderNumbered
      <3>12. QED
        BY <1>2, <1>3, <3>11 DEF Numbering
    <2>3. CASE ~HasRoom
      <3>1. delivered' = delivered /\ rstate' = "refused"
        BY <1>5, <2>3, Zenon DEF PutMessage, CopyEnds
      <3>2. QED
        BY <1>1, <1>2, <1>3, <1>4, <3>1 DEF Numbering, ReaderNumbered
    <2>4. QED
      BY <2>2, <2>3
  <1>6. CASE CloseStream
    <2>1. /\ delivered' = delivered /\ rstate' = "clean" /\ rstate = "open" /\ todo = <<>> /\ last
      BY <1>6, Zenon DEF CloseStream, CopyEnds
    <2>2. draining /\ rseq = Len(written) /\ rseq = Len(delivered) + Len(todo)
      BY <1>4, <2>1 DEF ReaderNumbered
    <2>3. Len(delivered) = Len(written)
      BY <2>1, <2>2, BatchFacts
    <2>4. ReaderNumbered'
      BY <1>1, <1>4, <2>1, <2>2, <2>3 DEF ReaderNumbered
    <2>5. QED
      BY <1>2, <1>3, <2>4 DEF Numbering
  <1>7. CASE StreamEnds
    <2>1. delivered' = delivered /\ rstate' = "closed"
      BY <1>7, Zenon DEF StreamEnds, CopyEnds
    <2>2. ReaderNumbered'
      BY <1>1, <1>4, <2>1 DEF ReaderNumbered
    <2>3. QED
      BY <1>2, <1>3, <2>2 DEF Numbering
  <1>8. QED
    BY <1>5, <1>6, <1>7

(* ReadBatch: before the sink has given up there is no gap, and the reader    *)
(* moves past the end of the batch.                                           *)
LEMMA ReadNumbering ==
    ASSUME TypeOK, Numbering, ReadBatch
    PROVE  Numbering'
  <1> DEFINE b == stream[1]
  <1>1. UNCHANGED <<written, seq, queue, draining, pc, batch, acked, gaveUp, net, delivered>>
    BY Zenon DEF ReadBatch, sinkVars
  <1>2. /\ stream \in Seq(Batches) /\ stream # <<>> /\ Head(stream) = b /\ b \in Batches
        /\ rseq \in Nat /\ rstate = "open" /\ todo = <<>> /\ ~last
    BY HeadTailProperties DEF ReadBatch, TypeOK
  <1>3. /\ Len(stream) \in Nat /\ Len(stream) >= 1 /\ Len(stream') = Len(stream) - 1
        /\ \A i \in 1 .. Len(stream') : stream'[i] = stream[i + 1]
    BY <1>2, HeadTailProperties DEF ReadBatch
  <1> HIDE DEF b
  <1>4. \A c : Faithful(c) <=> Faithful(c)'
    BY <1>1 DEF Faithful, EndOf
  <1>5. Faithful(b) /\ (~gaveUp => rseq >= b.seq)
    <2>1. 1 \in 1 .. Len(stream) /\ 1 .. 1 - 1 = {}
      BY <1>3
    <2>2. QED
      BY <2>1 DEF Numbering, StreamNumbered, b
  <1>6. \A i \in 1 .. Len(stream') : Faithful(stream'[i])
    <2>1. \A i \in 1 .. Len(stream') : i + 1 \in 1 .. Len(stream)
      BY <1>3
    <2>2. QED
      BY <1>3, <2>1 DEF Numbering, StreamNumbered
  <1>7. QueueNumbered'
    BY <1>1 DEF Numbering, QueueNumbered
  <1>8. ReaderNumbered /\ rseq = Len(delivered)
    <2>1. ReaderNumbered
      BY DEF Numbering
    <2>2. rseq = Len(delivered) + Len(todo)
      BY <1>2, <2>1 DEF ReaderNumbered
    <2>3. QED
      BY <1>2, <2>1, <2>2, BatchFacts
  <1>9. CASE Gap(b)
    <2>1. gaveUp
      BY <1>2, <1>5, <1>9, BatchFacts DEF Gap
    <2>2. UNCHANGED <<rseq, last>> /\ rstate' = "dropped"
      BY <1>2, <1>9, Zenon DEF ReadBatch, CopyEnds
    <2>3. ReaderNumbered'
      BY <1>1, <1>8, <2>2 DEF ReaderNumbered
    <2>4. BatchNumbered'
      BY <1>1, <1>4, <2>1 DEF Numbering, BatchNumbered, EndOf
    <2>5. NetNumbered' /\ StreamNumbered' /\ NothingForgotten'
      BY <1>1, <1>4, <1>6, <2>1 DEF Numbering, NetNumbered, StreamNumbered, NothingForgotten
    <2>6. QED
      BY <1>7, <2>3, <2>4, <2>5 DEF Numbering
  <1>10. CASE ~Gap(b)
    <2>1. /\ todo' = Unseen(b) /\ rseq' = rseq + Len(Unseen(b)) /\ last' = b.close
          /\ rstate' = "open"
      BY <1>2, <1>10, Zenon DEF ReadBatch
    <2>2. /\ Unseen(b) \in Seq(Messages) /\ Len(Unseen(b)) \in Nat
          /\ b.seq \in Nat /\ EndOf(b) \in Nat /\ b.seq <= rseq /\ Len(written) \in Nat
      BY <1>2, <1>10, UnseenFacts, BatchFacts DEF Gap
    <2>3. EndOf(b) <= Len(written) /\ rseq <= Len(written)
      BY <1>5, <1>8 DEF Faithful, ReaderNumbered
    <2>4. /\ rseq' \in Nat /\ rseq' >= rseq /\ rseq' >= EndOf(b) /\ rseq' <= Len(written)
      <3>1. CASE EndOf(b) > rseq
        <4>1. Len(Unseen(b)) = EndOf(b) - rseq
          BY <1>2, <1>10, <3>1, UnseenFacts
        <4>2. QED
          BY <1>2, <2>1, <2>2, <2>3, <3>1, <4>1
      <3>2. CASE EndOf(b) <= rseq
        <4>1. Len(Unseen(b)) = 0
          BY <1>2, <1>10, <3>2, UnseenFacts
        <4>2. QED
          BY <1>2, <2>1, <2>2, <2>3, <3>2, <4>1
      <3>3. QED
        BY <1>2, <2>2, <3>1, <3>2
    <2>5. \A j \in 1 .. Len(Unseen(b)) : Unseen(b)[j] = written[rseq + j]
      <3>1. TAKE j \in 1 .. Len(Unseen(b))
      <3>2. CASE EndOf(b) <= rseq
        <4>1. Len(Unseen(b)) = 0
          BY <1>2, <1>10, <3>2, UnseenFacts
        <4>2. QED
          BY <4>1
      <3>3. CASE EndOf(b) > rseq
        <4>1. /\ Len(Unseen(b)) = EndOf(b) - rseq
              /\ Unseen(b)[j] = b.msgs[rseq - b.seq + j]
          BY <1>2, <1>10, <3>3, UnseenFacts
        <4>2. /\ rseq - b.seq + j \in 1 .. Len(b.msgs)
              /\ b.seq + (rseq - b.seq + j) = rseq + j
          <5>1. Len(b.msgs) \in Nat /\ EndOf(b) = b.seq + Len(b.msgs)
            BY <1>2, BatchFacts DEF EndOf
          <5>2. j \in 1 .. (b.seq + Len(b.msgs)) - rseq
            <6>1. Len(Unseen(b)) = (b.seq + Len(b.msgs)) - rseq
              BY <4>1, <5>1, Zenon
            <6>2. QED
              BY <3>1, <6>1, Zenon
          <5>3. rseq \in Nat /\ b.seq \in Nat /\ b.seq <= rseq
            BY <1>2, <2>2
          <5>4. QED
            BY <5>1, <5>2, <5>3
        <4>3. b.msgs[rseq - b.seq + j] = written[b.seq + (rseq - b.seq + j)]
          BY <1>5, <4>2, Zenon DEF Faithful
        <4>4. QED
          BY <4>1, <4>2, <4>3
      <3>4. QED
        BY <1>2, <2>2, <3>2, <3>3
    <2>6. ReaderNumbered'
      <3>1. last' => draining /\ rseq' = Len(written)
        <4>1. b.close => draining /\ EndOf(b) = Len(written)
          BY <1>5, Zenon DEF Faithful
        <4>2. b.close => rseq' = Len(written)
          BY <2>2, <2>4, <4>1
        <4>3. QED
          BY <2>1, <4>1, <4>2, Zenon
      <3>2. \A j \in 1 .. Len(delivered) : delivered[j] = written[j]
        BY <1>8 DEF ReaderNumbered
      <3>3. Len(delivered) <= rseq' /\ rseq' = Len(delivered) + Len(todo')
        BY <1>2, <1>8, <2>1, <2>2, <2>4
      <3>4. \A j \in 1 .. Len(todo') : todo'[j] = written[Len(delivered) + j]
        BY <1>8, <2>1, <2>5
      <3>5. written' = written /\ delivered' = delivered /\ (draining' <=> draining)
        BY <1>1
      <3>6. rseq' <= Len(written)
        BY <2>4
      <3>7. QED
        BY <2>1, <3>1, <3>2, <3>3, <3>4, <3>5, <3>6 DEF ReaderNumbered
    <2>7. ASSUME NEW n \in Nat, Covered(n)
          PROVE  Covered(n)'
      <3>1. CASE rseq >= n
        BY <1>2, <2>4, <3>1 DEF Covered
      <3>2. CASE \E i \in 1 .. Len(stream) : EndOf(stream[i]) >= n
        <4>1. PICK i \in 1 .. Len(stream) : EndOf(stream[i]) >= n
          BY <3>2
        <4>2. CASE i = 1
          <5>1. EndOf(b) >= n
            BY <4>1, <4>2 DEF b
          <5>2. QED
            BY <2>2, <2>4, <5>1 DEF Covered
        <4>3. CASE i # 1
          <5>1. i - 1 \in 1 .. Len(stream') /\ i - 1 + 1 = i
            BY <1>3, <4>3
          <5>2. stream'[i - 1] = stream[i]
            BY <1>3, <5>1
          <5>3. QED
            BY <4>1, <5>1, <5>2 DEF Covered, EndOf
        <4>4. QED
          BY <4>2, <4>3
      <3>3. QED
        BY <3>1, <3>2, <2>7 DEF Covered
    <2>8. BatchNumbered'
      <3>1. batch \in Batches /\ EndOf(batch) \in Nat
        BY BatchFacts DEF TypeOK
      <3>2. QED
        BY <1>1, <1>4, <2>7, <3>1 DEF Numbering, BatchNumbered, EndOf
    <2>9. NetNumbered'
      <3>1. \A c \in net : c.seq \in Nat
        BY BatchFacts DEF TypeOK
      <3>2. QED
        BY <1>1, <1>4, <2>7, <3>1 DEF Numbering, NetNumbered
    <2>10. NothingForgotten'
      BY <1>1, <2>7 DEF Numbering, NothingForgotten, TypeOK
    <2>11. StreamNumbered'
      <3>1. ASSUME NEW i \in 1 .. Len(stream'), ~gaveUp
            PROVE  \/ rseq' >= stream'[i].seq
                   \/ \E j \in 1 .. i - 1 : EndOf(stream'[j]) >= stream'[i].seq
        <4>1. i + 1 \in 1 .. Len(stream) /\ stream'[i] = stream[i + 1] /\ i + 1 - 1 = i
          BY <1>3
        <4>2. stream'[i].seq \in Nat
          BY <4>1, BatchFacts
        <4>3. \/ rseq >= stream'[i].seq
              \/ \E j \in 1 .. i : EndOf(stream[j]) >= stream'[i].seq
          BY <3>1, <4>1 DEF Numbering, StreamNumbered
        <4>4. CASE rseq >= stream'[i].seq
          BY <1>2, <2>4, <4>2, <4>4
        <4>5. CASE \E j \in 1 .. i : EndOf(stream[j]) >= stream'[i].seq
          <5>1. PICK j \in 1 .. i : EndOf(stream[j]) >= stream'[i].seq
            BY <4>5
          <5>2. CASE j = 1
            <6>1. EndOf(b) >= stream'[i].seq
              BY <5>1, <5>2 DEF b
            <6>2. QED
              BY <2>2, <2>4, <4>2, <6>1
          <5>3. CASE j # 1
            <6>1. /\ j - 1 \in 1 .. Len(stream') /\ j - 1 + 1 = j /\ j - 1 \in 1 .. i - 1
              BY <1>3, <5>3
            <6>2. stream'[j - 1] = stream[j]
              BY <1>3, <6>1
            <6>3. QED
              BY <5>1, <6>1, <6>2
          <5>4. QED
            BY <5>2, <5>3
        <4>6. QED
          BY <4>3, <4>4, <4>5
      <3>2. QED
        BY <1>1, <1>4, <1>6, <3>1 DEF StreamNumbered, EndOf
    <2>12. QED
      BY <1>7, <2>6, <2>8, <2>9, <2>10, <2>11 DEF Numbering
  <1>11. QED
    BY <1>9, <1>10

LEMMA NumberingStep == TypeOK /\ Numbering /\ [Next]_vars => Numbering'
  <1>1. SUFFICES ASSUME TypeOK, Numbering, [Next]_vars PROVE Numbering'
    OBVIOUS
  <1>2. CASE UNCHANGED vars
    BY <1>1, <1>2, FrameNumbering DEF vars, sinkVars, readVars, netVars
  <1>3. CASE \E m \in Messages : WriteMessage(m)
    BY <1>1, <1>3, WriteNumbering
  <1>4. CASE Close
    BY <1>1, <1>4, CloseNumbering
  <1>5. CASE SendBatch \/ Retry
    BY <1>1, <1>5, SendNumbering
  <1>6. CASE SendOK \/ GiveUp
    BY <1>1, <1>6, ReturnNumbering
  <1>7. CASE ReadBatch
    BY <1>1, <1>7, ReadNumbering
  <1>8. CASE PutMessage \/ CloseStream \/ StreamEnds
    BY <1>1, <1>8, CopyNumbering
  <1>9. CASE \E b \in net : Arrive(b) \/ Lose(b)
    BY <1>1, <1>9, NetworkNumbering
  <1>10. CASE CloseNotice \/ OtherDirectionCloses
    <2>1. UNCHANGED <<sinkVars, readVars, acked, net, stream>>
      BY <1>10, Zenon DEF CloseNotice, OtherDirectionCloses
    <2>2. QED
      BY <1>1, <2>1, FrameNumbering DEF sinkVars, readVars
  <1>11. CASE Consume \/ ConsumerCloses
    <2>1. UNCHANGED <<sinkVars, netVars, rseq, todo, last, rstate, delivered>>
      BY <1>11, Zenon DEF Consume, ConsumerCloses
    <2>2. QED
      BY <1>1, <2>1, FrameNumbering DEF sinkVars, netVars
  <1>12. QED
    BY <1>1, <1>2, <1>3, <1>4, <1>5, <1>6, <1>7, <1>8, <1>9, <1>10, <1>11 DEF Next, Writer, Reader

LEMMA InitNumbering == Init => TypeOK /\ Numbering
  <1>1. SUFFICES ASSUME Init PROVE TypeOK /\ Numbering
    OBVIOUS
  <1>2. TypeOK
    <2>1. /\ draining \in BOOLEAN /\ closeOnFailure \in BOOLEAN /\ gaveUp \in BOOLEAN
          /\ acked \in BOOLEAN /\ sClosed \in BOOLEAN /\ rClosed \in BOOLEAN /\ last \in BOOLEAN
          /\ chanOpen \in BOOLEAN /\ batch \in Batches
      BY <1>1, NoBatchType, Zenon DEF Init
    <2>2. /\ written \in Seq(Messages) /\ queue \in Seq(Messages) /\ todo \in Seq(Messages)
          /\ delivered \in Seq(Messages) /\ stream \in Seq(Batches) /\ Len(stream) <= StreamCap
      BY <1>1 DEF Init
    <2>3. /\ seq \in Nat /\ tries \in 0 .. MaxRetries /\ rseq \in Nat /\ backlog \in 0 .. ChanCap
          /\ net \in SUBSET Batches
      BY <1>1 DEF Init
    <2>4. /\ pc \in {"off", "top", "wait"}
          /\ rstate \in {"open", "clean", "dropped", "refused", "closed"}
      BY <1>1 DEF Init
    <2>5. QED
      BY <2>1, <2>2, <2>3, <2>4, Zenon DEF TypeOK
  <1>3. Numbering
    BY <1>1 DEF Init, Numbering, QueueNumbered, BatchNumbered, NetNumbered, StreamNumbered,
                ReaderNumbered, NothingForgotten, Covered
  <1>4. QED
    BY <1>2, <1>3

-----------------------------------------------------------------------------
(* The theorems. *)

(* The relay's variables keep their types: the stream buffer and the channel  *)
(* stay within their sizes whatever the two goroutines do.                    *)
THEOREM RelayTypeCorrect == Spec => []TypeOK
  <1>1. Init => TypeOK
    BY InitNumbering
  <1>2. QED
    BY <1>1, TypeStep, PTL DEF Spec

(* Wherever a message is, its number is its place in the order of writing,    *)
(* and the sink drops nothing from its queue that the reader has not got,     *)
(* unless it gave up (signalMessageSink.write, signalMessageReader.Read).     *)
THEOREM NumberingHolds == Spec => []Numbering
  <1>1. Init => TypeOK /\ Numbering
    BY InitNumbering
  <1>2. (TypeOK /\ Numbering) /\ [Next]_vars => (TypeOK /\ Numbering)'
    BY TypeStep, NumberingStep
  <1>3. QED
    BY <1>1, <1>2, PTL DEF Spec

(* A reader that ends because of a batch with Close set has put every message *)
(* the sink accepted into the channel (the close in signalMessageSink.write). *)
THEOREM CleanClose == Spec => []CleanCloseIsComplete
  <1>1. TypeOK /\ Numbering => CleanCloseIsComplete
    <2>1. SUFFICES ASSUME TypeOK, Numbering, rstate = "clean" PROVE delivered = written
      BY DEF CleanCloseIsComplete
    <2>2. /\ delivered \in Seq(Messages) /\ written \in Seq(Messages)
          /\ Len(delivered) = Len(written)
          /\ \A j \in 1 .. Len(delivered) : delivered[j] = written[j]
      BY <2>1 DEF TypeOK, Numbering, ReaderNumbered
    <2>3. QED
      BY <2>2, SeqEqual
  <1>2. QED
    BY <1>1, RelayTypeCorrect, NumberingHolds, PTL

(* The relay implements the FIFO channel: a step of the relay is a Write, a   *)
(* Deliver, or leaves what was written and delivered alone.                   *)
THEOREM RelayImplementsFIFO == Spec => RelayIsFIFO
  <1>1. Init => FIFO!Init
    BY DEF Init, FIFO!Init
  <1>2. TypeOK /\ Numbering /\ [Next]_vars
        => [FIFO!Write \/ FIFO!Deliver]_<<written, delivered>>
    <2>1. SUFFICES ASSUME TypeOK, Numbering, [Next]_vars
                   PROVE  FIFO!Write \/ FIFO!Deliver \/ UNCHANGED <<written, delivered>>
      OBVIOUS
    <2>2. CASE \E m \in Messages : WriteMessage(m)
      BY <2>2 DEF WriteMessage, readVars, FIFO!Write
    <2>3. CASE PutMessage
      <3>1. CASE HasRoom
        <4>1. /\ delivered' = Append(delivered, Head(todo)) /\ written' = written
              /\ rstate = "open" /\ todo # <<>>
          BY <2>3, <3>1, Zenon DEF PutMessage, sinkVars
        <4>2. todo \in Seq(Messages) /\ Len(todo) \in Nat /\ Len(todo) >= 1 /\ Head(todo) = todo[1]
          BY <2>1, <4>1 DEF TypeOK
        <4>3. /\ rseq = Len(delivered) + Len(todo) /\ rseq <= Len(written)
              /\ \A j \in 1 .. Len(todo) : todo[j] = written[Len(delivered) + j]
          BY <2>1, <4>1 DEF Numbering, ReaderNumbered
        <4>4. Len(delivered) < Len(written) /\ todo[1] = written[Len(delivered) + 1]
          BY <2>1, <4>2, <4>3, BatchFacts
        <4>5. QED
          BY <4>1, <4>2, <4>4 DEF FIFO!Deliver
      <3>2. CASE ~HasRoom
        BY <2>3, <3>2, Zenon DEF PutMessage, sinkVars
      <3>3. QED
        BY <3>1, <3>2
    <2>4. CASE UNCHANGED vars
      BY <2>4 DEF vars, sinkVars, readVars
    <2>5. CASE Close \/ Writer
      BY <2>5, Zenon DEF Close, Writer, SendBatch, SendOK, Retry, GiveUp, readVars
    <2>6. CASE ReadBatch \/ CloseStream \/ StreamEnds
      BY <2>6, Zenon DEF ReadBatch, CloseStream, StreamEnds, sinkVars
    <2>7. CASE (\E b \in net : Arrive(b) \/ Lose(b)) \/ CloseNotice \/ OtherDirectionCloses
      BY <2>7, Zenon DEF Arrive, Lose, CloseNotice, OtherDirectionCloses, sinkVars, readVars
    <2>8. CASE Consume \/ ConsumerCloses
      BY <2>8, Zenon DEF Consume, ConsumerCloses, sinkVars
    <2>9. QED
      BY <2>1, <2>2, <2>3, <2>4, <2>5, <2>6, <2>7, <2>8 DEF Next, Reader
  <1>3. Spec => [](TypeOK /\ Numbering)
    BY RelayTypeCorrect, NumberingHolds, PTL
  <1>4. QED
    BY <1>1, <1>2, <1>3, PTL DEF Spec, RelayIsFIFO, FIFO!Spec

=============================================================================
