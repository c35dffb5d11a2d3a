----------------------------- MODULE PacketQueue -----------------------------
(***************************************************************************)
(* The way of a datagram through the program (sip/init.go): one goroutine  *)
(* takes a buffer from BufferPool, reads the socket into it and puts it    *)
(* into packetQueue, a channel of QueueSize; the workers take it out,      *)
(* handle its message and give the buffer back to the pool.                *)
(*                                                                         *)
(* The parts of a message body are slices of the buffer, not copies        *)
(* (processPDU), and a message that is relayed has the parts of the one    *)
(* that was received.  It is sent again by the timer of its transaction,   *)
(* long after the buffer went back to the pool and holds another datagram. *)
(***************************************************************************)
EXTENDS Naturals, Sequences, FiniteSets

CONSTANTS
  Workers,     \* WorkerCount goroutines
  QueueSize,
  Buffers,     \* what sync.Pool makes: it makes one whenever it has none
  MaxPackets   \* bound: datagrams that arrive

ASSUME QueueAssumption ==
  /\ QueueSize \in Nat \ {0} /\ MaxPackets \in Nat
  /\ IsFiniteSet(Workers) /\ IsFiniteSet(Buffers)

Packet == 1..MaxPackets
NoPacket == 0

VARIABLES
  free,    \* buffers in BufferPool, or not made yet
  bytes,   \* the datagram each buffer holds
  reader,  \* udpLoopWorkers: where it is and its buffer
  queue,   \* packetQueue: buffers, each with its datagram
  work,    \* where each worker is, its buffer and its datagram
  sent,    \* the message relayed for each datagram, see Message
  seen     \* datagrams read so far

vars == <<free, bytes, reader, queue, work, sent, seen>>

\* Body: the buffer its body is a slice of; Bytes: whose text was saved; wire: whose
\* text the last transmission had
Message == [Body : Buffers, Bytes : Packet \cup {NoPacket}, wire : Packet \cup {NoPacket}]
Entry == [buf : Buffers, pkt : Packet]
Stage == {"taken", "asleep", "sent"}

TypeOK ==
  /\ free \subseteq Buffers
  /\ bytes \in [Buffers -> Packet \cup {NoPacket}]
  /\ reader \in [pc : {"get"}] \cup [pc : {"read", "put"}, buf : Buffers]
  /\ queue \in Seq(Entry) /\ Len(queue) <= QueueSize
  /\ work \in [Workers -> [pc : {"idle"}] \cup [pc : Stage, buf : Buffers, pkt : Packet]]
  /\ \A p \in Packet : sent[p] \in Message \cup {<<>>}
  /\ seen \in 0..MaxPackets

Init ==
  /\ free = Buffers
  /\ bytes = [b \in Buffers |-> NoPacket]
  /\ reader = [pc |-> "get"]
  /\ queue = <<>>
  /\ work = [w \in Workers |-> [pc |-> "idle"]]
  /\ sent = [p \in Packet |-> <<>>]
  /\ seen = 0

-----------------------------------------------------------------------------
(***************************************************************************)
(* udpLoopWorkers                                                          *)
(***************************************************************************)
Get ==
  /\ reader.pc = "get"
  /\ \E b \in free : reader' = [pc |-> "read", buf |-> b] /\ free' = free \ {b}
  /\ UNCHANGED <<bytes, queue, work, sent, seen>>

Read ==
  /\ reader.pc = "read" /\ seen < MaxPackets
  /\ seen' = seen + 1
  /\ bytes' = [bytes EXCEPT ![reader.buf] = seen + 1]
  /\ reader' = [reader EXCEPT !.pc = "put"]
  /\ UNCHANGED <<free, queue, work, sent>>

\* the buffer is not given back: the garbage collector has it, and the pool makes another
ReadError ==
  /\ reader.pc = "read"
  /\ reader' = [pc |-> "get"]
  /\ free' = free \cup {reader.buf}
  /\ UNCHANGED <<bytes, queue, work, sent, seen>>

\* waits while the channel is full
Enqueue ==
  /\ reader.pc = "put" /\ Len(queue) < QueueSize
  /\ queue' = Append(queue, [buf |-> reader.buf, pkt |-> seen])
  /\ reader' = [pc |-> "get"]
  /\ UNCHANGED <<free, bytes, work, sent, seen>>

-----------------------------------------------------------------------------
(***************************************************************************)
(* worker and processPacket                                                *)
(***************************************************************************)
\* mutant: the buffer goes back before the message is handled
Bug_EarlyPut(w) ==
  /\ work[w].pc = "idle" /\ queue # <<>>
  /\ work' = [work EXCEPT ![w] = [pc |-> "taken", buf |-> Head(queue).buf, pkt |-> Head(queue).pkt]]
  /\ queue' = Tail(queue)
  /\ free' = free \cup {Head(queue).buf}
  /\ UNCHANGED <<bytes, reader, sent, seen>>

Take(w) ==
  /\ work[w].pc = "idle" /\ queue # <<>>
  /\ work' = [work EXCEPT ![w] = [pc |-> "taken", buf |-> Head(queue).buf, pkt |-> Head(queue).pkt]]
  /\ queue' = Tail(queue)
  /\ UNCHANGED <<free, bytes, reader, sent, seen>>

\* a handler that sleeps: answerEchoCall and WaitMS, in the worker itself
Sleep(w) ==
  /\ work[w].pc = "taken"
  /\ work' = [work EXCEPT ![w].pc = "asleep"]
  /\ UNCHANGED <<free, bytes, reader, queue, sent, seen>>

\* mutant: the text is written anew for each transmission
Bug_Send(msg) == [msg EXCEPT !.wire = bytes[msg.Body]]

\* Send: the text of a message is written once and kept for retransmissions
Send(msg) ==
  LET text == IF msg.Bytes = NoPacket THEN bytes[msg.Body] ELSE msg.Bytes IN
  [msg EXCEPT !.Bytes = text, !.wire = text]

NewMessage(b) == [Body |-> b, Bytes |-> NoPacket, wire |-> NoPacket]

\* mutant: a handler that sleeps does not wake up
Bug_Relay(w) ==
  /\ work[w].pc = "taken"
  /\ work' = [work EXCEPT ![w].pc = "sent"]
  /\ UNCHANGED <<free, bytes, reader, queue, sent, seen>>

\* sipStack: the message is relayed with its body, or dropped
Relay(w) ==
  /\ work[w].pc \in {"taken", "asleep"}
  /\ \/ sent' = [sent EXCEPT ![work[w].pkt] = Send(NewMessage(work[w].buf))]
     \/ UNCHANGED sent
  /\ work' = [work EXCEPT ![w].pc = "sent"]
  /\ UNCHANGED <<free, bytes, reader, queue, seen>>

PutBack(w) ==
  /\ work[w].pc = "sent"
  /\ free' = free \cup {work[w].buf}
  /\ work' = [work EXCEPT ![w] = [pc |-> "idle"]]
  /\ UNCHANGED <<bytes, reader, queue, sent, seen>>

\* transTimerHandler sends SentMessage again
Retransmit(p) ==
  /\ sent[p] # <<>>
  /\ sent' = [sent EXCEPT ![p] = Send(@)]
  /\ UNCHANGED <<free, bytes, reader, queue, work, seen>>

Worker(w) == Take(w) \/ Sleep(w) \/ Relay(w) \/ PutBack(w)

Next ==
  \/ Get \/ Read \/ ReadError \/ Enqueue
  \/ \E w \in Workers : Worker(w)
  \/ \E p \in Packet : Retransmit(p)

\* goroutines that can run do run, and a worker that sleeps wakes up; that datagrams
\* arrive is not assumed
Spec ==
  /\ Init /\ [][Next]_vars
  /\ WF_vars(Get) /\ WF_vars(Enqueue)
  /\ \A w \in Workers : WF_vars(Worker(w))

-----------------------------------------------------------------------------
InQueue(b) == {i \in DOMAIN queue : queue[i].buf = b}
Having(b) == {w \in Workers : work[w].pc # "idle" /\ work[w].buf = b}

(***************************************************************************)
(* A buffer is in one place: no datagram is read into a buffer that waits  *)
(* in the queue or that a worker still reads (init.go:187, 223).           *)
(***************************************************************************)
OneHolder ==
  \A b \in Buffers :
    LET read == IF reader.pc # "get" /\ reader.buf = b THEN 1 ELSE 0
        pool == IF b \in free THEN 1 ELSE 0 IN
    read + pool + Cardinality(InQueue(b)) + Cardinality(Having(b)) = 1

(***************************************************************************)
(* What is sent for a datagram, at first and again, is its own text,       *)
(* although its body is a slice of a buffer that is used again: Bytes is   *)
(* kept "for retransmissions" (message.go:458).                            *)
(***************************************************************************)
SentIntact == \A p \in Packet : sent[p] # <<>> => sent[p].wire = p

InHand(p) ==
  \/ reader.pc = "put" /\ seen = p
  \/ \E i \in DOMAIN queue : queue[i].pkt = p
  \/ \E w \in Workers : work[w].pc # "idle" /\ work[w].pkt = p

(***************************************************************************)
(* A datagram that was read reaches a worker and is done with, even while  *)
(* the queue is full and workers sleep in handlers (init.go:193, 198).     *)
(***************************************************************************)
ReadHandled == \A p \in Packet : InHand(p) ~> ~InHand(p)
=============================================================================
