-------------------------- MODULE PacketQueueProofs --------------------------
EXTENDS PacketQueue, FiniteSetTheorems, TLAPS

-----------------------------------------------------------------------------
(***************************************************************************)
(* The inductive invariant.  Exclusive is OneHolder without counting: a    *)
(* buffer is somewhere, no two workers and no two places of the queue have *)
(* the same one, and the four kinds of holder exclude each other.          *)
(* Contents says that whoever holds a buffer finds the datagram in it that *)
(* it was handed: nothing was read into the buffer since.  Saved says that *)
(* the text of a relayed message was written while that was so, once.      *)
(***************************************************************************)
Reads(b) == reader.pc # "get" /\ reader.buf = b
Waits(b) == \E i \in DOMAIN queue : queue[i].buf = b
Works(b) == \E w \in Workers : work[w].pc # "idle" /\ work[w].buf = b

Held(b) == b \in free \/ Reads(b) \/ Waits(b) \/ Works(b)

Apart(b) ==
  /\ b \in free => ~Reads(b) /\ ~Waits(b) /\ ~Works(b)
  /\ Reads(b) => ~Waits(b) /\ ~Works(b)
  /\ Waits(b) => ~Works(b)

OnceQueued ==
  \A i, j \in DOMAIN queue : queue[i].buf = queue[j].buf => i = j

OneWorker ==
  \A v, w \in Workers :
    work[v].pc # "idle" /\ work[w].pc # "idle" /\ work[v].buf = work[w].buf => v = w

Exclusive ==
  /\ \A b \in Buffers : Held(b) /\ Apart(b)
  /\ OnceQueued
  /\ OneWorker

Contents ==
  /\ reader.pc = "put" => seen # 0 /\ bytes[reader.buf] = seen
  /\ \A i \in DOMAIN queue : bytes[queue[i].buf] = queue[i].pkt
  /\ \A w \in Workers : work[w].pc # "idle" => bytes[work[w].buf] = work[w].pkt

Saved ==
  \A p \in Packet : sent[p] # <<>> => sent[p].Bytes = p /\ sent[p].wire = p

IInv ==
  /\ TypeOK
  /\ sent \in [Packet -> Message \cup {<<>>}]
  /\ Exclusive
  /\ Contents
  /\ Saved

-----------------------------------------------------------------------------
(***************************************************************************)
(* Taking from and adding to the queue                                     *)
(***************************************************************************)
LEMMA QueueTail ==
  ASSUME NEW q \in Seq(Entry), q # <<>>
  PROVE  /\ Tail(q) \in Seq(Entry) /\ Len(Tail(q)) = Len(q) - 1
         /\ Head(q) = q[1] /\ 1 \in DOMAIN q /\ Head(q) \in Entry
         /\ \A i \in DOMAIN Tail(q) : i + 1 \in DOMAIN q /\ i + 1 # 1 /\ Tail(q)[i] = q[i + 1]
         /\ \A i \in DOMAIN q : i # 1 => i - 1 \in DOMAIN Tail(q) /\ Tail(q)[i - 1] = q[i]
  OBVIOUS

LEMMA QueueAppend ==
  ASSUME NEW q \in Seq(Entry), NEW e \in Entry
  PROVE  /\ Append(q, e) \in Seq(Entry) /\ Len(Append(q, e)) = Len(q) + 1
         /\ DOMAIN Append(q, e) = DOMAIN q \cup {Len(q) + 1}
         /\ Len(q) + 1 \notin DOMAIN q
         /\ Append(q, e)[Len(q) + 1] = e
         /\ \A i \in DOMAIN q : Append(q, e)[i] = q[i]
  OBVIOUS

LEMMA InitIInv == Init => IInv
<1> SUFFICES ASSUME Init PROVE IInv
  OBVIOUS
<1>1. TypeOK /\ sent \in [Packet -> Message \cup {<<>>}]
  BY QueueAssumption DEF Init, TypeOK
<1>2. Exclusive
  BY DEF Init, Exclusive, Held, Apart, Reads, Waits, Works, OnceQueued, OneWorker
<1>3. Contents /\ Saved
  BY DEF Init, Contents, Saved
<1> QED BY <1>1, <1>2, <1>3 DEF IInv

-----------------------------------------------------------------------------
(***************************************************************************)
(* udpLoopWorkers                                                          *)
(***************************************************************************)
LEMMA GetIInv == IInv /\ Get => IInv'
<1> SUFFICES ASSUME IInv, Get PROVE IInv'
  OBVIOUS
<1>1. PICK b \in free : reader' = [pc |-> "read", buf |-> b] /\ free' = free \ {b}
  BY DEF Get
<1>2. b \in Buffers /\ reader.pc = "get" /\ UNCHANGED <<bytes, queue, work, sent, seen>>
  BY DEF Get, IInv, TypeOK
<1>3. TypeOK' /\ (sent \in [Packet -> Message \cup {<<>>}])'
  BY <1>1, <1>2 DEF IInv, TypeOK
<1>4. Exclusive'
  BY <1>1, <1>2 DEF IInv, Exclusive, Held, Apart, Reads, Waits, Works, OnceQueued, OneWorker
<1>5. Contents' /\ Saved'
  BY <1>1, <1>2 DEF IInv, Contents, Saved
<1> QED BY <1>3, <1>4, <1>5 DEF IInv

LEMMA ReadIInv == IInv /\ Read => IInv'
<1> SUFFICES ASSUME IInv, Read PROVE IInv'
  OBVIOUS
<1>1. /\ reader.pc = "read" /\ seen < MaxPackets /\ seen' = seen + 1
      /\ bytes' = [bytes EXCEPT ![reader.buf] = seen + 1]
      /\ reader' = [reader EXCEPT !.pc = "put"]
      /\ UNCHANGED <<free, queue, work, sent>>
  BY DEF Read
<1>2. reader.buf \in Buffers /\ reader' = [pc |-> "put", buf |-> reader.buf]
  BY <1>1 DEF IInv, TypeOK
<1>3. seen' \in Packet /\ seen' # 0 /\ seen' \in 0..MaxPackets
  BY <1>1, QueueAssumption DEF IInv, TypeOK, Packet
<1>4. TypeOK' /\ (sent \in [Packet -> Message \cup {<<>>}])'
  BY <1>1, <1>2, <1>3 DEF IInv, TypeOK
<1>5. \A b \in Buffers : Reads(b)' <=> Reads(b)
  BY <1>1, <1>2 DEF Reads
<1>6. Exclusive'
  BY <1>1, <1>5 DEF IInv, Exclusive, Held, Apart, Waits, Works, OnceQueued, OneWorker
<1>7. ASSUME NEW b \in Buffers, Waits(b) \/ Works(b)
      PROVE  bytes'[b] = bytes[b]
  <2>1. ~Reads(b)
    BY <1>7 DEF IInv, Exclusive, Apart
  <2>2. b # reader.buf
    BY <2>1, <1>1 DEF Reads
  <2> QED BY <2>2, <1>1 DEF IInv, TypeOK
<1>8. bytes'[reader.buf] = seen'
  BY <1>1, <1>2 DEF IInv, TypeOK
<1>9. \A i \in DOMAIN queue : queue[i].buf \in Buffers
  <2>1. \A i \in DOMAIN queue : queue[i] \in Entry
    BY DEF IInv, TypeOK
  <2> QED BY <2>1 DEF Entry
<1>10. \A w \in Workers : work[w].pc # "idle" => work[w].buf \in Buffers
  BY DEF IInv, TypeOK
<1>11. Contents'
  <2>1. \A i \in DOMAIN queue' : bytes'[queue'[i].buf] = queue'[i].pkt
    BY <1>1, <1>7, <1>9 DEF Waits, IInv, Contents
  <2>2. \A w \in Workers : work'[w].pc # "idle" => bytes'[work'[w].buf] = work'[w].pkt
    BY <1>1, <1>7, <1>10 DEF Works, IInv, Contents
  <2> QED BY <2>1, <2>2, <1>2, <1>3, <1>8 DEF Contents
<1>12. Saved'
  BY <1>1 DEF IInv, Saved
<1> QED BY <1>4, <1>6, <1>11, <1>12 DEF IInv

LEMMA ReadErrorIInv == IInv /\ ReadError => IInv'
<1> SUFFICES ASSUME IInv, ReadError PROVE IInv'
  OBVIOUS
<1>1. /\ reader.pc = "read" /\ reader' = [pc |-> "get"] /\ free' = free \cup {reader.buf}
      /\ UNCHANGED <<bytes, queue, work, sent, seen>>
  BY DEF ReadError
<1>2. reader.buf \in Buffers
  BY <1>1 DEF IInv, TypeOK
<1>3. TypeOK' /\ (sent \in [Packet -> Message \cup {<<>>}])'
  BY <1>1, <1>2 DEF IInv, TypeOK
<1>4. Exclusive'
  BY <1>1, <1>2 DEF IInv, Exclusive, Held, Apart, Reads, Waits, Works, OnceQueued, OneWorker
<1>5. Contents' /\ Saved'
  BY <1>1 DEF IInv, Contents, Saved
<1> QED BY <1>3, <1>4, <1>5 DEF IInv

LEMMA EnqueueIInv == IInv /\ Enqueue => IInv'
<1> SUFFICES ASSUME IInv, Enqueue PROVE IInv'
  OBVIOUS
<1> DEFINE e == [buf |-> reader.buf, pkt |-> seen]
<1>1. /\ reader.pc = "put" /\ Len(queue) < QueueSize
      /\ queue' = Append(queue, e) /\ reader' = [pc |-> "get"]
      /\ UNCHANGED <<free, bytes, work, sent, seen>>
  BY DEF Enqueue
<1>2. e \in Entry /\ e.buf = reader.buf /\ e.pkt = seen /\ queue \in Seq(Entry)
  BY <1>1 DEF IInv, TypeOK, Contents, Entry, Packet
<1> HIDE DEF e
<1>3. /\ queue' \in Seq(Entry) /\ Len(queue') = Len(queue) + 1
      /\ DOMAIN queue' = DOMAIN queue \cup {Len(queue) + 1}
      /\ Len(queue) + 1 \notin DOMAIN queue
      /\ queue'[Len(queue) + 1] = e
      /\ \A i \in DOMAIN queue : queue'[i] = queue[i]
  BY <1>1, <1>2, QueueAppend
<1>4. TypeOK' /\ (sent \in [Packet -> Message \cup {<<>>}])'
  <2>1. Len(queue') <= QueueSize
    BY <1>1, <1>3, QueueAssumption DEF IInv, TypeOK
  <2> QED BY <2>1, <1>1, <1>3 DEF IInv, TypeOK
<1>5. \A b \in Buffers : Waits(b)' <=> Waits(b) \/ b = reader.buf
  BY <1>2, <1>3 DEF Waits
<1>6. \A b \in Buffers : ~Reads(b)' /\ (Reads(b) <=> b = reader.buf) /\ (Works(b)' <=> Works(b))
  BY <1>1 DEF Reads, Works
<1>7. \A b \in Buffers : Held(b)' /\ Apart(b)'
  BY <1>1, <1>5, <1>6 DEF IInv, Exclusive, Held, Apart
<1>8. OnceQueued'
  <2>1. \A i \in DOMAIN queue : queue[i].buf # reader.buf
    BY <1>1 DEF IInv, TypeOK, Exclusive, Apart, Reads, Waits
  <2> QED BY <2>1, <1>2, <1>3 DEF IInv, Exclusive, OnceQueued
<1>9. OneWorker'
  BY <1>1 DEF IInv, Exclusive, OneWorker
<1>10. Contents'
  BY <1>1, <1>2, <1>3 DEF IInv, Contents
<1>11. Saved'
  BY <1>1 DEF IInv, Saved
<1> QED BY <1>4, <1>7, <1>8, <1>9, <1>10, <1>11 DEF IInv, Exclusive

-----------------------------------------------------------------------------
(***************************************************************************)
(* worker and processPacket                                                *)
(***************************************************************************)
LEMMA TakeIInv ==
  ASSUME IInv, NEW w \in Workers, Take(w)
  PROVE  IInv'
<1> DEFINE h == Head(queue)
<1>1. /\ work[w].pc = "idle" /\ queue # <<>> /\ queue' = Tail(queue)
      /\ work' = [work EXCEPT ![w] = [pc |-> "taken", buf |-> h.buf, pkt |-> h.pkt]]
      /\ UNCHANGED <<free, bytes, reader, sent, seen>>
  BY DEF Take
<1>2. /\ queue' \in Seq(Entry) /\ Len(queue') = Len(queue) - 1
      /\ h = queue[1] /\ 1 \in DOMAIN queue /\ h \in Entry
      /\ \A i \in DOMAIN queue' : i + 1 \in DOMAIN queue /\ i + 1 # 1 /\ queue'[i] = queue[i + 1]
      /\ \A i \in DOMAIN queue : i # 1 => i - 1 \in DOMAIN queue' /\ queue'[i - 1] = queue[i]
  BY <1>1, QueueTail DEF IInv, TypeOK
<1> HIDE DEF h
<1>3. h.buf \in Buffers /\ h.pkt \in Packet
  BY <1>2 DEF Entry
<1>4. /\ work'[w] = [pc |-> "taken", buf |-> h.buf, pkt |-> h.pkt]
      /\ \A v \in Workers : v # w => work'[v] = work[v]
  BY <1>1 DEF IInv, TypeOK
<1>5. TypeOK' /\ (sent \in [Packet -> Message \cup {<<>>}])'
  <2>1. Len(queue') <= QueueSize
    BY <1>2, QueueAssumption DEF IInv, TypeOK
  <2>2. (work \in [Workers -> [pc : {"idle"}] \cup [pc : Stage, buf : Buffers, pkt : Packet]])'
    BY <1>1, <1>3 DEF IInv, TypeOK, Stage
  <2> QED BY <2>1, <2>2, <1>1, <1>2 DEF IInv, TypeOK
<1>6. \A b \in Buffers : Waits(b)' <=> Waits(b) /\ b # h.buf
  <2>1. \A i \in DOMAIN queue : i # 1 => queue[i].buf # h.buf
    BY <1>2 DEF IInv, Exclusive, OnceQueued
  <2> QED BY <2>1, <1>2 DEF Waits
<1>7. \A b \in Buffers : Works(b)' <=> Works(b) \/ b = h.buf
  BY <1>1, <1>4 DEF Works
<1>8. \A b \in Buffers : Reads(b)' <=> Reads(b)
  BY <1>1 DEF Reads
<1>9. Waits(h.buf)
  BY <1>2 DEF Waits
<1>10. \A b \in Buffers : Held(b)' /\ Apart(b)'
  BY <1>1, <1>6, <1>7, <1>8, <1>9 DEF IInv, Exclusive, Held, Apart
<1>11. OnceQueued'
  <2> SUFFICES ASSUME NEW i \in DOMAIN queue', NEW j \in DOMAIN queue',
                      queue'[i].buf = queue'[j].buf
               PROVE  i = j
    BY DEF OnceQueued
  <2>1. i + 1 = j + 1
    BY <1>2 DEF IInv, Exclusive, OnceQueued
  <2>2. i \in Nat /\ j \in Nat
    BY <1>2
  <2> QED BY <2>1, <2>2
<1>12. OneWorker'
  <2>1. \A v \in Workers : work[v].pc # "idle" => work[v].buf # h.buf
    BY <1>3, <1>9 DEF IInv, Exclusive, Apart, Works
  <2> QED BY <2>1, <1>1, <1>4 DEF IInv, Exclusive, OneWorker
<1>13. Contents'
  BY <1>1, <1>2, <1>4 DEF IInv, Contents
<1>14. Saved'
  BY <1>1 DEF IInv, Saved
<1> QED BY <1>5, <1>10, <1>11, <1>12, <1>13, <1>14 DEF IInv, Exclusive

(***************************************************************************)
(* A handler that goes on, from one stage to the next, keeps its buffer.   *)
(***************************************************************************)
LEMMA StageKeeps ==
  ASSUME IInv, NEW w \in Workers, NEW to \in Stage,
         work[w].pc # "idle", work' = [work EXCEPT ![w].pc = to],
         UNCHANGED <<free, bytes, reader, queue, seen>>,
         (sent \in [Packet -> Message \cup {<<>>}])', Saved'
  PROVE  IInv'
<1>1. /\ work[w] \in [pc : Stage, buf : Buffers, pkt : Packet]
      /\ work'[w] = [pc |-> to, buf |-> work[w].buf, pkt |-> work[w].pkt]
      /\ \A v \in Workers : v # w => work'[v] = work[v]
  BY DEF IInv, TypeOK
<1>2. \A v \in Workers : /\ work'[v].pc # "idle" <=> work[v].pc # "idle"
                         /\ work[v].pc # "idle" => /\ work'[v].buf = work[v].buf
                                                   /\ work'[v].pkt = work[v].pkt
  BY <1>1 DEF Stage
<1>3. TypeOK'
  <2>1. (work \in [Workers -> [pc : {"idle"}] \cup [pc : Stage, buf : Buffers, pkt : Packet]])'
    <3>1. work'[w] \in [pc : Stage, buf : Buffers, pkt : Packet]
      BY <1>1
    <3> QED BY <1>1, <3>1 DEF IInv, TypeOK
  <2> QED BY <2>1 DEF IInv, TypeOK
<1>4. Exclusive'
  <2>1. \A b \in Buffers : (Works(b)' <=> Works(b)) /\ (Reads(b)' <=> Reads(b)) /\ (Waits(b)' <=> Waits(b))
    BY <1>2 DEF Works, Reads, Waits
  <2>2. OneWorker'
    BY <1>2 DEF IInv, Exclusive, OneWorker
  <2> QED BY <2>1, <2>2 DEF IInv, Exclusive, Held, Apart, OnceQueued
<1>5. Contents'
  BY <1>2 DEF IInv, Contents
<1> QED BY <1>3, <1>4, <1>5 DEF IInv

LEMMA SleepIInv ==
  ASSUME IInv, NEW w \in Workers, Sleep(w)
  PROVE  IInv'
<1>1. "asleep" \in Stage /\ work[w].pc # "idle" /\ work' = [work EXCEPT ![w].pc = "asleep"]
  BY DEF Sleep, Stage
<1>2. UNCHANGED <<free, bytes, reader, queue, seen, sent>>
  BY DEF Sleep
<1>3. (sent \in [Packet -> Message \cup {<<>>}])' /\ Saved'
  BY <1>2 DEF IInv, Saved
<1> QED BY <1>1, <1>2, <1>3, StageKeeps

LEMMA RelayIInv ==
  ASSUME IInv, NEW w \in Workers, Relay(w)
  PROVE  IInv'
<1>1. "sent" \in Stage /\ work[w].pc # "idle" /\ work' = [work EXCEPT ![w].pc = "sent"]
  BY DEF Relay, Stage
<1>2. UNCHANGED <<free, bytes, reader, queue, seen>>
  BY DEF Relay
<1>3. work[w].buf \in Buffers /\ work[w].pkt \in Packet
  BY <1>1 DEF IInv, TypeOK
<1> DEFINE p == work[w].pkt
           n == NewMessage(work[w].buf)
           m == Send(n)
<1>4. bytes[work[w].buf] = p
  BY <1>1 DEF IInv, Contents
<1>5. m \in Message /\ m.Bytes = p /\ m.wire = p
  <2>1. n \in Message /\ n.Bytes = NoPacket /\ n.Body = work[w].buf
    BY <1>3 DEF NewMessage, Message
  <2> HIDE DEF n
  <2>2. m = [n EXCEPT !.Bytes = p, !.wire = p]
    BY <1>4, <2>1 DEF Send
  <2> QED BY <1>3, <2>1, <2>2 DEF Message
<1>6. sent' = [sent EXCEPT ![p] = m] \/ sent' = sent
  BY DEF Relay
<1> HIDE DEF m
<1>7. (sent \in [Packet -> Message \cup {<<>>}])' /\ Saved'
  BY <1>3, <1>5, <1>6 DEF IInv, Saved
<1> QED BY <1>1, <1>2, <1>7, StageKeeps

LEMMA PutBackIInv ==
  ASSUME IInv, NEW w \in Workers, PutBack(w)
  PROVE  IInv'
<1>1. /\ work[w].pc = "sent" /\ free' = free \cup {work[w].buf}
      /\ work' = [work EXCEPT ![w] = [pc |-> "idle"]]
      /\ UNCHANGED <<bytes, reader, queue, sent, seen>>
  BY DEF PutBack
<1> DEFINE b0 == work[w].buf
<1>2. /\ work[w].pc # "idle" /\ b0 \in Buffers
      /\ work'[w] = [pc |-> "idle"] /\ work'[w].pc = "idle"
      /\ \A v \in Workers : v # w => work'[v] = work[v]
  BY <1>1 DEF IInv, TypeOK
<1>3. TypeOK' /\ (sent \in [Packet -> Message \cup {<<>>}])'
  BY <1>1, <1>2 DEF IInv, TypeOK
<1>4. \A b \in Buffers : Works(b)' <=> Works(b) /\ b # b0
  BY <1>1, <1>2 DEF IInv, Exclusive, OneWorker, Works
<1>5. \A b \in Buffers : (Reads(b)' <=> Reads(b)) /\ (Waits(b)' <=> Waits(b))
  BY <1>1 DEF Reads, Waits
<1>6. Works(b0) /\ free' = free \cup {b0}
  BY <1>1, <1>2 DEF Works
<1>7. \A b \in Buffers : Held(b)' /\ Apart(b)'
  <2> HIDE DEF b0
  <2> QED BY <1>4, <1>5, <1>6 DEF IInv, Exclusive, Held, Apart
<1>8. OnceQueued' /\ OneWorker'
  BY <1>1, <1>2 DEF IInv, Exclusive, OnceQueued, OneWorker
<1>9. Contents'
  BY <1>1, <1>2 DEF IInv, Contents
<1>10. Saved'
  BY <1>1 DEF IInv, Saved
<1> QED BY <1>3, <1>7, <1>8, <1>9, <1>10 DEF IInv, Exclusive

(***************************************************************************)
(* Sent again, a message has the text that was saved, whatever its buffer  *)
(* holds by then.                                                          *)
(***************************************************************************)
LEMMA RetransmitIInv ==
  ASSUME IInv, NEW p \in Packet, Retransmit(p)
  PROVE  IInv'
<1>1. sent[p] # <<>> /\ UNCHANGED <<free, bytes, reader, queue, work, seen>>
  BY DEF Retransmit
<1>2. sent[p] \in Message /\ sent[p].Bytes = p /\ sent[p].wire = p
  BY <1>1 DEF IInv, Saved
<1>3. p # NoPacket
  BY DEF Packet, NoPacket
<1>4. Send(sent[p]) = sent[p]
  BY <1>2, <1>3 DEF Send, Message
<1>5. sent' = sent
  BY <1>4 DEF Retransmit, IInv
<1>6. TypeOK' /\ Exclusive' /\ Contents' /\ Saved'
  BY <1>1, <1>5 DEF IInv, TypeOK, Exclusive, Held, Apart, Reads, Waits, Works, OnceQueued,
                    OneWorker, Contents, Saved
<1> QED BY <1>5, <1>6 DEF IInv

LEMMA NextIInv == IInv /\ [Next]_vars => IInv'
<1> SUFFICES ASSUME IInv, [Next]_vars PROVE IInv'
  OBVIOUS
<1>1. CASE Get \/ Read \/ ReadError \/ Enqueue
  BY <1>1, GetIInv, ReadIInv, ReadErrorIInv, EnqueueIInv
<1>2. ASSUME NEW w \in Workers, Worker(w) PROVE IInv'
  BY <1>2, TakeIInv, SleepIInv, RelayIInv, PutBackIInv DEF Worker
<1>3. ASSUME NEW p \in Packet, Retransmit(p) PROVE IInv'
  BY <1>3, RetransmitIInv
<1>4. CASE UNCHANGED vars
  BY <1>4 DEF vars, IInv, TypeOK, Exclusive, Held, Apart, Reads, Waits, Works, OnceQueued,
              OneWorker, Contents, Saved
<1> QED BY <1>1, <1>2, <1>3, <1>4 DEF Next

-----------------------------------------------------------------------------
(***************************************************************************)
(* What is exclusive is counted once.                                      *)
(***************************************************************************)
LEMMA AtMostOne ==
  ASSUME NEW S, \A x, y \in S : x = y
  PROVE  Cardinality(S) = IF S = {} THEN 0 ELSE 1
<1>1. CASE S = {}
  BY <1>1, FS_EmptySet
<1>2. CASE S # {}
  <2>1. PICK x \in S : S = {x}
    BY <1>2
  <2> QED BY <2>1, <1>2, FS_Singleton
<1> QED BY <1>1, <1>2

LEMMA ExclusiveCounts == IInv => OneHolder
<1> SUFFICES ASSUME IInv, NEW b \in Buffers
             PROVE  (IF reader.pc # "get" /\ reader.buf = b THEN 1 ELSE 0)
                      + (IF b \in free THEN 1 ELSE 0)
                      + Cardinality(InQueue(b)) + Cardinality(Having(b)) = 1
  BY DEF OneHolder
<1>1. Cardinality(InQueue(b)) = IF Waits(b) THEN 1 ELSE 0
  <2>1. \A i, j \in InQueue(b) : i = j
    BY DEF InQueue, IInv, Exclusive, OnceQueued
  <2>2. InQueue(b) # {} <=> Waits(b)
    BY DEF InQueue, Waits
  <2> QED BY <2>1, <2>2, AtMostOne
<1>2. Cardinality(Having(b)) = IF Works(b) THEN 1 ELSE 0
  <2>1. \A v, w \in Having(b) : v = w
    BY DEF Having, IInv, Exclusive, OneWorker
  <2>2. Having(b) # {} <=> Works(b)
    BY DEF Having, Works
  <2> QED BY <2>1, <2>2, AtMostOne
<1>3. Held(b) /\ Apart(b)
  BY DEF IInv, Exclusive
<1> QED BY <1>1, <1>2, <1>3 DEF Held, Apart, Reads

(***************************************************************************)
(* For any number of workers and buffers and any size of the queue, a      *)
(* buffer is in one place: the goroutine that reads the socket never       *)
(* writes into a buffer that waits in packetQueue or that a worker reads   *)
(* (init.go:187, 223).                                                     *)
(***************************************************************************)
THEOREM OneHolderHolds == Spec => []OneHolder
<1>1. Spec => []IInv
  BY InitIInv, NextIInv, PTL DEF Spec
<1> QED BY <1>1, ExclusiveCounts, PTL

(***************************************************************************)
(* Every transmission of a relayed message has the text of its own         *)
(* datagram, although its body is a slice of a buffer that holds other     *)
(* datagrams by the time its timer sends it again (message.go:458).        *)
(***************************************************************************)
THEOREM SentIntactHolds == Spec => []SentIntact
<1>1. Spec => []IInv
  BY InitIInv, NextIInv, PTL DEF Spec
<1>2. IInv => SentIntact
  BY DEF IInv, Saved, SentIntact
<1> QED BY <1>1, <1>2, PTL
=============================================================================
