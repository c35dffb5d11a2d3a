------------------------------ MODULE Framing ------------------------------
(***************************************************************************)
(* How a worker cuts a datagram into messages (processPacket, processPDU), *)
(* routes the body of each and writes it again.  What was written is read  *)
(* back by another router (hop 2).  The messages of user agents are in     *)
(* dgram; their Content-Length is the length of the body.                  *)
(***************************************************************************)
EXTENDS MessageBody, TLC

CONSTANT MaxMessages   \* bound: messages in a datagram

ASSUME MaxAssumption == MaxMessages \in Nat \ {0}

(***************************************************************************)
(* A message of a user agent: the types of its body's parts, whether they  *)
(* are sent as multipart, how that ends, the parts to be added, the target *)
(* and what is wrong with its headers.                                     *)
(***************************************************************************)
Flaw == {"none", "startLine", "CSeq", "noMaxForwards", "noVia", "twoLengths", "fragment", "noType"}

Message ==
  [types : {<<>>}, multi : {FALSE}, close : {"close"}, add : {{}},
   to : {"AS"}, inDialogue : BOOLEAN, flaw : Flaw]
  \cup
  [types : {<<"sdp">>, <<"pidf">>, <<"other">>, <<"sdp", "pidf">>, <<"other", "sdp">>,
            <<"sdp", "other">>},
   multi : BOOLEAN, close : {"close", "closeEOF"}, add : {{}, {"pidf"}, {"indata"}},
   to : {"AS", "phone"}, inDialogue : {FALSE}, flaw : {"none"}]

Known(msg) == Range(msg.types) \cap BodyType

Sendable(msg) ==
  /\ Len(msg.types) > 1 => msg.multi
  /\ msg.close = "closeEOF" => msg.multi

Datagram == UNION {[1..n -> {msg \in Message : Sendable(msg)}] : n \in 1..MaxMessages}

VARIABLES
  dgram,    \* the messages of the datagram
  hop,      \* 1: at this router, 2: at the next one
  pdu,      \* what is still to be read
  pc,
  cur,      \* the message being read: its number, Content-Type and parts
  got,      \* the messages handed to sipStack, at each hop
  sent,     \* what this router sends on
  next,     \* how many of them the next router was given
  crashed   \* a panic that nobody recovers

vars == <<dgram, hop, pdu, pc, cur, got, sent, next, crashed>>

NoMessage == [m |-> 0, hct |-> "none", body |-> FALSE, parts |-> NoParts]

TypeOK ==
  /\ hop \in {1, 2}
  /\ pc \in {"pdu", "part", "handle", "end"}
  /\ \A i \in DOMAIN pdu :
       pdu[i].t \in {"head", "phead", "mark", "close", "closeEOF", "text"}
         /\ pdu[i].ct \in ContentType
  /\ cur.m \in 0..MaxMessages /\ cur.hct \in ContentType /\ cur.body \in BOOLEAN
  /\ DOMAIN cur.parts \subseteq BodyType
  /\ \A h \in {1, 2} : Len(got[h]) <= MaxMessages
  /\ Len(sent) <= MaxMessages /\ next \in 0..Len(sent)
  /\ crashed \in BOOLEAN

\* a user agent writes its message (external)
UAPieces(msg, m) ==
  LET part(ct) == <<Boundary("mark", m), Piece("phead", ct), Piece("text", ct)>>
      body == IF msg.multi
              THEN FlattenSeq([i \in DOMAIN msg.types |-> part(msg.types[i])])
                     \o <<Boundary(msg.close, m)>>
              ELSE [i \in DOMAIN msg.types |-> Piece("text", msg.types[i])]
      type == IF msg.multi THEN "multipart"
              ELSE IF msg.types = <<>> THEN "none" ELSE msg.types[1] IN
  CASE msg.flaw = "fragment" -> <<HeadPiece("sdp", 10, m)>>
    [] msg.flaw = "noType"   -> <<HeadPiece("none", 1, m), Piece("text", "other")>>
    [] OTHER                 -> <<HeadPiece(type, Len(body), m)>> \o body

Init ==
  /\ dgram \in Datagram
  /\ hop = 1
  /\ pdu = FlattenSeq([m \in DOMAIN dgram |-> UAPieces(dgram[m], m)])
  /\ pc = "pdu"
  /\ cur = NoMessage
  /\ got = <<<<>>, <<>>>>
  /\ sent = <<>>
  /\ next = 0
  /\ crashed = FALSE

-----------------------------------------------------------------------------
(***************************************************************************)
(* processPDU                                                              *)
(***************************************************************************)
\* where a blank line ends and where the boundary is found next
BlankLines(p) == {i \in DOMAIN p : p[i].t \in {"head", "phead"}}
Boundaries(p) == {i \in DOMAIN p : p[i].t \in {"mark", "close", "closeEOF"} /\ p[i].m = cur.m}
First(S) == CHOOSE i \in S : \A j \in S : i <= j
After(p, i) == SubSeq(p, i + 1, Len(p))
From(p, i) == SubSeq(p, i, Len(p))
Texts(p) == [j \in DOMAIN p |-> p[j].ct]

\* a part of no or of an unknown type is skipped
Stored(bt) == {bt} \ {"None", "Unknown"}

\* The tag of To makes INVITE a re-INVITE, of which less is asked.
HeadersMissing(msg) ==
  msg.flaw = "noVia" \/ (msg.flaw = "noMaxForwards" /\ ~msg.inDialogue)

BadHead(h) ==
  h.t = "head" => hop = 1 /\ ( \/ dgram[h.m].flaw \in {"startLine", "CSeq", "twoLengths"}
                              \/ HeadersMissing(dgram[h.m]))

\* mutant: the rest of a datagram is read until none is left
Bug_Discard ==
  /\ pc = "pdu" /\ pdu # <<>> /\ BlankLines(pdu) # {}
  /\ BadHead(pdu[1])
  /\ pc' = "end"
  /\ UNCHANGED <<dgram, hop, pdu, cur, got, sent, next, crashed>>

\* no blank line, or an error: the rest of the datagram is not read
Discard ==
  /\ pc = "pdu" /\ pdu # <<>>
  /\ \/ BlankLines(pdu) = {}
     \/ BadHead(pdu[1])
     \/ pdu[1].n > Len(pdu) - 1
     \/ pdu[1].n > 0 /\ pdu[1].ct = "none"
  /\ pc' = "end"
  /\ UNCHANGED <<dgram, hop, pdu, cur, got, sent, next, crashed>>

Readable == pc = "pdu" /\ pdu # <<>> /\ ~BadHead(pdu[1]) /\ pdu[1].n <= Len(pdu) - 1

ReadWithoutBody ==
  /\ Readable /\ pdu[1].n = 0
  /\ cur' = [NoMessage EXCEPT !.m = pdu[1].m, !.hct = pdu[1].ct]
  /\ pdu' = After(pdu, 1)
  /\ pc' = "handle"
  /\ UNCHANGED <<dgram, hop, got, sent, next, crashed>>

\* mutant: the body ends one short of Content-Length
Bug_BodyEnd(n) == n

\* start of what follows a body of n pieces
BodyEnd(n) == n + 1

ReadBody ==
  /\ Readable /\ pdu[1].n > 0 /\ pdu[1].ct \notin {"none", "multipart"}
  /\ LET h == pdu[1]
         bytes == Texts(SubSeq(pdu, 2, BodyEnd(h.n))) IN
     cur' = [m |-> h.m, hct |-> h.ct, body |-> TRUE,
             parts |-> [k \in Stored(GetBodyType(h.ct)) |-> Part("none", bytes)]]
  /\ pdu' = After(pdu, BodyEnd(pdu[1].n))
  /\ pc' = "handle"
  /\ UNCHANGED <<dgram, hop, got, sent, next, crashed>>

BeginParts ==
  /\ Readable /\ pdu[1].n > 0 /\ pdu[1].ct = "multipart"
  /\ cur' = [m |-> pdu[1].m, hct |-> "multipart", body |-> TRUE, parts |-> NoParts]
  /\ pdu' = After(pdu, 1)
  /\ pc' = "part"
  /\ UNCHANGED <<dgram, hop, got, sent, next, crashed>>

LastPart == Boundaries(pdu) = {} \/ pdu = <<Boundary("close", cur.m)>>

EndParts ==
  /\ pc = "part" /\ LastPart
  /\ pc' = "handle"
  /\ UNCHANGED <<dgram, hop, pdu, cur, got, sent, next, crashed>>

(***************************************************************************)
(* One body part: its headers up to a blank line, its bytes up to the next *)
(* boundary.  Without either the slice is out of range, and the deferred   *)
(* function of processPDU does not recover the panic: it calls             *)
(* LogCallStack, which only recovers when it is deferred itself.           *)
(***************************************************************************)
ReadPart ==
  /\ pc = "part" /\ ~LastPart
  /\ LET p == After(pdu, First(Boundaries(pdu)))
         blank == First(BlankLines(p))
         end == First(Boundaries(p))
         whole == /\ BlankLines(p) # {} /\ Boundaries(p) # {}
                  /\ Stored(GetBodyType(p[blank].ct)) # {} => blank < end IN
     IF whole
     THEN /\ cur' = [cur EXCEPT !.parts =
                       [k \in Stored(GetBodyType(p[blank].ct)) |->
                          Part(p[blank].ct, Texts(SubSeq(p, blank + 1, end - 1)))] @@ @]
          /\ pdu' = From(p, end)
          /\ UNCHANGED <<pc, crashed>>
     ELSE pc' = "end" /\ crashed' = TRUE /\ UNCHANGED <<cur, pdu>>
  /\ UNCHANGED <<dgram, hop, got, sent, next>>

-----------------------------------------------------------------------------
(***************************************************************************)
(* sipStack, as far as the body matters: a body of which no part is known  *)
(* is refused (415), for a phone only SDP is kept (488 without), for the   *)
(* application server the requested parts are added.  A missing body makes *)
(* both panic, which their deferred LogCallStack recovers.                 *)
(***************************************************************************)
Routed(parts) ==
  IF dgram[cur.m].to = "phone" THEN KeepOnlyBodyPart(parts, "sdp")
  ELSE AddRequestedBodyParts(cur.hct, parts, dgram[cur.m].add)

Refused ==
  \/ cur.body /\ cur.parts = NoParts
  \/ dgram[cur.m].to = "phone" /\ "sdp" \notin DOMAIN cur.parts
  \/ dgram[cur.m].to = "AS" /\ dgram[cur.m].add # {} /\ ~cur.body

Handle ==
  /\ pc = "handle"
  /\ got' = [got EXCEPT ![hop] = Append(@, cur)]
  /\ IF hop = 2 \/ Refused THEN UNCHANGED sent
     ELSE \E order \in SetToSeqs(DOMAIN Routed(cur.parts)) :
            sent' = Append(sent, PrepareMessageBytes(cur.m, order, Routed(cur.parts)))
  /\ pc' = "pdu"
  /\ UNCHANGED <<dgram, hop, pdu, cur, next, crashed>>

EndOfDatagram ==
  /\ pc = "pdu" /\ pdu = <<>>
  /\ pc' = "end"
  /\ UNCHANGED <<dgram, hop, pdu, cur, got, sent, next, crashed>>

\* the next router receives a message that was sent
NextRouter ==
  /\ pc = "end" /\ ~crashed /\ next < Len(sent)
  /\ hop' = 2
  /\ next' = next + 1
  /\ pdu' = sent[next + 1]
  /\ pc' = "pdu"
  /\ UNCHANGED <<dgram, cur, got, sent, crashed>>

Next ==
  \/ Discard \/ ReadWithoutBody \/ ReadBody \/ BeginParts \/ ReadPart \/ EndParts
  \/ Handle \/ EndOfDatagram \/ NextRouter

\* a worker reads on until the datagram is finished
Spec == Init /\ [][Next]_vars /\ WF_vars(Next)

-----------------------------------------------------------------------------
(***************************************************************************)
(* The loop of processPacket finds the messages of a datagram: all up to   *)
(* the first that is in error, in their order, each with the parts of its  *)
(* body that have a known type and with the bytes of each.  What cannot be *)
(* read is discarded (stack.go:18-21) and never ends the router, except for *)
(* a multipart body whose closing boundary has no line end, or is followed *)
(* by another message.                                                     *)
(***************************************************************************)
Good(msg) == msg.flaw = "none" \/ (msg.flaw = "noMaxForwards" /\ msg.inDialogue)

ClosedAtEnd ==
  \A i \in DOMAIN dgram : dgram[i].multi => i = Len(dgram) /\ dgram[i].close = "close"

Framed ==
  /\ crashed => ~ClosedAtEnd
  /\ (hop = 2 \/ pc = "end") /\ ~crashed =>
       LET bad == {i \in DOMAIN dgram : ~Good(dgram[i])}
           n == IF bad = {} THEN Len(dgram) ELSE First(bad) - 1 IN
       /\ Len(got[1]) = n
       /\ \A i \in 1..n : /\ got[1][i].m = i
                          /\ DOMAIN got[1][i].parts = Known(dgram[i])
                          /\ \A k \in Known(dgram[i]) : got[1][i].parts[k].bytes = <<k>>

(***************************************************************************)
(* What is sent on is understood: the next router reads from every message *)
(* the parts that this one meant to send, those received and added, or SDP *)
(* alone for a phone.  The exception is a multipart body with one part     *)
(* that the router knows, where parts are to be added: the Content-Type of *)
(* the message, multipart, is written as that of the part.                 *)
(***************************************************************************)
Lone(msg) == msg.multi /\ Cardinality(Known(msg)) = 1 /\ msg.add # {}

Meant(msg) == IF msg.to = "phone" THEN {"sdp"} ELSE Known(msg) \cup msg.add

Understood ==
  /\ hop = 2 /\ pc = "end" => Len(got[2]) = next
  /\ \A i \in DOMAIN got[2] :
       LET msg == dgram[got[2][i].m] IN
       Lone(msg) \/
       /\ DOMAIN got[2][i].parts = Meant(msg)
       /\ \A k \in Meant(msg) : got[2][i].parts[k].bytes = <<k>>

\* The loop over the messages of a datagram, and over the parts of a body,
\* ends: the worker takes the next packet.
WorkerReturns == <>[](pc = "end")
=============================================================================
