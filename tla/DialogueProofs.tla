--------------------------- MODULE DialogueProofs ---------------------------
EXTENDS Dialogue, MCInDialogue, TLAPS

(***************************************************************************)
(* The two legs.                                                           *)
(***************************************************************************)
LEMMA Legs ==
  /\ "in" \in Leg /\ "out" \in Leg
  /\ \A l \in Leg : Lnk(l) \in Leg /\ Lnk(l) # l /\ Lnk(Lnk(l)) = l /\ (l = "in" \/ l = "out")
  /\ \A l, k \in Leg : k = l \/ k = Lnk(l)
  BY DEF Leg, Lnk

(***************************************************************************)
(* The inductive invariant.                                                *)
(*                                                                         *)
(* Numbered: no request that was sent on a leg, or that a transaction      *)
(* keeps, has a higher number than the session's counter; branches are     *)
(* counted too.                                                            *)
(***************************************************************************)
Numbered(l) ==
  /\ out[l].cseq <= ses[l].CSeq /\ high[l] <= ses[l].CSeq
  /\ \A i \in DOMAIN tx[l] : /\ tx[l][i].req.cseq <= ses[l].CSeq
                             /\ tx[l][i].req.branch <= made.branches

(***************************************************************************)
(* Known: the session knows the route and the target of its peer.  Unknown *)
(* is a session before its first message.                                  *)
(***************************************************************************)
Known(s, l, c) ==
  /\ s.RecordRoutes = RecordRoute(l)
  /\ s.RemoteContactURI = c
  /\ s.RemoteContactUDP = IF path[l] = <<>> THEN c ELSE NoURI

Unknown(s) ==
  s.RecordRoutes = <<>> /\ s.RemoteContactUDP = NoURI

Located ==
  /\ call \notin {"new", "over"} => Known(ses["in"], "in", peer["in"].contact)
  /\ call \in {"calling", "cancelled"} =>
       Known(ses["out"], "out", peer["out"].contact) \/ Unknown(ses["out"])
  /\ call \in {"answered", "established", "clearing"} =>
       Known(ses["out"], "out", peer["out"].contact)
  /\ call = "new" => ses = [l \in Leg |-> Session(l)]
  /\ call \notin {"new", "over"} => ses["in"].RemoteURI = NoURI /\ ses["out"].RemoteURI = Dialled

(***************************************************************************)
(* Tagged: the From headers never change; of a session that has a tag the  *)
(* To header has one, and without a fork it is that of the callee; once    *)
(* answered the To headers are the tags that the peers know.               *)
(***************************************************************************)
Tagged ==
  /\ ses["in"].FromHeader = CallerTag /\ ses["out"].FromHeader = EgressTag
  /\ call # "over" => \A l \in Leg : ses[l].ToTag = NoTag <=> ses[l].ToHeader = NoTag
  /\ "fork" \notin env => ses["out"].ToHeader \in {NoTag, CalleeTag(1)}
  /\ call \in {"answered", "established"} =>
       ses["in"].ToHeader # NoTag /\ peer["in"].tag = ses["in"].ToHeader
  /\ call \in {"answered", "established", "clearing"} =>
       /\ ses["out"].ToHeader # NoTag
       /\ "fork" \notin env => peer["out"].tag = ses["out"].ToHeader
  /\ call \in {"new", "calling", "cancelled"} => peer["out"].tag = NoTag

(***************************************************************************)
(* Sent: the only INVITE is the first request on the outbound leg, and     *)
(* nothing is sent to the caller before the call is established; a change  *)
(* that is relayed, or answered, is the last one on its leg.               *)
(***************************************************************************)
Invite(t) ==
  t.req.method = "INVITE" /\ t.req.uri = Dialled /\ t.req.to = IF proxy THEN "egress" ELSE "hop"

Sent ==
  /\ call \notin {"established", "over"} => out["in"].method = "none" /\ tx["in"] = <<>>
  /\ call \in {"calling", "cancelled", "answered"} => Len(tx["out"]) = 1 /\ ~tx["out"][1].acked
  /\ call = "answered" => tx["out"][1].resp = "positive"
  /\ call = "new" => out["out"].method = "none"
  /\ call \in {"calling", "answered"} => out["out"].method = "INVITE"
  /\ tx["out"] # <<>> => Invite(tx["out"][1])
  /\ call \notin {"new", "over"} => tx["out"] # <<>>
  /\ \A i \in DOMAIN tx["in"] : tx["in"][i].req.method = "ReINVITE"
  /\ out["in"].method # "CANCEL"
  /\ out["out"].method = "CANCEL" => tx["out"] # <<>>

Change(l) ==
  LET o == Lnk(l) IN
  /\ pend[l] # "none" => call \in {"established", "over"}
  /\ pend[l] \in {"ReINVITE", "toAck"} =>
       /\ tx[o] # <<>> /\ tx[o][Len(tx[o])].req.method = "ReINVITE"
       /\ out[o].method # "ACK"
       /\ pend[l] = "toAck" => tx[o][Len(tx[o])].resp # "none"

IInv ==
  /\ TypeOK
  /\ \A l \in Leg : Numbered(l) /\ Change(l)
  /\ Located /\ Tagged /\ Sent
  /\ InDialogueRequest /\ FollowsInvite
-----------------------------------------------------------------------------
(***************************************************************************)
(* The route set: what Reverse of the code returns is, once written, the   *)
(* sequence in reverse order.                                              *)
(***************************************************************************)
LEMMA WrittenWhole ==
  ASSUME NEW rr \in Seq(Proxy)
  PROVE  Written(rr) = rr
<1> DEFINE P(n) == \A i \in DOMAIN rr : rr[i] = Empty <=> i <= n
<1>1. \A i \in DOMAIN rr : rr[i] # Empty
  BY DialogueAssumption
<1>2. P(0) /\ 0 \in 0..Len(rr)
  BY <1>1
<1>3. \A n \in 0..Len(rr) : P(n) => n = 0
  BY <1>1
<1>4. (CHOOSE n \in 0..Len(rr) : P(n)) = 0
  BY <1>2, <1>3
<1>5. Written(rr) = SubSeq(rr, 0 + 1, Len(rr))
  BY <1>4 DEF Written
<1> QED BY <1>5

LEMMA ReversedWritten ==
  ASSUME NEW rr \in Seq(Proxy)
  PROVE  Written(Reversed(rr)) = Reverse(rr)
<1>1. PICK m \in Nat : m = Len(rr)
  OBVIOUS
<1>2. PICK v : v = [i \in 1..(2 * m) |-> IF i <= m THEN Empty ELSE rr[2 * m - i + 1]]
  OBVIOUS
<1>3. Reversed(rr) = v /\ DOMAIN v = 1..(2 * m)
  BY <1>1, <1>2 DEF Reversed
<1>4. v \in Seq(Proxy \cup {Empty}) /\ Len(v) = 2 * m
  <2>1. \A i \in 1..(2 * m) : v[i] \in Proxy \cup {Empty}
    BY <1>1, <1>2
  <2>2. v \in [1..(2 * m) -> Proxy \cup {Empty}]
    BY <1>2, <2>1
  <2> QED BY <2>2, 2 * m \in Nat
<1> DEFINE P(n) == \A i \in DOMAIN v : v[i] = Empty <=> i <= n
<1>5. \A i \in 1..(2 * m) : v[i] = Empty <=> i <= m
  <2>1. \A i \in 1..m : rr[i] \in Proxy /\ rr[i] # Empty
    BY <1>1, DialogueAssumption
  <2>2. \A i \in 1..(2 * m) : i > m => v[i] = rr[2 * m - i + 1] /\ 2 * m - i + 1 \in 1..m
    BY <1>2
  <2>3. \A i \in 1..(2 * m) : i <= m => v[i] = Empty
    BY <1>2
  <2> QED BY <2>1, <2>2, <2>3
<1>6. m \in 0..Len(v) /\ P(m)
  BY <1>3, <1>4, <1>5
<1>7. ASSUME NEW n \in 0..Len(v), P(n) PROVE n = m
  <2>1. CASE n < m
    <3>1. n + 1 \in 1..(2 * m) /\ n + 1 <= m
      BY <1>4, <2>1
    <3>2. v[n + 1] = Empty <=> n + 1 <= n
      BY <1>3, <1>7, <3>1
    <3> QED BY <1>5, <3>1, <3>2
  <2>2. CASE n > m
    <3>1. n \in 1..(2 * m)
      BY <1>4, <2>2
    <3> QED BY <1>3, <1>5, <1>7, <2>2, <3>1
  <2> QED BY <2>1, <2>2
<1>8. (CHOOSE n \in 0..Len(v) : P(n)) = m
  BY <1>6, <1>7
<1>9. Written(v) = SubSeq(v, m + 1, 2 * m)
  BY <1>4, <1>8 DEF Written
<1>10. SubSeq(v, m + 1, 2 * m) = [i \in 1..m |-> v[m + i]]
  BY <1>4
<1>11. \A i \in 1..m : v[m + i] = rr[(m - i) + 1]
  <2> SUFFICES ASSUME NEW i \in 1..m PROVE v[m + i] = rr[(m - i) + 1]
    OBVIOUS
  <2>1. m + i \in 1..(2 * m) /\ ~(m + i <= m) /\ 2 * m - (m + i) + 1 = (m - i) + 1
    OBVIOUS
  <2> QED BY <1>2, <2>1
<1> QED BY <1>1, <1>3, <1>9, <1>10, <1>11 DEF Reverse

LEMMA ReverseFacts ==
  ASSUME NEW rr \in Seq(Proxy)
  PROVE  /\ Reverse(rr) \in Seq(Proxy) /\ Reverse(Reverse(rr)) = rr
         /\ Reverse(rr) = <<>> <=> rr = <<>>
<1>1. Reverse(rr) \in Seq(Proxy) /\ Len(Reverse(rr)) = Len(rr)
  BY DEF Reverse
<1>2. \A i \in 1..Len(rr) : Reverse(rr)[i] = rr[(Len(rr) - i) + 1]
  BY DEF Reverse
<1>3. Reverse(Reverse(rr)) = [i \in 1..Len(rr) |-> rr[i]]
  BY <1>1, <1>2 DEF Reverse
<1> QED BY <1>1, <1>3
-----------------------------------------------------------------------------
(***************************************************************************)
(* What the helpers do to a session and to a request.                      *)
(***************************************************************************)
LEMMA PathFacts ==
  ASSUME TypeOK, NEW l \in Leg
  PROVE  /\ path[l] \in Seq(Proxy) /\ RecordRoute(l) \in Seq(Proxy)
         /\ RecordRoute(l) = <<>> <=> path[l] = <<>>
<1>1. path[l] \in Seq(Proxy)
  BY DialogueAssumption DEF TypeOK
<1> QED BY <1>1, ReverseFacts DEF RecordRoute

LEMMA RouteFacts ==
  ASSUME TypeOK, NEW l \in Leg, NEW s \in SessionType
  PROVE  /\ Route(s, l) \in Seq(Proxy)
         /\ s.RecordRoutes = RecordRoute(l) => Route(s, l) = path[l]
<1>1. s.RecordRoutes \in Seq(Proxy)
  BY DEF SessionType
<1>2. CASE l = "in"
  BY <1>1, <1>2, WrittenWhole DEF Route, RecordRoute
<1>3. CASE l = "out"
  <2>1. Route(s, l) = Reverse(s.RecordRoutes)
    BY <1>1, <1>3, ReversedWritten DEF Route
  <2> QED BY <1>1, <1>3, <2>1, ReverseFacts, PathFacts DEF RecordRoute
<1> QED BY <1>2, <1>3 DEF Leg

Hop(l) == IF l = "out" /\ proxy THEN "egress" ELSE "hop"

LEMMA AddressFacts ==
  ASSUME TypeOK, NEW l \in Leg, NEW s \in SessionType, NEW b \in BOOLEAN
  PROVE  /\ Address(s, l, b) \in URI \cup {"hop", "egress"}
         /\ b \/ s.RemoteContactUDP = NoURI => Address(s, l, b) = Hop(l)
         /\ ~b /\ s.RemoteContactUDP # NoURI => Address(s, l, b) = s.RemoteContactUDP
<1>1. s.RemoteContactUDP \in URI
  BY DEF SessionType
<1>2. CASE ~b /\ s.RemoteContactUDP # NoURI
  BY <1>1, <1>2 DEF Address
<1>3. CASE b \/ s.RemoteContactUDP = NoURI
  <2>1. CASE l = "out" /\ proxy
    BY <1>3, <2>1 DEF Address, Hop
  <2>2. CASE ~(l = "out" /\ proxy)
    BY <1>3, <2>2 DEF Address, Hop
  <2> QED BY <1>3, <2>1, <2>2
<1> QED BY <1>2, <1>3

LEMMA RequestFacts ==
  ASSUME TypeOK, NEW l \in Leg, NEW s \in SessionType, NEW m \in Method, NEW cseq \in Nat,
         NEW branch \in Nat, NEW b \in BOOLEAN, NEW hops \in Int,
         NEW r, r = Request(s, l, m, cseq, branch, b, hops)
  PROVE  /\ r \in RequestType
         /\ r.method = m /\ r.cseq = cseq /\ r.branch = branch /\ r.hops = hops
         /\ r.uri = (IF b THEN s.RemoteURI ELSE s.RemoteContactURI)
         /\ r.to = Address(s, l, b) /\ r.routes = Route(s, l)
         /\ r.local = (IF l = "in" THEN s.ToHeader ELSE s.FromHeader)
         /\ r.remote = (IF l = "in" THEN s.FromHeader ELSE s.ToHeader)
<1>1. /\ Route(s, l) \in Seq(Proxy)
      /\ Address(s, l, b) \in URI \cup {"hop", "egress"}
      /\ (IF b THEN s.RemoteURI ELSE s.RemoteContactURI) \in URI
      /\ s.ToHeader \in Tags /\ s.FromHeader \in Tags
  BY RouteFacts, AddressFacts DEF SessionType, URI
<1> QED BY <1>1 DEF Request, RequestType

(***************************************************************************)
(* Kept: what no message that is received changes.  Placed: the route and  *)
(* the target are kept as well.                                            *)
(***************************************************************************)
Kept(s, u) ==
  /\ u \in SessionType
  /\ u.FromHeader = s.FromHeader /\ u.CSeq = s.CSeq /\ u.RemoteURI = s.RemoteURI

Placed(s, u) ==
  /\ u.RecordRoutes = s.RecordRoutes
  /\ u.RemoteContactURI = s.RemoteContactURI /\ u.RemoteContactUDP = s.RemoteContactUDP

LEMMA UpdateContactFacts ==
  ASSUME TypeOK, NEW l \in Leg, NEW s \in SessionType, NEW c \in Contacts,
         NEW u, u = UpdateContact(s, l, c)
  PROVE  /\ Kept(s, u) /\ u.ToTag = s.ToTag /\ u.ToHeader = s.ToHeader
         /\ (\E d : Known(s, l, d)) \/ Unknown(s) => Known(u, l, c)
<1>1. PICK rr : rr = IF s.RecordRoutes = <<>> THEN RecordRoute(l) ELSE s.RecordRoutes
  OBVIOUS
<1>2. PICK d : d = IF rr = <<>> THEN c ELSE s.RemoteContactUDP
  OBVIOUS
<1>3. u = [s EXCEPT !.RecordRoutes = rr, !.RemoteContactURI = c, !.RemoteContactUDP = d]
  BY <1>1, <1>2 DEF UpdateContact
<1>4. rr \in Seq(Proxy) /\ d \in URI /\ c \in URI
  BY <1>1, <1>2, PathFacts DEF SessionType, URI
<1>5. Kept(s, u) /\ u.ToTag = s.ToTag /\ u.ToHeader = s.ToHeader
  BY <1>3, <1>4 DEF Kept, SessionType
<1>6. u.RecordRoutes = rr /\ u.RemoteContactURI = c /\ u.RemoteContactUDP = d
  BY <1>3 DEF SessionType
<1> QED BY <1>1, <1>2, <1>5, <1>6, PathFacts DEF Known, Unknown

LEMMA TagValues ==
  /\ NoTag \in Tags /\ CallerTag \in Tags /\ EgressTag \in Tags
  /\ \A n \in Nat : LocalTag(n) \in Tags /\ CalleeTag(n) \in Tags
                    /\ LocalTag(n) # NoTag /\ CalleeTag(n) # NoTag
  /\ EgressTag # NoTag /\ CallerTag # NoTag
  BY DEF Tags, NoTag, CallerTag, EgressTag, LocalTag, CalleeTag

LEMMA ResponseTagFacts ==
  ASSUME NEW s \in SessionType, NEW t \in Tags \ {NoTag}, NEW u, u = ResponseTag(s, t)
  PROVE  /\ Kept(s, u) /\ Placed(s, u) /\ u.ToTag # NoTag
         /\ s.ToTag = NoTag => u.ToHeader = t
         /\ s.ToTag # NoTag => u.ToHeader = s.ToHeader
  BY DEF ResponseTag, Kept, Placed, SessionType

LEMMA CreateHeadersFacts ==
  ASSUME TypeOK, NEW s \in SessionType, NEW b \in BOOLEAN, NEW u, u = CreateHeaders(s, b)
  PROVE  /\ Kept(s, u) /\ Placed(s, u)
         /\ b => u.ToTag # NoTag
         /\ s.ToTag # NoTag => u = s
         /\ s.ToTag = NoTag => u.ToTag = NoTag \/ u.ToHeader = u.ToTag
         /\ u.ToTag = NoTag => u = s
         /\ Made(s, u) \in Nat
<1>1. LocalTag(made.tags + 1) \in Tags \ {NoTag} /\ made.tags \in Nat
  BY TagValues DEF TypeOK
<1>2. Made(s, u) \in Nat
  BY <1>1 DEF Made
<1>3. CASE b /\ s.ToTag = NoTag
  <2>1. PICK t : t = LocalTag(made.tags + 1)
    OBVIOUS
  <2>2. u = [s EXCEPT !.ToTag = t, !.ToHeader = t] /\ t \in Tags /\ t # NoTag
    BY <1>1, <1>3, <2>1 DEF CreateHeaders
  <2>3. Kept(s, u) /\ Placed(s, u) /\ u.ToTag = t /\ u.ToHeader = t
    BY ONLY <2>2, s \in SessionType DEF Kept, Placed, SessionType
  <2> QED BY <1>2, <1>3, <2>2, <2>3
<1>4. CASE ~(b /\ s.ToTag = NoTag)
  <2>1. u = s
    BY <1>4 DEF CreateHeaders
  <2> QED BY <1>2, <1>4, <2>1 DEF Kept, Placed
<1> QED BY <1>3, <1>4

LEMMA IncomingFacts ==
  ASSUME NEW s \in SessionType, NEW t \in Tags, NEW u, u = Incoming(s, t)
  PROVE  Kept(s, u) /\ Placed(s, u) /\ u.ToTag = t /\ u.ToHeader = s.ToHeader
  BY DEF Incoming, Kept, Placed, SessionType

LEMMA PlacedKnown ==
  ASSUME NEW s, NEW u, NEW l, NEW c, Placed(s, u)
  PROVE  (Known(s, l, c) => Known(u, l, c)) /\ (Unknown(s) => Unknown(u))
  BY DEF Placed, Known, Unknown

LEMMA EmitFacts ==
  ASSUME TypeOK, NEW l \in Leg, NEW r \in RequestType, Emit(l, r)
  PROVE  /\ out' \in [Leg -> RequestType] /\ high' \in [Leg -> Nat]
         /\ out'[l] = r /\ out'[Lnk(l)] = out[Lnk(l)] /\ high'[Lnk(l)] = high[Lnk(l)]
         /\ out[l].cseq \in Nat /\ high[l] \in Nat
         /\ high'[l] = high[l] \/ high'[l] = out[l].cseq
<1>1. out[l].cseq \in Nat /\ high[l] \in Nat
  BY DEF TypeOK, RequestType
<1> QED BY <1>1, Legs DEF Emit, TypeOK
-----------------------------------------------------------------------------
(***************************************************************************)
(* The properties of one leg, as operators of what they relate.            *)
(***************************************************************************)
CarriesTags(l, r, tag) ==
  IF l = "in" THEN r.local = tag /\ r.remote = CallerTag
  ELSE r.local = EgressTag /\ r.remote = tag

FollowsAt(l, r, txs) ==
  /\ r.method = "CANCEL" => Follows(r, txs[1].req)
  /\ r.method = "ACK" =>
       \E i \in DOMAIN txs :
         LET q == txs[i].req IN
         /\ r.cseq = q.cseq /\ txs[i].acked /\ txs[i].resp # "none"
         /\ txs[i].resp = "negative" <=> r.branch = q.branch
         /\ txs[i].resp = "negative" /\ q.method = "INVITE" => Follows(r, q)
         /\ r.uri = NoURI => l = "in" /\ txs[i].resp = "negative"

LEMMA FollowsLegs == FollowsInvite <=> \A l \in Leg : FollowsAt(l, out[l], tx[l])
  BY DEF FollowsInvite, FollowsAt

InDialogueMethods == {"ACK", "BYE", "ReINVITE", "UPDATE", "OPTIONS"}
Unnumbered == {"none", "INVITE", "ACK", "CANCEL"}

\* the second half of InDialogueRequest
TagsKept(l) ==
  "fork" \notin env /\ call \in {"established", "clearing", "over"} /\ peer[l].tag # NoTag
    /\ out[l].method \in InDialogueMethods => CarriesTags(l, out[l], peer[l].tag)

LEMMA InDialogueLegs ==
  InDialogueRequest <=>
    \A l \in Leg :
      /\ "zero" \notin env /\ out[l].method \notin Unnumbered => out[l].cseq > high[l]
      /\ TagsKept(l)
  BY DEF InDialogueRequest, TagsKept, CarriesTags, InDialogueMethods, Unnumbered

LEMMA NextNumber ==
  ASSUME TypeOK, NEW l \in Leg, NEW cseq \in NextCSeq(l)
  PROVE  /\ cseq \in Nat /\ ses[l].CSeq \in Nat /\ cseq >= ses[l].CSeq
         /\ "zero" \notin env => cseq > ses[l].CSeq
<1>1. ses[l].CSeq \in Nat
  BY DEF TypeOK, SessionType
<1>2. CASE ses[l].CSeq = 0
  <2>1. cseq \in Draw(l)
    BY <1>2 DEF NextCSeq
  <2>2. cseq \in Nat /\ ("zero" \notin env => cseq # 0)
    BY <2>1, DialogueAssumption DEF Draw
  <2> QED BY <1>2, <2>2
<1>3. CASE ses[l].CSeq # 0
  BY <1>1, <1>3 DEF NextCSeq
<1> QED BY <1>1, <1>2, <1>3

(***************************************************************************)
(* A request of the router is what reaches the peer.                       *)
(***************************************************************************)
Reaches(l, r, c) ==
  /\ r.uri = c
  /\ r.routes = path[l]
  /\ (r.to = r.uri) <=> (path[l] = <<>>)

LEMMA DirectRequest ==
  ASSUME TypeOK, NEW l \in Leg, NEW s \in SessionType, NEW m \in Method, NEW cseq \in Nat,
         NEW branch \in Nat, NEW hops \in Int,
         NEW r, r = Request(s, l, m, cseq, branch, FALSE, hops)
  PROVE  /\ r \in RequestType
         /\ r.method = m /\ r.cseq = cseq /\ r.branch = branch /\ r.hops = hops
         /\ r.uri = s.RemoteContactURI
         /\ r.to = Address(s, l, FALSE) /\ r.routes = Route(s, l)
         /\ r.local = (IF l = "in" THEN s.ToHeader ELSE s.FromHeader)
         /\ r.remote = (IF l = "in" THEN s.FromHeader ELSE s.ToHeader)
<1>1. FALSE \in BOOLEAN
  BY Zenon
<1>2. r \in RequestType
  BY <1>1, RequestFacts, Zenon
<1> QED BY <1>2 DEF Request

\* ACK of a refusal and CANCEL
LEMMA InviteRequest ==
  ASSUME TypeOK, NEW l \in Leg, NEW s \in SessionType, NEW m \in Method, NEW cseq \in Nat,
         NEW branch \in Nat, NEW hops \in Int,
         NEW r, r = Request(s, l, m, cseq, branch, TRUE, hops)
  PROVE  /\ r \in RequestType
         /\ r.method = m /\ r.cseq = cseq /\ r.branch = branch /\ r.hops = hops
         /\ r.uri = s.RemoteURI /\ r.to = Hop(l)
         /\ r.local = (IF l = "in" THEN s.ToHeader ELSE s.FromHeader)
         /\ r.remote = (IF l = "in" THEN s.FromHeader ELSE s.ToHeader)
<1>1. TRUE \in BOOLEAN
  BY Zenon
<1>2. r \in RequestType
  BY <1>1, RequestFacts, Zenon
<1>3. Address(s, l, TRUE) = Hop(l)
  BY DEF Address, Hop
<1> QED BY <1>2, <1>3 DEF Request

LEMMA RequestReaches ==
  ASSUME TypeOK, NEW l \in Leg, NEW s \in SessionType, NEW m \in Method, NEW cseq \in Nat,
         NEW branch \in Nat, NEW hops \in Int, NEW c \in Contacts, Known(s, l, c),
         NEW r, r = Request(s, l, m, cseq, branch, FALSE, hops)
  PROVE  Reaches(l, r, c)
<1>1. r.uri = c /\ r.routes = path[l] /\ r.to = Address(s, l, FALSE)
  <2>1. s.RecordRoutes = RecordRoute(l) /\ s.RemoteContactURI = c
    BY DEF Known
  <2>2. r.uri = s.RemoteContactURI /\ r.to = Address(s, l, FALSE) /\ r.routes = Route(s, l)
    BY DEF Request
  <2>3. Route(s, l) = path[l]
    BY <2>1, RouteFacts
  <2> QED BY <2>1, <2>2, <2>3
<1>2. c \notin {NoURI, "hop", "egress"}
  BY DialogueAssumption
<1>3. CASE path[l] = <<>>
  <2>1. s.RemoteContactUDP = c
    BY <1>3 DEF Known
  <2> QED BY <1>1, <1>2, <1>3, <2>1, AddressFacts DEF Reaches
<1>4. CASE path[l] # <<>>
  <2>1. s.RemoteContactUDP = NoURI
    BY <1>4 DEF Known
  <2>2. r.to = Hop(l)
    BY <1>1, <2>1, AddressFacts
  <2> QED BY <1>1, <1>2, <1>4, <2>2 DEF Reaches, Hop
<1> QED BY <1>3, <1>4

LEMMA NewTransaction ==
  ASSUME NEW r \in RequestType
  PROVE  /\ Transaction(r) \in TransactionType /\ Transaction(r).req = r
         /\ Transaction(r).resp = "none" /\ ~Transaction(r).acked
  BY Zenon DEF Transaction, TransactionType

LEMMA ReINVITESent ==
  ASSUME TypeOK, NEW l \in Leg, NEW r \in RequestType, NEW txs,
         txs = tx[l] \/ (txs = Append(tx[l], Transaction(r)) /\ r.method = "ReINVITE")
  PROVE  /\ txs \in Seq(TransactionType)
         /\ \A i \in DOMAIN txs : \/ i \in DOMAIN tx[l] /\ txs[i] = tx[l][i]
                                  \/ txs[i].req = r /\ r.method = "ReINVITE"
         /\ tx[l] # <<>> => txs # <<>> /\ txs[1] = tx[l][1]
         /\ tx[l] = <<>> /\ txs # <<>> => txs[1].req = r
         /\ txs # tx[l] => txs # <<>> /\ txs[Len(txs)].req = r
<1>1. tx[l] \in Seq(TransactionType)
  BY DEF TypeOK
<1>2. CASE txs = tx[l]
  BY <1>1, <1>2
<1>3. CASE txs = Append(tx[l], Transaction(r)) /\ r.method = "ReINVITE"
  <2>1. PICK t \in TransactionType : t = Transaction(r) /\ t.req = r
    BY NewTransaction
  <2>2. PICK n \in Nat : n = Len(tx[l])
    BY <1>1
  <2>3. /\ txs \in Seq(TransactionType) /\ Len(txs) = n + 1 /\ txs[n + 1] = t
        /\ \A i \in 1..n : txs[i] = tx[l][i]
    BY <1>1, <1>3, <2>1, <2>2
  <2>4. DOMAIN txs = 1..(n + 1) /\ DOMAIN tx[l] = 1..n
    BY <1>1, <2>2, <2>3
  <2>5. \A i \in DOMAIN txs : \/ i \in DOMAIN tx[l] /\ txs[i] = tx[l][i]
                              \/ txs[i].req = r /\ r.method = "ReINVITE"
    BY <1>3, <2>1, <2>3, <2>4
  <2>6. tx[l] # <<>> => n >= 1
    BY <1>1, <2>2
  <2>7. tx[l] = <<>> => n = 0
    BY <2>2
  <2>8. txs # <<>>
    BY <2>3
  <2>9. tx[l] # <<>> => txs[1] = tx[l][1]
    BY <2>3, <2>6
  <2>10. tx[l] = <<>> => txs[1].req = r
    BY <2>1, <2>3, <2>7
  <2>11. txs[Len(txs)].req = r
    BY <2>1, <2>3
  <2> QED BY <2>3, <2>5, <2>8, <2>9, <2>10, <2>11
<1> QED BY <1>2, <1>3
-----------------------------------------------------------------------------
(***************************************************************************)
(* Requests but for ACK and CANCEL.                                        *)
(***************************************************************************)
Renumbered(s, u, cseq) ==
  /\ u \in SessionType /\ u.FromHeader = s.FromHeader /\ u.ToTag = s.ToTag
  /\ u.ToHeader = s.ToHeader /\ u.RemoteURI = s.RemoteURI /\ u.CSeq = cseq /\ Placed(s, u)

Sends(ss, l, m, hops, cseq, r) ==
  /\ r = Request(ss[l], l, m, cseq, Branch, FALSE, hops) /\ Emit(l, r)
  /\ ses' \in [Leg -> SessionType] /\ ses'[Lnk(l)] = ss[Lnk(l)]
  /\ Renumbered(ss[l], ses'[l], cseq)
  /\ tx' \in [Leg -> Seq(TransactionType)] /\ tx'[Lnk(l)] = tx[Lnk(l)]
  /\ \/ tx'[l] = tx[l] /\ m # "ReINVITE"
     \/ tx'[l] = Append(tx[l], Transaction(r)) /\ m = "ReINVITE"
  /\ made' \in [tags : Nat, branches : Nat] /\ made'.branches = made.branches + 1

LEMMA SendFacts ==
  ASSUME TypeOK, NEW ss \in [Leg -> SessionType], NEW l \in Leg, NEW hops \in Int,
         NEW m \in {"BYE", "ReINVITE", "UPDATE", "OPTIONS"}, SendRequest(ss, l, m, hops)
  PROVE  \E cseq \in NextCSeq(l), r \in RequestType : Sends(ss, l, m, hops, cseq, r)
<1>1. PICK cseq \in NextCSeq(l) :
        LET r == Request(ss[l], l, m, cseq, Branch, FALSE, hops) IN
        /\ Emit(l, r)
        /\ ses' = [ss EXCEPT ![l].CSeq = cseq]
        /\ tx' = IF m = "ReINVITE" THEN [tx EXCEPT ![l] = Append(@, Transaction(r))] ELSE tx
        /\ made' = [made EXCEPT !.branches = Branch]
  BY DEF SendRequest
<1>2. cseq \in Nat /\ made \in [tags : Nat, branches : Nat] /\ Branch \in Nat
  BY NextNumber DEF Branch, TypeOK
<1>3. PICK r \in RequestType : r = Request(ss[l], l, m, cseq, Branch, FALSE, hops)
  <2>1. PICK r : r = Request(ss[l], l, m, cseq, Branch, FALSE, hops)
    OBVIOUS
  <2>2. PICK s \in SessionType, b \in Nat : s = ss[l] /\ b = Branch
    BY <1>2
  <2>3. m \in Method /\ r = Request(s, l, m, cseq, b, FALSE, hops)
    BY <2>1, <2>2 DEF Method
  <2>4. r \in RequestType
    BY ONLY TypeOK, l \in Leg, hops \in Int, s \in SessionType, b \in Nat, <1>2, <2>3, DirectRequest
  <2> QED BY <2>1, <2>4
<1>4. made' \in [tags : Nat, branches : Nat] /\ made'.branches = made.branches + 1
  BY <1>1, <1>2 DEF Branch
<1>5. /\ ses' \in [Leg -> SessionType] /\ ses'[Lnk(l)] = ss[Lnk(l)]
      /\ ses'[l] = [ss[l] EXCEPT !.CSeq = cseq]
  <2>1. PICK u : u = [ss[l] EXCEPT !.CSeq = cseq]
    OBVIOUS
  <2>2. u \in SessionType
    BY <1>2, <2>1 DEF SessionType
  <2>3. ses' = [ss EXCEPT ![l] = u]
    BY <1>1, <2>1
  <2> QED BY <2>1, <2>2, <2>3, Legs
<1>6. Renumbered(ss[l], ses'[l], cseq)
  <2>1. PICK s \in SessionType : s = ss[l]
    OBVIOUS
  <2>2. ses'[l] = [s EXCEPT !.CSeq = cseq]
    BY <1>5, <2>1
  <2> QED BY <1>2, <2>1, <2>2 DEF Renumbered, Placed, SessionType
<1>7. tx \in [Leg -> Seq(TransactionType)] /\ Append(tx[l], Transaction(r)) \in Seq(TransactionType)
  BY NewTransaction DEF TypeOK
<1>8. CASE m = "ReINVITE"
  <2>1. tx' = [tx EXCEPT ![l] = Append(tx[l], Transaction(r))]
    BY <1>1, <1>3, <1>8
  <2>2. /\ tx' \in [Leg -> Seq(TransactionType)] /\ tx'[Lnk(l)] = tx[Lnk(l)]
        /\ tx'[l] = Append(tx[l], Transaction(r))
    BY <1>7, <2>1, Legs
  <2> QED BY <1>1, <1>3, <1>4, <1>5, <1>6, <1>8, <2>2 DEF Sends
<1>9. CASE m # "ReINVITE"
  BY <1>1, <1>3, <1>4, <1>5, <1>6, <1>7, <1>9 DEF Sends
<1> QED BY <1>8, <1>9

(***************************************************************************)
(* A session that still belongs to the same dialogue.                      *)
(***************************************************************************)
Same(s, u) ==
  /\ Kept(s, u) /\ u.ToHeader = s.ToHeader
  /\ u.ToTag = NoTag <=> u.ToHeader = NoTag

LEMMA TransactionFacts ==
  ASSUME TypeOK, NEW l \in Leg, NEW i \in DOMAIN tx[l]
  PROVE  /\ tx[l][i] \in TransactionType /\ tx[l][i].req \in RequestType
         /\ tx[l][i].req.cseq \in Nat /\ tx[l][i].req.branch \in Nat
<1>1. tx[l] \in Seq(TransactionType)
  BY DEF TypeOK
<1>2. PICK t \in TransactionType : t = tx[l][i]
  BY <1>1
<1>3. t.req \in RequestType
  BY DEF TransactionType
<1>4. t.req.cseq \in Nat /\ t.req.branch \in Nat
  BY <1>3 DEF RequestType
<1> QED BY <1>2, <1>3, <1>4

LEMMA SendStep ==
  ASSUME IInv, NEW ss \in [Leg -> SessionType], NEW l \in Leg, NEW hops \in Int,
         NEW m \in {"BYE", "ReINVITE", "UPDATE", "OPTIONS"}, SendRequest(ss, l, m, hops),
         call = "established" \/ (call = "clearing" /\ l = "out"),
         call' = "over" \/ (call = "established" /\ call' = call),
         \A k \in Leg : Same(ses[k], ss[k]) /\ Known(ss[k], k, peer'[k].contact),
         peer' \in [Leg -> [tag : Tags, contact : Contacts]],
         \A k \in Leg : peer'[k].tag = peer[k].tag,
         \/ pend' = pend /\ m # "ReINVITE"
         \/ /\ m \in {"ReINVITE", "UPDATE"} /\ call' = "established"
            /\ \A k \in Leg : pend[k] = "none"
            /\ pend' = [pend EXCEPT ![Lnk(l)] = m],
         UNCHANGED <<env, path, proxy, resp>>, count' \in 0..MaxRequests
  PROVE  IInv'
<1> USE Legs
<1>1. TypeOK
  BY DEF IInv
<1>r. PICK cseq \in NextCSeq(l), r \in RequestType : Sends(ss, l, m, hops, cseq, r)
  BY ONLY <1>1, ss \in [Leg -> SessionType], l \in Leg, hops \in Int,
     m \in {"BYE", "ReINVITE", "UPDATE", "OPTIONS"}, SendRequest(ss, l, m, hops), SendFacts
<1>2. /\ r = Request(ss[l], l, m, cseq, Branch, FALSE, hops) /\ Emit(l, r)
      /\ ses' \in [Leg -> SessionType] /\ ses'[Lnk(l)] = ss[Lnk(l)]
      /\ Renumbered(ss[l], ses'[l], cseq)
      /\ tx' \in [Leg -> Seq(TransactionType)] /\ tx'[Lnk(l)] = tx[Lnk(l)]
      /\ \/ tx'[l] = tx[l] /\ m # "ReINVITE"
         \/ tx'[l] = Append(tx[l], Transaction(r)) /\ m = "ReINVITE"
      /\ made' \in [tags : Nat, branches : Nat] /\ made'.branches = made.branches + 1
  BY <1>r DEF Sends
<1>3. /\ cseq \in Nat /\ ses[l].CSeq \in Nat /\ cseq >= ses[l].CSeq
      /\ "zero" \notin env => cseq > ses[l].CSeq
  BY <1>1, NextNumber
<1>4. /\ r.method = m /\ r.cseq = cseq /\ r.branch = made.branches + 1
      /\ r.local = (IF l = "in" THEN ss[l].ToHeader ELSE ss[l].FromHeader)
      /\ r.remote = (IF l = "in" THEN ss[l].FromHeader ELSE ss[l].ToHeader)
  BY <1>2 DEF Request, Branch
<1>5. /\ out' \in [Leg -> RequestType] /\ high' \in [Leg -> Nat]
      /\ out'[l] = r /\ out'[Lnk(l)] = out[Lnk(l)] /\ high'[Lnk(l)] = high[Lnk(l)]
      /\ out[l].cseq \in Nat /\ high[l] \in Nat
      /\ high'[l] = high[l] \/ high'[l] = out[l].cseq
  <2>1. Emit(l, r)
    BY <1>2
  <2> QED BY ONLY <1>1, <2>1, l \in Leg, r \in RequestType, EmitFacts
<1>6. /\ \A i \in DOMAIN tx'[l] : \/ i \in DOMAIN tx[l] /\ tx'[l][i] = tx[l][i]
                                  \/ tx'[l][i].req = r /\ r.method = "ReINVITE"
      /\ tx[l] # <<>> => tx'[l] # <<>> /\ tx'[l][1] = tx[l][1]
      /\ tx'[l] # tx[l] => tx'[l] # <<>> /\ tx'[l][Len(tx'[l])].req = r
  <2>1. PICK txs : txs = tx'[l]
    OBVIOUS
  <2>2. txs = tx[l] \/ (txs = Append(tx[l], Transaction(r)) /\ r.method = "ReINVITE")
    BY <1>2, <1>4, <2>1
  <2>3. /\ \A i \in DOMAIN txs : \/ i \in DOMAIN tx[l] /\ txs[i] = tx[l][i]
                                 \/ txs[i].req = r /\ r.method = "ReINVITE"
        /\ tx[l] # <<>> => txs # <<>> /\ txs[1] = tx[l][1]
        /\ txs # tx[l] => txs # <<>> /\ txs[Len(txs)].req = r
    BY <1>1, <2>2, ReINVITESent
  <2> QED BY <2>1, <2>3
<1>7. call \in {"established", "clearing"} /\ call' \in {"established", "over"}
  OBVIOUS
<1>8. TypeOK'
  <2>1. pend' \in [Leg -> {"none", "ReINVITE", "UPDATE", "toAck"}]
    BY <1>1 DEF TypeOK
  <2> QED BY <1>1, <1>2, <1>5, <1>7, <2>1 DEF TypeOK, Phase
<1>9. /\ out'[l].cseq <= ses'[l].CSeq /\ high'[l] <= ses'[l].CSeq
      /\ "zero" \notin env => out'[l].cseq > high'[l]
  <2>1. out[l].cseq <= ses[l].CSeq /\ high[l] <= ses[l].CSeq
    BY DEF IInv, Numbered
  <2>2. ses'[l].CSeq = cseq
    BY <1>2 DEF Renumbered
  <2> QED BY <1>3, <1>4, <1>5, <2>1, <2>2
<1>10. \A k \in Leg : Numbered(k)'
  <2>1. Numbered(l)'
    <3>1. \A i \in DOMAIN tx[l] : /\ tx[l][i].req.cseq <= ses[l].CSeq
                                  /\ tx[l][i].req.branch <= made.branches
      BY DEF IInv, Numbered
    <3>2. \A i \in DOMAIN tx[l] : tx[l][i].req.cseq \in Nat /\ tx[l][i].req.branch \in Nat
      BY ONLY <1>1, Legs, l \in Leg, TransactionFacts
    <3>3. ses'[l].CSeq = cseq /\ made.branches \in Nat
      BY <1>1, <1>2 DEF Renumbered, TypeOK
    <3>4. ASSUME NEW i \in DOMAIN tx'[l]
          PROVE  tx'[l][i].req.cseq <= ses'[l].CSeq /\ tx'[l][i].req.branch <= made'.branches
      <4>1. made'.branches = made.branches + 1
        BY <1>2
      <4>2. CASE i \in DOMAIN tx[l] /\ tx'[l][i] = tx[l][i]
        BY ONLY <1>3, <3>1, <3>2, <3>3, <4>1, <4>2
      <4>3. CASE tx'[l][i].req = r
        BY ONLY <1>3, <1>4, <3>3, <4>1, <4>3
      <4> QED BY <1>6, <4>2, <4>3
    <3> QED BY <1>9, <3>4 DEF Numbered
  <2>2. Numbered(Lnk(l))'
    <3>1. Numbered(Lnk(l))
      BY DEF IInv
    <3>2. ses'[Lnk(l)].CSeq = ses[Lnk(l)].CSeq
      BY <1>2 DEF Same, Kept
    <3>3. \A i \in DOMAIN tx[Lnk(l)] : tx[Lnk(l)][i].req.branch \in Nat
      BY ONLY <1>1, Legs, l \in Leg, TransactionFacts
    <3>4. made.branches \in Nat
      BY <1>1 DEF TypeOK
    <3>5. tx'[Lnk(l)] = tx[Lnk(l)] /\ made'.branches = made.branches + 1
      BY <1>2
    <3>6. out'[Lnk(l)] = out[Lnk(l)] /\ high'[Lnk(l)] = high[Lnk(l)]
      BY <1>5
    <3> QED BY ONLY <3>1, <3>2, <3>3, <3>4, <3>5, <3>6 DEF Numbered
  <2> QED BY <2>1, <2>2
<1>11. \A k \in Leg : Change(k)'
  <2>1. ASSUME NEW k \in Leg PROVE Change(k)'
    <3>1. Change(k)
      BY DEF IInv
    <3>2. CASE pend' = pend /\ m # "ReINVITE"
      <4>1. tx'[Lnk(k)] = tx[Lnk(k)]
        BY <1>2, <3>2
      <4>2. out'[Lnk(k)] = out[Lnk(k)] \/ out'[Lnk(k)].method = m
        BY <1>4, <1>5
      <4> QED BY <1>7, <3>1, <3>2, <4>1, <4>2 DEF Change
    <3>3. CASE /\ m \in {"ReINVITE", "UPDATE"} /\ call' = "established"
               /\ \A j \in Leg : pend[j] = "none"
               /\ pend' = [pend EXCEPT ![Lnk(l)] = m]
      <4>1. pend'[k] = "none" \/ (pend'[k] = m /\ Lnk(k) = l)
        BY <1>1, <3>3 DEF TypeOK
      <4>2. CASE pend'[k] = "none"
        BY <4>2 DEF Change
      <4>3. CASE pend'[k] = m /\ Lnk(k) = l
        <5>1. m = "ReINVITE" => tx'[l] # <<>> /\ tx'[l][Len(tx'[l])].req = r
          <6>1. m = "ReINVITE" => tx'[l] = Append(tx[l], Transaction(r))
            BY <1>2
          <6>2. Append(tx[l], Transaction(r)) # tx[l]
            BY <1>1 DEF TypeOK
          <6> QED BY <1>6, <6>1, <6>2
        <5> QED BY <1>4, <1>5, <3>3, <4>3, <5>1 DEF Change
      <4> QED BY <4>1, <4>2, <4>3
    <3> QED BY <3>2, <3>3
  <2> QED BY <2>1
<1>12. \A k \in Leg : /\ Placed(ss[k], ses'[k]) /\ ses'[k].RemoteURI = ses[k].RemoteURI
                      /\ ses'[k].FromHeader = ses[k].FromHeader
                      /\ ses'[k].ToHeader = ses[k].ToHeader
                      /\ ses'[k].ToTag = NoTag <=> ses'[k].ToHeader = NoTag
  <2>1. ASSUME NEW k \in Leg
        PROVE  /\ Placed(ss[k], ses'[k]) /\ ses'[k].RemoteURI = ss[k].RemoteURI
               /\ ses'[k].FromHeader = ss[k].FromHeader
               /\ ses'[k].ToHeader = ss[k].ToHeader /\ ses'[k].ToTag = ss[k].ToTag
    <3>1. CASE k = l
      BY <1>2, <3>1 DEF Renumbered
    <3>2. CASE k = Lnk(l)
      <4>1. ses'[k] = ss[k]
        BY <1>2, <3>2
      <4> QED BY ONLY <4>1 DEF Placed
    <3> QED BY <3>1, <3>2
  <2>2. ASSUME NEW k \in Leg
        PROVE  /\ ss[k].RemoteURI = ses[k].RemoteURI /\ ss[k].FromHeader = ses[k].FromHeader
               /\ ss[k].ToHeader = ses[k].ToHeader
               /\ ss[k].ToTag = NoTag <=> ss[k].ToHeader = NoTag
    BY DEF Same, Kept
  <2> QED BY ONLY <2>1, <2>2
<1>13. Located'
  <2>1. \A k \in Leg : Known(ses'[k], k, peer'[k].contact)
    BY <1>12, PlacedKnown
  <2>2. ses["in"].RemoteURI = NoURI /\ ses["out"].RemoteURI = Dialled
    BY <1>7 DEF IInv, Located
  <2> QED BY <1>7, <1>12, <2>1, <2>2 DEF Located, Known, RecordRoute
<1>14. Tagged'
  <2>1. Tagged
    BY DEF IInv
  <2> QED BY <1>7, <1>12, <2>1 DEF Tagged
<1>15. Sent'
  <2>1. Sent
    BY DEF IInv
  <2>2. tx["out"] # <<>> /\ Invite(tx["out"][1])
    BY <1>7, <2>1 DEF Sent
  <2>3. tx'["out"] # <<>> /\ tx'["out"][1] = tx["out"][1]
    BY <1>2, <1>6, <2>2
  <2>4. \A i \in DOMAIN tx'["in"] : tx'["in"][i].req.method = "ReINVITE"
    <3>1. \A i \in DOMAIN tx["in"] : tx["in"][i].req.method = "ReINVITE"
      BY <2>1 DEF Sent
    <3>2. CASE l = "in"
      BY ONLY <1>6, <3>1, <3>2
    <3>3. CASE l = "out"
      <4>1. tx'["in"] = tx["in"]
        BY <1>2, <3>3 DEF Lnk
      <4> QED BY ONLY <3>1, <4>1
    <3> QED BY <3>2, <3>3
  <2>5. out'["in"].method # "CANCEL"
    BY <1>4, <1>5, <2>1 DEF Sent
  <2> QED BY <1>7, <2>2, <2>3, <2>4, <2>5 DEF Sent, Invite
<1>16. InDialogueRequest'
  <2>1. ASSUME NEW k \in Leg
        PROVE  /\ "zero" \notin env /\ out'[k].method \notin Unnumbered => out'[k].cseq > high'[k]
               /\ "fork" \notin env /\ peer[k].tag # NoTag /\ out'[k].method \in InDialogueMethods
                    => CarriesTags(k, out'[k], peer[k].tag)
    <3>1. /\ "zero" \notin env /\ out[k].method \notin Unnumbered => out[k].cseq > high[k]
          /\ TagsKept(k)
      BY InDialogueLegs DEF IInv
    <3>2. CASE k # l
      <4>1. out'[k] = out[k] /\ high'[k] = high[k]
        BY <1>5, <3>2
      <4> QED BY <1>7, <3>1, <4>1 DEF TagsKept
    <3>3. CASE k = l
      <4>1. "fork" \notin env => CarriesTags(l, r, peer[l].tag)
        <5>1. Tagged /\ ss[l].ToHeader = ses[l].ToHeader /\ ss[l].FromHeader = ses[l].FromHeader
          BY DEF IInv, Same, Kept
        <5> QED BY <1>4, <5>1 DEF CarriesTags, Tagged
      <4> QED BY <1>5, <1>9, <3>3, <4>1
    <3> QED BY <3>2, <3>3
  <2>2. \A k \in Leg :
          /\ "zero" \notin env' /\ out'[k].method \notin Unnumbered => out'[k].cseq > high'[k]
          /\ TagsKept(k)'
    BY <2>1 DEF TagsKept, CarriesTags
  <2>3. InDialogueRequest' <=>
          \A k \in Leg :
            /\ "zero" \notin env' /\ out'[k].method \notin Unnumbered => out'[k].cseq > high'[k]
            /\ TagsKept(k)'
    BY DEF InDialogueRequest, TagsKept, CarriesTags, InDialogueMethods, Unnumbered
  <2> QED BY <2>2, <2>3
<1>17. FollowsInvite'
  <2>1. \A k \in Leg : FollowsAt(k, out'[k], tx'[k])
    <3>1. FollowsAt(l, out'[l], tx'[l])
      BY <1>4, <1>5 DEF FollowsAt
    <3>2. FollowsAt(Lnk(l), out'[Lnk(l)], tx'[Lnk(l)])
      BY <1>2, <1>5, FollowsLegs DEF IInv
    <3> QED BY <3>1, <3>2
  <2> QED BY <2>1 DEF FollowsInvite, FollowsAt
<1> QED BY <1>8, <1>10, <1>11, <1>13, <1>14, <1>15, <1>16, <1>17 DEF IInv
-----------------------------------------------------------------------------
(***************************************************************************)
(* ACK.  Matches: the transactions of a leg but for their responses.       *)
(***************************************************************************)
Matches(txs, us) ==
  /\ us \in Seq(TransactionType) /\ Len(us) = Len(txs)
  /\ \A j \in 1..Len(txs) : us[j].req = txs[j].req

LEMMA ResponseFacts ==
  ASSUME NEW txs \in Seq(TransactionType), NEW i \in 1..Len(txs),
         NEW r \in {"positive", "negative"}, NEW us, us = Response(txs, i, r)
  PROVE  /\ Matches(txs, us) /\ us[i].resp = r
         /\ \A j \in 1..Len(txs) : us[j].acked <=> txs[j].acked
<1>1. PICK t \in TransactionType : t = txs[i]
  OBVIOUS
<1>2. PICK u : u = [t EXCEPT !.resp = r]
  OBVIOUS
<1>3. u \in TransactionType /\ u.req = t.req /\ u.resp = r
  BY ONLY <1>2, t \in TransactionType, r \in {"positive", "negative"} DEF TransactionType
<1>4. u.acked <=> t.acked
  BY ONLY <1>2, t \in TransactionType, Zenon DEF TransactionType
<1>5. us = [txs EXCEPT ![i] = u]
  BY <1>1, <1>2 DEF Response
<1>6. us \in Seq(TransactionType) /\ Len(us) = Len(txs) /\ us[i] = u
  BY <1>3, <1>5
<1>7. \A j \in 1..Len(txs) : j # i => us[j] = txs[j]
  BY <1>5
<1> QED BY <1>1, <1>3, <1>4, <1>6, <1>7 DEF Matches

LEMMA AckedFacts ==
  ASSUME NEW txs \in Seq(TransactionType), NEW i \in 1..Len(txs),
         NEW us, us = [txs EXCEPT ![i].acked = TRUE]
  PROVE  /\ Matches(txs, us) /\ us[i].acked
         /\ \A j \in 1..Len(txs) : us[j].resp = txs[j].resp
<1>1. PICK t \in TransactionType : t = txs[i]
  OBVIOUS
<1>2. PICK u : u = [t EXCEPT !.acked = TRUE]
  OBVIOUS
<1>3. u \in TransactionType /\ u.req = t.req /\ u.resp = t.resp
  BY ONLY <1>2, t \in TransactionType, Zenon DEF TransactionType
<1>4. u.acked
  BY ONLY <1>2, t \in TransactionType, Zenon DEF TransactionType
<1>5. us = [txs EXCEPT ![i] = u]
  BY <1>1, <1>2
<1>6. us \in Seq(TransactionType) /\ Len(us) = Len(txs) /\ us[i] = u
  BY ONLY txs \in Seq(TransactionType), i \in 1..Len(txs), <1>3, <1>5
<1>7. \A j \in 1..Len(txs) : j # i => us[j] = txs[j]
  BY ONLY txs \in Seq(TransactionType), i \in 1..Len(txs), <1>5
<1> QED BY <1>1, <1>3, <1>4, <1>6, <1>7 DEF Matches

LEMMA AckForFacts ==
  ASSUME TypeOK, NEW l \in Leg, NEW s \in SessionType, NEW t \in TransactionType,
         NEW a, a = AckFor(s, l, t)
  PROVE  /\ a \in RequestType /\ a.method = "ACK" /\ a.cseq = t.req.cseq
         /\ t.resp = "negative" =>
              a.branch = t.req.branch /\ a.uri = s.RemoteURI /\ a.to = Hop(l)
         /\ t.resp # "negative" => a.branch = made.branches + 1 /\ a.uri = s.RemoteContactURI
         /\ a.local = (IF l = "in" THEN s.ToHeader ELSE s.FromHeader)
         /\ a.remote = (IF l = "in" THEN s.FromHeader ELSE s.ToHeader)
<1>1. PICK q \in RequestType : q = t.req
  BY DEF TransactionType
<1>2. PICK n \in Nat, d \in Nat, h \in Int : n = q.cseq /\ d = q.branch /\ h = q.hops
  BY DEF RequestType
<1>3. PICK m \in Method : m = "ACK"
  BY DEF Method
<1>4. CASE t.resp = "negative"
  <2>1. a = Request(s, l, m, n, d, TRUE, h)
    BY <1>1, <1>2, <1>3, <1>4, Zenon DEF AckFor
  <2>2. /\ a \in RequestType /\ a.method = "ACK" /\ a.cseq = n
        /\ a.branch = d /\ a.uri = s.RemoteURI /\ a.to = Hop(l)
        /\ a.local = (IF l = "in" THEN s.ToHeader ELSE s.FromHeader)
        /\ a.remote = (IF l = "in" THEN s.FromHeader ELSE s.ToHeader)
    <3>1. a \in RequestType
      BY ONLY TypeOK, l \in Leg, s \in SessionType, n \in Nat, d \in Nat, h \in Int,
         m \in Method, <2>1, InviteRequest
    <3> QED BY ONLY <1>3, <2>1, <3>1 DEF Request, Hop, Address
  <2> QED BY <1>1, <1>2, <1>4, <2>2
<1>5. CASE t.resp # "negative"
  <2>1. PICK b \in Nat : b = made.branches + 1
    BY DEF TypeOK
  <2>2. a = Request(s, l, m, n, b, FALSE, h)
    BY <1>1, <1>2, <1>3, <1>5, <2>1, Zenon DEF AckFor, Branch
  <2>3. /\ a \in RequestType /\ a.method = "ACK" /\ a.cseq = n
        /\ a.branch = b /\ a.uri = s.RemoteContactURI
        /\ a.local = (IF l = "in" THEN s.ToHeader ELSE s.FromHeader)
        /\ a.remote = (IF l = "in" THEN s.FromHeader ELSE s.ToHeader)
    <3>1. a \in RequestType
      BY ONLY TypeOK, l \in Leg, s \in SessionType, n \in Nat, b \in Nat, h \in Int,
         m \in Method, <2>2, DirectRequest
    <3> QED BY ONLY <1>3, <2>2, <3>1 DEF Request, Hop, Address
  <2> QED BY <1>1, <1>2, <1>5, <2>1, <2>3
<1> QED BY <1>4, <1>5

Acks(s, l, i, txs, a) ==
  /\ a = AckFor(s, l, txs[i]) /\ Emit(l, a)
  /\ tx' \in [Leg -> Seq(TransactionType)] /\ tx'[Lnk(l)] = tx[Lnk(l)]
  /\ Matches(txs, tx'[l]) /\ tx'[l][i].acked /\ tx'[l][i].resp = txs[i].resp
  /\ made' \in [tags : Nat, branches : Nat] /\ made'.branches = made.branches + 1

LEMMA SendACKFacts ==
  ASSUME TypeOK, NEW l \in Leg, NEW s \in SessionType, NEW txs \in Seq(TransactionType),
         NEW i \in 1..Len(txs), SendACK(s, l, i, txs)
  PROVE  \E a \in RequestType : Acks(s, l, i, txs, a)
<1>1. PICK t \in TransactionType : t = txs[i]
  OBVIOUS
<1>2. PICK a : a = AckFor(s, l, t)
  OBVIOUS
<1>3. a \in RequestType
  BY ONLY TypeOK, l \in Leg, s \in SessionType, t \in TransactionType, <1>2, AckForFacts
<1>4. a = AckFor(s, l, txs[i]) /\ Emit(l, a)
  BY <1>1, <1>2 DEF SendACK
<1>5. PICK us : us = [txs EXCEPT ![i].acked = TRUE]
  OBVIOUS
<1>6. Matches(txs, us) /\ us[i].acked /\ us[i].resp = txs[i].resp
  BY ONLY txs \in Seq(TransactionType), i \in 1..Len(txs), <1>5, AckedFacts, ZenonT(60)
<1>7. tx' = [tx EXCEPT ![l] = us]
  BY <1>5 DEF SendACK
<1>8. /\ tx' \in [Leg -> Seq(TransactionType)] /\ tx'[Lnk(l)] = tx[Lnk(l)] /\ tx'[l] = us
  BY <1>6, <1>7, Legs DEF TypeOK, Matches
<1>9. made' \in [tags : Nat, branches : Nat] /\ made'.branches = made.branches + 1
  <2>1. made \in [tags : Nat, branches : Nat] /\ made' = [made EXCEPT !.branches = made.branches + 1]
    BY DEF SendACK, Branch, TypeOK
  <2> QED BY ONLY <2>1
<1> QED BY <1>3, <1>4, <1>6, <1>8, <1>9 DEF Acks
(***************************************************************************)
(* An ACK on leg l for the i-th transaction there, which has its answer.   *)
(* What the sessions know and carry is left to the actions.                *)
(***************************************************************************)
LEMMA AckStep ==
  ASSUME IInv, NEW l \in Leg, NEW s \in SessionType, NEW txs \in Seq(TransactionType),
         NEW i \in 1..Len(txs), SendACK(s, l, i, txs), Matches(tx[l], txs),
         txs[i].resp # "none",
         (l = "out" /\ i = 1) \/ txs[i].req.method = "ReINVITE",
         ses' \in [Leg -> SessionType], ses'[l] = s,
         \A k \in Leg : Kept(ses[k], ses'[k]),
         s.RemoteContactURI # NoURI, l = "out" => s.RemoteURI = Dialled,
         peer' \in [Leg -> [tag : Tags, contact : Contacts]],
         peer'[Lnk(l)].tag = peer[Lnk(l)].tag,
         "fork" \notin env /\ peer'[l].tag # NoTag => s.ToHeader = peer'[l].tag,
         pend' \in [Leg -> {"none", "ReINVITE", "UPDATE", "toAck"}],
         pend'[Lnk(l)] = "none", pend'[l] = pend[l],
         call \notin {"new", "clearing", "over"}, call' \in {"established", "clearing", "over"},
         pend[l] # "none" => call' # "clearing",
         call # "established" => l = "out", call = "established" => call' = call,
         resp' \in Tags,
         UNCHANGED <<env, path, proxy, count>>, Located', Tagged'
  PROVE  IInv'
<1>1. TypeOK
  BY DEF IInv
<1>2. PICK a \in RequestType : Acks(s, l, i, txs, a)
  BY ONLY <1>1, l \in Leg, s \in SessionType, txs \in Seq(TransactionType), i \in 1..Len(txs),
     SendACK(s, l, i, txs), SendACKFacts
<1>3. /\ a = AckFor(s, l, txs[i]) /\ Emit(l, a)
      /\ tx' \in [Leg -> Seq(TransactionType)] /\ tx'[Lnk(l)] = tx[Lnk(l)]
      /\ Matches(txs, tx'[l]) /\ tx'[l][i].acked /\ tx'[l][i].resp = txs[i].resp
      /\ made' \in [tags : Nat, branches : Nat] /\ made'.branches = made.branches + 1
  BY <1>2 DEF Acks
<1>4. /\ out' \in [Leg -> RequestType] /\ high' \in [Leg -> Nat]
      /\ out'[l] = a /\ out'[Lnk(l)] = out[Lnk(l)] /\ high'[Lnk(l)] = high[Lnk(l)]
      /\ out[l].cseq \in Nat /\ high[l] \in Nat
      /\ high'[l] = high[l] \/ high'[l] = out[l].cseq
  <2>1. Emit(l, a)
    BY <1>3
  <2> QED BY ONLY <1>1, <2>1, l \in Leg, a \in RequestType, EmitFacts
<1>5. PICK t \in TransactionType : t = txs[i]
  OBVIOUS
<1>6. /\ a.method = "ACK" /\ a.cseq = t.req.cseq
      /\ t.resp = "negative" => a.branch = t.req.branch /\ a.uri = s.RemoteURI /\ a.to = Hop(l)
      /\ t.resp # "negative" => a.branch = made.branches + 1 /\ a.uri = s.RemoteContactURI
      /\ a.local = (IF l = "in" THEN s.ToHeader ELSE s.FromHeader)
      /\ a.remote = (IF l = "in" THEN s.FromHeader ELSE s.ToHeader)
  <2>1. a = AckFor(s, l, t)
    BY <1>3, <1>5
  <2> QED BY ONLY <1>1, l \in Leg, s \in SessionType, t \in TransactionType, <2>1, AckForFacts
<1>7. /\ Len(tx'[l]) = Len(tx[l]) /\ Len(txs) = Len(tx[l]) /\ tx'[l] \in Seq(TransactionType)
      /\ \A j \in 1..Len(tx[l]) : tx'[l][j].req = tx[l][j].req
      /\ txs[i].req = tx[l][i].req /\ tx'[l][i].req = t.req /\ tx'[l][i].resp = t.resp
  BY <1>3, <1>5 DEF Matches
<1>8. /\ tx[l] \in Seq(TransactionType)
      /\ \A j \in 1..Len(tx[l]) : tx[l][j].req.cseq \in Nat /\ tx[l][j].req.branch \in Nat
  <2>1. tx[l] \in Seq(TransactionType) /\ DOMAIN tx[l] = 1..Len(tx[l])
    BY ONLY <1>1, l \in Leg DEF TypeOK
  <2> QED BY ONLY <1>1, <2>1, l \in Leg, TransactionFacts
<1>9. DOMAIN tx'[l] = 1..Len(tx[l]) /\ DOMAIN tx[l] = 1..Len(tx[l]) /\ i \in 1..Len(tx[l])
  BY ONLY <1>7, <1>8, i \in 1..Len(txs)
<1>10. /\ out[l].cseq <= ses[l].CSeq /\ high[l] <= ses[l].CSeq
       /\ \A j \in DOMAIN tx[l] : /\ tx[l][j].req.cseq <= ses[l].CSeq
                                  /\ tx[l][j].req.branch <= made.branches
       /\ made.branches \in Nat /\ ses[l].CSeq \in Nat
  <2>1. Numbered(l)
    BY DEF IInv
  <2> QED BY ONLY <1>1, <2>1, l \in Leg DEF Numbered, TypeOK, SessionType
<1>11. TypeOK'
  BY <1>1, <1>3, <1>4 DEF TypeOK, Phase
<1>12. \A k \in Leg : Numbered(k)'
  <2>1. \A k \in Leg : ses'[k].CSeq = ses[k].CSeq
    BY DEF Kept
  <2>2. Numbered(l)'
    <3>1. out'[l].cseq <= ses'[l].CSeq /\ high'[l] <= ses'[l].CSeq
      BY ONLY <1>4, <1>5, <1>6, <1>7, <1>8, <1>9, <1>10, <2>1, l \in Leg
    <3>2. \A j \in DOMAIN tx'[l] :
            tx'[l][j].req.cseq <= ses'[l].CSeq /\ tx'[l][j].req.branch <= made'.branches
      <4>1. made'.branches = made.branches + 1
        BY <1>3
      <4> QED BY ONLY <1>7, <1>8, <1>9, <1>10, <2>1, <4>1, l \in Leg, SMTT(40)
    <3> QED BY ONLY <3>1, <3>2 DEF Numbered
  <2>3. Numbered(Lnk(l))'
    <3>1. Numbered(Lnk(l))
      BY Legs DEF IInv
    <3>2. \A j \in DOMAIN tx[Lnk(l)] : tx[Lnk(l)][j].req.branch \in Nat
      BY ONLY <1>1, Legs, l \in Leg, TransactionFacts
    <3>3. tx'[Lnk(l)] = tx[Lnk(l)] /\ made'.branches = made.branches + 1
      BY <1>3
    <3> QED BY ONLY <1>4, <1>10, <2>1, <3>1, <3>2, <3>3, Legs, l \in Leg DEF Numbered
  <2> QED BY <2>2, <2>3, Legs
<1>13. \A k \in Leg : Change(k)'
  <2>1. Change(l)'
    <3>1. Change(l)
      BY DEF IInv
    <3>2. tx'[Lnk(l)] = tx[Lnk(l)] /\ out'[Lnk(l)] = out[Lnk(l)]
      BY <1>3, <1>4
    <3> QED BY <3>1, <3>2 DEF Change
  <2>2. Change(Lnk(l))'
    BY DEF Change
  <2> QED BY <2>1, <2>2, Legs
<1>14. Sent'
  <2>1. Sent
    BY DEF IInv
  <2>2. tx["out"] # <<>> /\ Invite(tx["out"][1])
    BY <2>1 DEF Sent
  <2>3. tx'["out"] # <<>> /\ tx'["out"][1].req = tx["out"][1].req
    <3>1. CASE l = "out"
      BY ONLY <1>7, <1>8, <1>9, <2>2, <3>1
    <3>2. CASE l = "in"
      <4>1. tx'["out"] = tx["out"]
        BY <1>3, <3>2 DEF Lnk
      <4> QED BY ONLY <2>2, <4>1
    <3> QED BY <3>1, <3>2, Legs
  <2>4. \A j \in DOMAIN tx'["in"] : tx'["in"][j].req.method = "ReINVITE"
    <3>1. \A j \in DOMAIN tx["in"] : tx["in"][j].req.method = "ReINVITE"
      BY <2>1 DEF Sent
    <3>2. CASE l = "in"
      BY ONLY <1>7, <1>9, <3>1, <3>2
    <3>3. CASE l = "out"
      <4>1. tx'["in"] = tx["in"]
        BY <1>3, <3>3 DEF Lnk
      <4> QED BY ONLY <3>1, <4>1
    <3> QED BY <3>2, <3>3, Legs
  <2>5. out'["in"].method # "CANCEL"
    BY <1>4, <1>6, <2>1, Legs DEF Sent
  <2>6. call' = "clearing" => out'["in"].method = "none" /\ tx'["in"] = <<>>
    <3>1. call' = "clearing" => l = "out" /\ out["in"].method = "none" /\ tx["in"] = <<>>
      BY <2>1 DEF Sent
    <3> QED BY <1>3, <1>4, <3>1 DEF Lnk
  <2> QED BY <2>2, <2>3, <2>4, <2>5, <2>6 DEF Sent, Invite
<1>15. InDialogueRequest'
  <2>1. Tagged
    BY DEF IInv
  <2>2. "fork" \notin env /\ peer'[l].tag # NoTag => CarriesTags(l, a, peer'[l].tag)
    <3>1. s.FromHeader = ses[l].FromHeader
      BY DEF Kept
    <3> QED BY <1>6, <2>1, <3>1, Legs DEF CarriesTags, Tagged
  <2>3. ASSUME NEW k \in Leg
        PROVE  /\ "zero" \notin env /\ out'[k].method \notin Unnumbered => out'[k].cseq > high'[k]
               /\ "fork" \notin env /\ peer'[k].tag # NoTag /\ out'[k].method \in InDialogueMethods
                    => CarriesTags(k, out'[k], peer'[k].tag)
    <3>1. CASE k = l
      BY <1>4, <1>6, <2>2, <3>1 DEF Unnumbered
    <3>2. CASE k = Lnk(l)
      <4>1. /\ "zero" \notin env /\ out[k].method \notin Unnumbered => out[k].cseq > high[k]
            /\ TagsKept(k)
        BY InDialogueLegs DEF IInv
      <4>2. out'[k] = out[k] /\ high'[k] = high[k] /\ peer'[k].tag = peer[k].tag
        BY <1>4, <3>2
      <4>3. CASE call = "established"
        BY <4>1, <4>2, <4>3 DEF TagsKept
      <4>4. CASE call # "established"
        <5>1. k = "in" /\ out[k].method = "none"
          BY <3>2, <4>4 DEF Lnk, IInv, Sent
        <5> QED BY <4>1, <4>2, <5>1 DEF InDialogueMethods
      <4> QED BY <4>3, <4>4
    <3> QED BY <3>1, <3>2, Legs
  <2>4. \A k \in Leg :
          /\ "zero" \notin env' /\ out'[k].method \notin Unnumbered => out'[k].cseq > high'[k]
          /\ TagsKept(k)'
    BY <2>3 DEF TagsKept, CarriesTags
  <2> QED BY <2>4 DEF InDialogueRequest, TagsKept, CarriesTags, InDialogueMethods, Unnumbered
<1>16. FollowsInvite'
  <2>1. FollowsAt(l, out'[l], tx'[l])
    <3>1. a.branch = t.req.branch <=> t.resp = "negative"
      BY ONLY <1>5, <1>6, <1>7, <1>8, <1>9, <1>10
    <3>2. t.resp = "negative" /\ t.req.method = "INVITE" => Follows(a, t.req)
      <4>1. SUFFICES ASSUME t.resp = "negative", t.req.method = "INVITE"
                     PROVE  Follows(a, t.req)
        OBVIOUS
      <4>2. l = "out" /\ i = 1
        BY <1>5, <4>1
      <4>3. Invite(tx["out"][1]) /\ t.req = tx["out"][1].req
        BY <1>5, <1>7, <1>9, <4>2 DEF IInv, Sent
      <4>4. t.req.uri = Dialled /\ t.req.to = Hop(l)
        BY <4>2, <4>3 DEF Invite, Hop
      <4> QED BY <1>6, <4>1, <4>2, <4>4 DEF Follows
    <3>3. a.uri = NoURI => l = "in" /\ t.resp = "negative"
      BY <1>6, Legs DEF NoURI, Dialled
    <3>4. /\ i \in DOMAIN tx'[l] /\ a.cseq = tx'[l][i].req.cseq /\ tx'[l][i].acked
          /\ tx'[l][i].resp # "none"
          /\ tx'[l][i].resp = "negative" <=> a.branch = tx'[l][i].req.branch
          /\ tx'[l][i].resp = "negative" /\ tx'[l][i].req.method = "INVITE"
               => Follows(a, tx'[l][i].req)
          /\ a.uri = NoURI => l = "in" /\ tx'[l][i].resp = "negative"
      <4>1. tx'[l][i].acked /\ t.resp # "none"
        BY <1>3, <1>5
      <4>2. i \in DOMAIN tx'[l] /\ tx'[l][i].req = t.req /\ tx'[l][i].resp = t.resp
        BY <1>7, <1>9
      <4> QED BY ONLY <1>6, <3>1, <3>2, <3>3, <4>1, <4>2
    <3>5. a.method = "ACK" /\ out'[l] = a
      BY <1>4, <1>6
    <3> QED BY ONLY <3>4, <3>5 DEF FollowsAt
  <2>2. FollowsAt(Lnk(l), out'[Lnk(l)], tx'[Lnk(l)])
    BY <1>3, <1>4, FollowsLegs, Legs DEF IInv
  <2>3. \A k \in Leg : FollowsAt(k, out'[k], tx'[k])
    BY <2>1, <2>2, Legs
  <2> QED BY ONLY <2>3 DEF FollowsInvite, FollowsAt
<1> QED BY <1>11, <1>12, <1>13, <1>14, <1>15, <1>16 DEF IInv
-----------------------------------------------------------------------------
(***************************************************************************)
(* Steps that send no request.                                             *)
(***************************************************************************)
LEMMA QuietStep ==
  ASSUME IInv, UNCHANGED <<env, path, proxy, out, high, count>>,
         call' \in Phase, ses' \in [Leg -> SessionType], tx' \in [Leg -> Seq(TransactionType)],
         peer' \in [Leg -> [tag : Tags, contact : Contacts]],
         pend' \in [Leg -> {"none", "ReINVITE", "UPDATE", "toAck"}], resp' \in Tags,
         made' \in [tags : Nat, branches : Nat], made'.branches = made.branches,
         \A k \in Leg : ses'[k].CSeq = ses[k].CSeq,
         \A k \in Leg : tx'[k] = tx[k] \/ (Matches(tx[k], tx'[k]) /\ out[k].method # "ACK"),
         \A k \in Leg : Change(k)' /\ TagsKept(k)',
         Located', Tagged', Sent'
  PROVE  IInv'
<1>1. TypeOK
  BY DEF IInv
<1>2. TypeOK'
  BY <1>1 DEF TypeOK
<1>3. ASSUME NEW k \in Leg
      PROVE  /\ DOMAIN tx'[k] = DOMAIN tx[k]
             /\ \A i \in DOMAIN tx[k] : tx'[k][i].req = tx[k][i].req
  <2>1. tx[k] \in Seq(TransactionType) /\ tx'[k] \in Seq(TransactionType)
    BY <1>1 DEF TypeOK
  <2>2. CASE tx'[k] = tx[k]
    BY ONLY <2>2
  <2>3. CASE Matches(tx[k], tx'[k])
    BY ONLY <2>1, <2>3 DEF Matches
  <2> QED BY <2>2, <2>3
<1>4. \A k \in Leg : Numbered(k)'
  <2>1. ASSUME NEW k \in Leg PROVE Numbered(k)'
    <3>1. Numbered(k)
      BY DEF IInv
    <3>2. ses'[k].CSeq = ses[k].CSeq
      OBVIOUS
    <3>3. out' = out /\ high' = high /\ made'.branches = made.branches
      OBVIOUS
    <3>4. \A i \in DOMAIN tx'[k] :
            tx'[k][i].req.cseq <= ses'[k].CSeq /\ tx'[k][i].req.branch <= made'.branches
      <4>1. DOMAIN tx'[k] = DOMAIN tx[k] /\ \A i \in DOMAIN tx[k] : tx'[k][i].req = tx[k][i].req
        BY <1>3
      <4> QED BY ONLY <3>1, <3>2, <3>3, <4>1 DEF Numbered
    <3> QED BY ONLY <3>1, <3>2, <3>3, <3>4 DEF Numbered
  <2> QED BY <2>1
<1>5. InDialogueRequest'
  <2>1. \A k \in Leg : /\ "zero" \notin env /\ out[k].method \notin Unnumbered => out[k].cseq > high[k]
    BY InDialogueLegs DEF IInv
  <2> QED BY <2>1 DEF InDialogueRequest, TagsKept, CarriesTags, InDialogueMethods, Unnumbered
<1>6. FollowsInvite'
  <2>1. ASSUME NEW k \in Leg PROVE FollowsAt(k, out[k], tx'[k])
    <3>1. FollowsAt(k, out[k], tx[k])
      BY FollowsLegs DEF IInv
    <3>2. CASE tx'[k] = tx[k]
      BY ONLY <3>1, <3>2
    <3>3. CASE Matches(tx[k], tx'[k]) /\ out[k].method # "ACK"
      <4>1. out[k].method = "CANCEL" => tx'[k][1].req = tx[k][1].req
        <5>1. out[k].method = "CANCEL" => tx[k] # <<>>
          BY Legs DEF IInv, Sent
        <5>2. tx[k] # <<>> => 1 \in DOMAIN tx[k]
          BY <1>1 DEF TypeOK
        <5> QED BY ONLY <1>3, <5>1, <5>2, k \in Leg
      <4> QED BY ONLY <3>1, <3>3, <4>1 DEF FollowsAt
    <3> QED BY <3>2, <3>3
  <2> QED BY <2>1 DEF FollowsInvite, FollowsAt
<1> QED BY <1>2, <1>4, <1>5, <1>6 DEF IInv

LEMMA AnsweredFacts ==
  ASSUME IInv, call \in {"calling", "cancelled"}, NEW n \in Nat,
         NEW o, o = Answered(CalleeTag(n))
  PROVE  /\ Kept(ses["out"], o) /\ Known(o, "out", peer["out"].contact)
         /\ o.ToTag # NoTag /\ o.ToHeader # NoTag
         /\ "fork" \notin env /\ n = 1 => o.ToHeader = CalleeTag(1)
<1>1. TypeOK
  BY DEF IInv
<1>2. PICK s \in SessionType, c \in Contacts : s = ses["out"] /\ c = peer["out"].contact
  BY <1>1, Legs DEF TypeOK
<1>3. PICK u : u = UpdateContact(s, "out", c)
  OBVIOUS
<1>4. Known(s, "out", c) \/ Unknown(s)
  BY <1>2 DEF IInv, Located
<1>5. Kept(s, u) /\ u.ToTag = s.ToTag /\ u.ToHeader = s.ToHeader /\ Known(u, "out", c)
  BY ONLY <1>1, <1>3, <1>4, s \in SessionType, c \in Contacts, Legs, UpdateContactFacts
<1>6. o = ResponseTag(u, CalleeTag(n)) /\ u \in SessionType
  BY <1>2, <1>3, <1>5 DEF Answered, Kept
<1>7. PICK t \in Tags \ {NoTag} : t = CalleeTag(n)
  BY TagValues
<1>8. /\ Kept(u, o) /\ Placed(u, o) /\ o.ToTag # NoTag
      /\ u.ToTag = NoTag => o.ToHeader = t
      /\ u.ToTag # NoTag => o.ToHeader = u.ToHeader
  <2>1. o = ResponseTag(u, t) /\ u \in SessionType /\ t \in Tags \ {NoTag}
    BY <1>6, <1>7
  <2> QED BY ONLY <2>1, ResponseTagFacts
<1>9. Kept(s, o)
  BY ONLY <1>5, <1>8 DEF Kept
<1>10. Known(o, "out", c)
  BY ONLY <1>5, <1>8, PlacedKnown
<1>11. s.ToTag = NoTag <=> s.ToHeader = NoTag
  BY <1>2, Legs DEF IInv, Tagged
<1>12. "fork" \notin env => s.ToHeader \in {NoTag, CalleeTag(1)}
  BY <1>2 DEF IInv, Tagged
<1>13. o.ToHeader # NoTag /\ ("fork" \notin env /\ n = 1 => o.ToHeader = CalleeTag(1))
  BY ONLY <1>5, <1>7, <1>8, <1>11, <1>12, t \in Tags \ {NoTag}
<1> QED BY <1>2, <1>8, <1>9, <1>10, <1>13

\* the caller's session, once the response is tagged
LEMMA TaggedFacts ==
  ASSUME IInv, call = "calling", NEW in, in = CreateHeaders(ses["in"], TRUE)
  PROVE  /\ Kept(ses["in"], in) /\ Known(in, "in", peer["in"].contact)
         /\ in.ToTag # NoTag /\ in.ToHeader # NoTag /\ Made(ses["in"], in) \in Nat
<1>1. TypeOK
  BY DEF IInv
<1>2. PICK s \in SessionType, b \in BOOLEAN : s = ses["in"] /\ (b <=> TRUE)
  BY <1>1, Legs DEF TypeOK
<1>3. in = CreateHeaders(s, b)
  BY <1>2, Zenon DEF CreateHeaders
<1>4. /\ Kept(s, in) /\ Placed(s, in) /\ in.ToTag # NoTag
      /\ s.ToTag # NoTag => in = s
      /\ s.ToTag = NoTag => in.ToTag = NoTag \/ in.ToHeader = in.ToTag
      /\ Made(s, in) \in Nat
  BY ONLY <1>1, <1>2, <1>3, CreateHeadersFacts
<1>5. s.ToTag = NoTag <=> s.ToHeader = NoTag
  BY <1>2, Legs DEF IInv, Tagged
<1>6. Known(s, "in", peer["in"].contact)
  BY <1>2 DEF IInv, Located
<1>7. Known(in, "in", peer["in"].contact)
  BY ONLY <1>4, <1>6, PlacedKnown
<1> QED BY ONLY <1>2, <1>4, <1>5, <1>7
\* the sessions and the counter of tags after a relayed response
LEMMA RelayFacts ==
  ASSUME IInv, call = "calling", NEW n \in Nat, RelayResponse(TRUE, Answered(CalleeTag(n)))
  PROVE  /\ ses' \in [Leg -> SessionType] /\ \A k \in Leg : Kept(ses[k], ses'[k])
         /\ \A k \in Leg : Known(ses'[k], k, peer[k].contact)
         /\ \A k \in Leg : ses'[k].ToTag # NoTag /\ ses'[k].ToHeader # NoTag
         /\ "fork" \notin env /\ n = 1 => ses'["out"].ToHeader = CalleeTag(1)
         /\ resp' = ses'["in"].ToHeader /\ resp' \in Tags
         /\ made' \in [tags : Nat, branches : Nat] /\ made'.branches = made.branches
<1>1. TypeOK
  BY DEF IInv
<1>2. PICK in, o : in = CreateHeaders(ses["in"], TRUE) /\ o = Answered(CalleeTag(n))
  OBVIOUS
<1>3. /\ Kept(ses["in"], in) /\ Known(in, "in", peer["in"].contact)
      /\ in.ToTag # NoTag /\ in.ToHeader # NoTag /\ Made(ses["in"], in) \in Nat
  BY <1>2, TaggedFacts
<1>4. /\ Kept(ses["out"], o) /\ Known(o, "out", peer["out"].contact)
      /\ o.ToTag # NoTag /\ o.ToHeader # NoTag
      /\ "fork" \notin env /\ n = 1 => o.ToHeader = CalleeTag(1)
  BY <1>2, AnsweredFacts
<1>5. /\ ses' = [in |-> in, out |-> o] /\ resp' = in.ToHeader
      /\ made' = [made EXCEPT !.tags = Made(ses["in"], in)]
  BY <1>2, Zenon DEF RelayResponse
<1>6. ses'["in"] = in /\ ses'["out"] = o /\ ses' \in [Leg -> SessionType]
  <2>1. in \in SessionType /\ o \in SessionType
    BY <1>3, <1>4 DEF Kept
  <2> QED BY ONLY <1>5, <2>1 DEF Leg
<1>7. in.ToHeader \in Tags
  BY ONLY <1>3 DEF Kept, SessionType
<1>8. made' \in [tags : Nat, branches : Nat] /\ made'.branches = made.branches
  <2>1. made \in [tags : Nat, branches : Nat]
    BY <1>1 DEF TypeOK
  <2> QED BY ONLY <1>3, <1>5, <2>1
<1>9. \A k \in Leg : Kept(ses[k], ses'[k]) /\ Known(ses'[k], k, peer[k].contact)
                     /\ ses'[k].ToTag # NoTag /\ ses'[k].ToHeader # NoTag
  BY ONLY <1>3, <1>4, <1>6 DEF Leg
<1> QED BY ONLY <1>4, <1>5, <1>6, <1>7, <1>8, <1>9

LEMMA Receive18xKeeps ==
  ASSUME IInv, Receive18x
  PROVE  IInv'
<1>1. TypeOK /\ call = "calling" /\ Located /\ Tagged /\ Sent
  BY DEF IInv, Receive18x
<1>2. UNCHANGED <<env, path, proxy, call, tx, out, high, peer, pend, count>>
  BY DEF Receive18x
<1>3. /\ ses' \in [Leg -> SessionType] /\ \A k \in Leg : Kept(ses[k], ses'[k])
      /\ \A k \in Leg : Known(ses'[k], k, peer[k].contact)
      /\ \A k \in Leg : ses'[k].ToTag # NoTag /\ ses'[k].ToHeader # NoTag
      /\ "fork" \notin env => ses'["out"].ToHeader = CalleeTag(1)
      /\ resp' = ses'["in"].ToHeader /\ resp' \in Tags
      /\ made' \in [tags : Nat, branches : Nat] /\ made'.branches = made.branches
  <2>1. PICK n \in Nat : n = 1
    OBVIOUS
  <2>2. RelayResponse(TRUE, Answered(CalleeTag(n)))
    BY <2>1 DEF Receive18x
  <2> QED BY <1>1, <2>1, <2>2, RelayFacts
<1>4. Located'
  BY <1>1, <1>2, <1>3, Legs DEF Located, Known, RecordRoute, Kept
<1>5. Tagged'
  BY ONLY <1>1, <1>2, <1>3, Legs DEF Tagged, Kept
<1>6. Sent'
  BY ONLY <1>1, <1>2 DEF Sent, Invite
<1>7. \A k \in Leg : Change(k)' /\ TagsKept(k)'
  <2>1. ASSUME NEW k \in Leg PROVE Change(k)' /\ TagsKept(k)'
    <3>1. Change(k)
      BY DEF IInv
    <3> QED BY ONLY <1>1, <1>2, <3>1 DEF Change, TagsKept
  <2> QED BY <2>1
<1>8. \A k \in Leg : ses'[k].CSeq = ses[k].CSeq
  BY <1>3 DEF Kept
<1>9. /\ call' \in Phase /\ tx' \in [Leg -> Seq(TransactionType)]
      /\ peer' \in [Leg -> [tag : Tags, contact : Contacts]]
      /\ pend' \in [Leg -> {"none", "ReINVITE", "UPDATE", "toAck"}]
      /\ \A k \in Leg : tx'[k] = tx[k]
  BY ONLY <1>1, <1>2 DEF TypeOK
<1> QED BY <1>2, <1>3, <1>4, <1>5, <1>6, <1>7, <1>8, <1>9, QuietStep

LEMMA Receive200Keeps ==
  ASSUME IInv, NEW n \in 1..2, Receive200(CalleeTag(n))
  PROVE  IInv'
<1>1. TypeOK /\ call = "calling" /\ Located /\ Tagged /\ Sent
  BY DEF IInv, Receive200
<1>2. UNCHANGED <<env, path, proxy, out, high, pend, count>> /\ call' = "answered"
  BY DEF Receive200
<1>3. /\ ses' \in [Leg -> SessionType] /\ \A k \in Leg : Kept(ses[k], ses'[k])
      /\ \A k \in Leg : Known(ses'[k], k, peer[k].contact)
      /\ \A k \in Leg : ses'[k].ToTag # NoTag /\ ses'[k].ToHeader # NoTag
      /\ "fork" \notin env /\ n = 1 => ses'["out"].ToHeader = CalleeTag(1)
      /\ resp' = ses'["in"].ToHeader /\ resp' \in Tags
      /\ made' \in [tags : Nat, branches : Nat] /\ made'.branches = made.branches
  <2>1. RelayResponse(TRUE, Answered(CalleeTag(n)))
    BY Zenon DEF Receive200
  <2>2. n \in Nat
    OBVIOUS
  <2> QED BY ONLY IInv, <1>1, <2>1, <2>2, RelayFacts
<1>4. "fork" \notin env => n = 1
  BY DEF Receive200, CalleeTag
<1>5. /\ peer' \in [Leg -> [tag : Tags, contact : Contacts]]
      /\ peer'["in"].tag = ses'["in"].ToHeader /\ peer'["out"].tag = CalleeTag(n)
      /\ \A k \in Leg : peer'[k].contact = peer[k].contact
  <2>1. peer' = [peer EXCEPT !["in"].tag = resp', !["out"].tag = CalleeTag(n)]
    BY DEF Receive200
  <2>2. peer \in [Leg -> [tag : Tags, contact : Contacts]] /\ CalleeTag(n) \in Tags
    BY <1>1, TagValues DEF TypeOK
  <2> QED BY ONLY <1>3, <2>1, <2>2 DEF Leg
<1>6. /\ tx' \in [Leg -> Seq(TransactionType)] /\ tx'["in"] = tx["in"]
      /\ Matches(tx["out"], tx'["out"]) /\ Len(tx'["out"]) = 1
      /\ tx'["out"][1].resp = "positive" /\ ~tx'["out"][1].acked
      /\ tx'["out"][1].req = tx["out"][1].req
  <2>1. PICK us : us = Response(tx["out"], 1, "positive")
    OBVIOUS
  <2>2. tx' = [tx EXCEPT !["out"] = us] /\ tx \in [Leg -> Seq(TransactionType)]
    BY <1>1, <2>1 DEF Receive200, TypeOK
  <2>3. tx["out"] \in Seq(TransactionType) /\ Len(tx["out"]) = 1 /\ ~tx["out"][1].acked
    BY <1>1, Legs DEF TypeOK, Sent
  <2>4. /\ Matches(tx["out"], us) /\ us[1].resp = "positive"
        /\ \A j \in 1..Len(tx["out"]) : us[j].acked <=> tx["out"][j].acked
    <3>1. 1 \in 1..Len(tx["out"]) /\ "positive" \in {"positive", "negative"}
      BY <2>3
    <3> QED BY ONLY <2>1, <2>3, <3>1, ResponseFacts
  <2>5. us \in Seq(TransactionType) /\ Len(us) = 1 /\ us[1].req = tx["out"][1].req /\ ~us[1].acked
    BY ONLY <2>3, <2>4 DEF Matches
  <2> QED BY ONLY <2>2, <2>4, <2>5 DEF Leg
<1>7. Located'
  BY <1>1, <1>2, <1>3, <1>5, Legs DEF Located, Known, RecordRoute, Kept
<1>8. Tagged'
  BY ONLY <1>1, <1>2, <1>3, <1>4, <1>5, Legs DEF Tagged, Kept
<1>9. Sent'
  <2>1. out["out"].method = "INVITE"
    BY <1>1 DEF Sent
  <2> QED BY ONLY <1>1, <1>2, <1>6, <2>1 DEF Sent, Invite
<1>10. \A k \in Leg : Change(k)' /\ TagsKept(k)'
  <2>1. ASSUME NEW k \in Leg PROVE Change(k)' /\ TagsKept(k)'
    <3>1. Change(k)
      BY DEF IInv
    <3> QED BY ONLY <1>1, <1>2, <3>1 DEF Change, TagsKept
  <2> QED BY <2>1
<1>11. \A k \in Leg : ses'[k].CSeq = ses[k].CSeq
  BY <1>3 DEF Kept
<1>12. call' \in Phase /\ pend' \in [Leg -> {"none", "ReINVITE", "UPDATE", "toAck"}]
  BY ONLY <1>1, <1>2 DEF TypeOK, Phase
<1>13. \A k \in Leg : tx'[k] = tx[k] \/ (Matches(tx[k], tx'[k]) /\ out[k].method # "ACK")
  BY <1>1, <1>6 DEF Leg, Sent
<1> QED BY ONLY IInv, <1>2, <1>3, <1>5, <1>6, <1>7, <1>8, <1>9, <1>10, <1>11, <1>12, <1>13, QuietStep
(***************************************************************************)
(* Within the dialogue: a message from the peer with a new Contact.        *)
(***************************************************************************)
LEMMA MovedFacts ==
  ASSUME IInv, NEW l \in Leg, NEW c \in Contacts, NEW k \in Leg,
         peer' = [peer EXCEPT ![l].contact = c]
  PROVE  /\ peer' \in [Leg -> [tag : Tags, contact : Contacts]]
         /\ peer'[k].tag = peer[k].tag
         /\ peer'[k].contact = IF k = l THEN c ELSE peer[k].contact
<1>1. peer \in [Leg -> [tag : Tags, contact : Contacts]]
  BY DEF IInv, TypeOK
<1> QED BY ONLY <1>1, l \in Leg, c \in Contacts, k \in Leg, peer' = [peer EXCEPT ![l].contact = c]

LEMMA EstablishedFacts ==
  ASSUME IInv, call = "established", NEW k \in Leg
  PROVE  /\ ses[k] \in SessionType /\ ses[k].ToTag # NoTag /\ ses[k].ToHeader # NoTag
         /\ Known(ses[k], k, peer[k].contact) /\ peer[k].contact \in Contacts
         /\ Same(ses[k], ses[k])
<1>1. TypeOK /\ Located /\ Tagged
  BY DEF IInv
<1>2. ses[k] \in SessionType /\ peer[k].contact \in Contacts
  BY <1>1 DEF TypeOK
<1>3. ses[k].ToTag # NoTag /\ ses[k].ToHeader # NoTag
  BY <1>1, Legs DEF Tagged
<1>4. Known(ses[k], k, peer[k].contact)
  BY <1>1, Legs DEF Located
<1> QED BY <1>2, <1>3, <1>4 DEF Same, Kept

LEMMA ReceiveAnswerKeeps ==
  ASSUME IInv, NEW l \in Leg, NEW c \in Contacts, NEW r \in {"positive", "negative"},
         ReceiveAnswer(l, c, r)
  PROVE  IInv'
<1>1. TypeOK /\ call = "established" /\ Located /\ Tagged /\ Sent
  BY DEF IInv, ReceiveAnswer
<1>2. UNCHANGED <<env, path, proxy, call, out, high, resp, made, count>>
  BY DEF ReceiveAnswer
<1>3. PICK o \in Leg : o = Lnk(l) /\ o # l /\ l = Lnk(o)
  BY Legs
<1>4. /\ peer' \in [Leg -> [tag : Tags, contact : Contacts]]
      /\ \A k \in Leg : peer'[k].tag = peer[k].tag
      /\ peer'[o].contact = c /\ peer'[l].contact = peer[l].contact
  <2>1. peer' = [peer EXCEPT ![o].contact = c]
    BY <1>3 DEF ReceiveAnswer
  <2>2. ASSUME NEW k \in Leg
        PROVE  /\ peer' \in [Leg -> [tag : Tags, contact : Contacts]]
               /\ peer'[k].tag = peer[k].tag
               /\ peer'[k].contact = IF k = o THEN c ELSE peer[k].contact
    BY ONLY IInv, o \in Leg, c \in Contacts, k \in Leg, <2>1, MovedFacts, ZenonT(60)
  <2> QED BY <1>3, <2>2
<1>5. PICK s \in SessionType, d \in Contacts :
        /\ s = ses[o] /\ d = peer[o].contact /\ s.ToTag # NoTag /\ s.ToHeader # NoTag
        /\ Known(s, o, d)
  BY ONLY IInv, <1>1, o \in Leg, EstablishedFacts
<1>6. PICK t \in Tags \ {NoTag} : t = CalleeTag(1)
  BY TagValues
<1>7. PICK v : v = ResponseTag(s, t)
  OBVIOUS
<1>8. Kept(s, v) /\ Placed(s, v) /\ v.ToTag # NoTag /\ v.ToHeader = s.ToHeader
  BY ONLY <1>5, <1>7, s \in SessionType, t \in Tags \ {NoTag}, ResponseTagFacts
<1>9. PICK u : u = UpdateContact(v, o, c)
  OBVIOUS
<1>10. v \in SessionType /\ Known(v, o, d)
  BY ONLY <1>5, <1>8, PlacedKnown DEF Kept
<1>11. /\ Kept(v, u) /\ u.ToTag = v.ToTag /\ u.ToHeader = v.ToHeader /\ Known(u, o, c)
  BY ONLY <1>1, <1>9, <1>10, o \in Leg, c \in Contacts, UpdateContactFacts
<1>12. /\ ses' \in [Leg -> SessionType] /\ ses'[o] = u /\ ses'[l] = ses[l]
  <2>1. ses' = [ses EXCEPT ![o] = u]
    BY <1>3, <1>5, <1>6, <1>7, <1>9 DEF ReceiveAnswer
  <2>2. ses \in [Leg -> SessionType] /\ u \in SessionType
    BY <1>1, <1>11 DEF TypeOK, Kept
  <2> QED BY ONLY <1>3, <2>1, <2>2, o \in Leg, l \in Leg
<1>13. \A k \in Leg : k = l \/ k = o
  BY <1>3, Legs
<1>14. \A k \in Leg : /\ Kept(ses[k], ses'[k]) /\ ses'[k].ToHeader = ses[k].ToHeader
                      /\ ses'[k].ToTag # NoTag /\ ses'[k].ToHeader # NoTag
                      /\ Known(ses'[k], k, peer'[k].contact)
  <2>1. /\ Kept(ses[o], ses'[o]) /\ ses'[o].ToHeader = ses[o].ToHeader
        /\ ses'[o].ToTag # NoTag /\ ses'[o].ToHeader # NoTag
        /\ Known(ses'[o], o, peer'[o].contact)
    BY ONLY <1>4, <1>5, <1>8, <1>11, <1>12 DEF Kept
  <2>2. /\ ses[l] \in SessionType /\ ses[l].ToTag # NoTag /\ ses[l].ToHeader # NoTag
        /\ Known(ses[l], l, peer[l].contact)
    BY ONLY IInv, <1>1, l \in Leg, EstablishedFacts
  <2>3. /\ Kept(ses[l], ses'[l]) /\ ses'[l].ToHeader = ses[l].ToHeader
        /\ ses'[l].ToTag # NoTag /\ ses'[l].ToHeader # NoTag
        /\ Known(ses'[l], l, peer'[l].contact)
    BY ONLY <1>4, <1>12, <2>2 DEF Kept
  <2> QED BY ONLY <1>13, <2>1, <2>3
<1>15. Located'
  BY ONLY <1>1, <1>2, <1>14, Legs DEF Located, Known, RecordRoute, Kept
<1>16. Tagged'
  BY ONLY <1>1, <1>2, <1>4, <1>14, Legs DEF Tagged, Kept
<1>17. Change(l) /\ Change(o)
  BY DEF IInv
<1>18. /\ tx' \in [Leg -> Seq(TransactionType)] /\ tx'[l] = tx[l]
       /\ \/ tx'[o] = tx[o] /\ pend[l] = "UPDATE"
          \/ /\ Matches(tx[o], tx'[o]) /\ out[o].method # "ACK"
             /\ pend[l] = "ReINVITE" /\ tx[o] # <<>>
             /\ tx'[o][Len(tx[o])].resp = r /\ tx'[o][Len(tx[o])].req.method = "ReINVITE"
  <2>1. tx \in [Leg -> Seq(TransactionType)] /\ tx[o] \in Seq(TransactionType)
    BY <1>1 DEF TypeOK
  <2>2. CASE pend[l] = "ReINVITE"
    <3>1. /\ tx[o] # <<>> /\ tx[o][Len(tx[o])].req.method = "ReINVITE" /\ out[o].method # "ACK"
      BY <1>3, <1>17, <2>2 DEF Change
    <3>2. PICK n \in 1..Len(tx[o]) : n = Len(tx[o])
      BY ONLY <2>1, <3>1
    <3>3. PICK us : us = Response(tx[o], n, r)
      OBVIOUS
    <3>4. Matches(tx[o], us) /\ us[n].resp = r
      BY ONLY <2>1, <3>3, n \in 1..Len(tx[o]), r \in {"positive", "negative"}, ResponseFacts
    <3>5. tx' = [tx EXCEPT ![o] = us]
      BY <1>3, <2>2, <3>2, <3>3 DEF ReceiveAnswer
    <3>6. us \in Seq(TransactionType) /\ us[n].req.method = "ReINVITE"
      BY ONLY <3>1, <3>2, <3>4 DEF Matches
    <3>7. tx' \in [Leg -> Seq(TransactionType)] /\ tx'[l] = tx[l] /\ tx'[o] = us
      BY ONLY <1>3, <2>1, <3>5, <3>6, l \in Leg, o \in Leg
    <3> QED BY ONLY <2>2, <3>1, <3>2, <3>4, <3>6, <3>7
  <2>3. CASE pend[l] = "UPDATE"
    BY <2>1, <2>3 DEF ReceiveAnswer
  <2> QED BY <2>2, <2>3 DEF ReceiveAnswer
<1>19. /\ pend' \in [Leg -> {"none", "ReINVITE", "UPDATE", "toAck"}] /\ pend'[o] = pend[o]
       /\ pend[l] = "UPDATE" => pend'[l] = "none"
       /\ pend[l] = "ReINVITE" => pend'[l] = "toAck"
  <2>1. pend \in [Leg -> {"none", "ReINVITE", "UPDATE", "toAck"}]
    BY <1>1 DEF TypeOK
  <2>2. /\ pend[l] = "UPDATE" => pend' = [pend EXCEPT ![l] = "none"]
        /\ pend[l] = "ReINVITE" => pend' = [pend EXCEPT ![l] = "toAck"]
        /\ pend[l] \in {"UPDATE", "ReINVITE"}
    BY DEF ReceiveAnswer
  <2> QED BY ONLY <1>3, <2>1, <2>2, l \in Leg, o \in Leg
<1>20. Change(l)'
  <2>1. CASE pend[l] = "UPDATE"
    BY ONLY <1>19, <2>1 DEF Change
  <2>2. CASE pend[l] = "ReINVITE"
    <3>1. Len(tx'[o]) = Len(tx[o]) /\ tx'[o] # <<>> /\ r # "none"
      BY ONLY <1>1, <1>18, <2>2, o \in Leg, r \in {"positive", "negative"} DEF Matches, TypeOK
    <3> QED BY ONLY <1>1, <1>2, <1>3, <1>18, <1>19, <2>2, <3>1 DEF Change
  <2> QED BY <2>1, <2>2 DEF ReceiveAnswer
<1>21. Change(o)'
  BY ONLY <1>2, <1>3, <1>17, <1>18, <1>19 DEF Change
<1>22. \A k \in Leg : tx'[k] = tx[k] \/ (Matches(tx[k], tx'[k]) /\ out[k].method # "ACK")
  BY ONLY <1>13, <1>18
<1>23. Sent'
  <2>1. ASSUME NEW k \in Leg
        PROVE  /\ DOMAIN tx'[k] = DOMAIN tx[k]
               /\ tx[k] # <<>> => tx'[k] # <<>> /\ tx'[k][1].req = tx[k][1].req
               /\ \A i \in DOMAIN tx[k] : tx'[k][i].req = tx[k][i].req
    <3>1. tx[k] \in Seq(TransactionType)
      BY <1>1 DEF TypeOK
    <3>2. CASE tx'[k] = tx[k]
      BY ONLY <3>2
    <3>3. CASE Matches(tx[k], tx'[k])
      BY ONLY <3>1, <3>3 DEF Matches
    <3> QED BY <1>22, <3>2, <3>3
  <2>2. tx["out"] # <<>> /\ Invite(tx["out"][1])
    BY <1>1 DEF Sent
  <2>3. tx'["out"] # <<>> /\ Invite(tx["out"][1])'
    BY ONLY <1>2, <2>1, <2>2, Legs DEF Invite
  <2>4. \A i \in DOMAIN tx'["in"] : tx'["in"][i].req.method = "ReINVITE"
    BY ONLY <1>1, <2>1, Legs DEF Sent
  <2> QED BY ONLY <1>1, <1>2, <2>3, <2>4 DEF Sent
<1>24. \A k \in Leg : Change(k)' /\ TagsKept(k)'
  <2>1. ASSUME NEW k \in Leg PROVE TagsKept(k)'
    <3>1. TagsKept(k)
      BY InDialogueLegs DEF IInv
    <3> QED BY ONLY <1>2, <1>4, <3>1, k \in Leg DEF TagsKept, CarriesTags
  <2> QED BY ONLY <1>13, <1>20, <1>21, <2>1
<1>25. \A k \in Leg : ses'[k].CSeq = ses[k].CSeq
  BY <1>14 DEF Kept
<1>26. /\ call' \in Phase /\ resp' \in Tags
       /\ made' \in [tags : Nat, branches : Nat] /\ made'.branches = made.branches
  BY ONLY <1>1, <1>2 DEF TypeOK
<1> QED BY ONLY IInv, <1>2, <1>4, <1>12, <1>15, <1>16, <1>18, <1>19, <1>22, <1>23, <1>24, <1>25, <1>26,
        QuietStep
-----------------------------------------------------------------------------
(***************************************************************************)
(* INVITE and CANCEL.                                                      *)
(***************************************************************************)
\* before the call is established nothing is relayed, and the caller gets no request
LEMMA EarlyFacts ==
  ASSUME IInv, call \notin {"established", "over"}
  PROVE  /\ \A k \in Leg : pend[k] = "none"
         /\ out["in"].method = "none" /\ tx["in"] = <<>>
<1>1. \A k \in Leg : Change(k)
  BY DEF IInv
<1>2. Sent
  BY DEF IInv
<1> QED BY <1>1, <1>2 DEF Change, Sent

LEMMA RejectINVITEKeeps ==
  ASSUME IInv, call = "new", call' = "over",
         UNCHANGED <<env, path, proxy, ses, tx, out, high, peer, pend, resp, made, count>>
  PROVE  IInv'
<1>1. TypeOK /\ Tagged /\ Sent
  BY DEF IInv
<1>2. \A k \in Leg : out[k].method = "none"
  BY <1>1 DEF Leg, Sent
<1>3. \A k \in Leg : Change(k)' /\ TagsKept(k)'
  <2>1. \A k \in Leg : Change(k)
    BY DEF IInv
  <2> QED BY <1>2, <2>1 DEF Change, TagsKept, InDialogueMethods
<1>4. Located' /\ Tagged' /\ Sent'
  <2>1. Located'
    BY DEF Located
  <2>2. Tagged'
    BY <1>1 DEF Tagged
  <2>3. Sent'
    BY <1>1 DEF Sent, Invite
  <2> QED BY <2>1, <2>2, <2>3
<1>5. /\ call' \in Phase /\ ses' \in [Leg -> SessionType] /\ tx' \in [Leg -> Seq(TransactionType)]
      /\ peer' \in [Leg -> [tag : Tags, contact : Contacts]]
      /\ pend' \in [Leg -> {"none", "ReINVITE", "UPDATE", "toAck"}] /\ resp' \in Tags
      /\ made' \in [tags : Nat, branches : Nat] /\ made'.branches = made.branches
      /\ \A k \in Leg : ses'[k].CSeq = ses[k].CSeq /\ tx'[k] = tx[k]
  BY <1>1 DEF TypeOK, Phase
<1> QED BY <1>3, <1>4, <1>5, QuietStep

(***************************************************************************)
(* A step before the call is established, in which the request r is sent   *)
(* to the callee: the INVITE, or its CANCEL.                               *)
(***************************************************************************)
LEMMA EarlyStep ==
  ASSUME IInv, NEW r \in RequestType, Emit("out", r), r.method \in {"INVITE", "CANCEL"},
         call \notin {"established", "over"}, call' \in {"calling", "cancelled", "over"},
         ses' \in [Leg -> SessionType], ses'["in"].CSeq = ses["in"].CSeq,
         ses'["out"].CSeq >= ses["out"].CSeq, r.cseq <= ses'["out"].CSeq,
         tx' \in [Leg -> Seq(TransactionType)], tx'["in"] = tx["in"],
         \A i \in DOMAIN tx'["out"] : /\ tx'["out"][i].req.cseq <= ses'["out"].CSeq
                                      /\ tx'["out"][i].req.branch <= made'.branches,
         r.method = "CANCEL" => Follows(r, tx'["out"][1].req),
         made' \in [tags : Nat, branches : Nat], resp' \in Tags,
         UNCHANGED <<env, path, proxy, peer, pend, count>>, Located', Tagged', Sent'
  PROVE  IInv'
<1>1. TypeOK
  BY DEF IInv
<1>2. /\ \A k \in Leg : pend[k] = "none"
      /\ out["in"].method = "none" /\ tx["in"] = <<>>
  BY EarlyFacts
<1>3. /\ out' \in [Leg -> RequestType] /\ high' \in [Leg -> Nat]
      /\ out'["out"] = r /\ out'["in"] = out["in"] /\ high'["in"] = high["in"]
      /\ out["out"].cseq \in Nat /\ high["out"] \in Nat
      /\ high'["out"] = high["out"] \/ high'["out"] = out["out"].cseq
  <2>1. PICK l \in Leg : l = "out" /\ Lnk(l) = "in"
    BY DEF Leg, Lnk
  <2>2. Emit(l, r)
    BY <2>1
  <2>3. /\ out' \in [Leg -> RequestType] /\ high' \in [Leg -> Nat]
        /\ out'[l] = r /\ out'[Lnk(l)] = out[Lnk(l)] /\ high'[Lnk(l)] = high[Lnk(l)]
        /\ out[l].cseq \in Nat /\ high[l] \in Nat
        /\ high'[l] = high[l] \/ high'[l] = out[l].cseq
    BY ONLY <1>1, <2>2, l \in Leg, r \in RequestType, EmitFacts
  <2> QED BY <2>1, <2>3
<1>4. TypeOK'
  BY <1>1, <1>3 DEF TypeOK, Phase
<1>5. \A k \in Leg : Numbered(k)'
  <2>1. Numbered("in")'
    <3>1. Numbered("in")
      BY Legs DEF IInv
    <3>2. tx'["in"] = <<>>
      BY <1>2
    <3> QED BY <1>3, <3>1, <3>2 DEF Numbered
  <2>2. Numbered("out")'
    <3>1. out["out"].cseq <= ses["out"].CSeq /\ high["out"] <= ses["out"].CSeq
      BY Legs DEF IInv, Numbered
    <3>2. ses["out"].CSeq \in Nat /\ ses'["out"].CSeq \in Nat
      BY <1>1, Legs DEF TypeOK, SessionType
    <3>3. high'["out"] <= ses'["out"].CSeq
      BY <1>3, <3>1, <3>2, SMTT(30)
    <3> QED BY <1>3, <3>3 DEF Numbered
  <2> QED BY <2>1, <2>2 DEF Leg
<1>6. \A k \in Leg : Change(k)'
  BY <1>2 DEF Change
<1>7. InDialogueRequest'
  BY <1>2, <1>3 DEF InDialogueRequest, Leg
<1>8. FollowsInvite'
  BY <1>2, <1>3 DEF FollowsInvite, Follows, Leg
<1> QED BY <1>4, <1>5, <1>6, <1>7, <1>8 DEF IInv

LEMMA AcceptINVITEKeeps ==
  ASSUME IInv, NEW hops \in {1, 2}, ReceiveINVITE(hops), ~(hops <= 1)
  PROVE  IInv'
<1>1. TypeOK /\ call = "new" /\ Tagged /\ Located /\ Sent
  BY DEF IInv, ReceiveINVITE
<1>2. ses["in"] = Session("in") /\ ses["out"] = Session("out")
  BY <1>1, Legs DEF Located
<1>3. PICK cseq \in Draw("out") :
        LET in == UpdateContact(ses["in"], "in", peer["in"].contact)
            r == [NoRequest EXCEPT !.method = "INVITE", !.cseq = cseq, !.branch = Branch,
                    !.to = Address(ses["out"], "out", FALSE), !.hops = hops - 1,
                    !.local = EgressTag] IN
        /\ call' = "calling"
        /\ ses' = [in |-> in,
                   out |-> [ses["out"] EXCEPT !.CSeq = cseq, !.RemoteURI = Dialled,
                                              !.RemoteContactURI = Dialled]]
        /\ tx' = [tx EXCEPT !["out"] = <<Transaction(r)>>]
        /\ Emit("out", r)
        /\ made' = [made EXCEPT !.branches = Branch]
  BY DEF ReceiveINVITE
<1>4. UNCHANGED <<env, path, proxy, peer, pend, resp, count>>
  BY DEF ReceiveINVITE
<1>5. PICK in : in = UpdateContact(ses["in"], "in", peer["in"].contact)
  OBVIOUS
<1>6. PICK o : o = [ses["out"] EXCEPT !.CSeq = cseq, !.RemoteURI = Dialled,
                                      !.RemoteContactURI = Dialled]
  OBVIOUS
<1>7. cseq \in Nat
  BY DialogueAssumption DEF Draw
<1>8. PICK b \in Nat : b = Branch /\ b = made.branches + 1
  BY <1>1 DEF TypeOK, Branch
<1>9. PICK r : r = [NoRequest EXCEPT !.method = "INVITE", !.cseq = cseq, !.branch = b,
                      !.to = Address(ses["out"], "out", FALSE), !.hops = hops - 1,
                      !.local = EgressTag]
  OBVIOUS
<1>10. /\ ses' = [in |-> in, out |-> o] /\ tx' = [tx EXCEPT !["out"] = <<Transaction(r)>>]
       /\ Emit("out", r) /\ made' = [made EXCEPT !.branches = b] /\ call' = "calling"
  BY <1>3, <1>5, <1>6, <1>8, <1>9
<1>11. Address(ses["out"], "out", FALSE) = (IF proxy THEN "egress" ELSE "hop")
  BY <1>2 DEF Address, Session
<1>12. /\ r \in RequestType /\ r.method = "INVITE" /\ r.cseq = cseq /\ r.branch = b
       /\ r.uri = Dialled /\ r.to = IF proxy THEN "egress" ELSE "hop"
  <2>1. PICK a \in URI \cup {"hop", "egress"} : a = Address(ses["out"], "out", FALSE)
    BY <1>11
  <2>2. r = [method |-> "INVITE", cseq |-> cseq, branch |-> b, uri |-> Dialled, to |-> a,
             routes |-> <<>>, hops |-> hops - 1, local |-> EgressTag, remote |-> NoTag]
    BY <1>9, <2>1 DEF NoRequest
  <2>3. <<>> \in Seq(Proxy) /\ hops - 1 \in Int /\ Dialled \in URI /\ "INVITE" \in Method
    BY DEF URI, Method
  <2>4. r \in RequestType
    BY ONLY <1>7, <2>2, <2>3, b \in Nat, a \in URI \cup {"hop", "egress"}, TagValues DEF RequestType
  <2> QED BY ONLY <1>11, <2>1, <2>2, <2>4
<1>13. /\ in \in SessionType /\ in.CSeq = 0 /\ in.FromHeader = CallerTag /\ in.RemoteURI = NoURI
       /\ in.ToTag = NoTag /\ in.ToHeader = NoTag
       /\ Known(in, "in", peer["in"].contact)
  <2>1. PICK s \in SessionType, c \in Contacts : s = ses["in"] /\ c = peer["in"].contact
    BY <1>1, Legs DEF TypeOK
  <2>2. in = UpdateContact(s, "in", c) /\ Unknown(s)
    BY <1>2, <1>5, <2>1 DEF Unknown, Session
  <2>3. /\ Kept(s, in) /\ in.ToTag = s.ToTag /\ in.ToHeader = s.ToHeader /\ Known(in, "in", c)
    BY ONLY <1>1, <2>2, s \in SessionType, c \in Contacts, Legs, UpdateContactFacts
  <2> QED BY <1>2, <2>1, <2>3 DEF Kept, Session
<1>14. /\ o \in SessionType /\ o.CSeq = cseq /\ o.FromHeader = EgressTag /\ o.RemoteURI = Dialled
       /\ o.ToTag = NoTag /\ o.ToHeader = NoTag /\ Unknown(o)
  <2>1. PICK s \in SessionType : s = ses["out"]
    BY <1>1, Legs DEF TypeOK
  <2>2. o = [s EXCEPT !.CSeq = cseq, !.RemoteURI = Dialled, !.RemoteContactURI = Dialled]
    BY <1>6, <2>1
  <2>3. /\ o \in SessionType /\ o.CSeq = cseq /\ o.RemoteURI = Dialled
        /\ o.FromHeader = s.FromHeader /\ o.ToTag = s.ToTag /\ o.ToHeader = s.ToHeader
        /\ o.RecordRoutes = s.RecordRoutes /\ o.RemoteContactUDP = s.RemoteContactUDP
    BY ONLY <1>7, <2>2, s \in SessionType DEF SessionType, URI
  <2>4. /\ s.FromHeader = EgressTag /\ s.ToTag = NoTag /\ s.ToHeader = NoTag
        /\ s.RecordRoutes = <<>> /\ s.RemoteContactUDP = NoURI
    BY ONLY <1>2, <2>1 DEF Session
  <2> QED BY ONLY <2>3, <2>4 DEF Unknown
<1>15. ses' \in [Leg -> SessionType] /\ ses'["in"] = in /\ ses'["out"] = o
  BY ONLY <1>10, <1>13, <1>14 DEF Leg
<1>16. PICK t \in TransactionType : t = Transaction(r) /\ t.req = r /\ ~t.acked
  BY ONLY <1>12, NewTransaction
<1>17. /\ tx' \in [Leg -> Seq(TransactionType)] /\ tx'["in"] = tx["in"] /\ tx'["out"] = <<t>>
  BY <1>1, <1>10, <1>16 DEF TypeOK, Leg
<1>18. made' \in [tags : Nat, branches : Nat] /\ made'.branches = b
  BY <1>1, <1>10 DEF TypeOK
<1>19. Located'
  BY ONLY <1>4, <1>10, <1>13, <1>14, <1>15 DEF Located, Known, Unknown, RecordRoute
<1>20. Tagged'
  BY ONLY <1>1, <1>4, <1>10, <1>13, <1>14, <1>15, Legs DEF Tagged
<1>21. out'["out"] = r /\ out'["in"] = out["in"]
  <2>1. out \in [Leg -> RequestType] /\ out' = [out EXCEPT !["out"] = r]
    BY <1>1, <1>10 DEF Emit, TypeOK
  <2> QED BY <2>1 DEF Leg
<1>22. Len(<<t>>) = 1 /\ <<t>>[1] = t /\ <<t>> # <<>> /\ DOMAIN <<t>> = {1}
  OBVIOUS
<1>23. Sent'
  BY ONLY <1>1, <1>4, <1>10, <1>12, <1>16, <1>17, <1>21, <1>22 DEF Sent, Invite
<1>24. /\ ses["in"].CSeq = 0 /\ ses["out"].CSeq = 0
  BY <1>2 DEF Session
<1>25. \A i \in DOMAIN tx'["out"] : /\ tx'["out"][i].req.cseq <= ses'["out"].CSeq
                                    /\ tx'["out"][i].req.branch <= made'.branches
  BY ONLY <1>7, <1>12, <1>14, <1>15, <1>16, <1>17, <1>18, <1>22, b \in Nat
<1>26. /\ r \in RequestType /\ Emit("out", r) /\ r.method \in {"INVITE", "CANCEL"}
       /\ r.method # "CANCEL"
       /\ call \notin {"established", "over"} /\ call' \in {"calling", "cancelled", "over"}
       /\ ses'["in"].CSeq = ses["in"].CSeq /\ ses'["out"].CSeq >= ses["out"].CSeq
       /\ r.cseq <= ses'["out"].CSeq /\ resp' \in Tags
  <2>1. resp \in Tags
    BY <1>1 DEF TypeOK
  <2> QED BY ONLY <1>1, <1>4, <1>7, <1>10, <1>12, <1>13, <1>14, <1>15, <1>24, <2>1
<1> QED BY ONLY IInv, <1>4, <1>15, <1>17, <1>18, <1>19, <1>20, <1>23, <1>25, <1>26, EarlyStep
LEMMA ReceiveCANCELKeeps ==
  ASSUME IInv, ReceiveCANCEL
  PROVE  IInv'
<1>1. TypeOK /\ call \in {"calling", "answered"} /\ Tagged /\ Located /\ Sent
  BY DEF IInv, ReceiveCANCEL
<1>2. UNCHANGED <<env, path, proxy, tx, peer, pend, count>>
  BY DEF ReceiveCANCEL
<1>3. /\ call = "calling" => call' = "cancelled"
      /\ call = "answered" => call' = "over"
  BY DEF ReceiveCANCEL
<1>4. PICK s \in SessionType, z \in Tags, b \in BOOLEAN :
        s = ses["in"] /\ z = NoTag /\ (b <=> TRUE)
  BY <1>1, Legs, TagValues DEF TypeOK
<1>5. PICK v : v = Incoming(s, z)
  OBVIOUS
<1>6. Kept(s, v) /\ Placed(s, v) /\ v.ToTag = NoTag /\ v.ToHeader = s.ToHeader
  BY ONLY <1>4, <1>5, s \in SessionType, z \in Tags, IncomingFacts
<1>7. PICK in : in = CreateHeaders(v, b)
  OBVIOUS
<1>8. /\ Kept(v, in) /\ Placed(v, in) /\ in.ToTag # NoTag /\ in.ToHeader = in.ToTag
  <2>1. v \in SessionType
    BY <1>6 DEF Kept
  <2> QED BY ONLY <1>1, <1>4, <1>6, <1>7, <2>1, b \in BOOLEAN, CreateHeadersFacts
<1>9. /\ ses' = [ses EXCEPT !["in"] = in] /\ made' = [made EXCEPT !.tags = Made(ses["in"], in)]
      /\ resp' = IF call = "calling" THEN in.ToHeader ELSE resp
  <2>1. in = CreateHeaders(Incoming(ses["in"], NoTag), TRUE)
    BY <1>4, <1>5, <1>7, Zenon
  <2> QED BY <2>1, Zenon DEF ReceiveCANCEL
<1>10. Kept(s, in) /\ Placed(s, in)
  BY ONLY <1>6, <1>8 DEF Kept, Placed
<1>11. ses' \in [Leg -> SessionType] /\ ses'["in"] = in /\ ses'["out"] = ses["out"]
  <2>1. ses \in [Leg -> SessionType] /\ in \in SessionType
    BY <1>1, <1>10 DEF TypeOK, Kept
  <2> QED BY ONLY <1>9, <2>1 DEF Leg
<1>12. resp' \in Tags
  <2>1. in.ToHeader \in Tags /\ resp \in Tags
    BY ONLY <1>1, <1>10 DEF TypeOK, Kept, SessionType
  <2> QED BY ONLY <1>9, <2>1
<1>13. made' \in [tags : Nat, branches : Nat] /\ made'.branches = made.branches
  <2>1. made \in [tags : Nat, branches : Nat] /\ Made(ses["in"], in) \in Nat
    BY ONLY <1>1 DEF TypeOK, Made
  <2> QED BY ONLY <1>9, <2>1
<1>14. PICK q \in TransactionType :
         /\ q = tx["out"][1] /\ Invite(q) /\ q.req \in RequestType
         /\ q.req.cseq <= ses["out"].CSeq /\ tx["out"] # <<>> /\ tx["out"] \in Seq(TransactionType)
  <2>1. tx["out"] # <<>> /\ Invite(tx["out"][1]) /\ tx["out"] \in Seq(TransactionType)
    BY <1>1, Legs DEF Sent, TypeOK
  <2>2. 1 \in DOMAIN tx["out"]
    BY <2>1
  <2>3. tx["out"][1] \in TransactionType /\ tx["out"][1].req \in RequestType
    BY ONLY <1>1, <2>2, Legs, TransactionFacts
  <2>4. Numbered("out")
    BY Legs DEF IInv
  <2> QED BY <2>1, <2>2, <2>3, <2>4 DEF Numbered
<1>15. PICK u \in SessionType : u = ses["out"] /\ u.RemoteURI = Dialled
  BY <1>1, Legs DEF TypeOK, Located
<1>16. PICK r : r = CancelFor(u, "out", q)
  OBVIOUS
<1>17. /\ r \in RequestType /\ r.method = "CANCEL" /\ r.cseq = q.req.cseq /\ Follows(r, q.req)
  <2>1. PICK m \in Method, n \in Nat, d \in Nat, h \in Int :
          m = "CANCEL" /\ n = q.req.cseq /\ d = q.req.branch /\ h = q.req.hops
    BY <1>14 DEF Method, RequestType
  <2>2. PICK l \in Leg : l = "out"
    BY DEF Leg
  <2>3. r = Request(u, l, m, n, d, TRUE, h)
    BY <1>16, <2>1, <2>2, Zenon DEF CancelFor
  <2>4. r \in RequestType
    BY ONLY <1>1, <2>3, l \in Leg, u \in SessionType, m \in Method, n \in Nat, d \in Nat,
       h \in Int, InviteRequest
  <2>5. r.method = m /\ r.cseq = n /\ r.branch = d /\ r.uri = u.RemoteURI /\ r.to = Hop("out")
    BY ONLY <2>2, <2>3 DEF Request, Address, Hop
  <2>6. q.req.uri = Dialled /\ q.req.to = Hop("out")
    BY ONLY <1>14 DEF Invite, Hop
  <2> QED BY ONLY <1>15, <2>1, <2>4, <2>5, <2>6 DEF Follows
<1>18. Emit("out", r)
  BY <1>14, <1>15, <1>16 DEF ReceiveCANCEL
<1>19. Located'
  <2>1. Known(s, "in", peer["in"].contact) /\ s.RemoteURI = NoURI /\ ses["out"].RemoteURI = Dialled
    BY <1>1, <1>4 DEF Located
  <2>2. Known(in, "in", peer["in"].contact) /\ in.RemoteURI = NoURI
    BY ONLY <1>10, <2>1, PlacedKnown DEF Kept
  <2> QED BY ONLY <1>1, <1>2, <1>3, <1>11, <2>1, <2>2 DEF Located, Known, Unknown, RecordRoute
<1>20. Tagged'
  <2>1. in.FromHeader = CallerTag
    BY ONLY <1>1, <1>4, <1>10 DEF Tagged, Kept
  <2> QED BY ONLY <1>1, <1>2, <1>3, <1>8, <1>11, <2>1, Legs DEF Tagged, Leg
<1>21. out'["out"] = r /\ out'["in"] = out["in"]
  <2>1. out \in [Leg -> RequestType] /\ out' = [out EXCEPT !["out"] = r]
    BY <1>1, <1>18 DEF Emit, TypeOK
  <2> QED BY <2>1 DEF Leg
<1>22. Sent'
  BY ONLY <1>1, <1>2, <1>3, <1>14, <1>17, <1>21 DEF Sent, Invite
<1>23. \A i \in DOMAIN tx'["out"] : /\ tx'["out"][i].req.cseq <= ses'["out"].CSeq
                                    /\ tx'["out"][i].req.branch <= made'.branches
  <2>1. Numbered("out")
    BY Legs DEF IInv
  <2> QED BY ONLY <1>2, <1>11, <1>13, <2>1 DEF Numbered
<1>24. /\ r.method \in {"INVITE", "CANCEL"} /\ Follows(r, tx'["out"][1].req)
       /\ call \notin {"established", "over"} /\ call' \in {"calling", "cancelled", "over"}
       /\ ses'["in"].CSeq = ses["in"].CSeq /\ ses'["out"].CSeq >= ses["out"].CSeq
       /\ r.cseq <= ses'["out"].CSeq
       /\ tx' \in [Leg -> Seq(TransactionType)] /\ tx'["in"] = tx["in"]
  <2>1. ses["out"].CSeq \in Nat /\ tx \in [Leg -> Seq(TransactionType)]
    BY ONLY <1>1, Legs DEF TypeOK, SessionType
  <2>2. in.CSeq = s.CSeq
    BY ONLY <1>10 DEF Kept
  <2> QED BY ONLY <1>1, <1>2, <1>3, <1>4, <1>11, <1>14, <1>17, <2>1, <2>2
<1> QED BY ONLY IInv, <1>2, <1>11, <1>12, <1>13, <1>17, <1>18, <1>19, <1>20, <1>22, <1>23, <1>24,
        EarlyStep
-----------------------------------------------------------------------------
(***************************************************************************)
(* What acknowledges the INVITE, and a re-INVITE.                          *)
(***************************************************************************)
LEMMA KnownTarget ==
  ASSUME NEW s, NEW l, NEW c \in Contacts, Known(s, l, c)
  PROVE  s.RemoteContactURI # NoURI
  BY DialogueAssumption DEF Known

LEMMA InviteAnswered ==
  ASSUME IInv, call \in {"calling", "cancelled"}, NEW r \in {"positive", "negative"},
         NEW us, us = Response(tx["out"], 1, r)
  PROVE  /\ us \in Seq(TransactionType) /\ 1 \in 1..Len(us) /\ us[1].resp = r
         /\ Matches(tx["out"], us)
<1>1. TypeOK /\ Sent
  BY DEF IInv
<1>2. tx["out"] \in Seq(TransactionType) /\ Len(tx["out"]) = 1
  BY <1>1, Legs DEF TypeOK, Sent
<1>3. PICK i \in 1..Len(tx["out"]) : i = 1
  BY <1>2
<1>4. Matches(tx["out"], us) /\ us[1].resp = r
  BY <1>2, <1>3, ResponseFacts
<1> QED BY ONLY <1>2, <1>4 DEF Matches

\* the callee's answer to the INVITE, acknowledged at once
LEMMA AnswerStep ==
  ASSUME IInv, call \in {"calling", "cancelled"}, NEW r \in {"positive", "negative"}, NEW o,
         o = Answered(CalleeTag(1)), SendACK(o, "out", 1, Response(tx["out"], 1, r)),
         ses' = [in |-> ses["in"], out |-> o],
         \/ peer' = peer /\ r = "negative" /\ call' = "over"
         \/ peer' = [peer EXCEPT !["out"].tag = CalleeTag(1)] /\ call' = "clearing",
         UNCHANGED <<env, path, proxy, pend, count>>, resp' \in Tags
  PROVE  IInv'
<1>1. TypeOK /\ Located /\ Tagged
  BY DEF IInv
<1>2. /\ Kept(ses["out"], o) /\ Known(o, "out", peer["out"].contact)
      /\ o.ToTag # NoTag /\ o.ToHeader # NoTag
      /\ "fork" \notin env => o.ToHeader = CalleeTag(1)
  <2>1. PICK n \in Nat : n = 1
    OBVIOUS
  <2>2. o = Answered(CalleeTag(n))
    BY <2>1
  <2>3. call \in {"calling", "cancelled"}
    OBVIOUS
  <2> QED BY ONLY IInv, <2>1, <2>2, <2>3, AnsweredFacts
<1>3. PICK us : us = Response(tx["out"], 1, r)
  OBVIOUS
<1>4. /\ us \in Seq(TransactionType) /\ 1 \in 1..Len(us) /\ us[1].resp = r
      /\ Matches(tx["out"], us)
  BY <1>3, InviteAnswered
<1>5. ses["in"] \in SessionType /\ o \in SessionType
  BY <1>1, <1>2, Legs DEF TypeOK, Kept
<1>6. /\ ses' \in [Leg -> SessionType] /\ ses'["in"] = ses["in"] /\ ses'["out"] = o
  BY <1>5 DEF Leg
<1>7. \A k \in Leg : Kept(ses[k], ses'[k])
  BY ONLY <1>2, <1>5, <1>6 DEF Leg, Kept
<1>8. o.RemoteURI = Dialled /\ ses["in"].RemoteURI = NoURI /\ ses["out"].RemoteURI = Dialled
  BY <1>1, <1>2 DEF Located, Kept
<1>9. o.RemoteContactURI # NoURI
  <2>1. peer["out"].contact \in Contacts
    BY <1>1, Legs DEF TypeOK
  <2> QED BY ONLY <1>2, <2>1, KnownTarget
<1>10. \A k \in Leg : pend[k] = "none"
  BY EarlyFacts
<1>11. pend' \in [Leg -> {"none", "ReINVITE", "UPDATE", "toAck"}] /\ \A k \in Leg : pend'[k] = "none"
  BY <1>1, <1>10 DEF TypeOK
<1>12. /\ peer' \in [Leg -> [tag : Tags, contact : Contacts]]
       /\ peer'["in"] = peer["in"] /\ peer'["out"].contact = peer["out"].contact
       /\ peer'["out"].tag = NoTag \/ peer'["out"].tag = CalleeTag(1)
       /\ call' = "clearing" => peer'["out"].tag = CalleeTag(1)
  <2>1. /\ peer \in [Leg -> [tag : Tags, contact : Contacts]] /\ peer["out"].tag = NoTag
        /\ CalleeTag(1) \in Tags
    BY <1>1, TagValues DEF TypeOK, Tagged
  <2>2. CASE peer' = peer /\ call' = "over"
    BY ONLY <2>1, <2>2
  <2>3. CASE peer' = [peer EXCEPT !["out"].tag = CalleeTag(1)]
    BY ONLY <2>1, <2>3 DEF Leg
  <2> QED BY <2>2, <2>3
<1>13. call' \in {"clearing", "over"}
  OBVIOUS
<1>14. Located'
  <2>1. Known(ses["in"], "in", peer["in"].contact)
    BY <1>1 DEF Located
  <2>2. path' = path
    OBVIOUS
  <2> QED BY ONLY <1>2, <1>6, <1>8, <1>12, <1>13, <2>1, <2>2 DEF Located, Known, RecordRoute
<1>15. Tagged'
  <2>1. env' = env /\ call \in {"calling", "cancelled"}
    OBVIOUS
  <2>2. o.FromHeader = EgressTag
    BY ONLY <1>1, <1>2 DEF Tagged, Kept
  <2> QED BY ONLY <1>1, <1>2, <1>6, <1>12, <1>13, <2>1, <2>2, Legs DEF Tagged, Leg
<1>16. PICK l \in Leg : l = "out" /\ Lnk(l) = "in"
  BY DEF Leg, Lnk
<1>17. SendACK(o, l, 1, us) /\ Matches(tx[l], us) /\ us[1].resp # "none" /\ ses'[l] = o
  BY <1>3, <1>4, <1>6, <1>16
<1>18. /\ peer'[Lnk(l)].tag = peer[Lnk(l)].tag
       /\ "fork" \notin env /\ peer'[l].tag # NoTag => o.ToHeader = peer'[l].tag
  BY ONLY <1>2, <1>12, <1>16
<1>19. pend'[Lnk(l)] = "none" /\ pend'[l] = pend[l] /\ pend[l] = "none"
  BY ONLY <1>10, <1>11, <1>16, Legs
<1>20. /\ call \notin {"new", "clearing", "over"} /\ call' \in {"established", "clearing", "over"}
       /\ call # "established" /\ l = "out" /\ resp' \in Tags
       /\ UNCHANGED <<env, path, proxy, count>>
  BY <1>13, <1>16
<1> QED BY ONLY IInv, <1>4, <1>5, <1>6, <1>7, <1>8, <1>9, <1>11, <1>12, <1>14, <1>15, <1>17, <1>18,
        <1>19, <1>20, l \in Leg, AckStep

LEMMA ReceiveRejectKeeps ==
  ASSUME IInv, ReceiveReject
  PROVE  IInv'
<1>1. PICK o, in : o = Answered(CalleeTag(1)) /\ in = CreateHeaders(ses["in"], FALSE)
  OBVIOUS
<1>2. in = ses["in"]
  BY <1>1, Zenon DEF CreateHeaders
<1>3. /\ ses' = [in |-> ses["in"], out |-> o] /\ resp' = ses["in"].ToHeader
      /\ SendACK(o, "out", 1, Response(tx["out"], 1, "negative"))
  BY <1>1, <1>2, Zenon DEF ReceiveReject
<1>4. call = "calling" /\ call' = "over" /\ UNCHANGED <<env, path, proxy, peer, pend, count>>
  BY DEF ReceiveReject
<1>5. resp' \in Tags
  BY <1>3, Legs DEF IInv, TypeOK, SessionType
<1>6. PICK r \in {"positive", "negative"} : r = "negative"
  OBVIOUS
<1>7. SendACK(o, "out", 1, Response(tx["out"], 1, r))
  BY <1>3, <1>6
<1> QED BY ONLY IInv, <1>1, <1>3, <1>4, <1>5, <1>6, <1>7, AnswerStep

LEMMA ReceiveCancelledKeeps ==
  ASSUME IInv, NEW r \in {"positive", "negative"}, ReceiveCancelled(r)
  PROVE  IInv'
<1>1. PICK o : o = Answered(CalleeTag(1))
  OBVIOUS
<1>2. /\ ses' = [ses EXCEPT !["out"] = o]
      /\ SendACK(o, "out", 1, Response(tx["out"], 1, r))
  BY <1>1 DEF ReceiveCancelled
<1>3. call = "cancelled" /\ UNCHANGED <<env, path, proxy, pend, resp, count>>
  BY DEF ReceiveCancelled
<1>4. \/ peer' = peer /\ r = "negative" /\ call' = "over"
      \/ peer' = [peer EXCEPT !["out"].tag = CalleeTag(1)] /\ call' = "clearing"
  BY DEF ReceiveCancelled
<1>5. ses' = [in |-> ses["in"], out |-> o]
  <2>1. ses \in [Leg -> SessionType]
    BY DEF IInv, TypeOK
  <2> QED BY ONLY <1>2, <2>1 DEF Leg
<1>6. resp' \in Tags
  BY <1>3 DEF IInv, TypeOK
<1> QED BY ONLY IInv, <1>1, <1>2, <1>3, <1>4, <1>5, <1>6, r \in {"positive", "negative"}, AnswerStep
LEMMA MatchesItself ==
  ASSUME NEW txs \in Seq(TransactionType)
  PROVE  Matches(txs, txs)
  BY DEF Matches

LEMMA ReceiveACKKeeps ==
  ASSUME IInv, ReceiveACK
  PROVE  IInv'
<1>1. TypeOK /\ call = "answered" /\ Located /\ Tagged /\ Sent
  BY DEF IInv, ReceiveACK
<1>2. call' = "established" /\ UNCHANGED <<env, path, proxy, ses, peer, pend, resp, count>>
  BY DEF ReceiveACK
<1>3. PICK l \in Leg : l = "out" /\ Lnk(l) = "in"
  BY DEF Leg, Lnk
<1>4. PICK txs \in Seq(TransactionType) :
        txs = tx[l] /\ Len(txs) = 1 /\ ~txs[1].acked /\ txs[1].resp = "positive"
  BY <1>1, <1>3 DEF TypeOK, Sent
<1>5. Unacked(txs) = 1
  <2>1. 1 \in DOMAIN txs /\ ~txs[1].acked /\ \A j \in 1..(1 - 1) : txs[j].acked
    BY ONLY <1>4, txs \in Seq(TransactionType)
  <2>2. \A i \in DOMAIN txs : i = 1
    BY ONLY <1>4, txs \in Seq(TransactionType)
  <2> QED BY ONLY <2>1, <2>2 DEF Unacked
<1>6. PICK s \in SessionType : s = ses[l]
  BY <1>1 DEF TypeOK
<1>7. SendACK(s, l, 1, txs)
  BY <1>3, <1>4, <1>5, <1>6 DEF ReceiveACK
<1>8. s.RemoteContactURI # NoURI /\ s.RemoteURI = Dialled
  <2>1. Known(s, "out", peer["out"].contact) /\ s.RemoteURI = Dialled
    BY <1>1, <1>3, <1>6 DEF Located
  <2>2. peer["out"].contact \in Contacts
    BY <1>1, Legs DEF TypeOK
  <2> QED BY ONLY <2>1, <2>2, KnownTarget
<1>9. \A k \in Leg : pend[k] = "none" /\ pend'[k] = "none"
  BY <1>1, <1>2, EarlyFacts
<1>10. Located'
  BY ONLY <1>1, <1>2 DEF Located, Known, RecordRoute
<1>11. Tagged'
  BY ONLY <1>1, <1>2 DEF Tagged
<1>12. /\ ses' \in [Leg -> SessionType] /\ ses'[l] = s
       /\ peer' \in [Leg -> [tag : Tags, contact : Contacts]]
       /\ pend' \in [Leg -> {"none", "ReINVITE", "UPDATE", "toAck"}] /\ resp' \in Tags
  BY ONLY <1>1, <1>2, <1>6 DEF TypeOK
<1>13. \A k \in Leg : Kept(ses[k], ses'[k])
  BY ONLY <1>1, <1>2 DEF TypeOK, Kept
<1>14. /\ peer'[Lnk(l)].tag = peer[Lnk(l)].tag
       /\ "fork" \notin env /\ peer'[l].tag # NoTag => s.ToHeader = peer'[l].tag
  BY ONLY <1>1, <1>2, <1>3, <1>6 DEF Tagged
<1>15. Matches(tx[l], txs) /\ 1 \in 1..Len(txs) /\ txs[1].resp # "none"
  BY ONLY <1>4, txs \in Seq(TransactionType), MatchesItself
<1>16. pend'[Lnk(l)] = "none" /\ pend'[l] = pend[l] /\ pend[l] = "none"
  BY ONLY <1>9, l \in Leg, Legs
<1>17. /\ call \notin {"new", "clearing", "over"} /\ call' \in {"established", "clearing", "over"}
       /\ call # "established" /\ UNCHANGED <<env, path, proxy, count>>
  BY ONLY <1>1, <1>2
<1> QED BY ONLY IInv, <1>3, <1>7, <1>8, <1>10, <1>11, <1>12, <1>13, <1>14, <1>15, <1>16, <1>17,
        l \in Leg, s \in SessionType, txs \in Seq(TransactionType), AckStep

LEMMA ReceiveReACKKeeps ==
  ASSUME IInv, NEW k \in Leg, ReceiveReACK(k)
  PROVE  IInv'
<1>1. TypeOK /\ call = "established" /\ Located /\ Tagged /\ Sent
  BY DEF IInv, ReceiveReACK
<1>2. UNCHANGED <<env, path, proxy, call, ses, peer, resp, count>>
  BY DEF ReceiveReACK
<1>3. PICK l \in Leg : l = Lnk(k) /\ Lnk(l) = k /\ l # k
  BY Legs
<1>4. PICK txs \in Seq(TransactionType) : txs = tx[l]
  BY <1>1 DEF TypeOK
<1>5. txs # <<>> /\ txs[Len(txs)].req.method = "ReINVITE" /\ txs[Len(txs)].resp # "none"
  <2>1. Change(k) /\ pend[k] = "toAck"
    BY DEF IInv, ReceiveReACK
  <2> QED BY ONLY <1>3, <1>4, <2>1 DEF Change
<1>6. PICK i \in 1..Len(txs) : i = Len(txs)
  BY ONLY <1>5, txs \in Seq(TransactionType)
<1>7. PICK s \in SessionType : /\ s = ses[l] /\ s.ToHeader # NoTag
                               /\ Known(s, l, peer[l].contact) /\ peer[l].contact \in Contacts
  BY ONLY IInv, <1>1, l \in Leg, EstablishedFacts
<1>8. SendACK(s, l, i, txs)
  BY <1>3, <1>4, <1>6, <1>7 DEF ReceiveReACK
<1>9. s.RemoteContactURI # NoURI /\ (l = "out" => s.RemoteURI = Dialled)
  <2>1. l = "out" => s.RemoteURI = Dialled
    BY <1>1, <1>7 DEF Located
  <2> QED BY ONLY <1>7, <2>1, KnownTarget
<1>10. /\ pend' \in [Leg -> {"none", "ReINVITE", "UPDATE", "toAck"}]
       /\ pend'[Lnk(l)] = "none" /\ pend'[l] = pend[l]
  <2>1. /\ pend \in [Leg -> {"none", "ReINVITE", "UPDATE", "toAck"}]
        /\ pend' = [pend EXCEPT ![k] = "none"]
    BY <1>1 DEF TypeOK, ReceiveReACK
  <2> QED BY ONLY <1>3, <2>1, k \in Leg, l \in Leg
<1>11. Located' /\ Tagged'
  BY ONLY <1>1, <1>2 DEF Located, Tagged, Known, Unknown, RecordRoute
<1>12. /\ ses' \in [Leg -> SessionType] /\ ses'[l] = s
       /\ peer' \in [Leg -> [tag : Tags, contact : Contacts]] /\ resp' \in Tags
  BY ONLY <1>1, <1>2, <1>7 DEF TypeOK
<1>13. \A j \in Leg : Kept(ses[j], ses'[j])
  BY ONLY <1>1, <1>2 DEF TypeOK, Kept
<1>14. /\ peer'[Lnk(l)].tag = peer[Lnk(l)].tag
       /\ "fork" \notin env /\ peer'[l].tag # NoTag => s.ToHeader = peer'[l].tag
  BY ONLY <1>1, <1>2, <1>7, l \in Leg, Legs DEF Tagged
<1>15. Matches(tx[l], txs) /\ txs[i].resp # "none" /\ txs[i].req.method = "ReINVITE"
  BY ONLY <1>4, <1>5, <1>6, txs \in Seq(TransactionType), MatchesItself
<1>16. /\ call \notin {"new", "clearing", "over"} /\ call' \in {"established", "clearing", "over"}
       /\ call = "established" /\ call' = call /\ call' # "clearing"
       /\ UNCHANGED <<env, path, proxy, count>>
  BY ONLY <1>1, <1>2
<1> QED BY ONLY IInv, <1>8, <1>9, <1>10, <1>11, <1>12, <1>13, <1>14, <1>15, <1>16,
        l \in Leg, s \in SessionType, txs \in Seq(TransactionType), i \in 1..Len(txs), AckStep

-----------------------------------------------------------------------------
(***************************************************************************)
(* What sends a request within the dialogue.                               *)
(***************************************************************************)
LEMMA ReceivedFacts ==
  ASSUME IInv, call = "established", NEW l \in Leg, NEW c \in Contacts,
         NEW u, u = UpdateContact(Incoming(ses[l], IF l = "in" THEN ses[l].ToHeader ELSE EgressTag),
                                  l, c)
  PROVE  Same(ses[l], u) /\ Known(u, l, c)
<1>1. TypeOK
  BY DEF IInv
<1>2. PICK s \in SessionType, d \in Contacts :
        /\ s = ses[l] /\ d = peer[l].contact /\ s.ToHeader # NoTag /\ Known(s, l, d)
  BY EstablishedFacts
<1>3. PICK t \in Tags : t = (IF l = "in" THEN s.ToHeader ELSE EgressTag) /\ t # NoTag
  BY <1>2, TagValues DEF SessionType
<1>4. PICK v : v = Incoming(s, t)
  OBVIOUS
<1>5. Kept(s, v) /\ Placed(s, v) /\ v.ToTag = t /\ v.ToHeader = s.ToHeader
  BY ONLY <1>4, s \in SessionType, t \in Tags, IncomingFacts
<1>6. v \in SessionType /\ Known(v, l, d)
  BY ONLY <1>2, <1>5, PlacedKnown DEF Kept
<1>7. u = UpdateContact(v, l, c)
  BY <1>2, <1>3, <1>4
<1>8. /\ Kept(v, u) /\ u.ToTag = v.ToTag /\ u.ToHeader = v.ToHeader /\ Known(u, l, c)
  BY ONLY <1>1, <1>6, <1>7, l \in Leg, c \in Contacts, UpdateContactFacts
<1> QED BY ONLY <1>2, <1>3, <1>5, <1>8 DEF Same, Kept

\* the sessions when the request of peer l has been received
LEMMA ReceivedSessions ==
  ASSUME IInv, NEW l \in Leg, NEW m, NEW c \in Contacts, NEW hops \in {0, 1},
         ReceiveRequest(l, m, c, hops)
  PROVE  \E ss \in [Leg -> SessionType] :
           /\ SendRequest(ss, Lnk(l), m, hops - 1)
           /\ \A k \in Leg : Same(ses[k], ss[k]) /\ Known(ss[k], k, peer'[k].contact)
           /\ ss[Lnk(l)] = ses[Lnk(l)]
<1>1. call = "established" /\ TypeOK
  BY DEF IInv, ReceiveRequest, Within
<1>2. PICK u : u = UpdateContact(Incoming(ses[l], IF l = "in" THEN ses[l].ToHeader ELSE EgressTag),
                                 l, c)
  OBVIOUS
<1>3. Same(ses[l], u) /\ Known(u, l, c)
  BY ONLY IInv, <1>1, <1>2, l \in Leg, c \in Contacts, ReceivedFacts
<1>4. PICK ss : ss = [ses EXCEPT ![l] = u]
  OBVIOUS
<1>5. SendRequest(ss, Lnk(l), m, hops - 1)
  BY <1>2, <1>4, Zenon DEF ReceiveRequest
<1>6. PICK o \in Leg : o = Lnk(l) /\ o # l
  BY Legs
<1>7. ss \in [Leg -> SessionType] /\ ss[l] = u /\ ss[o] = ses[o]
  <2>1. ses \in [Leg -> SessionType] /\ u \in SessionType
    BY <1>1, <1>3 DEF TypeOK, Same, Kept
  <2> QED BY ONLY <1>4, <1>6, <2>1, l \in Leg, o \in Leg
<1>8. peer'[l].contact = c /\ peer'[o].contact = peer[o].contact
  <2>1. peer' = [peer EXCEPT ![l].contact = c]
    BY DEF ReceiveRequest
  <2>2. ASSUME NEW k \in Leg
        PROVE  peer'[k].contact = IF k = l THEN c ELSE peer[k].contact
    BY ONLY IInv, <2>1, l \in Leg, c \in Contacts, k \in Leg, MovedFacts, ZenonT(60)
  <2> QED BY <1>6, <2>2
<1>9. Same(ses[o], ses[o]) /\ Known(ses[o], o, peer[o].contact)
  BY ONLY IInv, <1>1, o \in Leg, EstablishedFacts
<1>10. \A k \in Leg : Same(ses[k], ss[k]) /\ Known(ss[k], k, peer'[k].contact)
  <2>1. \A k \in Leg : k = l \/ k = o
    BY <1>6, Legs
  <2> QED BY ONLY <1>3, <1>7, <1>8, <1>9, <2>1
<1> QED BY ONLY <1>5, <1>6, <1>7, <1>10

LEMMA ReceiveRequestKeeps ==
  ASSUME IInv, NEW l \in Leg, NEW m \in {"ReINVITE", "UPDATE"}, NEW c \in Contacts,
         NEW hops \in {0, 1}, ReceiveRequest(l, m, c, hops)
  PROVE  IInv'
<1>1. call = "established" /\ TypeOK
  BY DEF IInv, ReceiveRequest, Within
<1>2. PICK ss \in [Leg -> SessionType] :
        /\ SendRequest(ss, Lnk(l), m, hops - 1)
        /\ \A k \in Leg : Same(ses[k], ss[k]) /\ Known(ss[k], k, peer'[k].contact)
        /\ ss[Lnk(l)] = ses[Lnk(l)]
  BY ReceivedSessions
<1>3. PICK o \in Leg, h \in Int : o = Lnk(l) /\ Lnk(o) = l /\ h = hops - 1
  BY Legs
<1>4. SendRequest(ss, o, m, h)
  BY <1>2, <1>3
<1>5. /\ peer' \in [Leg -> [tag : Tags, contact : Contacts]]
      /\ \A k \in Leg : peer'[k].tag = peer[k].tag
  <2>1. peer' = [peer EXCEPT ![l].contact = c]
    BY DEF ReceiveRequest
  <2> QED BY <2>1, MovedFacts
<1>6. /\ m \in {"BYE", "ReINVITE", "UPDATE", "OPTIONS"} /\ call' = "established" /\ call' = call
      /\ \A k \in Leg : pend[k] = "none"
      /\ pend' = [pend EXCEPT ![Lnk(o)] = m]
      /\ UNCHANGED <<env, path, proxy, resp>>
  BY <1>1, <1>3, Legs DEF ReceiveRequest
<1>7. count' \in 0..MaxRequests
  BY <1>1, DialogueAssumption, SMTT(30) DEF ReceiveRequest, Within, TypeOK
<1> QED BY ONLY IInv, <1>1, <1>2, <1>4, <1>5, <1>6, <1>7, ss \in [Leg -> SessionType], o \in Leg,
        h \in Int, m \in {"ReINVITE", "UPDATE"}, SendStep

\* the router's own requests
LEMMA OwnStep ==
  ASSUME IInv, NEW l \in Leg, NEW m \in {"BYE", "OPTIONS"}, SendRequest(ses, l, m, 70),
         call = "established" \/ (call = "clearing" /\ l = "out"),
         call' = "over" \/ (call = "established" /\ call' = call),
         UNCHANGED <<env, path, proxy, peer, pend, resp>>, count' \in 0..MaxRequests
  PROVE  IInv'
<1>1. TypeOK /\ Located /\ Tagged
  BY DEF IInv
<1>2. PICK ss \in [Leg -> SessionType], h \in Int : ss = ses /\ h = 70
  BY <1>1 DEF TypeOK
<1>3. \A k \in Leg : Same(ses[k], ss[k]) /\ Known(ss[k], k, peer'[k].contact)
  <2>1. ASSUME NEW k \in Leg PROVE Same(ses[k], ss[k]) /\ Known(ss[k], k, peer'[k].contact)
    <3>1. ses[k] \in SessionType /\ peer' = peer
      BY <1>1 DEF TypeOK
    <3>2. ses[k].ToTag = NoTag <=> ses[k].ToHeader = NoTag
      BY <1>1 DEF Tagged
    <3>3. Known(ses[k], k, peer[k].contact)
      BY <1>1, Legs DEF Located
    <3> QED BY ONLY <1>2, <3>1, <3>2, <3>3 DEF Same, Kept
  <2> QED BY <2>1
<1>4. SendRequest(ss, l, m, h) /\ m \in {"BYE", "ReINVITE", "UPDATE", "OPTIONS"} /\ m # "ReINVITE"
  BY <1>2
<1>5. /\ peer' \in [Leg -> [tag : Tags, contact : Contacts]] /\ pend' = pend
      /\ \A k \in Leg : peer'[k].tag = peer[k].tag
  BY <1>1 DEF TypeOK
<1>6. /\ call = "established" \/ (call = "clearing" /\ l = "out")
      /\ call' = "over" \/ (call = "established" /\ call' = call)
      /\ UNCHANGED <<env, path, proxy, resp>> /\ count' \in 0..MaxRequests
  OBVIOUS
<1> QED BY ONLY IInv, <1>3, <1>4, <1>5, <1>6, ss \in [Leg -> SessionType], l \in Leg, h \in Int, SendStep
-----------------------------------------------------------------------------
LEMMA InitIInv == Init => IInv
<1> SUFFICES ASSUME Init PROVE IInv
  OBVIOUS
<1>1. PICK c \in Contacts : peer = [l \in Leg |-> [tag |-> NoTag, contact |-> c]]
  BY DEF Init
<1>2. \A l \in Leg : /\ ses[l] = Session(l) /\ tx[l] = <<>> /\ out[l] = NoRequest /\ high[l] = 0
                     /\ peer[l].tag = NoTag /\ pend[l] = "none"
  BY <1>1 DEF Init
<1>3. \A l \in Leg : Session(l) \in SessionType
  <2>1. <<>> \in Seq(Proxy)
    OBVIOUS
  <2> QED BY <2>1, TagValues DEF Session, SessionType, URI
<1>4. NoRequest \in RequestType
  <2>1. <<>> \in Seq(Proxy)
    OBVIOUS
  <2> QED BY <2>1, TagValues DEF NoRequest, RequestType, URI, Method
<1>5. TypeOK
  <2>1. ses \in [Leg -> SessionType] /\ out \in [Leg -> RequestType]
    BY <1>3, <1>4 DEF Init
  <2>2. tx \in [Leg -> Seq(TransactionType)] /\ high \in [Leg -> Nat]
    BY DEF Init
  <2>3. peer \in [Leg -> [tag : Tags, contact : Contacts]]
    BY <1>1, TagValues
  <2> QED BY <2>1, <2>2, <2>3, TagValues, DialogueAssumption DEF Init, TypeOK, Phase
<1>6. \A l \in Leg : Numbered(l) /\ Change(l)
  <2>1. ASSUME NEW l \in Leg PROVE Numbered(l) /\ Change(l)
    <3>1. ses[l].CSeq = 0 /\ out[l].cseq = 0 /\ high[l] = 0 /\ DOMAIN tx[l] = {} /\ pend[l] = "none"
      <4>1. ses[l] = Session(l) /\ out[l] = NoRequest /\ high[l] = 0 /\ tx[l] = <<>> /\ pend[l] = "none"
        BY <1>2
      <4>2. Session(l).CSeq = 0 /\ NoRequest.cseq = 0
        BY ONLY TRUE DEF Session, NoRequest
      <4> QED BY ONLY <4>1, <4>2
    <3> QED BY ONLY <3>1 DEF Numbered, Change
  <2> QED BY <2>1
<1>7. call = "new"
  BY DEF Init
<1>8. Located
  BY <1>7 DEF Located, Init
<1>9. Tagged
  <2>1. ASSUME NEW l \in Leg PROVE ses[l].ToTag = NoTag /\ ses[l].ToHeader = NoTag
    <3>1. Session(l).ToTag = NoTag /\ Session(l).ToHeader = NoTag
      BY ONLY TRUE DEF Session
    <3> QED BY <1>2, <3>1
  <2>2. ses["in"].FromHeader = CallerTag /\ ses["out"].FromHeader = EgressTag
    BY <1>2 DEF Session, Leg
  <2>3. peer["out"].tag = NoTag
    BY <1>2, Legs
  <2> QED BY ONLY <1>7, <2>1, <2>2, <2>3, Legs DEF Tagged
<1>10. Sent
  <2>1. \A l \in Leg : out[l].method = "none"
    BY <1>2 DEF NoRequest
  <2> QED BY <1>2, <1>7, <2>1, Legs DEF Sent
<1>11. InDialogueRequest /\ FollowsInvite
  <2>1. \A l \in Leg : out[l].method = "none"
    BY <1>2 DEF NoRequest
  <2> QED BY <2>1 DEF InDialogueRequest, FollowsInvite
<1> QED BY <1>5, <1>6, <1>8, <1>9, <1>10, <1>11 DEF IInv

LEMMA NextIInv == IInv /\ [Next]_vars => IInv'
<1> SUFFICES ASSUME IInv, [Next]_vars PROVE IInv'
  OBVIOUS
<1>0. TypeOK
  BY DEF IInv
<1>1. ASSUME NEW hops \in {1, 2}, ReceiveINVITE(hops) PROVE IInv'
  <2>1. CASE hops <= 1
    <3>1. /\ call = "new" /\ call' = "over"
          /\ UNCHANGED <<env, path, proxy, ses, tx, out, high, peer, pend, resp, made, count>>
      BY <1>1, <2>1 DEF ReceiveINVITE
    <3> QED BY ONLY IInv, <3>1, RejectINVITEKeeps
  <2>2. CASE ~(hops <= 1)
    BY ONLY IInv, <1>1, <2>2, hops \in {1, 2}, AcceptINVITEKeeps
  <2> QED BY <2>1, <2>2
<1>2. CASE Receive18x
  BY <1>2, Receive18xKeeps
<1>3. CASE ReceiveReject
  BY <1>3, ReceiveRejectKeeps
<1>4. CASE ReceiveCANCEL
  BY <1>4, ReceiveCANCELKeeps
<1>5. CASE ReceiveACK
  BY <1>5, ReceiveACKKeeps
<1>6. CASE Probe
  <2>1. PICK l \in Leg, m \in {"BYE", "OPTIONS"} :
          l = "in" /\ m = "OPTIONS" /\ SendRequest(ses, l, m, 70)
    BY <1>6 DEF Probe, Leg
  <2>2. /\ call = "established" /\ call' = call
        /\ UNCHANGED <<env, path, proxy, peer, pend, resp>>
    BY <1>6 DEF Probe, Within
  <2>3. count' \in 0..MaxRequests
    BY <1>0, <1>6, DialogueAssumption DEF Probe, Within, TypeOK
  <2> QED BY ONLY IInv, <2>1, <2>2, <2>3, OwnStep
<1>7. CASE ClearCancelled
  <2>1. PICK l \in Leg, m \in {"BYE", "OPTIONS"} :
          l = "out" /\ m = "BYE" /\ SendRequest(ses, l, m, 70)
    BY <1>7 DEF ClearCancelled, Leg
  <2>2. /\ call = "clearing" /\ call' = "over" /\ count' \in 0..MaxRequests
        /\ UNCHANGED <<env, path, proxy, peer, pend, resp>>
    BY <1>0, <1>7 DEF ClearCancelled, TypeOK
  <2> QED BY ONLY IInv, <2>1, <2>2, OwnStep
<1>8. ASSUME NEW n \in 1..2, Receive200(CalleeTag(n)) PROVE IInv'
  BY ONLY IInv, <1>8, Receive200Keeps
<1>9. ASSUME NEW r \in {"positive", "negative"}, ReceiveCancelled(r) PROVE IInv'
  BY ONLY IInv, <1>9, ReceiveCancelledKeeps
<1>10. ASSUME NEW l \in Leg, ReceiveReACK(l) PROVE IInv'
  BY ONLY IInv, <1>10, ReceiveReACKKeeps
<1>11. ASSUME NEW k \in Leg, ReceiveBYE(k) PROVE IInv'
  <2>1. PICK l \in Leg, m \in {"BYE", "OPTIONS"} :
          l = Lnk(k) /\ m = "BYE" /\ SendRequest(ses, l, m, 70)
    BY <1>11, Legs DEF ReceiveBYE
  <2>2. /\ call = "established" /\ call' = "over" /\ count' \in 0..MaxRequests
        /\ UNCHANGED <<env, path, proxy, peer, pend, resp>>
    BY <1>0, <1>11 DEF ReceiveBYE, TypeOK
  <2> QED BY ONLY IInv, <2>1, <2>2, OwnStep
<1>12. ASSUME NEW l \in Leg, NEW c \in Contacts, NEW m \in {"ReINVITE", "UPDATE"},
              NEW hops \in {0, 1}, ReceiveRequest(l, m, c, hops)
       PROVE  IInv'
  BY ONLY IInv, <1>12, ReceiveRequestKeeps
<1>13. ASSUME NEW l \in Leg, NEW c \in Contacts, NEW r \in {"positive", "negative"},
              ReceiveAnswer(l, c, r)
       PROVE  IInv'
  BY ONLY IInv, <1>13, ReceiveAnswerKeeps
<1>14. CASE UNCHANGED vars
  <2>1. TypeOK' /\ Located' /\ Tagged' /\ Sent'
    BY <1>14 DEF IInv, vars, TypeOK, Located, Tagged, Sent, Known, Unknown, RecordRoute, Invite
  <2>2. \A l \in Leg : Numbered(l)' /\ Change(l)'
    BY <1>14 DEF IInv, vars, Numbered, Change
  <2>3. InDialogueRequest' /\ FollowsInvite'
    BY <1>14 DEF IInv, vars, InDialogueRequest, FollowsInvite
  <2> QED BY <2>1, <2>2, <2>3 DEF IInv
<1> QED BY <1>1, <1>2, <1>3, <1>4, <1>5, <1>6, <1>7, <1>8, <1>9, <1>10, <1>11, <1>12,
        <1>13, <1>14 DEF Next

(***************************************************************************)
(* Requests within a dialogue have growing numbers and carry the tags that *)
(* the peer knows, however long the call, the routes and the history of    *)
(* Contacts, and whichever numbers RandomNum draws                         *)
(* (sessionHelper.go:167, sessionRequests.go).                             *)
(***************************************************************************)
THEOREM InDialogueRequestHolds == Spec => []InDialogueRequest
<1>1. IInv => InDialogueRequest
  BY DEF IInv
<1> QED BY <1>1, InitIInv, NextIInv, PTL DEF Spec

(***************************************************************************)
(* A CANCEL and the ACK of a refused INVITE are those of the INVITE        *)
(* (CreateCANCELST, CreateACKST in transaction.go).                        *)
(***************************************************************************)
THEOREM FollowsInviteHolds == Spec => []FollowsInvite
<1>1. IInv => FollowsInvite
  BY DEF IInv
<1> QED BY <1>1, InitIInv, NextIInv, PTL DEF Spec

-----------------------------------------------------------------------------
(***************************************************************************)
(* What a step sends, for the action property.                             *)
(***************************************************************************)
ReachesStep ==
  \A l \in Leg :
    LET r == out'[l] IN
    r # out[l] /\ r.method \in {"ReINVITE", "UPDATE", "OPTIONS", "BYE"} =>
      /\ r.uri = peer[l].contact
      /\ r.routes = path[l]
      /\ (r.to = r.uri) <=> (path[l] = <<>>)
      /\ "noHops" \notin env => r.hops >= 0

LEMMA OtherSent ==
  ASSUME TypeOK, NEW l \in Leg, NEW r, Emit(l, r), r.method \in {"INVITE", "ACK", "CANCEL"}
  PROVE  ReachesStep
<1>1. out \in [Leg -> RequestType] /\ out' = [out EXCEPT ![l] = r]
  BY DEF TypeOK, Emit
<1>2. \A k \in Leg : out'[k] = out[k] \/ out'[k] = r
  BY ONLY <1>1
<1> QED BY <1>2 DEF ReachesStep

LEMMA AckSent ==
  ASSUME TypeOK, NEW s, NEW l \in Leg, NEW i, NEW txs, SendACK(s, l, i, txs)
  PROVE  ReachesStep
<1>1. PICK r : r = AckFor(s, l, txs[i]) /\ Emit(l, r)
  BY DEF SendACK
<1>2. r.method = "ACK"
  BY <1>1 DEF AckFor, Request
<1> QED BY ONLY TypeOK, l \in Leg, <1>1, <1>2, OtherSent

LEMMA WithinSent ==
  ASSUME TypeOK, NEW ss \in [Leg -> SessionType], NEW l \in Leg, NEW hops \in Int,
         NEW m \in {"BYE", "ReINVITE", "UPDATE", "OPTIONS"}, SendRequest(ss, l, m, hops),
         Known(ss[l], l, peer[l].contact), "noHops" \notin env => hops >= 0
  PROVE  ReachesStep
<1>1. PICK cseq \in NextCSeq(l) :
        Emit(l, Request(ss[l], l, m, cseq, Branch, FALSE, hops))
  BY DEF SendRequest
<1>2. PICK s \in SessionType, b \in Nat, c \in Contacts :
        s = ss[l] /\ b = Branch /\ c = peer[l].contact
  BY DEF TypeOK, Branch
<1>3. PICK r : r = Request(s, l, m, cseq, b, FALSE, hops)
  OBVIOUS
<1>4. Emit(l, r) /\ Known(s, l, c)
  BY <1>1, <1>2, <1>3
<1>5. cseq \in Nat /\ m \in Method
  BY NextNumber DEF Method
<1>6. Reaches(l, r, c)
  BY ONLY TypeOK, l \in Leg, s \in SessionType, b \in Nat, c \in Contacts, hops \in Int,
     <1>3, <1>4, <1>5, RequestReaches
<1>7. r.hops = hops
  BY <1>3 DEF Request
<1>8. out \in [Leg -> RequestType] /\ out' = [out EXCEPT ![l] = r]
  BY <1>4 DEF TypeOK, Emit
<1>9. \A k \in Leg : out'[k] = out[k] \/ (k = l /\ out'[k] = r)
  BY ONLY <1>8
<1>10. "noHops" \notin env => hops >= 0
  OBVIOUS
<1> QED BY ONLY <1>2, <1>6, <1>7, <1>9, <1>10 DEF ReachesStep, Reaches

LEMMA NothingSent ==
  ASSUME out' = out
  PROVE  ReachesStep
  BY DEF ReachesStep

LEMMA ReachesNext == IInv /\ [Next]_vars => [ReachesStep]_vars
<1> SUFFICES ASSUME IInv, Next PROVE ReachesStep
  BY DEF ReachesStep
<1>0. TypeOK /\ Located
  BY DEF IInv
<1>1. ASSUME NEW hops \in {1, 2}, ReceiveINVITE(hops) PROVE ReachesStep
  <2>1. CASE hops <= 1
    BY <1>1, <2>1, NothingSent DEF ReceiveINVITE
  <2>2. CASE ~(hops <= 1)
    <3>1. PICK cseq, to : Emit("out", [NoRequest EXCEPT !.method = "INVITE", !.cseq = cseq,
                                         !.branch = Branch, !.to = to, !.hops = hops - 1,
                                         !.local = EgressTag])
      BY <1>1, <2>2 DEF ReceiveINVITE
    <3>2. PICK r : /\ Emit("out", r)
                   /\ r = [NoRequest EXCEPT !.method = "INVITE", !.cseq = cseq, !.branch = Branch,
                             !.to = to, !.hops = hops - 1, !.local = EgressTag]
      BY <3>1
    <3>3. r.method = "INVITE"
      BY ONLY <3>2 DEF NoRequest
    <3> QED BY ONLY <1>0, <3>2, <3>3, Legs, OtherSent
  <2> QED BY <2>1, <2>2
<1>2. CASE Receive18x
  BY <1>2, NothingSent DEF Receive18x
<1>3. CASE ReceiveReject
  BY <1>0, <1>3, Legs, AckSent DEF ReceiveReject
<1>4. CASE ReceiveCANCEL
  <2>1. PICK r : r = CancelFor(ses["out"], "out", tx["out"][1]) /\ Emit("out", r)
    BY <1>4 DEF ReceiveCANCEL
  <2>2. r.method = "CANCEL"
    BY <2>1 DEF CancelFor, Request
  <2> QED BY ONLY <1>0, <2>1, <2>2, Legs, OtherSent
<1>5. CASE ReceiveACK
  BY <1>0, <1>5, Legs, AckSent DEF ReceiveACK
<1>6. ASSUME NEW l \in Leg, NEW m \in {"BYE", "OPTIONS"}, SendRequest(ses, l, m, 70),
             call = "established" \/ (call = "clearing" /\ l = "out")
      PROVE  ReachesStep
  <2>1. PICK ss \in [Leg -> SessionType], hops \in Int : ss = ses /\ hops = 70
    BY <1>0 DEF TypeOK
  <2>2. Known(ses[l], l, peer[l].contact)
    BY <1>0, <1>6, Legs DEF Located
  <2>3. SendRequest(ss, l, m, hops) /\ Known(ss[l], l, peer[l].contact) /\ hops >= 0
    BY <1>6, <2>1, <2>2
  <2>4. m \in {"BYE", "ReINVITE", "UPDATE", "OPTIONS"}
    BY <1>6
  <2> QED BY ONLY <1>0, <2>3, <2>4, ss \in [Leg -> SessionType], hops \in Int, l \in Leg, WithinSent
<1>7. CASE Probe
  <2>1. PICK l \in Leg, m \in {"BYE", "OPTIONS"} :
          SendRequest(ses, l, m, 70) /\ call = "established"
    BY <1>7 DEF Probe, Within, Leg
  <2> QED BY <1>6, <2>1
<1>8. CASE ClearCancelled
  <2>1. PICK l \in Leg, m \in {"BYE", "OPTIONS"} :
          SendRequest(ses, l, m, 70) /\ call = "clearing" /\ l = "out"
    BY <1>8 DEF ClearCancelled, Leg
  <2> QED BY <1>6, <2>1
<1>9. ASSUME NEW k \in Leg, ReceiveBYE(k) PROVE ReachesStep
  <2>1. PICK l \in Leg, m \in {"BYE", "OPTIONS"} :
          SendRequest(ses, l, m, 70) /\ call = "established"
    BY <1>9, Legs DEF ReceiveBYE
  <2> QED BY <1>6, <2>1
<1>10. ASSUME NEW n \in 1..2, Receive200(CalleeTag(n)) PROVE ReachesStep
  BY <1>10, NothingSent DEF Receive200
<1>11. ASSUME NEW r \in {"positive", "negative"}, ReceiveCancelled(r) PROVE ReachesStep
  BY <1>0, <1>11, Legs, AckSent DEF ReceiveCancelled
<1>12. ASSUME NEW l \in Leg, ReceiveReACK(l) PROVE ReachesStep
  BY <1>0, <1>12, Legs, AckSent DEF ReceiveReACK
<1>13. ASSUME NEW l \in Leg, NEW c \in Contacts, NEW m \in {"ReINVITE", "UPDATE"},
              NEW hops \in {0, 1}, ReceiveRequest(l, m, c, hops)
       PROVE  ReachesStep
  <2>1. PICK ss \in [Leg -> SessionType] :
          /\ SendRequest(ss, Lnk(l), m, hops - 1)
          /\ \A k \in Leg : Same(ses[k], ss[k]) /\ Known(ss[k], k, peer'[k].contact)
          /\ ss[Lnk(l)] = ses[Lnk(l)]
    BY <1>13, ReceivedSessions
  <2>2. PICK o \in Leg, h \in Int : o = Lnk(l) /\ h = hops - 1
    BY Legs
  <2>3. call = "established"
    BY <1>13 DEF ReceiveRequest, Within
  <2>4. Known(ss[o], o, peer[o].contact) /\ SendRequest(ss, o, m, h)
    BY <1>0, <2>1, <2>2, <2>3, Legs DEF Located
  <2>5. "noHops" \notin env => h >= 0
    BY <1>13, <2>2 DEF ReceiveRequest
  <2>6. m \in {"BYE", "ReINVITE", "UPDATE", "OPTIONS"}
    BY <1>13
  <2> QED BY ONLY <1>0, <2>4, <2>5, <2>6, ss \in [Leg -> SessionType], o \in Leg, h \in Int, WithinSent
<1>14. ASSUME NEW l \in Leg, NEW c \in Contacts, NEW r \in {"positive", "negative"},
              ReceiveAnswer(l, c, r)
       PROVE  ReachesStep
  BY <1>14, NothingSent DEF ReceiveAnswer
<1> QED BY <1>1, <1>2, <1>3, <1>4, <1>5, <1>7, <1>8, <1>9, <1>10, <1>11, <1>12, <1>13, <1>14 DEF Next

(***************************************************************************)
(* Every other request reaches its peer: by the last Contact and, if       *)
(* proxies recorded the route, along all of them, nearest first, however   *)
(* many there are (prepareRequestHeaders and Send, with Reverse in         *)
(* support.go).                                                            *)
(***************************************************************************)
THEOREM ReachesPeerHolds == Spec => ReachesPeer
  BY InitIInv, NextIInv, ReachesNext, PTL DEF Spec, ReachesPeer, ReachesStep

-----------------------------------------------------------------------------
(***************************************************************************)
(* The changes that peers make within the dialogue: the specification of   *)
(* InDialogue, Chg.                                                        *)
(***************************************************************************)

(***************************************************************************)
(* The inductive invariant.  In an orderly call one peer at a time has a   *)
(* change, and it has an offer; the flag of a session is set only while    *)
(* the change of its own peer is pending, and it is reset when that        *)
(* change's ACK is on its way.  The flag of the other session is then      *)
(* never set, so nothing is refused.                                       *)
(***************************************************************************)
OneChange(l) ==
  req[l].st # "none" => req[Chg!Lnk(l)].st = "none" /\ req[l].kind # "reinviteNoSDP"

OwnFlag(l) ==
  flag[l] => req[l].st \in {"own", "relayed", "resetting", "toAck"}

FlagsInv ==
  /\ Chg!TypeOK
  /\ Chg!Orderly => /\ \A l \in Chg!Leg : OneChange(l) /\ OwnFlag(l)
                    /\ ~wronged

LEMMA ChangeLegs ==
  \A l \in Chg!Leg :
    Chg!Lnk(l) \in Chg!Leg /\ Chg!Lnk(l) # l /\ \A k \in Chg!Leg : k = l \/ k = Chg!Lnk(l)
  BY DEF Chg!Leg, Chg!Lnk

LEMMA NoRequestType ==
  /\ Chg!NoRequest \in Chg!Request /\ Chg!NoRequest.st = "none" /\ Chg!NoRequest.kind = "update"
  BY DEF Chg!NoRequest, Chg!Request, Chg!Kind, Chg!Step

LEMMA InitFlagsInv == Chg!Init => FlagsInv
<1> SUFFICES ASSUME Chg!Init PROVE FlagsInv
  OBVIOUS
<1>1. req \in [Chg!Leg -> Chg!Request] /\ \A l \in Chg!Leg : req[l].st = "none" /\ ~flag[l]
  BY NoRequestType DEF Chg!Init
<1>2. Chg!TypeOK
  BY <1>1 DEF Chg!Init, Chg!TypeOK
<1> QED BY <1>1, <1>2 DEF Chg!Init, FlagsInv, OneChange, OwnFlag

-----------------------------------------------------------------------------
(***************************************************************************)
(* Every action changes the change of one leg, l, and the flags.           *)
(***************************************************************************)
LEMMA LegStep ==
  ASSUME FlagsInv, NEW l \in Chg!Leg, NEW r \in Chg!Request,
         UNCHANGED <<manners, early, info, ended>>,
         req' = [req EXCEPT ![l] = r],
         flag' \in [Chg!Leg -> BOOLEAN], wronged' \in BOOLEAN,
         Chg!Orderly => /\ ~wronged'
                        /\ r.st # "none" => req[Chg!Lnk(l)].st = "none" /\ r.kind # "reinviteNoSDP"
                        /\ flag'[l] => r.st \in {"own", "relayed", "resetting", "toAck"}
                        /\ flag'[Chg!Lnk(l)] => flag[Chg!Lnk(l)]
  PROVE  FlagsInv'
<1>1. Chg!TypeOK'
  BY DEF FlagsInv, Chg!TypeOK
<1>2. req'[l] = r /\ req'[Chg!Lnk(l)] = req[Chg!Lnk(l)]
  BY ChangeLegs DEF FlagsInv, Chg!TypeOK
<1>3. Chg!Lnk(Chg!Lnk(l)) = l
  BY DEF Chg!Lnk, Chg!Leg
<1>4. Chg!Orderly' <=> Chg!Orderly
  BY DEF Chg!Orderly
<1>5. ASSUME Chg!Orderly PROVE OneChange(l)' /\ OwnFlag(l)'
  BY <1>2, <1>5 DEF OneChange, OwnFlag
<1>6. ASSUME Chg!Orderly PROVE OneChange(Chg!Lnk(l))' /\ OwnFlag(Chg!Lnk(l))'
  <2>1. OneChange(Chg!Lnk(l)) /\ OwnFlag(Chg!Lnk(l))
    BY <1>6, ChangeLegs DEF FlagsInv
  <2> QED BY <1>2, <1>3, <1>6, <2>1 DEF OneChange, OwnFlag
<1> QED BY <1>1, <1>4, <1>5, <1>6, ChangeLegs DEF FlagsInv

(***************************************************************************)
(* A request that is refused was not orderly: its own flag, or the one of  *)
(* the other leg, is set only for a change that is in progress.            *)
(***************************************************************************)
LEMMA ReceiveChangeKeepsFlags ==
  ASSUME FlagsInv, NEW l \in Chg!Leg, NEW k \in Chg!Kind, Chg!ReceiveChange(l, k)
  PROVE  FlagsInv'
<1>1. CASE flag[l]
  <2>1. ~Chg!Orderly
    BY <1>1 DEF Chg!ReceiveChange, FlagsInv, OwnFlag
  <2>2. req' = [req EXCEPT ![l] = Chg!NoRequest] /\ wronged' \in BOOLEAN /\ flag' = flag
    BY <1>1, ChangeLegs DEF Chg!ReceiveChange, Chg!Refuse, FlagsInv, Chg!TypeOK, Chg!InProgress
  <2> QED BY <2>1, <2>2, NoRequestType, LegStep DEF Chg!ReceiveChange, FlagsInv, Chg!TypeOK
<1>2. CASE ~flag[l]
  <2> DEFINE r == [kind |-> k, as |-> "update", st |-> "own"]
  <2>1. r \in Chg!Request /\ r.st = "own" /\ r.kind = k
    BY DEF Chg!Request, Chg!Step
  <2>2. req' = [req EXCEPT ![l] = r] /\ flag' = [flag EXCEPT ![l] = TRUE] /\ UNCHANGED wronged
    BY <1>2 DEF Chg!ReceiveChange
  <2>3. Chg!Orderly => req[Chg!Lnk(l)].st = "none" /\ k # "reinviteNoSDP"
    BY DEF Chg!ReceiveChange, Chg!Orderly
  <2>4. flag' \in [Chg!Leg -> BOOLEAN] /\ (flag'[Chg!Lnk(l)] => flag[Chg!Lnk(l)])
    BY <2>2, ChangeLegs DEF FlagsInv, Chg!TypeOK
  <2>5. UNCHANGED <<manners, early, info, ended>> /\ wronged \in BOOLEAN /\ (Chg!Orderly => ~wronged)
    BY DEF Chg!ReceiveChange, FlagsInv, Chg!TypeOK
  <2> HIDE DEF r
  <2> QED BY <2>1, <2>2, <2>3, <2>4, <2>5, LegStep
<1> QED BY <1>1, <1>2

LEMMA RelayChangeKeepsFlags ==
  ASSUME FlagsInv, NEW l \in Chg!Leg, Chg!RelayChange(l)
  PROVE  FlagsInv'
<1>1. /\ req[l] \in Chg!Request /\ req[l].st = "own" /\ flag' = flag /\ flag \in [Chg!Leg -> BOOLEAN]
      /\ UNCHANGED <<manners, early, info, ended>> /\ wronged \in BOOLEAN
  BY DEF Chg!RelayChange, FlagsInv, Chg!TypeOK
<1>2. Chg!Orderly => /\ OneChange(l) /\ OwnFlag(l) /\ OwnFlag(Chg!Lnk(l)) /\ ~wronged
                     /\ req[Chg!Lnk(l)].st = "none" /\ req[l].kind # "reinviteNoSDP"
  BY <1>1, ChangeLegs DEF FlagsInv, OneChange
<1>3. CASE flag[Chg!Lnk(l)] /\ Chg!Refuse(l)
  <2>1. ~Chg!Orderly
    BY <1>2, <1>3 DEF OwnFlag
  <2>2. req' = [req EXCEPT ![l] = Chg!NoRequest] /\ wronged' \in BOOLEAN
    BY <1>1, <1>3 DEF Chg!Refuse, Chg!InProgress
  <2> QED BY <1>1, <2>1, <2>2, NoRequestType, LegStep
<1>4. CASE ~flag[Chg!Lnk(l)] /\ UNCHANGED wronged
  <2> DEFINE transform == l = "in" /\ early /\ req[l].kind \in Chg!Reinvite
             method == IF req[l].kind \in Chg!Reinvite /\ ~transform THEN "reinvite" ELSE "update"
             r == IF transform /\ req[l].kind = "reinviteNoSDP" THEN Chg!NoRequest
                  ELSE [req[l] EXCEPT !.as = method, !.st = "relayed"]
  <2>1. req' = [req EXCEPT ![l] = r]
    BY <1>3, <1>4 DEF Chg!RelayChange, Chg!Refuse
  <2>2. r \in Chg!Request /\ (Chg!Orderly => r.st = "relayed" /\ r.kind = req[l].kind)
    BY <1>1, <1>2, NoRequestType DEF Chg!Request, Chg!Step
  <2> HIDE DEF r
  <2> QED BY <1>1, <1>2, <1>4, <2>1, <2>2, LegStep
<1> QED BY <1>3, <1>4 DEF Chg!RelayChange

LEMMA AnswerChangeKeepsFlags ==
  ASSUME FlagsInv, NEW l \in Chg!Leg, Chg!AnswerChange(l)
  PROVE  FlagsInv'
<1>1. /\ req[l] \in Chg!Request /\ req[l].st = "relayed" /\ flag \in [Chg!Leg -> BOOLEAN]
      /\ UNCHANGED <<manners, early, info, ended, wronged>> /\ wronged \in BOOLEAN
  BY DEF Chg!AnswerChange, FlagsInv, Chg!TypeOK
<1>2. Chg!Orderly => /\ ~wronged /\ req[Chg!Lnk(l)].st = "none" /\ req[l].kind # "reinviteNoSDP"
  BY <1>1, ChangeLegs DEF FlagsInv, OneChange
<1>3. PICK s \in {"resetting", "toAck"} :
        /\ req' = [req EXCEPT ![l] = [req[l] EXCEPT !.st = s]]
        /\ flag' = flag \/ flag' = [flag EXCEPT ![Chg!Lnk(l)] = FALSE]
  BY <1>1 DEF Chg!AnswerChange
<1>4. /\ [req[l] EXCEPT !.st = s] \in Chg!Request /\ [req[l] EXCEPT !.st = s].st = s
      /\ [req[l] EXCEPT !.st = s].kind = req[l].kind
  BY <1>1 DEF Chg!Request, Chg!Step
<1>5. flag' \in [Chg!Leg -> BOOLEAN] /\ (flag'[Chg!Lnk(l)] => flag[Chg!Lnk(l)])
  BY <1>1, <1>3, ChangeLegs
<1> QED BY <1>1, <1>2, <1>3, <1>4, <1>5, LegStep

LEMMA RelayUpdateAnswerKeepsFlags ==
  ASSUME FlagsInv, NEW l \in Chg!Leg, Chg!RelayUpdateAnswer(l)
  PROVE  FlagsInv'
<1>1. /\ req[l] \in Chg!Request /\ req[l].st = "resetting" /\ flag \in [Chg!Leg -> BOOLEAN]
      /\ flag' = [flag EXCEPT ![l] = FALSE]
      /\ UNCHANGED <<manners, early, info, ended, wronged>> /\ wronged \in BOOLEAN
  BY DEF Chg!RelayUpdateAnswer, FlagsInv, Chg!TypeOK
<1>2. Chg!Orderly => /\ ~wronged /\ req[Chg!Lnk(l)].st = "none" /\ req[l].kind # "reinviteNoSDP"
  BY <1>1, ChangeLegs DEF FlagsInv, OneChange
<1> DEFINE r == IF req[l].kind \in Chg!Reinvite THEN [req[l] EXCEPT !.st = "toAck"] ELSE Chg!NoRequest
<1>3. req' = [req EXCEPT ![l] = r]
  BY <1>1 DEF Chg!RelayUpdateAnswer
<1>4. r \in Chg!Request /\ (r.st # "none" => r.kind = req[l].kind)
  BY <1>1, NoRequestType DEF Chg!Request, Chg!Step
<1>5. flag' \in [Chg!Leg -> BOOLEAN] /\ flag'[l] = FALSE /\ (flag'[Chg!Lnk(l)] => flag[Chg!Lnk(l)])
  BY <1>1, ChangeLegs
<1> HIDE DEF r
<1> QED BY <1>1, <1>2, <1>3, <1>4, <1>5, LegStep

LEMMA RefuseChangeKeepsFlags ==
  ASSUME FlagsInv, NEW l \in Chg!Leg, Chg!RefuseChange(l)
  PROVE  FlagsInv'
<1>1. /\ ~Chg!Orderly /\ req' = [req EXCEPT ![l] = Chg!NoRequest]
      /\ UNCHANGED <<manners, flag, early, info, ended, wronged>>
  BY DEF Chg!RefuseChange, Chg!Orderly
<1> QED BY <1>1, NoRequestType, LegStep DEF FlagsInv, Chg!TypeOK

LEMMA AckChangeKeepsFlags ==
  ASSUME FlagsInv, NEW l \in Chg!Leg, Chg!AckChange(l)
  PROVE  FlagsInv'
<1>1. /\ req[l] \in Chg!Request /\ req[l].st = "toAck" /\ flag \in [Chg!Leg -> BOOLEAN]
      /\ flag' = [flag EXCEPT ![l] = FALSE]
      /\ req' = [req EXCEPT ![l] = [req[l] EXCEPT !.st = "acking"]]
      /\ UNCHANGED <<manners, early, info, ended, wronged>> /\ wronged \in BOOLEAN
  BY DEF Chg!AckChange, FlagsInv, Chg!TypeOK
<1>2. Chg!Orderly => /\ ~wronged /\ req[Chg!Lnk(l)].st = "none" /\ req[l].kind # "reinviteNoSDP"
  BY <1>1, ChangeLegs DEF FlagsInv, OneChange
<1> DEFINE r == [req[l] EXCEPT !.st = "acking"]
<1>3. r \in Chg!Request /\ r.kind = req[l].kind
  BY <1>1 DEF Chg!Request, Chg!Step
<1>4. flag' \in [Chg!Leg -> BOOLEAN] /\ flag'[l] = FALSE /\ (flag'[Chg!Lnk(l)] => flag[Chg!Lnk(l)])
  BY <1>1, ChangeLegs
<1> QED BY <1>1, <1>2, <1>3, <1>4, LegStep

LEMMA RelayAckKeepsFlags ==
  ASSUME FlagsInv, NEW l \in Chg!Leg, Chg!RelayAck(l)
  PROVE  FlagsInv'
<1>1. /\ req[l].st = "acking" /\ flag \in [Chg!Leg -> BOOLEAN]
      /\ flag' = [flag EXCEPT ![Chg!Lnk(l)] = FALSE]
      /\ req' = [req EXCEPT ![l] = Chg!NoRequest]
      /\ UNCHANGED <<manners, early, info, ended, wronged>> /\ wronged \in BOOLEAN
  BY DEF Chg!RelayAck, FlagsInv, Chg!TypeOK
<1>2. Chg!Orderly => ~wronged /\ ~flag[l]
  BY <1>1 DEF FlagsInv, OwnFlag
<1>3. flag' \in [Chg!Leg -> BOOLEAN] /\ flag'[l] = flag[l] /\ flag'[Chg!Lnk(l)] = FALSE
  BY <1>1, ChangeLegs
<1> QED BY <1>1, <1>2, <1>3, NoRequestType, LegStep

(***************************************************************************)
(* What neither starts nor ends a change                                   *)
(***************************************************************************)
LEMMA OtherKeepsFlags ==
  ASSUME FlagsInv, \/ \E l \in Chg!Leg : Chg!ReceiveInfo(l) \/ Chg!AnswerInfo(l)
                   \/ Chg!TimeoutRelayed \/ Chg!EndTransform \/ Chg!Hangup \/ UNCHANGED Chg!vars
  PROVE  FlagsInv'
<1>1. UNCHANGED <<manners, flag, req, wronged>>
  BY DEF Chg!ReceiveInfo, Chg!AnswerInfo, Chg!TimeoutRelayed, Chg!EndTransform, Chg!Hangup, Chg!vars
<1>2. early' \in BOOLEAN /\ ended' \in BOOLEAN /\ info' \in [Chg!Leg -> {"none", "relayed", "ignored"}]
  BY DEF Chg!ReceiveInfo, Chg!AnswerInfo, Chg!TimeoutRelayed, Chg!EndTransform, Chg!Hangup, Chg!vars,
         FlagsInv, Chg!TypeOK
<1> QED BY <1>1, <1>2 DEF FlagsInv, Chg!TypeOK, Chg!Orderly, OneChange, OwnFlag

LEMMA NextFlagsInv == FlagsInv /\ [Chg!Next]_(Chg!vars) => FlagsInv'
<1> SUFFICES ASSUME FlagsInv, [Chg!Next]_(Chg!vars) PROVE FlagsInv'
  OBVIOUS
<1>1. ASSUME NEW l \in Chg!Leg, NEW k \in Chg!Kind, Chg!ReceiveChange(l, k) PROVE FlagsInv'
  BY <1>1, ReceiveChangeKeepsFlags
<1>2. ASSUME NEW l \in Chg!Leg, Chg!Handler(l) \/ Chg!Peer(l) PROVE FlagsInv'
  BY <1>2, RelayChangeKeepsFlags, RelayUpdateAnswerKeepsFlags, RelayAckKeepsFlags,
     AnswerChangeKeepsFlags, RefuseChangeKeepsFlags, AckChangeKeepsFlags DEF Chg!Handler, Chg!Peer
<1>3. CASE \/ \E l \in Chg!Leg : Chg!ReceiveInfo(l) \/ Chg!AnswerInfo(l)
           \/ Chg!TimeoutRelayed \/ Chg!EndTransform \/ Chg!Hangup \/ UNCHANGED Chg!vars
  BY <1>3, OtherKeepsFlags
<1> QED BY <1>1, <1>2, <1>3 DEF Chg!Next

-----------------------------------------------------------------------------
(***************************************************************************)
(* In every call whose peers do not compete, do not refuse a change and    *)
(* make an offer, no dialogueChanging flag outlives the change it was set  *)
(* for, and no change is answered 491 (stack.go:451).                      *)
(***************************************************************************)
THEOREM FlagsFreeHolds == ChangeSpec => []FlagsFree
<1>1. ChangeSpec => []FlagsInv
  BY InitFlagsInv, NextFlagsInv, PTL DEF ChangeSpec, Chg!Spec
<1>2. FlagsInv => FlagsFree
  BY DEF FlagsInv, FlagsFree, Chg!FlagsFree, OwnFlag
<1> QED BY <1>1, <1>2, PTL
=============================================================================
