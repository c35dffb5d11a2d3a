------------------------------ MODULE Dialogue ------------------------------
(***************************************************************************)
(* The identity of a dialogue on both legs of one call: the tags, CSeq     *)
(* numbers, branches, route sets and targets of the requests and responses *)
(* that the router writes (sessionRequests.go, sessionResponses.go,        *)
(* sessionHelper.go).  The order of the messages of a call is the subject  *)
(* of B2BCall; here it is only as fine as the identity needs.              *)
(***************************************************************************)
EXTENDS Integers, SequencesExt

CONSTANTS
  MaxRequests,   \* bound: requests within the dialogue
  Proxy,         \* the proxies that may record the route
  Paths,         \* the sequences of them that a call may go through
  Contacts,      \* the URIs of the peers, which are addresses too
  FwdCSeqs,      \* bound: the numbers that RandomNum(0, 500) gives
  BwdCSeqs,      \* bound: the numbers that RandomNum(600, 1000) gives
  Envs           \* sets of the behaviours below, one of which is chosen

EnvBehaviour ==
  {"zero",     \* RandomNum(0, 500) draws 0
   "fork",     \* the callee's 200 comes from another agent than its 18x
   "late",     \* the CANCEL comes after the 200
   "rehome",   \* peers change their Contact
   "noHops"}   \* Max-Forwards of a request within the dialogue is 0 or absent

Leg == {"in", "out"}
Lnk(l) == IF l = "in" THEN "out" ELSE "in"

\* tags: whose, and which
NoTag == <<"none", 0>>
CallerTag == <<"caller", 1>>
EgressTag == <<"egress", 1>>
LocalTag(n) == <<"local", n>>
CalleeTag(n) == <<"callee", n>>

\* URIs and the addresses in them
NoURI == "none"
Dialled == "dialled"

\* the empty value of a header
Empty == "empty"

ASSUME DialogueAssumption ==
  /\ MaxRequests \in Nat
  /\ Empty \notin Proxy /\ Paths \subseteq Seq(Proxy)
  /\ Contacts \cap {NoURI, Dialled, "hop", "egress"} = {}
  /\ FwdCSeqs \subseteq 0..500 /\ BwdCSeqs \subseteq 600..1000
  /\ Envs \subseteq SUBSET EnvBehaviour

VARIABLES
  env,     \* what peers and chance do in this behaviour
  path,    \* the proxies that record the route on each leg, nearest first
  proxy,   \* EgressProxy is configured
  call,    \* how far the call is
  ses,     \* the two sessions
  tx,      \* the INVITE and re-INVITEs sent on each leg
  out,     \* the last request sent on each leg
  high,    \* the highest CSeq of the requests before it
  peer,    \* what each peer knows: the dialogue's tag and its own Contact
  pend,    \* the request each peer has sent and that is relayed
  resp,    \* the To tag of the last response to the INVITE
  made,    \* tags and branches made so far
  count    \* requests within the dialogue

vars == <<env, path, proxy, call, ses, tx, out, high, peer, pend, resp, made, count>>

Session(l) ==
  [FromHeader |-> IF l = "in" THEN CallerTag ELSE EgressTag, ToTag |-> NoTag,
   ToHeader |-> NoTag, CSeq |-> 0, RemoteURI |-> NoURI, RemoteContactURI |-> NoURI,
   RemoteContactUDP |-> NoURI, RecordRoutes |-> <<>>]

NoRequest == [method |-> "none", cseq |-> 0, branch |-> 0, uri |-> Dialled, to |-> "hop",
              routes |-> <<>>, hops |-> 70, local |-> NoTag, remote |-> NoTag]

Phase == {"new", "calling", "answered", "established", "cancelled", "clearing", "over"}
Tags == {"none", "caller", "egress", "local", "callee"} \X Nat
URI == Contacts \cup {NoURI, Dialled}
Method == {"none", "INVITE", "ACK", "CANCEL", "BYE", "ReINVITE", "UPDATE", "OPTIONS"}

SessionType ==
  [FromHeader : Tags, ToTag : Tags, ToHeader : Tags, CSeq : Nat, RemoteURI : {NoURI, Dialled},
   RemoteContactURI : URI, RemoteContactUDP : URI, RecordRoutes : Seq(Proxy)]
RequestType ==
  [method : Method, cseq : Nat, branch : Nat, uri : URI, to : URI \cup {"hop", "egress"},
   routes : Seq(Proxy), hops : Int, local : Tags, remote : Tags]
TransactionType ==
  [req : RequestType, resp : {"none", "positive", "negative"}, acked : BOOLEAN]

TypeOK ==
  /\ env \in Envs /\ path \in [Leg -> Paths] /\ proxy \in BOOLEAN
  /\ call \in Phase
  /\ ses \in [Leg -> SessionType]
  /\ tx \in [Leg -> Seq(TransactionType)]
  /\ out \in [Leg -> RequestType] /\ high \in [Leg -> Nat]
  /\ peer \in [Leg -> [tag : Tags, contact : Contacts]]
  /\ pend \in [Leg -> {"none", "ReINVITE", "UPDATE", "toAck"}]
  /\ resp \in Tags
  /\ made \in [tags : Nat, branches : Nat]
  /\ count \in 0..MaxRequests

Init ==
  /\ env \in Envs
  /\ path \in [Leg -> Paths]
  /\ proxy \in BOOLEAN
  /\ call = "new"
  /\ ses = [l \in Leg |-> Session(l)]
  /\ tx = [l \in Leg |-> <<>>]
  /\ out = [l \in Leg |-> NoRequest]
  /\ high = [l \in Leg |-> 0]
  /\ \E c \in Contacts : peer = [l \in Leg |-> [tag |-> NoTag, contact |-> c]]
  /\ pend = [l \in Leg |-> "none"]
  /\ resp = NoTag
  /\ made = [tags |-> 0, branches |-> 0]
  /\ count = 0

-----------------------------------------------------------------------------
(***************************************************************************)
(* What a received message does to its session.                            *)
(***************************************************************************)
\* the Record-Route headers of a message received on leg l: each proxy puts its
\* own on top, and responses return them as they were
RecordRoute(l) == IF l = "in" THEN path[l] ELSE Reverse(path[l])

\* UpdateContactRecordRouteBody
UpdateContact(s, l, contact) ==
  LET routes == IF s.RecordRoutes = <<>> THEN RecordRoute(l) ELSE s.RecordRoutes IN
  [s EXCEPT !.RecordRoutes = routes, !.RemoteContactURI = contact,
            !.RemoteContactUDP = IF routes = <<>> THEN contact ELSE @]

\* NewSIPTransaction_RT, for a request that the peer of leg l sends with To tag t
Incoming(s, t) == [s EXCEPT !.ToTag = t]

\* mutant: the tag is noted and not put into the To header
Bug_ResponseTag(s, t) == IF s.ToTag = NoTag THEN [s EXCEPT !.ToTag = t] ELSE s

\* addIncomingResponse: the first tag stays
ResponseTag(s, t) == IF s.ToTag = NoTag THEN [s EXCEPT !.ToTag = t, !.ToHeader = t] ELSE s

(***************************************************************************)
(* createHeadersForResponse to a request without To tag; tagged: 18x, 2xx. *)
(***************************************************************************)
CreateHeaders(s, tagged) ==
  IF tagged /\ s.ToTag = NoTag
  THEN [s EXCEPT !.ToTag = LocalTag(made.tags + 1), !.ToHeader = LocalTag(made.tags + 1)]
  ELSE s

Made(s, t) == IF t.ToHeader = s.ToHeader THEN made.tags ELSE made.tags + 1

-----------------------------------------------------------------------------
(***************************************************************************)
(* What a request looks like.  Draw is what RandomNum may give, 0 too on   *)
(* the outbound leg.                                                       *)
(***************************************************************************)
Draw(l) == IF l = "in" THEN BwdCSeqs
           ELSE IF "zero" \in env THEN FwdCSeqs ELSE FwdCSeqs \ {0}

NextCSeq(l) == IF ses[l].CSeq = 0 THEN Draw(l) ELSE {ses[l].CSeq + 1}

\* mutant: the route set is that of an inbound session
Bug_Route(s, l) == s.RecordRoutes

\* Reverse of the code appends to a slice that already has the length
Reversed(rr) ==
  LET n == Len(rr) IN [i \in 1..(2 * n) |-> IF i <= n THEN Empty ELSE rr[2 * n - i + 1]]

\* PrepareMessageBytes writes no empty values, and these come first
Written(values) ==
  LET empty == CHOOSE n \in 0..Len(values) : \A i \in DOMAIN values : values[i] = Empty <=> i <= n IN
  SubSeq(values, empty + 1, Len(values))

Route(s, l) == Written(IF l = "in" THEN s.RecordRoutes ELSE Reversed(s.RecordRoutes))

\* Send
Address(s, l, useRemoteURI) ==
  IF ~useRemoteURI /\ s.RemoteContactUDP # NoURI THEN s.RemoteContactUDP
  ELSE IF l = "out" /\ proxy THEN "egress" ELSE "hop"

\* prepareRequestHeaders and processRequestHeaders
Request(s, l, m, cseq, branch, useRemoteURI, hops) ==
  [method |-> m, cseq |-> cseq, branch |-> branch,
   uri |-> IF useRemoteURI THEN s.RemoteURI ELSE s.RemoteContactURI,
   to |-> Address(s, l, useRemoteURI), routes |-> Route(s, l), hops |-> hops,
   local |-> IF l = "in" THEN s.ToHeader ELSE s.FromHeader,
   remote |-> IF l = "in" THEN s.FromHeader ELSE s.ToHeader]

Branch == made.branches + 1

Emit(l, r) ==
  /\ out' = [out EXCEPT ![l] = r]
  /\ high' = [high EXCEPT ![l] = IF out[l].cseq > @ THEN out[l].cseq ELSE @]

Transaction(r) == [req |-> r, resp |-> "none", acked |-> FALSE]

\* addOutgoingRequest but for ACK and CANCEL, on leg l of the sessions ss
SendRequest(ss, l, m, hops) ==
  \E cseq \in NextCSeq(l) :
    LET r == Request(ss[l], l, m, cseq, Branch, FALSE, hops) IN
    /\ Emit(l, r)
    /\ ses' = [ss EXCEPT ![l].CSeq = cseq]
    /\ tx' = IF m = "ReINVITE" THEN [tx EXCEPT ![l] = Append(@, Transaction(r))] ELSE tx
    /\ made' = [made EXCEPT !.branches = Branch]

\* GetUnACKedINVorReINV
Unacked(txs) == CHOOSE i \in DOMAIN txs : ~txs[i].acked /\ \A j \in 1..(i - 1) : txs[j].acked

\* CreateACKST: what refused the request is acknowledged in its transaction
AckFor(s, l, t) ==
  LET refused == t.resp = "negative" IN
  Request(s, l, "ACK", t.req.cseq, IF refused THEN t.req.branch ELSE Branch, refused, t.req.hops)

\* mutant: the CANCEL is addressed like any other request
Bug_CancelFor(s, l, t) == Request(s, l, "CANCEL", t.req.cseq, t.req.branch, FALSE, t.req.hops)

\* CreateCANCELST
CancelFor(s, l, t) == Request(s, l, "CANCEL", t.req.cseq, t.req.branch, TRUE, t.req.hops)

SendACK(s, l, i, txs) ==
  /\ Emit(l, AckFor(s, l, txs[i]))
  /\ tx' = [tx EXCEPT ![l] = [txs EXCEPT ![i].acked = TRUE]]
  /\ made' = [made EXCEPT !.branches = Branch]

-----------------------------------------------------------------------------
(***************************************************************************)
(* The call is set up.  An INVITE with Max-Forwards 1 or less is rejected. *)
(***************************************************************************)
ReceiveINVITE(hops) ==
  /\ call = "new"
  /\ IF hops <= 1
     THEN call' = "over" /\ UNCHANGED <<ses, tx, out, high, made>>
     ELSE \E cseq \in Draw("out") :
       LET in == UpdateContact(ses["in"], "in", peer["in"].contact)
           r == [NoRequest EXCEPT !.method = "INVITE", !.cseq = cseq, !.branch = Branch,
                   !.to = Address(ses["out"], "out", FALSE), !.hops = hops - 1,
                   !.local = EgressTag] IN
       /\ call' = "calling"
       /\ ses' = [in |-> in,
                  out |-> [ses["out"] EXCEPT !.CSeq = cseq, !.RemoteURI = Dialled,
                                             !.RemoteContactURI = Dialled]]
       /\ tx' = [tx EXCEPT !["out"] = <<Transaction(r)>>]
       /\ Emit("out", r)
       /\ made' = [made EXCEPT !.branches = Branch]
  /\ UNCHANGED <<env, path, proxy, peer, pend, resp, count>>

\* the sessions after a tagged response of the callee, and its relaying
Answered(t) == ResponseTag(UpdateContact(ses["out"], "out", peer["out"].contact), t)

RelayResponse(tagged, o) ==
  LET in == CreateHeaders(ses["in"], tagged) IN
  /\ ses' = [in |-> in, out |-> o]
  /\ resp' = in.ToHeader
  /\ made' = [made EXCEPT !.tags = Made(ses["in"], in)]

Receive18x ==
  /\ call = "calling"
  /\ RelayResponse(TRUE, Answered(CalleeTag(1)))
  /\ UNCHANGED <<env, path, proxy, call, tx, out, high, peer, pend, count>>

Response(txs, i, r) == [txs EXCEPT ![i].resp = r]

Receive200(t) ==
  /\ call = "calling"
  /\ t # CalleeTag(1) => "fork" \in env
  /\ RelayResponse(TRUE, Answered(t))
  /\ tx' = [tx EXCEPT !["out"] = Response(@, 1, "positive")]
  /\ peer' = [peer EXCEPT !["in"].tag = resp', !["out"].tag = t]
  /\ call' = "answered"
  /\ UNCHANGED <<env, path, proxy, out, high, pend, count>>

\* the callee's 3xx to 6xx is acknowledged, and the caller rejected
ReceiveReject ==
  /\ call = "calling"
  /\ LET o == Answered(CalleeTag(1))
         in == CreateHeaders(ses["in"], FALSE) IN
     /\ ses' = [in |-> in, out |-> o]
     /\ resp' = in.ToHeader
     /\ SendACK(o, "out", 1, Response(tx["out"], 1, "negative"))
  /\ call' = "over"
  /\ UNCHANGED <<env, path, proxy, peer, pend, count>>

(***************************************************************************)
(* CANCEL: a request without To tag.  It is answered 200, the callee is    *)
(* cancelled and the INVITE answered 487, both with the tag of the 200.    *)
(***************************************************************************)
ReceiveCANCEL ==
  /\ call = "calling" \/ (call = "answered" /\ "late" \in env)
  /\ LET in == CreateHeaders(Incoming(ses["in"], NoTag), TRUE) IN
     /\ ses' = [ses EXCEPT !["in"] = in]
     /\ made' = [made EXCEPT !.tags = Made(ses["in"], in)]
     /\ resp' = IF call = "calling" THEN in.ToHeader ELSE resp
  /\ Emit("out", CancelFor(ses["out"], "out", tx["out"][1]))
  /\ call' = IF call = "calling" THEN "cancelled" ELSE "over"
  /\ UNCHANGED <<env, path, proxy, tx, peer, pend, count>>

\* the cancelled callee answers its INVITE: 487, or a 200 that crossed the CANCEL
ReceiveCancelled(r) ==
  /\ call = "cancelled"
  /\ LET o == Answered(CalleeTag(1)) IN
     /\ ses' = [ses EXCEPT !["out"] = o]
     /\ SendACK(o, "out", 1, Response(tx["out"], 1, r))
  /\ peer' = IF r = "positive" THEN [peer EXCEPT !["out"].tag = CalleeTag(1)] ELSE peer
  /\ call' = IF r = "positive" THEN "clearing" ELSE "over"
  /\ UNCHANGED <<env, path, proxy, pend, resp, count>>

ReceiveACK ==
  /\ call = "answered"
  /\ SendACK(ses["out"], "out", Unacked(tx["out"]), tx["out"])
  /\ call' = "established"
  /\ UNCHANGED <<env, path, proxy, ses, peer, pend, resp, count>>

-----------------------------------------------------------------------------
(***************************************************************************)
(* Requests within the dialogue, relayed to the other leg.                 *)
(***************************************************************************)
Within == call = "established" /\ count < MaxRequests /\ count' = count + 1

\* the peer's Contact, with each message that has one
Contact(l, c) == c # peer[l].contact => "rehome" \in env

ReceiveRequest(l, m, c, hops) ==
  /\ Within /\ pend[l] = "none" /\ pend[Lnk(l)] = "none"
  /\ Contact(l, c)
  /\ hops = 0 => "noHops" \in env
  /\ peer' = [peer EXCEPT ![l].contact = c]
  /\ LET received == [ses EXCEPT ![l] =
           UpdateContact(Incoming(@, IF l = "in" THEN @.ToHeader ELSE EgressTag), l, c)] IN
     SendRequest(received, Lnk(l), m, hops - 1)
  /\ pend' = [pend EXCEPT ![l] = m]
  /\ UNCHANGED <<env, path, proxy, call, resp>>

\* the answer of the other peer; a re-INVITE waits for the ACK of peer l
ReceiveAnswer(l, c, r) ==
  /\ call = "established" /\ pend[l] \in {"ReINVITE", "UPDATE"}
  /\ LET o == Lnk(l) IN
     /\ Contact(o, c)
     /\ peer' = [peer EXCEPT ![o].contact = c]
     /\ ses' = [ses EXCEPT ![o] = UpdateContact(ResponseTag(@, CalleeTag(1)), o, c)]
     /\ IF pend[l] = "ReINVITE"
        THEN /\ tx' = [tx EXCEPT ![o] = Response(@, Len(@), r)]
             /\ pend' = [pend EXCEPT ![l] = "toAck"]
        ELSE pend' = [pend EXCEPT ![l] = "none"] /\ UNCHANGED tx
  /\ UNCHANGED <<env, path, proxy, call, out, high, resp, made, count>>

ReceiveReACK(l) ==
  /\ call = "established" /\ pend[l] = "toAck"
  /\ SendACK(ses[Lnk(l)], Lnk(l), Len(tx[Lnk(l)]), tx[Lnk(l)])
  /\ pend' = [pend EXCEPT ![l] = "none"]
  /\ UNCHANGED <<env, path, proxy, call, ses, peer, resp, count>>

\* the router's own: OPTIONS that probes the caller, BYE that clears a leg
Probe ==
  /\ Within
  /\ SendRequest(ses, "in", "OPTIONS", 70)
  /\ UNCHANGED <<env, path, proxy, call, peer, pend, resp>>

ReceiveBYE(l) ==
  /\ call = "established"
  /\ SendRequest(ses, Lnk(l), "BYE", 70)
  /\ call' = "over"
  /\ UNCHANGED <<env, path, proxy, peer, pend, resp, count>>

\* after the ACK of a 200 that crossed the CANCEL
ClearCancelled ==
  /\ call = "clearing"
  /\ SendRequest(ses, "out", "BYE", 70)
  /\ call' = "over"
  /\ UNCHANGED <<env, path, proxy, peer, pend, resp, count>>

Next ==
  \/ \E hops \in {1, 2} : ReceiveINVITE(hops)
  \/ Receive18x \/ ReceiveReject \/ ReceiveCANCEL \/ ReceiveACK \/ Probe \/ ClearCancelled
  \/ \E n \in 1..2 : Receive200(CalleeTag(n))
  \/ \E r \in {"positive", "negative"} : ReceiveCancelled(r)
  \/ \E l \in Leg :
       \/ ReceiveReACK(l) \/ ReceiveBYE(l)
       \/ \E c \in Contacts :
            \/ \E m \in {"ReINVITE", "UPDATE"}, hops \in {0, 1} : ReceiveRequest(l, m, c, hops)
            \/ \E r \in {"positive", "negative"} : ReceiveAnswer(l, c, r)

Spec == Init /\ [][Next]_vars

-----------------------------------------------------------------------------
(***************************************************************************)
(* Requests within a dialogue belong to it as the peer knows it.  Each but *)
(* ACK and CANCEL has a higher number than those before it on its leg, for *)
(* a peer refuses a lower one ("Increment forward CSeq",                   *)
(* sessionHelper.go:167), unless the first number drawn is 0.  And they    *)
(* carry its tags: the one the caller got with its 200, the one the callee *)
(* gave with its own, unless the 200 of a forked call has another tag than *)
(* the 18x.                                                                *)
(***************************************************************************)
InDialogueRequest ==
  \A l \in Leg :
    /\ "zero" \notin env /\ out[l].method \notin {"none", "INVITE", "ACK", "CANCEL"}
         => out[l].cseq > high[l]
    /\ "fork" \notin env
       /\ call \in {"established", "clearing", "over"} /\ peer[l].tag # NoTag
       /\ out[l].method \in {"ACK", "BYE", "ReINVITE", "UPDATE", "OPTIONS"} =>
         IF l = "in" THEN out[l].local = peer[l].tag /\ out[l].remote = CallerTag
         ELSE out[l].local = EgressTag /\ out[l].remote = peer[l].tag

(***************************************************************************)
(* A CANCEL, and the ACK of a refused INVITE, go where the INVITE went,    *)
(* with its URI, branch and number, whatever Contact and routes the        *)
(* responses in between brought (transaction.go:138, 155).  The ACK of a   *)
(* refused re-INVITE does not: it has the URI of the INVITE, and on the    *)
(* caller's leg, where there is none, no URI at all.                       *)
(***************************************************************************)
Follows(r, q) == r.cseq = q.cseq /\ r.branch = q.branch /\ r.uri = q.uri /\ r.to = q.to

FollowsInvite ==
  \A l \in Leg :
    /\ out[l].method = "CANCEL" => Follows(out[l], tx[l][1].req)
    /\ out[l].method = "ACK" =>
         \E i \in DOMAIN tx[l] :
           LET q == tx[l][i].req IN
           /\ out[l].cseq = q.cseq /\ tx[l][i].acked /\ tx[l][i].resp # "none"
           /\ tx[l][i].resp = "negative" <=> out[l].branch = q.branch
           /\ tx[l][i].resp = "negative" /\ q.method = "INVITE" => Follows(out[l], q)
           /\ out[l].uri = NoURI => l = "in" /\ tx[l][i].resp = "negative"

(***************************************************************************)
(* Every other request reaches its peer: it has the peer's last Contact as *)
(* URI, lists the recorded proxies nearest first and goes to the Contact's *)
(* own address exactly if there are none; and hops are left, unless the    *)
(* request that is relayed had none.                                       *)
(***************************************************************************)
ReachesPeer ==
  [][\A l \in Leg :
       LET r == out'[l] IN
       r # out[l] /\ r.method \in {"ReINVITE", "UPDATE", "OPTIONS", "BYE"} =>
         /\ r.uri = peer[l].contact
         /\ r.routes = path[l]
         /\ (r.to = r.uri) <=> (path[l] = <<>>)
         /\ "noHops" \notin env => r.hops >= 0]_vars
=============================================================================
