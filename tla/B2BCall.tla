------------------------------ MODULE B2BCall -------------------------------
(***************************************************************************)
(* One call through the back-to-back user agent of sip/: the inbound       *)
(* session ss1 (leg "in", towards the caller) and the outbound session ss2 *)
(* (leg "out", towards the callee) that routing creates and links to it.   *)
(*                                                                         *)
(* SIP messages are handled by a pool of workers, every timer by a         *)
(* goroutine of its own. A handler is one step here, except where the code *)
(* lets others in on purpose or by construction: the sleeps (WaitMS,       *)
(* DropMeTimed, the echo delay) and the routing of the INVITE, which reads *)
(* ss1's state and only then creates ss2. A timer that expires runs its    *)
(* handler in the same step.                                               *)
(*                                                                         *)
(* There are no message queues.  A message a peer may send is received     *)
(* whenever a peer that follows RFC 3261 could have sent it, so it may be  *)
(* lost, delayed and overtaken.  Retransmissions change nothing:           *)
(* IsDuplicateMessage drops them.                                          *)
(***************************************************************************)
EXTENDS Integers, SessionState

CONSTANTS
  RoutingRecords, \* what routing may find: RoutingEngineDB, phones or the AS
  Probing,        \* IndialogueProbingInterval > 0
  Envs            \* sets of the behaviours below, one of which is chosen

CallFlow == {"Transparent", "TransformEarlyToFinal", "EchoResponder"}

(***************************************************************************)
(* RoutingRecord.  The timeouts matter only as enabled (> 0) or disabled.  *)
(***************************************************************************)
RoutingRecord ==
  [flow : CallFlow, no18x : BOOLEAN, noAns : BOOLEAN, maxDur : BOOLEAN,
   steer : BOOLEAN]

EnvBehaviour ==
  {"cancel",        \* the caller cancels a call that has no final response yet
   "cancelRouting", \* ... while the INVITE is still being routed
   "cancelLate",    \* ... and the CANCEL crosses the final response
   "skip100",       \* the callee rings without sending 100 first
   "reorder",       \* a provisional response arrives after the final one
   "early",         \* the callee sends 183 with SDP
   "redirect",      \* the callee answers 3xx
   "lateCalleeBye", \* the callee gives up waiting for the ACK and sends BYE
   "byeGlare",      \* a BYE arrives while one sent on the same leg is open
   "bye3xx",        \* BYE and CANCEL may be answered 3xx
   "echoBye4xx"}    \* the BYE of a session without a link is refused

ASSUME ConstantsAssumption ==
  /\ RoutingRecords \subseteq RoutingRecord
  /\ Probing \in BOOLEAN
  /\ Envs \subseteq SUBSET EnvBehaviour

-----------------------------------------------------------------------------
(***************************************************************************)
(* Sessions                                                                *)
(***************************************************************************)
Leg == {"in", "out"}
Lnk(l) == IF l = "in" THEN "out" ELSE "in"

Provisional == {100, 180, 183}
Negative == {302, 408, 486, 487, 503}
Final == {200} \cup Negative
Code == Provisional \cup Final

\* A timer that is not nil is running or was stopped; it is never cleared on Stop.
TimerState == {"nil", "armed", "stopped"}

\* An outgoing non-INVITE transaction and its retransmission timer.
TxState == {"none", "armed", "stopped", "final"}

Session ==
  [dir       : {"INBOUND", "OUTBOUND"},
   state     : State,
   linked    : BOOLEAN,       \* LinkedSession # nil
   added     : BOOLEAN,       \* AddMe / Sessions.Store was called
   disposed  : BOOLEAN,       \* IsDisposed
   media     : BOOLEAN,       \* holds a MediaConn
   resp      : SUBSET Code,   \* Responses of its INVITE transaction
   sent      : Code \cup {0}, \* SentMessage of an inbound INVITE
   acked     : BOOLEAN,       \* IsACKed of the INVITE
   timer     : TimerState,    \* Timer of the INVITE
   aux       : TimerState,    \* CANCELAuxTimer of the INVITE
   cancel    : TxState,       \* outgoing CANCEL
   bye       : TxState,       \* outgoing BYE
   probe     : TxState,       \* outgoing in-dialogue OPTIONS
   no18x     : TimerState,
   noAns     : TimerState,
   maxDur    : TimerState,
   transform : BOOLEAN,       \* TransformEarlyToFinal
   sdp18x    : BOOLEAN,       \* received18xSDP
   rcvdBye   : BOOLEAN,       \* an incoming BYE transaction exists
   asleep    : {"no", "ackbye", "timeoutbye"}, \* a handler in WaitMS(100)
   dropping  : BOOLEAN]       \* a DropMeTimed goroutine is asleep

NewSS(d) ==
  [dir |-> d, state |-> "NotSet", linked |-> FALSE, added |-> FALSE,
   disposed |-> FALSE, media |-> FALSE, resp |-> {}, sent |-> 0,
   acked |-> FALSE, timer |-> "nil", aux |-> "nil", cancel |-> "none",
   bye |-> "none", probe |-> "none", no18x |-> "nil", noAns |-> "nil",
   maxDur |-> "nil", transform |-> FALSE, sdp18x |-> FALSE,
   rcvdBye |-> FALSE, asleep |-> "no", dropping |-> FALSE]

VARIABLES
  env,   \* which behaviours peers and network show
  ses,   \* the two sessions
  route, \* where the goroutine that routes the INVITE is
  rd,    \* ss1.RoutingData
  uac    \* what the caller knows of its INVITE

vars == <<env, ses, route, rd, uac>>

RouteState == {"idle", "routing", "linked", "checked", "echoWait", "done"}
NoRecord == [flow |-> "Transparent", no18x |-> FALSE, noAns |-> FALSE,
             maxDur |-> FALSE, steer |-> FALSE]

TypeOK ==
  /\ ses \in [Leg -> Session]
  /\ ses["in"].dir = "INBOUND" /\ ses["out"].dir = "OUTBOUND"
  /\ route \in RouteState
  /\ rd \in RoutingRecord
  /\ uac \in {"calling", "answered", "failed"}

Init ==
  /\ env \in Envs
  /\ ses = [l \in Leg |-> NewSS(IF l = "in" THEN "INBOUND" ELSE "OUTBOUND")]
  /\ route = "idle"
  /\ rd = NoRecord
  /\ uac = "calling"

IsEstablished(ss) == ss.state = "Established"
IsBeingEstablished(ss) == ss.state = "BeingEstablished"
Finalized(ss) == ss.resp \cap Final # {}
Received200(ss) == 200 \in ss.resp

\* sessionGetter finds the session under its Call-ID
Stored(ss) == ss.added /\ ~ss.disposed

-----------------------------------------------------------------------------
(***************************************************************************)
(* The methods of SipSession, as functions from session to session         *)
(***************************************************************************)
SetState(ss, st) == [ss EXCEPT !.state = st]
FinalizeState(ss) == [ss EXCEPT !.state = FinalizeMe(@)]

Stop(t) == IF t = "armed" THEN "stopped" ELSE t

\* mutant: the media socket is not handed back
Bug_DropMe(ss) ==
  IF ss.disposed THEN ss ELSE [ss EXCEPT !.disposed = TRUE, !.maxDur = Stop(@)]

DropMe(ss) ==
  IF ss.disposed THEN ss
  ELSE [ss EXCEPT !.disposed = TRUE, !.media = FALSE, !.maxDur = Stop(@)]

DropMeTimed(ss) == [ss EXCEPT !.dropping = TRUE]

\* mutant: the timer starts with any response
Bug_SendResponse(ss, sc) ==
  IF ss.acked THEN ss
  ELSE [ss EXCEPT !.resp = @ \cup {sc}, !.sent = sc,
                  !.timer = IF @ = "nil" THEN "armed" ELSE @]

(***************************************************************************)
(* SendCreatedResponseDetailed on the INVITE, then SendSTMessage: the timer *)
(* starts with a final response, and only if no timer was ever created.    *)
(***************************************************************************)
SendResponse(ss, sc) ==
  IF ss.acked THEN ss
  ELSE [ss EXCEPT !.resp = @ \cup {sc},
                  !.sent = sc,
                  !.timer = IF @ = "nil" /\ (sc \in Final \/ Finalized(ss))
                            THEN "armed" ELSE @]

\* SendCreatedRequest(ACK): only for an INVITE that has none yet
SendACK(ss) == [ss EXCEPT !.acked = TRUE]

SendCANCEL(ss) == IF ss.acked THEN ss ELSE [ss EXCEPT !.cancel = "armed"]

\* Before a BYE goes out, a pending incoming INVITE is answered 503.
SendBYE(ss) ==
  [(IF ss.dir = "INBOUND" /\ ~Finalized(ss) THEN SendResponse(ss, 503) ELSE ss)
     EXCEPT !.bye = "armed"]

StopAllOutTransactions(ss) ==
  [ss EXCEPT !.timer = Stop(@), !.cancel = Stop(@), !.bye = Stop(@),
             !.probe = Stop(@)]

\* mutant: only the No18x timer is started
Bug_StartTimer(ss) ==
  [ss EXCEPT !.no18x = IF @ = "nil" /\ rd.no18x THEN "armed" ELSE @]

StartTimer(ss) ==
  [ss EXCEPT !.no18x = IF @ = "nil" /\ rd.no18x THEN "armed" ELSE @,
             !.noAns = IF @ = "nil" /\ rd.noAns THEN "armed" ELSE @]

\* mutant: the NoAnswer timer keeps running
Bug_StopNoTimers(ss) == [ss EXCEPT !.no18x = Stop(@)]

StopNoTimers(ss) == [ss EXCEPT !.no18x = Stop(@), !.noAns = Stop(@)]

CancelMe(ss) ==
  IF ss.dir = "OUTBOUND" /\ IsBeingEstablished(ss)
  THEN SendCANCEL(SetState(StopNoTimers(ss), "BeingCancelled"))
  ELSE ss

RejectMe(ss, sc) ==
  IF ss.dir = "INBOUND" /\ IsBeingEstablished(ss)
  THEN SendResponse(SetState(ss, "BeingFailed"), sc)
  ELSE ss

ReleaseMe(ss) ==
  IF IsEstablished(ss) THEN SendBYE(SetState(ss, "BeingCleared")) ELSE ss

\* mutants: the state is not checked; the state is not changed
Bug_ReleaseUnchecked(ss) == SendBYE(SetState(ss, "BeingDropped"))
Bug_ReleaseTwice(ss) == IF IsEstablished(ss) THEN SendBYE(ss) ELSE ss

\* what ReleaseCall does to each of the two sessions
ReleaseCallLeg(ss) ==
  IF IsEstablished(ss) THEN SendBYE(SetState(ss, "BeingDropped")) ELSE ss

\* mutant: an answered call is cancelled instead of released
Bug_ReleaseOrCancel(ss) == CancelMe(ss)

\* CancelMe after an unsuccessful ReleaseMe
ReleaseOrCancel(ss) == IF IsEstablished(ss) THEN ReleaseMe(ss) ELSE CancelMe(ss)

\* The INVITE that could not be completed is rejected and ss1 unlinked.
RerouteRequest(ss, sc) ==
  IF ~ss.acked /\ IsBeingEstablished(ss)
  THEN RejectMe([ss EXCEPT !.linked = FALSE], sc)
  ELSE ss

\* mutant: a rejection is not acknowledged
Bug_Ack3xxTo6xx(ss, st) == DropMeTimed(SetState(ss, st))

Ack3xxTo6xx(ss, st) == DropMeTimed(SendACK(SetState(ss, st)))
Ack3xxTo6xxFinalize(ss) == DropMeTimed(SendACK(FinalizeState(ss)))

\* a step of both sessions
Both(in, out) == [ses EXCEPT !["in"] = in, !["out"] = out]

\* what becomes of the other session: ss if l is linked to it, nothing otherwise
OnLinked(l, ss) == IF ses[l].linked THEN ss ELSE ses[Lnk(l)]

\* mutant: the session is dropped in the state it is in
Bug_TimedOut(ss) == IF IsPending(ss.state) THEN DropMe(ss) ELSE ss

(***************************************************************************)
(* CheckPendingTransaction for the inbound INVITE: nobody acknowledged the *)
(* final response.                                                         *)
(***************************************************************************)
TimedOut(ss) ==
  IF IsPending(ss.state) THEN DropMe(SetState(ss, "TimedOut")) ELSE ss

CallerTimedOut(ss) ==
  IF IsBeingEstablished(ss) /\ Received200(ss)
  THEN [SendACK(ss) EXCEPT !.asleep = "timeoutbye"]
  ELSE CancelMe(ss)

-----------------------------------------------------------------------------
(***************************************************************************)
(* The INVITE and its routing                                              *)
(***************************************************************************)

\* sessionGetter stores the session, sipStack answers 100 and routes the call
ReceiveINVITE ==
  /\ route = "idle"
  /\ ses' = [ses EXCEPT !["in"] =
       SendResponse([@ EXCEPT !.state = "BeingEstablished", !.added = TRUE], 100)]
  /\ route' = "routing"
  /\ UNCHANGED <<env, rd, uac>>

\* an INVITE that sessionGetter classifies as one to be rejected
RejectINVITE ==
  /\ route = "idle"
  /\ ses' = [ses EXCEPT !["in"] =
       RejectMe([@ EXCEPT !.state = "BeingEstablished", !.added = TRUE], 503)]
  /\ route' = "done"
  /\ UNCHANGED <<env, rd, uac>>

(***************************************************************************)
(* No target, an unregistered phone, unsuitable SDP, both timeouts         *)
(* disabled, or no port for ingress media.  An echo call whose answer      *)
(* cannot be built already holds its port.                                 *)
(***************************************************************************)
RouteReject ==
  /\ route = "routing"
  /\ \E port \in BOOLEAN :
       /\ port => \E r \in RoutingRecords : r.flow = "EchoResponder"
       /\ ses' = [ses EXCEPT !["in"] = RejectMe([@ EXCEPT !.media = port], 503)]
  /\ route' = "done"
  /\ UNCHANGED <<env, rd, uac>>

\* answerEchoCall up to its sleep
RouteEcho(r) ==
  /\ route = "routing"
  /\ r.flow = "EchoResponder"
  /\ ses' = [ses EXCEPT !["in"] = SendResponse([@ EXCEPT !.media = TRUE], 180)]
  /\ rd' = r
  /\ route' = "echoWait"
  /\ UNCHANGED <<env, uac>>

EchoAnswer ==
  /\ route = "echoWait"
  /\ ses' = [ses EXCEPT !["in"] =
       IF IsBeingEstablished(@) THEN SendResponse(@, 200) ELSE @]
  /\ route' = "done"
  /\ UNCHANGED <<env, rd, uac>>

Routable(r) == r.flow # "EchoResponder" /\ (r.no18x \/ r.noAns)

\* routeCall: ss2 is created and the two are linked
RouteLink(r) ==
  /\ route = "routing"
  /\ Routable(r)
  /\ ses' = Both([ses["in"] EXCEPT !.linked = TRUE, !.media = r.steer],
                 [ses["out"] EXCEPT !.linked = TRUE, !.media = r.steer,
                    !.transform = (r.flow = "TransformEarlyToFinal")])
  /\ rd' = r
  /\ route' = "linked"
  /\ UNCHANGED <<env, uac>>

\* ... or there is no port for egress media
RouteNoPort(r) ==
  /\ route = "routing"
  /\ Routable(r) /\ r.steer
  /\ ses' = Both(RejectMe([ses["in"] EXCEPT !.linked = TRUE, !.media = TRUE], 503),
                 DropMe([ses["out"] EXCEPT !.linked = TRUE]))
  /\ rd' = r
  /\ route' = "done"
  /\ UNCHANGED <<env, uac>>

\* mutant: a call that was cancelled meanwhile gets a status of its own
Bug_RouteCheck ==
  /\ route = "linked"
  /\ route' = IF IsBeingEstablished(ses["in"]) THEN "checked" ELSE "aborted"
  /\ UNCHANGED <<env, ses, rd, uac>>

RouteCheck ==
  /\ route = "linked"
  /\ route' = IF IsBeingEstablished(ses["in"]) THEN "checked" ELSE "done"
  /\ UNCHANGED <<env, ses, rd, uac>>

RouteSend ==
  /\ route = "checked"
  /\ ses' = [ses EXCEPT !["out"] =
       [@ EXCEPT !.state = "BeingEstablished", !.added = TRUE, !.timer = "armed"]]
  /\ route' = "done"
  /\ UNCHANGED <<env, rd, uac>>

-----------------------------------------------------------------------------
(***************************************************************************)
(* Messages from the caller                                                *)
(***************************************************************************)

\* The caller takes the first final response it sees for the outcome.
CallerLearns ==
  /\ uac = "calling"
  /\ \/ Received200(ses["in"]) /\ uac' = "answered"
     \/ ses["in"].resp \cap Negative # {} /\ uac' = "failed"
  /\ UNCHANGED <<env, ses, route, rd>>

(***************************************************************************)
(* An ACK is accepted only if its Via branch agrees with what was sent: the *)
(* INVITE's own branch once any negative response was sent, another one    *)
(* otherwise.  A caller that saw the 200 uses another one.                 *)
(***************************************************************************)
ACKAccepted(ss) == (ss.resp \cap Negative # {}) = (uac = "failed")

\* mutant: the caller's ACK is not propagated to the callee
Bug_ReceiveACK ==
  LET in  == FinalizeState([ses["in"] EXCEPT !.acked = TRUE, !.timer = Stop(@)])
  IN  /\ Stored(ses["in"]) /\ uac # "calling" /\ ~ses["in"].acked
      /\ ACKAccepted(ses["in"])
      /\ ses' = [ses EXCEPT !["in"] = IF IsEstablished(in) THEN in ELSE DropMe(in)]
      /\ UNCHANGED <<env, route, rd, uac>>

ReceiveACK ==
  LET in  == FinalizeState([ses["in"] EXCEPT !.acked = TRUE, !.timer = Stop(@)])
      out == ses["out"]
  IN  /\ Stored(ses["in"])
      /\ uac # "calling"
      /\ ~ses["in"].acked
      /\ ACKAccepted(ses["in"])
      /\ IF IsEstablished(in)
         THEN ses' = Both([in EXCEPT !.maxDur = IF rd.maxDur THEN "armed" ELSE @],
                          IF in.linked /\ ~out.transform
                          THEN SendACK(FinalizeState(out)) ELSE out)
         ELSE ses' = [ses EXCEPT !["in"] = DropMe(in)]
      /\ UNCHANGED <<env, route, rd, uac>>

CancelArrives ==
  \/ route \in {"routing", "linked", "checked"} /\ "cancelRouting" \in env
  \/ route \in {"done", "echoWait"} /\ ~Finalized(ses["in"]) /\ "cancel" \in env
  \/ route \in {"done", "echoWait"} /\ Finalized(ses["in"]) /\ "cancelLate" \in env

ReceiveCANCEL ==
  LET in  == SetState(ses["in"], "BeingCancelled")
      out == ses["out"]
  IN  /\ Stored(ses["in"])
      /\ uac = "calling"
      /\ CancelArrives
      /\ IsBeingEstablished(ses["in"]) \* otherwise 400
      /\ ses' = Both(IF in.linked /\ IsEstablished(out) THEN in
                     ELSE SendResponse(in, 487),
                     OnLinked("in", ReleaseOrCancel(StopAllOutTransactions(out))))
      /\ UNCHANGED <<env, route, rd, uac>>

(***************************************************************************)
(* BYE, from either side.  addIncomingRequest first stops retransmitting   *)
(* what is pending and, if the caller never acknowledged the final         *)
(* response, treats the INVITE as timed out.                               *)
(***************************************************************************)
ByeArrives(l) ==
  /\ IF l = "in" THEN uac = "answered"
     ELSE /\ Received200(ses["out"])
          /\ ses["out"].acked \/ "lateCalleeBye" \in env
  /\ ses[l].bye = "none" \/ "byeGlare" \in env

StopPending(ss) ==
  [ss EXCEPT !.cancel = Stop(@), !.bye = Stop(@), !.probe = Stop(@),
             !.timer = IF ss.dir = "OUTBOUND" /\ Finalized(ss) THEN @ ELSE Stop(@),
             !.rcvdBye = TRUE]

ReceiveBYE(l) ==
  LET me  == StopPending(ses[l])
      lnk == ses[Lnk(l)]
  IN  /\ Stored(ses[l])
      /\ ~ses[l].rcvdBye
      /\ ByeArrives(l)
      /\ \/ /\ l = "in" /\ ~me.acked
            /\ ses' = Both(TimedOut(me), OnLinked(l, CallerTimedOut(lnk)))
         \/ /\ l = "out" \/ me.acked
            /\ IsEstablished(me)
            /\ ses' = [ses EXCEPT
                 ![l] = DropMe(SetState(me, "Cleared")),
                 ![Lnk(l)] = OnLinked(l, ReleaseOrCancel(StopAllOutTransactions(lnk)))]
         \/ /\ l = "out" \/ me.acked
            /\ ~IsEstablished(me) \* 400
            /\ ses' = [ses EXCEPT ![l] = me]
      /\ UNCHANGED <<env, route, rd, uac>>

-----------------------------------------------------------------------------
(***************************************************************************)
(* Responses from the callee to ss2's INVITE                               *)
(***************************************************************************)

\* addIncomingResponse
AddResponse(ss, sc) ==
  [ss EXCEPT !.resp = @ \cup {sc}, !.timer = Stop(@),
             !.aux = IF sc \in Final \/ Finalized(ss) THEN Stop(@) ELSE @]

Receive100 ==
  LET out == AddResponse(ses["out"], 100)
  IN  /\ Stored(ses["out"])
      /\ "reorder" \in env \/ ses["out"].resp \subseteq {100}
      /\ ses' = [ses EXCEPT !["out"] =
           IF IsBeingEstablished(out) THEN StartTimer(out) ELSE out]
      /\ UNCHANGED <<env, route, rd, uac>>

\* 183 stands for any 18x with SDP, 180 for any without
Receive18x(sc) ==
  LET out == AddResponse(ses["out"], sc)
      now == [out EXCEPT !.no18x = Stop(@)]
      in  == ses["in"]
  IN  /\ Stored(ses["out"])
      /\ "reorder" \in env \/ ~Finalized(ses["out"])
      /\ "skip100" \in env \/ 100 \in out.resp
      /\ sc = 183 => "early" \in env
      /\ \/ /\ ~IsBeingEstablished(out)
            /\ ses' = [ses EXCEPT !["out"] = out]
         \/ /\ IsBeingEstablished(out) /\ out.transform
            /\ ses' = Both(IF out.sdp18x THEN in
                           ELSE SendResponse(in, IF sc = 183 THEN 200 ELSE sc),
                           [now EXCEPT !.sdp18x = @ \/ sc = 183])
         \/ /\ IsBeingEstablished(out) /\ ~out.transform
            /\ ses' = Both(IF IsBeingEstablished(in) THEN SendResponse(in, sc)
                           ELSE in, now)
      /\ UNCHANGED <<env, route, rd, uac>>

Receive2xx ==
  LET out == AddResponse(ses["out"], 200)
      now == [StopNoTimers(out) EXCEPT !.transform = FALSE]
  IN  /\ Stored(ses["out"])
      /\ ~Finalized(ses["out"])
      /\ \/ /\ ~IsBeingEstablished(out) \* the call is over: ACK, then BYE
            /\ ses' = [ses EXCEPT !["out"] =
                 [SendACK(StopAllOutTransactions(out)) EXCEPT !.asleep = "ackbye"]]
         \/ /\ IsBeingEstablished(out) /\ out.transform /\ out.sdp18x
            /\ ses' = [ses EXCEPT !["out"] = SendACK(FinalizeState(now))]
         \/ /\ IsBeingEstablished(out) /\ ~(out.transform /\ out.sdp18x)
            /\ ses' = Both(SendResponse(ses["in"], 200), now)
      /\ UNCHANGED <<env, route, rd, uac>>

Receive3xx ==
  /\ Stored(ses["out"])
  /\ ~Finalized(ses["out"])
  /\ "redirect" \in env
  /\ ses' = Both(RerouteRequest(ses["in"], 302),
                 Ack3xxTo6xx(StopNoTimers(AddResponse(ses["out"], 302)),
                             "Redirected"))
  /\ UNCHANGED <<env, route, rd, uac>>

\* ReleaseMe, or else RejectMe
ReleaseOrReject(ss, sc) ==
  IF IsEstablished(ss) THEN ReleaseMe(ss) ELSE RejectMe(ss, sc)

Receive4xx(sc) ==
  LET out == AddResponse(ses["out"], sc)
      now == [Ack3xxTo6xx(StopNoTimers(out), "Rejected") EXCEPT !.transform = FALSE]
      in  == ses["in"]
  IN  /\ Stored(ses["out"])
      /\ ~Finalized(ses["out"])
      /\ sc = 487 => out.cancel # "none"
      /\ ses' =
           IF IsBeingEstablished(out)
           THEN Both(IF out.transform THEN ReleaseOrReject(in, sc)
                     ELSE RerouteRequest(in, sc), now)
           ELSE [ses EXCEPT !["out"] = IF out.state = "BeingCancelled"
                                       THEN Ack3xxTo6xxFinalize(out) ELSE out]
      /\ UNCHANGED <<env, route, rd, uac>>

-----------------------------------------------------------------------------
(***************************************************************************)
(* Responses to the CANCEL, BYE and OPTIONS requests sent here.  486 stands *)
(* for any negative response that is not a redirection.                    *)
(***************************************************************************)
Answers == {200, 486} \cup (IF "bye3xx" \in env THEN {302} ELSE {})
Unanswered(tx) == tx \in {"armed", "stopped"}

\* addIncomingResponse starts the auxiliary timer of the INVITE
ReceiveCANCELResponse(sc) ==
  LET out == [ses["out"] EXCEPT
                !.cancel = "final",
                !.aux = IF @ = "nil" /\ ~Finalized(ses["out"]) THEN "armed" ELSE @]
  IN  /\ Stored(ses["out"])
      /\ Unanswered(ses["out"].cancel)
      /\ ses' = [ses EXCEPT !["out"] = IF sc = 302 THEN DropMe(out) ELSE out]
      /\ UNCHANGED <<env, route, rd, uac>>

ReceiveBYEResponse(l, sc) ==
  LET me == [ses[l] EXCEPT !.bye = "final"]
  IN  /\ Stored(ses[l])
      /\ Unanswered(ses[l].bye)
      /\ sc = 486 /\ ~me.linked => "echoBye4xx" \in env
      /\ ses' = [ses EXCEPT ![l] =
           IF sc = 200 \/ (me.linked /\ sc = 486)
           THEN DropMe(FinalizeState(StopAllOutTransactions(me)))
           ELSE IF me.linked THEN DropMe(me) ELSE me]
      /\ UNCHANGED <<env, route, rd, uac>>

ReleaseCall(in) ==
  ses' = Both(ReleaseCallLeg(in), OnLinked("in", ReleaseCallLeg(ses["out"])))

\* 408 or 481 on the probe
ReceiveProbeResponse(sc) ==
  LET in == [ses["in"] EXCEPT !.probe = "final"]
  IN  /\ Stored(ses["in"])
      /\ Unanswered(ses["in"].probe)
      /\ IF in.linked /\ sc = 486 THEN ReleaseCall(in)
         ELSE ses' = [ses EXCEPT !["in"] = in]
      /\ UNCHANGED <<env, route, rd, uac>>

-----------------------------------------------------------------------------
(***************************************************************************)
(* Timers and sleeping goroutines                                          *)
(***************************************************************************)
ProbingTick ==
  /\ Probing
  /\ Stored(ses["in"]) /\ IsEstablished(ses["in"])
  /\ ses["in"].probe # "armed"
  /\ ses' = [ses EXCEPT !["in"].probe = "armed"]
  /\ UNCHANGED <<env, route, rd, uac>>

\* the last retransmission went unanswered: CheckPendingTransaction
InboundINVITETimeout ==
  /\ ses["in"].timer = "armed"
  /\ ses' = Both(TimedOut([ses["in"] EXCEPT !.timer = "nil"]),
                 OnLinked("in", CallerTimedOut(ses["out"])))
  /\ UNCHANGED <<env, route, rd, uac>>

OutboundINVITETimeout ==
  /\ ses["out"].timer = "armed"
  /\ ses' = Both(RerouteRequest(ses["in"], 408),
                 TimedOut([ses["out"] EXCEPT !.timer = "nil"]))
  /\ UNCHANGED <<env, route, rd, uac>>

CANCELTimeout ==
  /\ ses["out"].cancel = "armed"
  /\ ses' = [ses EXCEPT !["out"] =
       DropMe(FinalizeState([@ EXCEPT !.cancel = "stopped"]))]
  /\ UNCHANGED <<env, route, rd, uac>>

BYETimeout(l) ==
  /\ ses[l].bye = "armed"
  /\ ses' = [ses EXCEPT ![l] = DropMe(FinalizeState([@ EXCEPT !.bye = "stopped"]))]
  /\ UNCHANGED <<env, route, rd, uac>>

ProbeTimeout ==
  /\ ses["in"].probe = "armed"
  /\ ReleaseCall([ses["in"] EXCEPT !.probe = "stopped"])
  /\ UNCHANGED <<env, route, rd, uac>>

cancelTimerHandler ==
  LET out == [ses["out"] EXCEPT !.aux = "stopped"]
  IN  /\ ses["out"].aux = "armed"
      /\ ses' = [ses EXCEPT !["out"] =
           IF IsPending(out.state) THEN DropMe(FinalizeState(out)) ELSE out]
      /\ UNCHANGED <<env, route, rd, uac>>

timerHandler(tt) ==
  LET out == ses["out"]
  IN  /\ (IF tt = "NoAnswer" THEN out.noAns ELSE out.no18x) = "armed"
      /\ ses' = Both(RerouteRequest(ses["in"], 487),
                     CancelMe(IF tt = "NoAnswer" THEN [out EXCEPT !.noAns = "nil"]
                              ELSE [out EXCEPT !.no18x = "nil"]))
      /\ UNCHANGED <<env, route, rd, uac>>

MaxCallDuration ==
  /\ ses["in"].maxDur = "armed"
  /\ ReleaseCall([ses["in"] EXCEPT !.maxDur = "stopped"])
  /\ UNCHANGED <<env, route, rd, uac>>

\* a handler wakes from WaitMS(100) and sends its BYE
WakeAndBYE ==
  LET out == [ses["out"] EXCEPT !.asleep = "no"]
  IN  /\ ses["out"].asleep # "no"
      /\ ses' = [ses EXCEPT !["out"] =
           SendBYE(IF ses["out"].asleep = "timeoutbye"
                   THEN SetState(out, "BeingDropped") ELSE out)]
      /\ UNCHANGED <<env, route, rd, uac>>

\* DropMeTimed, four seconds later; only ss2 is ever dropped this way
WakeAndDrop ==
  /\ ses["out"].dropping
  /\ ses' = [ses EXCEPT !["out"] = DropMe([@ EXCEPT !.dropping = FALSE])]
  /\ UNCHANGED <<env, route, rd, uac>>

-----------------------------------------------------------------------------
RouteStep ==
  \/ RouteReject \/ EchoAnswer \/ RouteCheck \/ RouteSend
  \/ \E r \in RoutingRecords : RouteEcho(r) \/ RouteLink(r) \/ RouteNoPort(r)

TimerType == {"No18x", "NoAnswer"}

Caller == ReceiveINVITE \/ RejectINVITE \/ CallerLearns \/ ReceiveACK \/ ReceiveCANCEL

Callee ==
  \/ Receive100
  \/ \E sc \in {180, 183} : Receive18x(sc)
  \/ Receive2xx
  \/ Receive3xx
  \/ \E sc \in {486, 487} : Receive4xx(sc)
  \/ \E sc \in Answers : ReceiveCANCELResponse(sc)

Either ==
  \/ \E l \in Leg : ReceiveBYE(l)
  \/ \E l \in Leg, sc \in Answers : ReceiveBYEResponse(l, sc)
  \/ \E sc \in {200, 486} : ReceiveProbeResponse(sc)

Timers ==
  \/ ProbingTick \/ ProbeTimeout \/ MaxCallDuration
  \/ InboundINVITETimeout \/ OutboundINVITETimeout
  \/ CANCELTimeout \/ cancelTimerHandler
  \/ \E tt \in TimerType : timerHandler(tt)
  \/ \E l \in Leg : BYETimeout(l)
  \/ WakeAndBYE \/ WakeAndDrop

Next == RouteStep \/ Caller \/ Callee \/ Either \/ Timers

(***************************************************************************)
(* The program's own goroutines run: routing goes on, timers that are not  *)
(* stopped expire, sleepers wake.  Nothing is assumed of the peers.        *)
(***************************************************************************)
Fairness ==
  /\ WF_vars(RouteStep)
  /\ WF_vars(InboundINVITETimeout) /\ WF_vars(OutboundINVITETimeout)
  /\ WF_vars(CANCELTimeout) /\ WF_vars(cancelTimerHandler)
  /\ \A tt \in TimerType : WF_vars(timerHandler(tt))
  /\ \A l \in Leg : WF_vars(BYETimeout(l))
  /\ WF_vars(WakeAndBYE) /\ WF_vars(WakeAndDrop)

Spec == Init /\ [][Next]_vars /\ Fairness

-----------------------------------------------------------------------------
(***************************************************************************)
(* Properties that hold whatever the peers and the network do              *)
(***************************************************************************)

(***************************************************************************)
(* A session is Established, or has sent BYE (or sleeps before sending     *)
(* one), only if its INVITE was answered 2xx and that answer was           *)
(* acknowledged: no BYE ever leaves outside a confirmed dialogue, although *)
(* seven different handlers send one.                                      *)
(***************************************************************************)
ConfirmedDialogue ==
  \A l \in Leg :
    (IsEstablished(ses[l]) \/ ses[l].bye # "none" \/ ses[l].asleep # "no")
      => Received200(ses[l]) /\ ses[l].acked

(***************************************************************************)
(* A caller that is connected is connected to somebody: while ss1 is       *)
(* Established and linked, ss2's INVITE was answered 2xx and the ACK was   *)
(* propagated.  A TransformEarlyToFinal call may instead have been         *)
(* answered early, on an 18x with SDP.                                     *)
(***************************************************************************)
EstablishedPair ==
  IsEstablished(ses["in"]) /\ ses["in"].linked =>
    \/ Received200(ses["out"]) /\ ses["out"].acked
    \/ rd.flow = "TransformEarlyToFinal"
       /\ (ses["out"].sdp18x \/ Received200(ses["out"]))

(***************************************************************************)
(* Every negative final response of the callee is acknowledged in the step *)
(* that receives it, in whatever state ss2 is (Ack3xxTo6xx and             *)
(* Ack3xxTo6xxFinalize are only called from some of them).                 *)
(***************************************************************************)
NegativeAcked ==
  ses["out"].resp \cap Negative # {} => ses["out"].acked

(***************************************************************************)
(* Each of the two sessions lives as SessionLife says: handlers, timers    *)
(* and sleepers of both legs change states and call DropMe in any order,   *)
(* and yet no session is set up or answered twice, comes back from being   *)
(* released, or is dropped with its call up or being set up.               *)
(***************************************************************************)
PhaseOf(st) ==
  CASE st = "NotSet"           -> "idle"
    [] st = "BeingEstablished" -> "setup"
    [] st = "Established"      -> "up"
    [] st \in PendingState \ {"BeingEstablished"} -> "ending"
    [] OTHER -> "over"

InLife == INSTANCE SessionLife
  WITH phase <- PhaseOf(ses["in"].state), disposed <- ses["in"].disposed
OutLife == INSTANCE SessionLife
  WITH phase <- PhaseOf(ses["out"].state), disposed <- ses["out"].disposed

SessionsLive == InLife!Spec /\ OutLife!Spec

(***************************************************************************)
(* A leg sends one BYE: max duration, probing, the other side's BYE and    *)
(* the timeouts all try, and never does a second one start.                *)
(***************************************************************************)
OneBYE ==
  [][\A l \in Leg : ses[l].bye # "none"
       => ses'[l].bye \in {ses[l].bye, "stopped", "final"}]_vars

-----------------------------------------------------------------------------
(***************************************************************************)
(* Properties of calls between orderly peers, which neither cross nor      *)
(* contradict what was already sent.  Calls that are answered on an 18x    *)
(* (TransformEarlyToFinal) are left out.                                   *)
(***************************************************************************)
OrderlyPeers == env \subseteq {"cancel", "early", "redirect", "lateCalleeBye"}
OrderlyCall == OrderlyPeers /\ rd.flow # "TransformEarlyToFinal"

(***************************************************************************)
(* The caller never gets a 2xx and a negative final response to the same   *)
(* INVITE, although answer, cancellation, no-answer timer and timeouts     *)
(* race for it.                                                            *)
(***************************************************************************)
OneFinalResponse ==
  OrderlyCall => ~(Received200(ses["in"]) /\ ses["in"].resp \cap Negative # {})

(***************************************************************************)
(* What transTimerHandler retransmits on an inbound INVITE is the final    *)
(* response: a provisional one never takes its place in SentMessage.       *)
(***************************************************************************)
RetransmitsFinal ==
  OrderlyCall /\ ses["in"].timer = "armed" => ses["in"].sent \in Final

(***************************************************************************)
(* A disposed session holds no media port, and neither does a second       *)
(* session that was created and never sent.                                *)
(***************************************************************************)
PortsReturned ==
  OrderlyCall =>
    /\ \A l \in Leg : ses[l].disposed => ~ses[l].media
    /\ route = "done" /\ ~ses["out"].added => ~ses["out"].media

(***************************************************************************)
(* When one session of a call is gone the other one goes too: nobody is    *)
(* left in a call with no far end, and no session stays in the table.      *)
(***************************************************************************)
Cleared(l) == ses[l].added /\ ses[l].disposed

CallCleared ==
  \A l \in Leg : (OrderlyCall /\ Cleared(l)) ~> (OrderlyCall => ~Stored(ses[Lnk(l)]))

(***************************************************************************)
(* "call cleared - no need to propagate ACK, since clearing is handled     *)
(* locally per session" (stack.go:466): the same for every call.           *)
(***************************************************************************)
ClearedLocally == \A l \in Leg : Cleared(l) ~> ~Stored(ses[Lnk(l)])

(***************************************************************************)
(* No session stays in a transient state: whatever the peers fail to send, *)
(* some timer of the program ends it.  A record may disable the no-answer  *)
(* timer and let the callee ring for ever.                                 *)
(***************************************************************************)
PendingEnds ==
  \A l \in Leg : (OrderlyCall /\ IsPending(ses[l].state))
                   ~> (OrderlyCall /\ (rd.noAns \/ rd = NoRecord) => ~IsPending(ses[l].state))
=============================================================================
