--------------------------- MODULE B2BCallProofs ----------------------------
EXTENDS B2BCall, TLAPS

-----------------------------------------------------------------------------
(***************************************************************************)
(* The inductive invariant.  Local is what every session satisfies by      *)
(* itself; Quiet what ss2 is until its INVITE is sent; Cross what relates  *)
(* the two sessions, the routing goroutine and the caller.                 *)
(***************************************************************************)
Local(ss) ==
  /\ ss.state = "Established" \/ ss.bye # "none" \/ ss.asleep # "no"
       => 200 \in ss.resp /\ ss.acked
  /\ ss.bye # "none" \/ ss.cancel # "none" \/ ss.aux # "nil" \/ ss.asleep = "ackbye"
       => ss.state # "BeingEstablished"
  /\ ss.dir = "INBOUND" /\ ss.resp \cap Negative # {}
       => ss.state # "BeingEstablished"

Quiet(ss) ==
  /\ ss.state = "NotSet" /\ ss.resp = {} /\ ~ss.added /\ ~ss.dropping
  /\ ss.timer = "nil" /\ ss.aux = "nil" /\ ss.no18x = "nil" /\ ss.noAns = "nil"
  /\ ss.cancel = "none" /\ ss.bye = "none" /\ ss.asleep = "no"

Cross ==
  /\ uac = "answered" => 200 \in ses["in"].resp
  /\ uac = "failed" => ses["in"].resp \cap Negative # {}
  /\ route = "idle" => Quiet(ses["in"])
  /\ route \in {"idle", "routing", "echoWait"} => ~ses["in"].linked
  /\ route # "done" => 200 \notin ses["in"].resp /\ Quiet(ses["out"])
  /\ route \in {"idle", "routing", "echoWait"} => ~ses["out"].transform
  /\ ses["out"].transform => rd.flow = "TransformEarlyToFinal"
  /\ rd.flow = "TransformEarlyToFinal" /\ route \in {"linked", "checked"}
       => ses["out"].transform
  /\ (rd.flow = "TransformEarlyToFinal"
        /\ ses["out"].state = "BeingEstablished" /\ ~ses["out"].transform)
       => 200 \in ses["out"].resp
  /\ ses["in"].linked /\ 200 \in ses["in"].resp
       => \/ 200 \in ses["out"].resp
          \/ rd.flow = "TransformEarlyToFinal" /\ ses["out"].sdp18x
  /\ ses["in"].linked /\ ses["in"].state = "Established"
       => ses["out"].acked \/ rd.flow = "TransformEarlyToFinal"

IInv ==
  /\ TypeOK
  /\ \A l \in Leg : Local(ses[l])
  /\ Cross

-----------------------------------------------------------------------------
(***************************************************************************)
(* Tame(s, t): t is a session that s may become without a call being       *)
(* answered by it.  Most methods of SipSession are tame, tame steps        *)
(* compose, and a step that is tame for both sessions preserves IInv.      *)
(***************************************************************************)
Tame(s, t) ==
  /\ t \in Session /\ t.dir = s.dir
  /\ Local(s) => Local(t)
  /\ Quiet(s) => Quiet(t)
  /\ s.resp \subseteq t.resp /\ (200 \in t.resp => 200 \in s.resp)
  /\ s.acked => t.acked
  /\ t.linked => s.linked
  /\ s.added => t.added
  /\ t.transform = s.transform /\ t.sdp18x = s.sdp18x
  /\ t.state = "BeingEstablished" => s.state = "BeingEstablished"
  /\ t.state = "Established" => s.state = "Established"

LEMMA TameRefl == ASSUME NEW s \in Session PROVE Tame(s, s)
  BY DEF Tame

LEMMA TameTrans ==
  ASSUME NEW s, NEW t, NEW u, Tame(s, t), Tame(t, u)
  PROVE  Tame(s, u)
  BY DEF Tame

LEMMA StopFacts ==
  /\ \A t \in TimerState : Stop(t) \in TimerState /\ (Stop(t) = "nil" <=> t = "nil")
  /\ \A t \in TxState : Stop(t) \in TxState /\ (Stop(t) = "none" <=> t = "none")
  BY DEF Stop, TimerState, TxState

LEMMA FinalizeMeType == \A s \in State : FinalizeMe(s) \in State
  BY DEF FinalizeMe, State, PendingState, SettledState

LEMMA FinalizeMeNotLive ==
  \A s \in State : /\ FinalizeMe(s) # "BeingEstablished"
                   /\ s # "BeingEstablished" /\ FinalizeMe(s) = "Established"
                        => s = "Established"
  BY DEF FinalizeMe, State, PendingState, SettledState

LEMMA FinalizeMeValues ==
  /\ FinalizeMe("NotSet") = "NotSet"
  /\ FinalizeMe("BeingEstablished") = "Established"
  BY DEF FinalizeMe

\* SetState to anything but the two states of a live call
LEMMA SetStateTame ==
  ASSUME NEW s \in Session, NEW st \in State,
         st # "Established", st # "BeingEstablished",
         s.state # "NotSet" \/ s.added
  PROVE  Tame(s, SetState(s, st))
  BY DEF SetState, Tame, Local, Quiet, Session

LEMMA FinalizeStateTame ==
  ASSUME NEW s \in Session, s.state # "BeingEstablished"
  PROVE  Tame(s, FinalizeState(s))
<1>1. /\ FinalizeMe(s.state) \in State
      /\ FinalizeMe(s.state) # "BeingEstablished"
      /\ FinalizeMe(s.state) = "Established" => s.state = "Established"
      /\ s.state = "NotSet" => FinalizeMe(s.state) = "NotSet"
  BY FinalizeMeType, FinalizeMeNotLive, FinalizeMeValues DEF Session
<1>2. FinalizeState(s) = [s EXCEPT !.state = FinalizeMe(s.state)]
  BY DEF FinalizeState
<1> QED BY <1>1, <1>2 DEF Tame, Local, Quiet, Session

LEMMA DropMeTame ==
  ASSUME NEW s \in Session
  PROVE  Tame(s, DropMe(s))
<1>1. CASE s.disposed
  BY <1>1, TameRefl DEF DropMe
<1>2. CASE ~s.disposed
  <2> DEFINE t == [s EXCEPT !.disposed = TRUE, !.media = FALSE,
                            !.maxDur = Stop(s.maxDur)]
  <2>1. DropMe(s) = t
    BY <1>2 DEF DropMe
  <2>2. Stop(s.maxDur) \in TimerState
    BY StopFacts DEF Session
  <2>3. t \in Session
    BY <2>2 DEF Session
  <2>4. Local(s) => Local(t)
    BY DEF Local, Session
  <2>5. Quiet(s) => Quiet(t)
    BY DEF Quiet, Session
  <2>6. Tame(s, t)
    BY <2>3, <2>4, <2>5 DEF Tame, Session
  <2> QED BY <2>1, <2>6
<1> QED BY <1>1, <1>2

LEMMA DropMeTimedTame ==
  ASSUME NEW s \in Session, s.state # "NotSet"
  PROVE  Tame(s, DropMeTimed(s))
  BY ZenonT(60) DEF DropMeTimed, Tame, Local, Quiet, Session

LEMMA SendResponseType ==
  ASSUME NEW s \in Session, NEW sc \in Code
  PROVE  SendResponse(s, sc) \in Session
<1> DEFINE tm == IF s.timer = "nil" /\ (sc \in Final \/ Finalized(s))
                 THEN "armed" ELSE s.timer
<1>1. CASE s.acked
  BY <1>1 DEF SendResponse
<1>2. CASE ~s.acked
  <2>1. SendResponse(s, sc)
          = [s EXCEPT !.resp = s.resp \cup {sc}, !.sent = sc, !.timer = tm]
    BY <1>2 DEF SendResponse
  <2>2. tm \in TimerState
    BY DEF Session, TimerState
  <2>3. s.resp \cup {sc} \in SUBSET Code
    BY DEF Session
  <2> HIDE DEF tm
  <2> QED BY <2>1, <2>2, <2>3, ZenonT(60) DEF Session
<1> QED BY <1>1, <1>2

\* Apart from resp, sent and timer a response changes nothing.
LEMMA SendResponseFrame ==
  ASSUME NEW s \in Session, NEW sc \in Code
  PROVE  LET t == SendResponse(s, sc)
         IN  /\ t.dir = s.dir /\ t.state = s.state /\ t.linked = s.linked
             /\ t.acked = s.acked /\ t.bye = s.bye /\ t.asleep = s.asleep
             /\ t.cancel = s.cancel /\ t.aux = s.aux
             /\ t.transform = s.transform /\ t.sdp18x = s.sdp18x
             /\ t.added = s.added
             /\ t.resp \in {s.resp, s.resp \cup {sc}}
<1>1. CASE s.acked
  BY <1>1 DEF SendResponse
<1>2. CASE ~s.acked
  BY <1>2 DEF SendResponse, Session
<1> QED BY <1>1, <1>2

LEMMA SendResponseTame ==
  ASSUME NEW s \in Session, NEW sc \in Code, sc # 200, s.state # "NotSet",
         sc \in Negative => s.state # "BeingEstablished"
  PROVE  Tame(s, SendResponse(s, sc))
<1> DEFINE t == SendResponse(s, sc)
<1>1. t \in Session
  BY SendResponseType
<1>2. Local(s) => Local(t)
  BY SendResponseFrame DEF Local
<1>3. Quiet(s) => Quiet(t)
  BY DEF Quiet
<1>4. s.resp \subseteq t.resp /\ (200 \in t.resp => 200 \in s.resp)
  BY SendResponseFrame
<1> QED BY <1>1, <1>2, <1>3, <1>4, SendResponseFrame DEF Tame

LEMMA SendACKTame ==
  ASSUME NEW s \in Session
  PROVE  Tame(s, SendACK(s))
  BY ZenonT(60) DEF SendACK, Tame, Local, Quiet, Session

LEMMA SendCANCELTame ==
  ASSUME NEW s \in Session, s.state # "NotSet", s.state # "BeingEstablished"
  PROVE  Tame(s, SendCANCEL(s))
<1>1. CASE s.acked
  BY <1>1, TameRefl DEF SendCANCEL
<1>2. CASE ~s.acked
  <2>1. SendCANCEL(s) = [s EXCEPT !.cancel = "armed"]
    BY <1>2 DEF SendCANCEL
  <2> QED BY <2>1 DEF Tame, Local, Quiet, Session, TxState
<1> QED BY <1>1, <1>2

LEMMA SendBYETame ==
  ASSUME NEW s \in Session, 200 \in s.resp, s.acked, s.state # "BeingEstablished"
  PROVE  Tame(s, SendBYE(s))
<1>1. Finalized(s)
  BY DEF Finalized, Final
<1>2. SendBYE(s) = [s EXCEPT !.bye = "armed"]
  BY <1>1 DEF SendBYE
<1>3. [s EXCEPT !.bye = "armed"] \in Session
  BY DEF Session, TxState
<1>4. ~Quiet(s)
  BY DEF Quiet
<1> QED BY <1>2, <1>3, <1>4 DEF Tame, Local, Session

LEMMA StopAllTame ==
  ASSUME NEW s \in Session
  PROVE  /\ Tame(s, StopAllOutTransactions(s))
         /\ StopAllOutTransactions(s).state = s.state
<1> DEFINE t == StopAllOutTransactions(s)
<1>1. /\ Stop(s.timer) \in TimerState /\ (Stop(s.timer) = "nil" <=> s.timer = "nil")
      /\ Stop(s.cancel) \in TxState /\ (Stop(s.cancel) = "none" <=> s.cancel = "none")
      /\ Stop(s.bye) \in TxState /\ (Stop(s.bye) = "none" <=> s.bye = "none")
      /\ Stop(s.probe) \in TxState
  BY StopFacts DEF Session
<1>2. t = [s EXCEPT !.timer = Stop(s.timer), !.cancel = Stop(s.cancel),
                    !.bye = Stop(s.bye), !.probe = Stop(s.probe)]
  BY DEF StopAllOutTransactions
<1>3. t \in Session
  BY <1>1, <1>2, ZenonT(60) DEF Session
<1>4. Local(s) => Local(t)
  BY <1>1, <1>2 DEF Local, Session
<1>5. Quiet(s) => Quiet(t)
  BY <1>1, <1>2 DEF Quiet, Session
<1> QED BY <1>2, <1>3, <1>4, <1>5 DEF Tame, Session

LEMMA StopPendingTame ==
  ASSUME NEW s \in Session
  PROVE  /\ Tame(s, StopPending(s))
         /\ StopPending(s).state = s.state /\ StopPending(s).linked = s.linked
<1> DEFINE t == StopPending(s)
           tm == IF s.dir = "OUTBOUND" /\ Finalized(s) THEN s.timer ELSE Stop(s.timer)
<1>1. /\ tm \in TimerState /\ (s.timer = "nil" => tm = "nil")
      /\ Stop(s.cancel) \in TxState /\ (Stop(s.cancel) = "none" <=> s.cancel = "none")
      /\ Stop(s.bye) \in TxState /\ (Stop(s.bye) = "none" <=> s.bye = "none")
      /\ Stop(s.probe) \in TxState
  BY StopFacts DEF Session
<1>2. t = [s EXCEPT !.cancel = Stop(s.cancel), !.bye = Stop(s.bye),
                    !.probe = Stop(s.probe), !.timer = tm, !.rcvdBye = TRUE]
  BY DEF StopPending
<1> HIDE DEF tm, t
<1>3. t \in Session
  BY <1>1, <1>2, ZenonT(60) DEF Session
<1>4. Local(s) => Local(t)
  BY <1>1, <1>2 DEF Local, Session
<1>5. Quiet(s) => Quiet(t)
  BY <1>1, <1>2 DEF Quiet, Session
<1>6. Tame(s, t) /\ t.state = s.state /\ t.linked = s.linked
  BY <1>2, <1>3, <1>4, <1>5 DEF Tame, Session
<1> QED BY <1>6 DEF t

LEMMA StopNoTimersTame ==
  ASSUME NEW s \in Session
  PROVE  Tame(s, StopNoTimers(s)) /\ StopNoTimers(s).state = s.state
<1> DEFINE t == StopNoTimers(s)
<1>1. /\ Stop(s.no18x) \in TimerState /\ (Stop(s.no18x) = "nil" <=> s.no18x = "nil")
      /\ Stop(s.noAns) \in TimerState /\ (Stop(s.noAns) = "nil" <=> s.noAns = "nil")
  BY StopFacts DEF Session
<1>2. t = [s EXCEPT !.no18x = Stop(s.no18x), !.noAns = Stop(s.noAns)]
  BY DEF StopNoTimers
<1>3. t \in Session
  BY <1>1, <1>2, ZenonT(60) DEF Session
<1>4. Local(s) => Local(t)
  BY <1>1, <1>2 DEF Local, Session
<1>5. Quiet(s) => Quiet(t)
  BY <1>1, <1>2 DEF Quiet, Session
<1> QED BY <1>2, <1>3, <1>4, <1>5 DEF Tame, Session

LEMMA StartTimerTame ==
  ASSUME NEW s \in Session, s.state # "NotSet"
  PROVE  Tame(s, StartTimer(s))
<1> DEFINE a == IF s.no18x = "nil" /\ rd.no18x THEN "armed" ELSE s.no18x
           b == IF s.noAns = "nil" /\ rd.noAns THEN "armed" ELSE s.noAns
<1>1. a \in TimerState /\ b \in TimerState
  BY DEF Session, TimerState
<1>2. StartTimer(s) = [s EXCEPT !.no18x = a, !.noAns = b]
  BY DEF StartTimer
<1> HIDE DEF a, b
<1>3. StartTimer(s) \in Session
  BY <1>1, <1>2, ZenonT(60) DEF Session
<1>4. Local(s) => Local(StartTimer(s))
  BY <1>2 DEF Local, Session
<1> QED BY <1>2, <1>3, <1>4 DEF Tame, Quiet, Session

LEMMA CancelMeTame ==
  ASSUME NEW s \in Session
  PROVE  Tame(s, CancelMe(s))
<1>1. CASE s.dir = "OUTBOUND" /\ IsBeingEstablished(s)
  <2> DEFINE t == StopNoTimers(s)
             u == SetState(t, "BeingCancelled")
             v == SendCANCEL(u)
  <2>1. Tame(s, t) /\ t \in Session /\ t.state = "BeingEstablished"
    BY <1>1, StopNoTimersTame DEF IsBeingEstablished, Tame
  <2>2. Tame(t, u) /\ u \in Session /\ u.state = "BeingCancelled"
    <3>1. "BeingCancelled" \in State
      BY DEF State, PendingState
    <3>2. Tame(t, u)
      BY <2>1, <3>1, SetStateTame
    <3> QED BY <2>1, <3>2 DEF Tame, SetState, Session
  <2>3. Tame(u, v)
    BY <2>2, SendCANCELTame
  <2>4. CancelMe(s) = v
    BY <1>1 DEF CancelMe
  <2> QED BY <2>1, <2>2, <2>3, <2>4, TameTrans
<1>2. CASE ~(s.dir = "OUTBOUND" /\ IsBeingEstablished(s))
  BY <1>2, TameRefl DEF CancelMe
<1> QED BY <1>1, <1>2

LEMMA RejectMeTame ==
  ASSUME NEW s \in Session, NEW sc \in Negative
  PROVE  Tame(s, RejectMe(s, sc))
<1>1. CASE s.dir = "INBOUND" /\ IsBeingEstablished(s)
  <2> DEFINE t == SetState(s, "BeingFailed")
             u == SendResponse(t, sc)
  <2>1. "BeingFailed" \in State
    BY DEF State, PendingState
  <2>2. Tame(s, t)
    BY <1>1, <2>1, SetStateTame DEF IsBeingEstablished
  <2>3. t \in Session /\ t.state = "BeingFailed"
    BY <2>2 DEF Tame, SetState, Session
  <2>4. sc \in Code /\ sc # 200
    BY DEF Code, Final, Negative
  <2>5. Tame(t, u)
    BY <2>3, <2>4, SendResponseTame
  <2>6. RejectMe(s, sc) = u
    BY <1>1 DEF RejectMe
  <2> QED BY <2>2, <2>5, <2>6, TameTrans
<1>2. CASE ~(s.dir = "INBOUND" /\ IsBeingEstablished(s))
  BY <1>2, TameRefl DEF RejectMe
<1> QED BY <1>1, <1>2

\* A BYE that releases an Established session.
LEMMA ReleaseTame ==
  ASSUME NEW s \in Session, Local(s), s.state = "Established",
         NEW st \in {"BeingCleared", "BeingDropped"}
  PROVE  Tame(s, SendBYE(SetState(s, st)))
<1> DEFINE t == SetState(s, st)
<1>1. st \in State
  BY DEF State, PendingState
<1>2. Tame(s, t)
  BY <1>1, SetStateTame
<1>3. t \in Session /\ t.state = st /\ t.resp = s.resp /\ t.acked = s.acked
  BY <1>2 DEF Tame, SetState, Session
<1>4. 200 \in t.resp /\ t.acked
  BY <1>3 DEF Local
<1>5. Tame(t, SendBYE(t))
  BY <1>3, <1>4, SendBYETame
<1> QED BY <1>2, <1>5, TameTrans

LEMMA ReleaseMeTame ==
  ASSUME NEW s \in Session, Local(s)
  PROVE  Tame(s, ReleaseMe(s))
  BY ReleaseTame, TameRefl DEF ReleaseMe, IsEstablished

LEMMA ReleaseCallLegTame ==
  ASSUME NEW s \in Session, Local(s)
  PROVE  Tame(s, ReleaseCallLeg(s))
  BY ReleaseTame, TameRefl DEF ReleaseCallLeg, IsEstablished

LEMMA ReleaseOrCancelTame ==
  ASSUME NEW s \in Session, Local(s)
  PROVE  Tame(s, ReleaseOrCancel(s))
  BY ReleaseMeTame, CancelMeTame DEF ReleaseOrCancel

LEMMA RerouteRequestTame ==
  ASSUME NEW s \in Session, NEW sc \in Negative
  PROVE  Tame(s, RerouteRequest(s, sc))
<1>1. CASE ~s.acked /\ IsBeingEstablished(s)
  <2> DEFINE t == [s EXCEPT !.linked = FALSE]
  <2>1. Tame(s, t)
    BY ZenonT(60) DEF Tame, Local, Quiet, Session
  <2>2. t \in Session
    BY <2>1 DEF Tame
  <2>3. Tame(t, RejectMe(t, sc))
    BY <2>2, RejectMeTame
  <2>4. RerouteRequest(s, sc) = RejectMe(t, sc)
    BY <1>1 DEF RerouteRequest
  <2> QED BY <2>1, <2>3, <2>4, TameTrans
<1>2. CASE ~(~s.acked /\ IsBeingEstablished(s))
  BY <1>2, TameRefl DEF RerouteRequest
<1> QED BY <1>1, <1>2

\* ACK a final response and leave the session to DropMeTimed
LEMMA AckAndDropTame ==
  ASSUME NEW s \in Session, s.state # "NotSet"
  PROVE  Tame(s, DropMeTimed(SendACK(s)))
<1> DEFINE t == SendACK(s)
<1>1. Tame(s, t)
  BY SendACKTame
<1>2. t \in Session /\ t.state = s.state
  BY <1>1 DEF Tame, SendACK, Session
<1>3. Tame(t, DropMeTimed(t))
  BY <1>2, DropMeTimedTame
<1> QED BY <1>1, <1>3, TameTrans

LEMMA Ack3xxTo6xxTame ==
  ASSUME NEW s \in Session, s.added, NEW st \in {"Redirected", "Rejected"}
  PROVE  Tame(s, Ack3xxTo6xx(s, st))
<1> DEFINE t == SetState(s, st)
<1>1. st \in State
  BY DEF State, SettledState
<1>2. Tame(s, t)
  BY <1>1, SetStateTame
<1>3. t \in Session /\ t.state = st
  BY <1>2 DEF Tame, SetState, Session
<1>4. Tame(t, DropMeTimed(SendACK(t)))
  BY <1>3, AckAndDropTame
<1> QED BY <1>2, <1>4, TameTrans DEF Ack3xxTo6xx

LEMMA Ack3xxTo6xxFinalizeTame ==
  ASSUME NEW s \in Session, s.state = "BeingCancelled"
  PROVE  Tame(s, Ack3xxTo6xxFinalize(s))
<1> DEFINE t == FinalizeState(s)
<1>1. Tame(s, t)
  BY FinalizeStateTame
<1>2. FinalizeMe("BeingCancelled") = "Cancelled"
  BY DEF FinalizeMe
<1>3. t \in Session /\ t.state = "Cancelled"
  BY <1>1, <1>2 DEF Tame, FinalizeState, Session
<1>4. Tame(t, DropMeTimed(SendACK(t)))
  BY <1>3, AckAndDropTame
<1> QED BY <1>1, <1>4, TameTrans DEF Ack3xxTo6xxFinalize

\* SetState to an end state, then DropMe
LEMMA EndTame ==
  ASSUME NEW s \in Session, s.state # "NotSet", NEW st \in {"TimedOut", "Cleared"}
  PROVE  Tame(s, DropMe(SetState(s, st)))
<1> DEFINE t == SetState(s, st)
<1>1. st \in State
  BY DEF State, SettledState
<1>2. Tame(s, t)
  BY <1>1, SetStateTame
<1>3. Tame(t, DropMe(t))
  BY <1>2, DropMeTame DEF Tame
<1> QED BY <1>2, <1>3, TameTrans

LEMMA TimedOutTame ==
  ASSUME NEW s \in Session
  PROVE  Tame(s, TimedOut(s))
<1>1. CASE IsPending(s.state)
  <2>1. s.state # "NotSet"
    BY <1>1 DEF IsPending, PendingState
  <2> QED BY <1>1, <2>1, EndTame DEF TimedOut
<1>2. CASE ~IsPending(s.state)
  BY <1>2, TameRefl DEF TimedOut
<1> QED BY <1>1, <1>2

\* FinalizeState, then DropMe
LEMMA FinalizeAndDropTame ==
  ASSUME NEW s \in Session, s.state # "BeingEstablished"
  PROVE  Tame(s, DropMe(FinalizeState(s)))
<1> DEFINE t == FinalizeState(s)
<1>1. Tame(s, t)
  BY FinalizeStateTame
<1>2. Tame(t, DropMe(t))
  BY <1>1, DropMeTame DEF Tame
<1> QED BY <1>1, <1>2, TameTrans

LEMMA CallerTimedOutTame ==
  ASSUME NEW s \in Session
  PROVE  Tame(s, CallerTimedOut(s))
<1>1. CASE IsBeingEstablished(s) /\ Received200(s)
  <2> DEFINE t == [s EXCEPT !.acked = TRUE, !.asleep = "timeoutbye"]
  <2>1. CallerTimedOut(s) = t
    BY <1>1 DEF CallerTimedOut, SendACK, Session
  <2>2. t \in Session
    BY DEF Session
  <2>3. Local(s) => Local(t)
    BY <1>1 DEF Local, Session, Received200
  <2>4. ~Quiet(s)
    BY <1>1 DEF Quiet, IsBeingEstablished
  <2> QED BY <2>1, <2>2, <2>3, <2>4 DEF Tame, Session
<1>2. CASE ~(IsBeingEstablished(s) /\ Received200(s))
  BY <1>2, CancelMeTame DEF CallerTimedOut
<1> QED BY <1>1, <1>2

LEMMA AddResponseType ==
  ASSUME NEW s \in Session, NEW sc \in Code
  PROVE  AddResponse(s, sc) \in Session
<1> DEFINE tm == IF sc \in Final \/ Finalized(s) THEN Stop(s.aux) ELSE s.aux
<1>1. AddResponse(s, sc)
        = [s EXCEPT !.resp = s.resp \cup {sc}, !.timer = Stop(s.timer), !.aux = tm]
  BY DEF AddResponse
<1>2. tm \in TimerState /\ Stop(s.timer) \in TimerState
  BY StopFacts DEF Session
<1>3. s.resp \cup {sc} \in SUBSET Code
  BY DEF Session
<1> HIDE DEF tm
<1> QED BY <1>1, <1>2, <1>3, ZenonT(60) DEF Session

LEMMA AddResponseFrame ==
  ASSUME NEW s \in Session, NEW sc \in Code
  PROVE  LET t == AddResponse(s, sc)
         IN  /\ t.dir = s.dir /\ t.state = s.state /\ t.linked = s.linked
             /\ t.acked = s.acked /\ t.bye = s.bye /\ t.asleep = s.asleep
             /\ t.cancel = s.cancel /\ (t.aux = "nil" <=> s.aux = "nil")
             /\ t.transform = s.transform /\ t.sdp18x = s.sdp18x
             /\ t.added = s.added
             /\ t.resp = s.resp \cup {sc}
  BY StopFacts DEF AddResponse, Session

LEMMA AddResponseTame ==
  ASSUME NEW s \in Session, NEW sc \in Code, sc # 200,
         s.added, s.dir = "OUTBOUND"
  PROVE  Tame(s, AddResponse(s, sc))
<1> DEFINE t == AddResponse(s, sc)
<1>1. t \in Session
  BY AddResponseType
<1>2. Local(s) => Local(t)
  BY AddResponseFrame DEF Local
<1>3. ~Quiet(s)
  BY DEF Quiet
<1> QED BY <1>1, <1>2, <1>3, AddResponseFrame DEF Tame

-----------------------------------------------------------------------------
(***************************************************************************)
(* Steps                                                                   *)
(***************************************************************************)
LEMMA BothFacts ==
  ASSUME TypeOK, NEW a \in Session, NEW b \in Session, ses' = Both(a, b)
  PROVE  ses' \in [Leg -> Session] /\ ses'["in"] = a /\ ses'["out"] = b
  BY DEF Both, TypeOK, Leg

LEMMA OneFacts ==
  ASSUME TypeOK, NEW l \in Leg, NEW a \in Session, ses' = [ses EXCEPT ![l] = a]
  PROVE  ses' \in [Leg -> Session] /\ ses'[l] = a /\ ses'[Lnk(l)] = ses[Lnk(l)]
  BY DEF TypeOK, Leg, Lnk

LEMMA TameStep ==
  ASSUME IInv, UNCHANGED <<route, rd, uac>>, ses' \in [Leg -> Session],
         \A l \in Leg : Tame(ses[l], ses'[l])
  PROVE  IInv'
<1>1. Tame(ses["in"], ses'["in"]) /\ Tame(ses["out"], ses'["out"])
  BY DEF Leg
<1>2. TypeOK'
  BY <1>1 DEF IInv, TypeOK, Tame
<1>3. \A l \in Leg : Local(ses'[l])
  BY DEF IInv, Tame
<1>4. Cross'
  BY <1>1 DEF IInv, Cross, Tame
<1> QED BY <1>2, <1>3, <1>4 DEF IInv

LEMMA SessionsTyped ==
  ASSUME IInv
  PROVE  /\ ses["in"] \in Session /\ ses["out"] \in Session
         /\ ses["in"].dir = "INBOUND" /\ ses["out"].dir = "OUTBOUND"
         /\ Local(ses["in"]) /\ Local(ses["out"])
         /\ \A l \in Leg : ses[l] \in Session /\ Local(ses[l])
  BY DEF IInv, TypeOK, Leg

LEMMA TameBoth ==
  ASSUME IInv, UNCHANGED <<route, rd, uac>>, NEW a, NEW b,
         Tame(ses["in"], a), Tame(ses["out"], b), ses' = Both(a, b)
  PROVE  IInv'
<1>1. a \in Session /\ b \in Session /\ TypeOK
  BY DEF Tame, IInv
<1>2. ses' \in [Leg -> Session] /\ ses'["in"] = a /\ ses'["out"] = b
  BY <1>1, BothFacts
<1>3. \A l \in Leg : Tame(ses[l], ses'[l])
  BY <1>2 DEF Leg
<1> QED BY <1>2, <1>3, TameStep

LEMMA TameOne ==
  ASSUME IInv, UNCHANGED <<route, rd, uac>>, NEW l \in Leg, NEW a,
         Tame(ses[l], a), ses' = [ses EXCEPT ![l] = a]
  PROVE  IInv'
<1>1. a \in Session /\ TypeOK
  BY DEF Tame, IInv
<1>2. ses' \in [Leg -> Session] /\ ses'[l] = a /\ ses'[Lnk(l)] = ses[Lnk(l)]
  BY <1>1, OneFacts
<1>3. \A k \in Leg : Tame(ses[k], ses'[k])
  BY <1>2, SessionsTyped, TameRefl DEF Leg, Lnk
<1> QED BY <1>2, <1>3, TameStep

\* What happens to the linked session is tame if it is tame when linked.
LEMMA OnLinkedTame ==
  ASSUME IInv, NEW l \in Leg, NEW a, Tame(ses[Lnk(l)], a)
  PROVE  Tame(ses[Lnk(l)], OnLinked(l, a))
  BY SessionsTyped, TameRefl DEF OnLinked, Lnk, Leg

LEMMA LegFacts == /\ "in" \in Leg /\ "out" \in Leg
                  /\ Lnk("in") = "out" /\ Lnk("out") = "in"
  BY DEF Leg, Lnk

LEMMA TimersPreserveIInv == ASSUME IInv, Timers PROVE IInv'
<1> USE SessionsTyped, LegFacts
<1>1. CASE ProbingTick
  <2> DEFINE t == [ses["in"] EXCEPT !.probe = "armed"]
  <2>1. Tame(ses["in"], t)
    BY DEF Tame, Local, Quiet, Session, TxState
  <2>2. ses' = [ses EXCEPT !["in"] = t] /\ UNCHANGED <<route, rd, uac>>
    BY <1>1 DEF ProbingTick
  <2> QED BY <2>1, <2>2, TameOne
<1>2. ASSUME NEW t, ReleaseCall(t), Tame(ses["in"], t), UNCHANGED <<route, rd, uac>>
      PROVE  IInv'
  <2>1. Tame(ses["in"], ReleaseCallLeg(t))
    BY <1>2, ReleaseCallLegTame, TameTrans DEF Tame
  <2>2. Tame(ses["out"], OnLinked("in", ReleaseCallLeg(ses["out"])))
    BY ReleaseCallLegTame, OnLinkedTame
  <2> QED BY <1>2, <2>1, <2>2, TameBoth DEF ReleaseCall
<1>3. CASE ProbeTimeout
  <2>1. Tame(ses["in"], [ses["in"] EXCEPT !.probe = "stopped"])
    BY DEF Tame, Local, Quiet, Session, TxState
  <2> QED BY <1>2, <1>3, <2>1 DEF ProbeTimeout
<1>4. CASE MaxCallDuration
  <2>1. Tame(ses["in"], [ses["in"] EXCEPT !.maxDur = "stopped"])
    BY DEF Tame, Local, Quiet, Session, TimerState
  <2> QED BY <1>2, <1>4, <2>1 DEF MaxCallDuration
<1>5. ASSUME NEW l \in Leg
      PROVE  Tame(ses[l], TimedOut([ses[l] EXCEPT !.timer = "nil"]))
  <2> DEFINE t == [ses[l] EXCEPT !.timer = "nil"]
  <2>1. Tame(ses[l], t)
    BY DEF Tame, Local, Quiet, Session, TimerState
  <2>2. t \in Session
    BY <2>1 DEF Tame
  <2> HIDE DEF t
  <2>3. Tame(ses[l], TimedOut(t))
    BY <2>1, <2>2, TimedOutTame, TameTrans
  <2> QED BY <2>3 DEF t
<1>6. CASE InboundINVITETimeout
  <2>1. Tame(ses["out"], OnLinked("in", CallerTimedOut(ses["out"])))
    BY CallerTimedOutTame, OnLinkedTame
  <2> QED BY <1>5, <1>6, <2>1, TameBoth DEF InboundINVITETimeout
<1>7. CASE OutboundINVITETimeout
  <2>1. Tame(ses["in"], RerouteRequest(ses["in"], 408))
    BY RerouteRequestTame DEF Negative
  <2> QED BY <1>5, <1>7, <2>1, TameBoth DEF OutboundINVITETimeout
<1>8. CASE CANCELTimeout
  <2> DEFINE t == [ses["out"] EXCEPT !.cancel = "stopped"]
  <2>1. ses["out"].state # "BeingEstablished"
    BY <1>8 DEF CANCELTimeout, Local
  <2>2. Tame(ses["out"], t) /\ t.state = ses["out"].state
    BY <1>8 DEF CANCELTimeout, Tame, Local, Quiet, Session, TxState
  <2>3. Tame(t, DropMe(FinalizeState(t)))
    BY <2>1, <2>2, FinalizeAndDropTame DEF Tame
  <2> QED BY <1>8, <2>2, <2>3, TameTrans, TameOne DEF CANCELTimeout
<1>9. ASSUME NEW l \in Leg, BYETimeout(l) PROVE IInv'
  <2> DEFINE t == [ses[l] EXCEPT !.bye = "stopped"]
  <2>1. ses[l].state # "BeingEstablished"
    BY <1>9 DEF BYETimeout, Local
  <2>2. Tame(ses[l], t) /\ t.state = ses[l].state
    BY <1>9 DEF BYETimeout, Tame, Local, Quiet, Session, TxState
  <2>3. Tame(t, DropMe(FinalizeState(t)))
    BY <2>1, <2>2, FinalizeAndDropTame DEF Tame
  <2> QED BY <1>9, <2>2, <2>3, TameTrans, TameOne DEF BYETimeout
<1>10. CASE cancelTimerHandler
  <2> DEFINE t == [ses["out"] EXCEPT !.aux = "stopped"]
             u == IF IsPending(t.state) THEN DropMe(FinalizeState(t)) ELSE t
  <2>1. ses["out"].state # "BeingEstablished"
    BY <1>10 DEF cancelTimerHandler, Local
  <2>2. Tame(ses["out"], t) /\ t.state = ses["out"].state
    BY <1>10 DEF cancelTimerHandler, Tame, Local, Quiet, Session, TimerState
  <2>3. Tame(t, u)
    BY <2>1, <2>2, FinalizeAndDropTame, TameRefl, ZenonT(60) DEF Tame
  <2>4. ses' = [ses EXCEPT !["out"] = u] /\ UNCHANGED <<route, rd, uac>>
    BY <1>10 DEF cancelTimerHandler
  <2> HIDE DEF t, u
  <2> QED BY <2>2, <2>3, <2>4, TameTrans, TameOne
<1>11. ASSUME NEW tt \in TimerType, timerHandler(tt) PROVE IInv'
  <2> DEFINE t == IF tt = "NoAnswer" THEN [ses["out"] EXCEPT !.noAns = "nil"]
                  ELSE [ses["out"] EXCEPT !.no18x = "nil"]
  <2>1. Tame(ses["out"], [ses["out"] EXCEPT !.noAns = "nil"])
    BY DEF Tame, Local, Quiet, Session, TimerState
  <2>2. Tame(ses["out"], [ses["out"] EXCEPT !.no18x = "nil"])
    BY DEF Tame, Local, Quiet, Session, TimerState
  <2>3. Tame(ses["out"], t)
    BY <2>1, <2>2
  <2>4. Tame(ses["in"], RerouteRequest(ses["in"], 487))
    BY RerouteRequestTame DEF Negative
  <2>5. ses' = Both(RerouteRequest(ses["in"], 487), CancelMe(t))
        /\ UNCHANGED <<route, rd, uac>>
    BY <1>11 DEF timerHandler
  <2> HIDE DEF t
  <2>6. Tame(ses["out"], CancelMe(t))
    BY <2>3, CancelMeTame, TameTrans DEF Tame
  <2> QED BY <2>4, <2>5, <2>6, TameBoth
<1>12. CASE WakeAndBYE
  <2> DEFINE t == [ses["out"] EXCEPT !.asleep = "no"]
             u == IF ses["out"].asleep = "timeoutbye"
                  THEN SetState(t, "BeingDropped") ELSE t
  <2>1. 200 \in ses["out"].resp /\ ses["out"].acked
    BY <1>12 DEF WakeAndBYE, Local
  <2>2. /\ Tame(ses["out"], t) /\ t.state = ses["out"].state
        /\ t.resp = ses["out"].resp /\ t.acked = ses["out"].acked
    BY DEF Tame, Local, Quiet, Session
  <2>3. Tame(ses["out"], u) /\ 200 \in u.resp /\ u.acked /\ u.state # "BeingEstablished"
    <3>1. CASE ses["out"].asleep = "timeoutbye"
      <4> DEFINE v == [t EXCEPT !.state = "BeingDropped"]
      <4>1. u = v
        BY <3>1 DEF SetState
      <4>2. v \in Session
        BY <2>2, ZenonT(60) DEF Tame, Session, State, PendingState
      <4>3. ~Quiet(ses["out"])
        BY <2>1 DEF Quiet
      <4>4. v.resp = t.resp /\ v.acked = t.acked /\ v.state = "BeingDropped"
        BY <2>2 DEF Tame, Session
      <4>5. Local(v)
        BY <2>1, <2>2, <4>4 DEF Local
      <4>6. Tame(ses["out"], v)
        BY <2>1, <2>2, <4>2, <4>3, <4>5 DEF Tame, Session
      <4> QED BY <2>1, <2>2, <4>1, <4>4, <4>6
    <3>2. CASE ses["out"].asleep # "timeoutbye"
      <4>1. ses["out"].asleep = "ackbye"
        BY <1>12, <3>2 DEF WakeAndBYE, Session
      <4> QED BY <2>1, <2>2, <3>2, <4>1 DEF Local
    <3> QED BY <3>1, <3>2
  <2>4. ses' = [ses EXCEPT !["out"] = SendBYE(u)] /\ UNCHANGED <<route, rd, uac>>
    BY <1>12 DEF WakeAndBYE
  <2> HIDE DEF u
  <2>5. Tame(ses["out"], SendBYE(u))
    BY <2>3, SendBYETame, TameTrans DEF Tame
  <2> QED BY <2>4, <2>5, TameOne
<1>13. CASE WakeAndDrop
  <2> DEFINE t == [ses["out"] EXCEPT !.dropping = FALSE]
  <2>1. Tame(ses["out"], t)
    <3>1. t \in Session
      BY ZenonT(60) DEF Session
    <3>2. Local(ses["out"]) => Local(t)
      BY DEF Local, Session
    <3>3. Quiet(ses["out"]) => Quiet(t)
      BY DEF Quiet, Session
    <3> QED BY <3>1, <3>2, <3>3 DEF Tame, Session
  <2>2. t \in Session
    BY <2>1 DEF Tame
  <2>3. WakeAndDrop => ses' = [ses EXCEPT !["out"] = DropMe(t)] /\ UNCHANGED <<route, rd, uac>>
    BY DEF WakeAndDrop
  <2> HIDE DEF t
  <2>4. Tame(ses["out"], DropMe(t))
    BY <2>1, <2>2, DropMeTame, TameTrans
  <2> QED BY <1>13, <2>3, <2>4, TameOne
<1> QED
  BY <1>1, <1>3, <1>4, <1>6, <1>7, <1>8, <1>9, <1>10, <1>11, <1>12, <1>13 DEF Timers

LEMMA EitherPreservesIInv == ASSUME IInv, Either PROVE IInv'
<1> USE SessionsTyped, LegFacts
<1>1. ASSUME NEW l \in Leg, ReceiveBYE(l) PROVE IInv'
  <2> DEFINE me == StopPending(ses[l])
             lnk == ses[Lnk(l)]
  <2>1. /\ Tame(ses[l], me) /\ me \in Session /\ Local(me)
        /\ me.state = ses[l].state /\ lnk \in Session /\ Local(lnk)
    BY StopPendingTame DEF Tame, Lnk
  <2>2. UNCHANGED <<route, rd, uac>>
    BY <1>1 DEF ReceiveBYE
  <2>3. \/ l = "in" /\ ses' = Both(TimedOut(me), OnLinked(l, CallerTimedOut(lnk)))
        \/ /\ IsEstablished(me)
           /\ ses' = [ses EXCEPT
                ![l] = DropMe(SetState(me, "Cleared")),
                ![Lnk(l)] = OnLinked(l, ReleaseOrCancel(StopAllOutTransactions(lnk)))]
        \/ ses' = [ses EXCEPT ![l] = me]
    BY <1>1 DEF ReceiveBYE
  <2> HIDE DEF me, lnk
  <2>4. CASE l = "in" /\ ses' = Both(TimedOut(me), OnLinked(l, CallerTimedOut(lnk)))
    <3>1. Tame(ses[l], TimedOut(me))
      BY <2>1, TimedOutTame, TameTrans
    <3>2. Tame(ses[Lnk(l)], OnLinked(l, CallerTimedOut(lnk)))
      BY <2>1, CallerTimedOutTame, OnLinkedTame DEF lnk
    <3> QED BY <2>2, <2>4, <3>1, <3>2, TameBoth
  <2>5. CASE /\ IsEstablished(me)
             /\ ses' = [ses EXCEPT
                  ![l] = DropMe(SetState(me, "Cleared")),
                  ![Lnk(l)] = OnLinked(l, ReleaseOrCancel(StopAllOutTransactions(lnk)))]
    <3> DEFINE a == DropMe(SetState(me, "Cleared"))
               s == StopAllOutTransactions(lnk)
               b == OnLinked(l, ReleaseOrCancel(s))
    <3>1. Tame(ses[l], a)
      <4>1. Tame(me, a)
        BY <2>1, <2>5, EndTame DEF IsEstablished
      <4> QED BY <2>1, <4>1, TameTrans
    <3>2. Tame(lnk, s) /\ s \in Session /\ Local(s)
      BY <2>1, StopAllTame DEF Tame
    <3>3. Tame(ses[Lnk(l)], b)
      <4>1. Tame(lnk, ReleaseOrCancel(s))
        BY <3>2, ReleaseOrCancelTame, TameTrans
      <4> QED BY <4>1, OnLinkedTame DEF lnk
    <3>4. a \in Session /\ b \in Session
      BY <3>1, <3>3 DEF Tame
    <3>5. ses' = [ses EXCEPT ![l] = a, ![Lnk(l)] = b]
      BY <2>5
    <3> HIDE DEF a, b
    <3>6. ses' \in [Leg -> Session] /\ ses'[l] = a /\ ses'[Lnk(l)] = b
      BY <3>4, <3>5 DEF IInv, TypeOK, Leg, Lnk
    <3>7. \A k \in Leg : Tame(ses[k], ses'[k])
      BY <3>1, <3>3, <3>6 DEF Leg, Lnk
    <3> QED BY <2>2, <3>6, <3>7, TameStep
  <2>6. CASE ses' = [ses EXCEPT ![l] = me]
    BY <2>1, <2>2, <2>6, TameOne
  <2> QED BY <2>3, <2>4, <2>5, <2>6
<1>2. ASSUME NEW l \in Leg, NEW sc \in Answers, ReceiveBYEResponse(l, sc) PROVE IInv'
  <2> DEFINE me == [ses[l] EXCEPT !.bye = "final"]
             s == StopAllOutTransactions(me)
  <2>1. ses[l].bye # "none"
    BY <1>2 DEF ReceiveBYEResponse, Unanswered
  <2>2. Tame(ses[l], me) /\ me \in Session /\ me.state # "BeingEstablished"
    BY <2>1 DEF Tame, Local, Quiet, Session, TxState
  <2>3. Tame(me, s) /\ s \in Session /\ s.state # "BeingEstablished"
    BY <2>2, StopAllTame, ZenonT(60) DEF Tame
  <2>4. UNCHANGED <<route, rd, uac>>
    BY <1>2 DEF ReceiveBYEResponse
  <2>5. \/ ses' = [ses EXCEPT ![l] = DropMe(FinalizeState(s))]
        \/ ses' = [ses EXCEPT ![l] = DropMe(me)]
        \/ ses' = [ses EXCEPT ![l] = me]
    BY <1>2, ZenonT(60) DEF ReceiveBYEResponse, Answers
  <2>6. Tame(ses[l], DropMe(FinalizeState(s)))
    BY <2>2, <2>3, FinalizeAndDropTame, TameTrans
  <2>7. Tame(ses[l], DropMe(me))
    BY <2>2, DropMeTame, TameTrans
  <2> HIDE DEF me, s
  <2> QED BY <2>2, <2>4, <2>5, <2>6, <2>7, TameOne
<1>3. ASSUME NEW sc \in {200, 486}, ReceiveProbeResponse(sc) PROVE IInv'
  <2> DEFINE t == [ses["in"] EXCEPT !.probe = "final"]
  <2>1. Tame(ses["in"], t) /\ t \in Session /\ Local(t)
    BY DEF Tame, Local, Quiet, Session, TxState
  <2>2. UNCHANGED <<route, rd, uac>>
    BY <1>3 DEF ReceiveProbeResponse
  <2>3. ReleaseCall(t) \/ ses' = [ses EXCEPT !["in"] = t]
    BY <1>3 DEF ReceiveProbeResponse
  <2> HIDE DEF t
  <2>4. CASE ReleaseCall(t)
    <3>1. Tame(ses["in"], ReleaseCallLeg(t))
      BY <2>1, ReleaseCallLegTame, TameTrans
    <3>2. Tame(ses["out"], OnLinked("in", ReleaseCallLeg(ses["out"])))
      BY ReleaseCallLegTame, OnLinkedTame
    <3> QED BY <2>2, <2>4, <3>1, <3>2, TameBoth DEF ReleaseCall
  <2>5. CASE ses' = [ses EXCEPT !["in"] = t]
    BY <2>1, <2>2, <2>5, TameOne, ZenonT(60)
  <2> QED BY <2>3, <2>4, <2>5
<1> QED BY <1>1, <1>2, <1>3 DEF Either

-----------------------------------------------------------------------------
(***************************************************************************)
(* Steps in which a call is answered.  The routing is over by then, so     *)
(* only the conjuncts of Cross about answers are left to show.             *)
(***************************************************************************)
LEMMA AnswerStep ==
  ASSUME IInv, UNCHANGED <<route, rd, uac>>, route = "done",
         NEW a \in Session, NEW b \in Session, ses' = Both(a, b),
         a.dir = "INBOUND", b.dir = "OUTBOUND", Local(a), Local(b),
         ses["in"].resp \subseteq a.resp,
         b.transform => ses["out"].transform,
         rd.flow = "TransformEarlyToFinal" /\ b.state = "BeingEstablished"
           /\ ~b.transform => 200 \in b.resp,
         a.linked /\ 200 \in a.resp
           => 200 \in b.resp \/ (rd.flow = "TransformEarlyToFinal" /\ b.sdp18x),
         a.linked /\ a.state = "Established"
           => b.acked \/ rd.flow = "TransformEarlyToFinal"
  PROVE  IInv'
<1>1. ses' \in [Leg -> Session] /\ ses'["in"] = a /\ ses'["out"] = b
  BY BothFacts DEF IInv
<1>2. TypeOK'
  BY <1>1 DEF IInv, TypeOK
<1>3. \A l \in Leg : Local(ses'[l])
  BY <1>1 DEF Leg
<1>4. Cross'
  BY <1>1 DEF IInv, Cross
<1> QED BY <1>2, <1>3, <1>4 DEF IInv

\* ss2 is in the table only once its INVITE was sent
LEMMA SentFacts ==
  ASSUME IInv, ses["out"].added \/ 200 \in ses["in"].resp
  PROVE  route = "done"
  BY DEF IInv, Cross, Quiet

\* A response to the caller never makes an inbound session unsound,
\* unless it is a negative one for a call that is still set up.
LEMMA SendResponseLocal ==
  ASSUME NEW s \in Session, Local(s), NEW sc \in Code,
         sc \in Negative => s.state # "BeingEstablished"
  PROVE  Local(SendResponse(s, sc))
  BY SendResponseFrame DEF Local

\* An ACK that is accepted for a call still set up is one for a 200.
LEMMA ACKOf200 ==
  ASSUME IInv, uac # "calling", ACKAccepted(ses["in"]),
         ses["in"].state = "BeingEstablished"
  PROVE  200 \in ses["in"].resp
<1>1. ses["in"].resp \cap Negative = {}
  BY SessionsTyped DEF Local
<1>2. uac = "answered"
  BY <1>1 DEF ACKAccepted, IInv, TypeOK
<1> QED BY <1>2 DEF IInv, Cross

LEMMA CallerPreservesIInv == ASSUME IInv, Caller PROVE IInv'
<1> USE SessionsTyped, LegFacts
\* the INVITE arrives: what ss1 was before is known
<1>1. ASSUME NEW a \in Session, a.dir = "INBOUND", Local(a), route = "idle",
             200 \notin a.resp, a.linked = ses["in"].linked,
             ses["in"].resp \subseteq a.resp, a.state # "Established",
             ses' = [ses EXCEPT !["in"] = a], route' \in {"routing", "done"},
             UNCHANGED <<rd, uac>>
      PROVE  IInv'
  <2>1. /\ ses' \in [Leg -> Session] /\ ses'["in"] = a
        /\ ses'["out"] = ses["out"]
    BY <1>1, OneFacts, ZenonT(60) DEF IInv
  <2>2. TypeOK'
    BY <1>1, <2>1 DEF IInv, TypeOK, RouteState
  <2>3. \A l \in Leg : Local(ses'[l])
    BY <1>1, <2>1 DEF Leg
  <2>4. Quiet(ses["out"])
    BY <1>1 DEF IInv, Cross
  <2>5. Cross'
    BY <1>1, <2>1, <2>4 DEF IInv, Cross, Quiet
  <2> QED BY <2>2, <2>3, <2>5 DEF IInv
<1> DEFINE new == [ses["in"] EXCEPT !.state = "BeingEstablished", !.added = TRUE]
<1>2. ASSUME route = "idle"
      PROVE  /\ new \in Session /\ Local(new) /\ new.dir = "INBOUND"
             /\ new.state = "BeingEstablished" /\ new.resp = {}
             /\ new.linked = ses["in"].linked /\ ses["in"].resp = {}
  <2>1. Quiet(ses["in"])
    BY <1>2 DEF IInv, Cross
  <2>2. new \in Session
    BY ZenonT(60) DEF Session, State, PendingState
  <2>3. /\ new.dir = "INBOUND" /\ new.state = "BeingEstablished" /\ new.resp = {}
        /\ new.linked = ses["in"].linked /\ ses["in"].resp = {}
        /\ new.bye = "none" /\ new.cancel = "none" /\ new.aux = "nil"
        /\ new.asleep = "no"
    BY <2>1 DEF Session, Quiet
  <2> QED BY <2>2, <2>3 DEF Local
<1>3. CASE ReceiveINVITE
  <2> DEFINE a == SendResponse(new, 100)
  <2>1. ses' = [ses EXCEPT !["in"] = a] /\ route = "idle" /\ route' = "routing"
        /\ UNCHANGED <<rd, uac>>
    BY <1>3 DEF ReceiveINVITE
  <2> HIDE DEF new
  <2>2. 100 \in Code /\ 100 \notin Negative
    BY DEF Code, Provisional, Negative
  <2>3. a \in Session /\ Local(a)
    BY <1>2, <2>1, <2>2, SendResponseType, SendResponseLocal
  <2>4. /\ a.dir = "INBOUND" /\ a.state = "BeingEstablished"
        /\ a.linked = ses["in"].linked /\ 200 \notin a.resp
    BY <1>2, <2>1, <2>2, SendResponseFrame
  <2> HIDE DEF a
  <2> QED BY <1>1, <1>2, <2>1, <2>3, <2>4
<1>4. CASE RejectINVITE
  <2> DEFINE a == RejectMe(new, 503)
  <2>1. ses' = [ses EXCEPT !["in"] = a] /\ route = "idle" /\ route' = "done"
        /\ UNCHANGED <<rd, uac>>
    BY <1>4 DEF RejectINVITE
  <2> HIDE DEF new
  <2>2. Tame(new, a)
    BY <1>2, <2>1, RejectMeTame DEF Negative
  <2>3. a.linked = new.linked
    <3> DEFINE f == SetState(new, "BeingFailed")
    <3>1. f \in Session /\ f.linked = new.linked
      BY <1>2, <2>1 DEF SetState, Session, State, PendingState
    <3>2. a = SendResponse(f, 503)
      BY <1>2, <2>1 DEF RejectMe, IsBeingEstablished
    <3>3. 503 \in Code
      BY DEF Code, Final, Negative
    <3> QED BY <3>1, <3>2, <3>3, SendResponseFrame
  <2> HIDE DEF a
  <2>4. a \in Session /\ Local(a) /\ a.dir = "INBOUND" /\ 200 \notin a.resp
        /\ a.state # "Established"
    BY <1>2, <2>1, <2>2 DEF Tame
  <2> QED BY <1>1, <1>2, <2>1, <2>3, <2>4
<1>5. CASE CallerLearns
  <2>1. UNCHANGED <<ses, route, rd>>
        /\ \/ uac' = "answered" /\ 200 \in ses["in"].resp
           \/ uac' = "failed" /\ ses["in"].resp \cap Negative # {}
    BY <1>5 DEF CallerLearns, Received200
  <2>2. TypeOK'
    BY <2>1 DEF IInv, TypeOK
  <2>3. Cross'
    BY <2>1 DEF IInv, Cross
  <2> QED BY <2>1, <2>2, <2>3 DEF IInv, Local
<1>6. CASE ReceiveACK
  <2> DEFINE old == ses["in"]
             ack == [old EXCEPT !.acked = TRUE, !.timer = Stop(old.timer)]
             in == FinalizeState(ack)
             out == ses["out"]
  <2>1. /\ uac # "calling" /\ ACKAccepted(old) /\ ~old.acked /\ old.added
        /\ UNCHANGED <<route, rd, uac>>
    BY <1>6 DEF ReceiveACK, Stored
  <2>2. Tame(old, ack) /\ ack.state = old.state /\ ack.acked
        /\ ack.resp = old.resp /\ ack.linked = old.linked
    <3>1. Stop(old.timer) \in TimerState /\ (Stop(old.timer) = "nil" <=> old.timer = "nil")
      BY StopFacts DEF Session
    <3>2. ack \in Session
      BY <3>1, ZenonT(60) DEF Session
    <3>3. Local(old) => Local(ack)
      BY DEF Local, Session
    <3>4. ~Quiet(old)
      BY <2>1 DEF Quiet
    <3> QED BY <3>2, <3>3, <3>4 DEF Tame, Session
  <2>3. CASE IsEstablished(in)
    <3> DEFINE a == [in EXCEPT !.maxDur = IF rd.maxDur THEN "armed" ELSE in.maxDur]
               b == IF in.linked /\ ~out.transform THEN SendACK(FinalizeState(out))
                    ELSE out
    <3>1. ses' = Both(a, b)
      BY <1>6, <2>3 DEF ReceiveACK
    <3>2. ack \in Session /\ ack.dir = "INBOUND" /\ Local(ack)
      BY <2>2 DEF Tame
    <3> HIDE DEF ack
    <3>3. 200 \in old.resp
      <4>1. FinalizeMe(ack.state) = "Established"
        BY <2>3, <3>2 DEF IsEstablished, FinalizeState, Session
      <4>2. ack.state \in State
        BY <3>2 DEF Session
      <4>3. old.state = "BeingEstablished" \/ old.state = "Established"
        BY <2>2, <4>1, <4>2, FinalizeMeNotLive
      <4>4. old.state # "Established"
        BY <2>1 DEF Local
      <4> QED BY <2>1, <4>3, <4>4, ACKOf200
    <3>4. route = "done"
      BY <3>3, SentFacts
    <3>5. /\ in \in Session /\ in.state = "Established" /\ in.acked
          /\ in.resp = old.resp /\ in.linked = old.linked /\ in.dir = "INBOUND"
      BY <2>2, <2>3, <3>2, FinalizeMeType DEF FinalizeState, IsEstablished, Session
    <3> HIDE DEF in
    <3>6. /\ a \in Session /\ a.state = "Established" /\ a.acked
          /\ a.resp = old.resp /\ a.linked = old.linked /\ a.dir = "INBOUND"
      BY <3>5 DEF Session, TimerState
    <3>7. Local(a)
      BY <3>3, <3>6 DEF Local
    <3>8. CASE old.linked /\ ~out.transform
      <4> DEFINE f == FinalizeState(out)
                 t == SendACK(f)
      <4>1. b = t
        BY <3>5, <3>8
      <4>2. /\ out.state = "BeingEstablished" => 200 \in out.resp
            /\ 200 \in out.resp \/ (rd.flow = "TransformEarlyToFinal" /\ out.sdp18x)
        BY <3>3, <3>8 DEF IInv, Cross
      <4>3. /\ f \in Session /\ f.state # "BeingEstablished" /\ f.resp = out.resp
            /\ f.dir = "OUTBOUND" /\ f.transform = out.transform
            /\ f.sdp18x = out.sdp18x /\ f.acked = out.acked /\ f.bye = out.bye
            /\ f.asleep = out.asleep
            /\ f.state = "Established" => 200 \in out.resp
        BY <4>2, FinalizeMeType, FinalizeMeNotLive DEF FinalizeState, Session, Local
      <4> HIDE DEF f
      <4>4. /\ t \in Session /\ t.state # "BeingEstablished" /\ t.resp = out.resp
            /\ t.acked /\ t.dir = "OUTBOUND" /\ t.transform = out.transform
            /\ t.sdp18x = out.sdp18x /\ t.bye = out.bye /\ t.asleep = out.asleep
            /\ t.state = "Established" => 200 \in out.resp
        BY <4>3, ZenonT(60) DEF SendACK, Session
      <4>5. Local(t)
        BY <4>2, <4>4 DEF Local
      <4> HIDE DEF t, a, b
      <4> QED BY <2>1, <3>1, <3>4, <3>6, <3>7, <4>1, <4>2, <4>4, <4>5, AnswerStep
    <3>9. CASE ~(old.linked /\ ~out.transform)
      <4>1. b = out
        BY <3>5, <3>9
      <4> HIDE DEF a, b
      <4>2. old.linked => rd.flow = "TransformEarlyToFinal"
        BY <3>9 DEF IInv, Cross
      <4>3. old.linked => 200 \in out.resp \/ out.sdp18x
        BY <3>3 DEF IInv, Cross
      <4>4. rd.flow = "TransformEarlyToFinal" /\ out.state = "BeingEstablished"
              /\ ~out.transform => 200 \in out.resp
        BY DEF IInv, Cross
      <4> QED BY <2>1, <3>1, <3>4, <3>6, <3>7, <4>1, <4>2, <4>3, <4>4, AnswerStep
    <3> QED BY <3>8, <3>9
  <2>4. CASE ~IsEstablished(in)
    <3>1. ses' = [ses EXCEPT !["in"] = DropMe(in)]
      BY <1>6, <2>4 DEF ReceiveACK
    <3>2. ack.state # "BeingEstablished"
      BY <2>2, <2>4, FinalizeMeValues DEF IsEstablished, FinalizeState, Tame, Session
    <3>3. Tame(ack, DropMe(in))
      BY <2>2, <3>2, FinalizeAndDropTame DEF Tame
    <3> QED BY <2>1, <2>2, <3>1, <3>3, TameTrans, TameOne
  <2> QED BY <2>3, <2>4
<1>7. CASE ReceiveCANCEL
  <2> DEFINE in == SetState(ses["in"], "BeingCancelled")
             stop == StopAllOutTransactions(ses["out"])
             a == IF in.linked /\ IsEstablished(ses["out"]) THEN in
                  ELSE SendResponse(in, 487)
             b == OnLinked("in", ReleaseOrCancel(stop))
  <2>1. /\ ses["in"].state = "BeingEstablished" /\ UNCHANGED <<route, rd, uac>>
        /\ ses' = Both(a, b)
    BY <1>7 DEF ReceiveCANCEL, IsBeingEstablished
  <2>2. Tame(ses["in"], in) /\ in \in Session /\ in.state = "BeingCancelled"
    <3>1. "BeingCancelled" \in State
      BY DEF State, PendingState
    <3>2. Tame(ses["in"], in)
      BY <2>1, <3>1, SetStateTame
    <3> QED BY <3>2 DEF Tame, SetState, Session
  <2>3. 487 \in Code
    BY DEF Code, Final, Negative
  <2>4. Tame(in, SendResponse(in, 487))
    BY <2>2, <2>3, SendResponseTame
  <2>5. Tame(ses["in"], a)
    BY <2>2, <2>4, TameTrans
  <2>6. Tame(ses["out"], stop) /\ stop \in Session /\ Local(stop)
    BY StopAllTame DEF Tame
  <2>7. Tame(ses["out"], ReleaseOrCancel(stop))
    BY <2>6, ReleaseOrCancelTame, TameTrans
  <2>8. Tame(ses["out"], b)
    BY <2>7, OnLinkedTame
  <2> HIDE DEF a, b
  <2> QED BY <2>1, <2>5, <2>8, TameBoth
<1> QED BY <1>3, <1>4, <1>5, <1>6, <1>7 DEF Caller

LEMMA TransformOffType ==
  ASSUME NEW s \in Session
  PROVE  [s EXCEPT !.transform = FALSE] \in Session
  BY DEF Session

LEMMA CalleePreservesIInv == ASSUME IInv, Callee PROVE IInv'
<1> USE SessionsTyped, LegFacts
<1>1. /\ \A sc \in {100, 180, 183, 302, 486, 487} : sc \in Code /\ sc # 200
      /\ \A sc \in {100, 180, 183, 200} : sc \in Code /\ sc \notin Negative
      /\ \A sc \in {302, 486, 487} : sc \in Negative
  BY DEF Code, Provisional, Final, Negative
<1>2. CASE Receive100
  <2> DEFINE t == AddResponse(ses["out"], 100)
             u == IF IsBeingEstablished(t) THEN StartTimer(t) ELSE t
  <2>1. ses["out"].added /\ ses' = [ses EXCEPT !["out"] = u]
        /\ UNCHANGED <<route, rd, uac>>
    BY <1>2 DEF Receive100, Stored
  <2>2. Tame(ses["out"], t) /\ t \in Session
    BY <1>1, <2>1, AddResponseTame DEF Tame
  <2> HIDE DEF t
  <2>3. Tame(ses["out"], u)
    BY <2>2, StartTimerTame, TameTrans DEF IsBeingEstablished
  <2> HIDE DEF u
  <2> QED BY <2>1, <2>3, TameOne
<1>3. ASSUME NEW sc \in {180, 183}, Receive18x(sc) PROVE IInv'
  <2> DEFINE t == AddResponse(ses["out"], sc)
             now == [t EXCEPT !.no18x = Stop(t.no18x)]
             in == ses["in"]
  <2>1. ses["out"].added /\ UNCHANGED <<route, rd, uac>>
    BY <1>3 DEF Receive18x, Stored
  <2>2. Tame(ses["out"], t) /\ t \in Session /\ t.state = ses["out"].state
    BY <1>1, <2>1, AddResponseTame, AddResponseFrame DEF Tame
  <2>3. \/ ses' = [ses EXCEPT !["out"] = t]
        \/ /\ t.transform
           /\ ses' = Both(IF t.sdp18x THEN in
                          ELSE SendResponse(in, IF sc = 183 THEN 200 ELSE sc),
                          [now EXCEPT !.sdp18x = now.sdp18x \/ sc = 183])
        \/ ses' = Both(IF IsBeingEstablished(in) THEN SendResponse(in, sc) ELSE in,
                       now)
    BY <1>3 DEF Receive18x
  <2> HIDE DEF t
  <2>4. Tame(t, now) /\ now \in Session
    <3>1. Stop(t.no18x) \in TimerState /\ (t.no18x = "nil" => Stop(t.no18x) = "nil")
      BY <2>2, StopFacts DEF Session
    <3>2. now \in Session
      BY <2>2, <3>1 DEF Session
    <3>3. Local(t) => Local(now)
      BY <2>2 DEF Local, Session
    <3>4. Quiet(t) => Quiet(now)
      BY <2>2, <3>1 DEF Quiet, Session
    <3> QED BY <2>2, <3>2, <3>3, <3>4 DEF Tame, Session
  <2>5. Tame(ses["out"], now)
    BY <2>2, <2>4, TameTrans
  <2> HIDE DEF now
  <2>6. CASE ses' = [ses EXCEPT !["out"] = t]
    BY <2>1, <2>2, <2>6, TameOne
  <2>7. CASE /\ t.transform
             /\ ses' = Both(IF t.sdp18x THEN in
                            ELSE SendResponse(in, IF sc = 183 THEN 200 ELSE sc),
                            [now EXCEPT !.sdp18x = now.sdp18x \/ sc = 183])
    <3> DEFINE c == IF sc = 183 THEN 200 ELSE sc
               a == IF t.sdp18x THEN in ELSE SendResponse(in, c)
               e == now.sdp18x \/ sc = 183
               b == [now EXCEPT !.sdp18x = e]
    <3>1. c \in Code /\ c \notin Negative /\ (c = 200 => sc = 183)
      BY <1>1
    <3> HIDE DEF c
    <3>2. /\ a \in Session /\ Local(a) /\ a.dir = "INBOUND" /\ a.linked = in.linked
          /\ a.state = in.state /\ in.resp \subseteq a.resp
          /\ 200 \in a.resp => 200 \in in.resp \/ (~t.sdp18x /\ sc = 183)
      BY <3>1, SendResponseType, SendResponseLocal, SendResponseFrame
    <3>3. e \in BOOLEAN
      OBVIOUS
    <3>4. /\ b.dir = now.dir /\ b.state = now.state /\ b.bye = now.bye
          /\ b.asleep = now.asleep /\ b.resp = now.resp /\ b.acked = now.acked
          /\ b.cancel = now.cancel /\ b.aux = now.aux /\ b.transform = now.transform
      BY <2>4 DEF Session
    <3>5. b.sdp18x = e
      BY <2>4 DEF Session
    <3>6. ses' = Both(a, b)
      BY <2>7 DEF c
    <3> HIDE DEF e
    <3>12. b \in Session
      BY <2>4, <3>3 DEF Session
    <3> HIDE DEF a, b
    <3>7. Local(b)
      BY <2>5, <3>4 DEF Tame, Local
    <3>8. route = "done"
      BY <2>1, SentFacts
    <3>9. b.transform /\ ses["out"].transform /\ b.dir = "OUTBOUND"
      <4>1. ses["out"].transform
        BY <2>2, <2>7 DEF Tame
      <4>2. now.transform /\ now.dir = "OUTBOUND"
        BY <2>5, <4>1 DEF Tame
      <4> QED BY <3>4, <4>1, <4>2
    <3>10. rd.flow = "TransformEarlyToFinal"
      BY <3>9 DEF IInv, Cross
    <3>11. a.linked /\ 200 \in a.resp => 200 \in b.resp \/ b.sdp18x
      <4>1. in.linked /\ 200 \in in.resp => 200 \in ses["out"].resp \/ ses["out"].sdp18x
        BY DEF IInv, Cross
      <4>2. ses["out"].resp \subseteq b.resp /\ (ses["out"].sdp18x => b.sdp18x)
        BY <2>5, <3>4, <3>5, ZenonT(60) DEF Tame, e
      <4> QED BY <3>2, <3>5, <4>1, <4>2, ZenonT(60) DEF e
    <3> QED BY <2>1, <3>2, <3>12, <3>6, <3>7, <3>8, <3>9, <3>10, <3>11, AnswerStep
  <2>8. CASE ses' = Both(IF IsBeingEstablished(in) THEN SendResponse(in, sc) ELSE in,
                         now)
    <3> DEFINE a == IF IsBeingEstablished(in) THEN SendResponse(in, sc) ELSE in
    <3>1. Tame(in, a)
      BY <1>1, SendResponseTame, TameRefl DEF IsBeingEstablished
    <3> HIDE DEF a
    <3>2. ses' = Both(a, now)
      BY <2>8 DEF a
    <3> QED BY <2>1, <2>5, <3>1, <3>2, TameBoth
  <2> QED BY <2>3, <2>6, <2>7, <2>8
<1>4. CASE Receive3xx
  <2> DEFINE t == AddResponse(ses["out"], 302)
             u == StopNoTimers(t)
             b == Ack3xxTo6xx(u, "Redirected")
  <2>1. /\ ses["out"].added /\ UNCHANGED <<route, rd, uac>>
        /\ ses' = Both(RerouteRequest(ses["in"], 302), b)
    BY <1>4 DEF Receive3xx, Stored
  <2>2. Tame(ses["out"], t) /\ t \in Session
    BY <1>1, <2>1, AddResponseTame DEF Tame
  <2>3. Tame(ses["out"], u) /\ u \in Session /\ u.added
    BY <2>1, <2>2, StopNoTimersTame, TameTrans DEF Tame
  <2>4. Tame(ses["out"], b)
    BY <2>3, Ack3xxTo6xxTame, TameTrans
  <2>5. Tame(ses["in"], RerouteRequest(ses["in"], 302))
    BY <1>1, RerouteRequestTame
  <2> HIDE DEF b
  <2> QED BY <2>1, <2>4, <2>5, TameBoth
<1>6. CASE Receive2xx
  <2> DEFINE t == AddResponse(ses["out"], 200)
             u == StopNoTimers(t)
             now == [u EXCEPT !.transform = FALSE]
             in == ses["in"]
  <2>1. ses["out"].added /\ UNCHANGED <<route, rd, uac>> /\ route = "done"
    BY <1>6, SentFacts DEF Receive2xx, Stored
  <2>2. /\ t \in Session /\ t.dir = "OUTBOUND" /\ t.state = ses["out"].state
        /\ 200 \in t.resp /\ Local(t) /\ (t.transform => ses["out"].transform)
        /\ (ses["out"].acked => t.acked)
    <3>1. 200 \in Code
      BY <1>1
    <3>2. t \in Session
      BY <3>1, AddResponseType
    <3>3. /\ t.dir = ses["out"].dir /\ t.state = ses["out"].state
          /\ t.acked = ses["out"].acked /\ t.bye = ses["out"].bye
          /\ t.asleep = ses["out"].asleep /\ t.cancel = ses["out"].cancel
          /\ (t.aux = "nil" <=> ses["out"].aux = "nil")
          /\ t.transform = ses["out"].transform /\ t.resp = ses["out"].resp \cup {200}
      BY <3>1, AddResponseFrame
    <3> HIDE DEF t
    <3>4. Local(t)
      BY <3>3 DEF Local
    <3> QED BY <3>2, <3>3, <3>4
  <2>3. \/ /\ t.state # "BeingEstablished"
           /\ ses' = [ses EXCEPT !["out"] =
                [SendACK(StopAllOutTransactions(t)) EXCEPT !.asleep = "ackbye"]]
        \/ /\ t.state = "BeingEstablished"
           /\ ses' = [ses EXCEPT !["out"] = SendACK(FinalizeState(now))]
        \/ ses' = Both(SendResponse(in, 200), now)
    BY <1>6 DEF Receive2xx, IsBeingEstablished
  <2> HIDE DEF t
  <2>4. u \in Session /\ Tame(t, u) /\ u.state = t.state
    BY <2>2, StopNoTimersTame DEF Tame
  <2>5. /\ now \in Session /\ now.state = t.state /\ 200 \in now.resp
        /\ ~now.transform /\ now.dir = "OUTBOUND" /\ (ses["out"].acked => now.acked)
        /\ Local(now)
    <3>1. now \in Session
      BY <2>4, ZenonT(60) DEF Session
    <3>2. /\ now.state = u.state /\ now.resp = u.resp /\ now.dir = u.dir
          /\ now.acked = u.acked /\ now.bye = u.bye /\ now.asleep = u.asleep
          /\ now.cancel = u.cancel /\ now.aux = u.aux /\ now.transform = FALSE
      BY <2>4 DEF Session
    <3> HIDE DEF now
    <3>3. Local(now)
      BY <2>2, <2>4, <3>2 DEF Tame, Local
    <3> QED BY <2>2, <2>4, <3>1, <3>2, <3>3 DEF Tame
  <2> HIDE DEF u, now
  <2>6. in.linked /\ in.state = "Established"
          => ses["out"].acked \/ rd.flow = "TransformEarlyToFinal"
    BY DEF IInv, Cross
  <2>7. CASE /\ t.state # "BeingEstablished"
             /\ ses' = [ses EXCEPT !["out"] =
                  [SendACK(StopAllOutTransactions(t)) EXCEPT !.asleep = "ackbye"]]
    <3> DEFINE f == StopAllOutTransactions(t)
               g == SendACK(f)
               b == [g EXCEPT !.asleep = "ackbye"]
    <3>1. f \in Session /\ Tame(t, f)
      BY <2>2, StopAllTame DEF Tame
    <3>2. g \in Session /\ Tame(f, g) /\ g.acked
      BY <3>1, SendACKTame DEF Tame, SendACK, Session
    <3>3. Tame(t, g)
      BY <3>1, <3>2, TameTrans
    <3> HIDE DEF g
    <3>4. /\ b \in Session /\ b.dir = g.dir /\ b.state = g.state /\ b.resp = g.resp
          /\ b.acked = g.acked /\ (b.transform <=> g.transform) /\ b.bye = g.bye
      BY <3>2, ZenonT(60) DEF Session
    <3>5. /\ b.dir = "OUTBOUND" /\ b.state # "BeingEstablished" /\ 200 \in b.resp
          /\ b.acked /\ (b.transform => ses["out"].transform)
      BY <2>2, <2>7, <3>2, <3>3, <3>4 DEF Tame
    <3>6. Local(b)
      BY <3>5 DEF Local
    <3>7. ses' = Both(in, b)
      BY <2>7 DEF Both, IInv, TypeOK, Leg, g
    <3> HIDE DEF b
    <3> QED BY <2>1, <3>4, <3>5, <3>6, <3>7, AnswerStep
  <2>8. CASE /\ t.state = "BeingEstablished"
             /\ ses' = [ses EXCEPT !["out"] = SendACK(FinalizeState(now))]
    <3> DEFINE f == FinalizeState(now)
               b == SendACK(f)
    <3>1. /\ f \in Session /\ f.state = "Established" /\ 200 \in f.resp
          /\ f.dir = "OUTBOUND" /\ ~f.transform
      BY <2>5, <2>8, FinalizeMeValues, FinalizeMeType DEF FinalizeState, Session
    <3> HIDE DEF f
    <3>2. /\ b \in Session /\ b.state = "Established" /\ 200 \in b.resp
          /\ b.dir = "OUTBOUND" /\ ~b.transform /\ b.acked
      BY <3>1, ZenonT(60) DEF SendACK, Session
    <3>3. Local(b)
      BY <3>2 DEF Local
    <3>4. ses' = Both(in, b)
      BY <2>8 DEF Both, IInv, TypeOK, Leg, f
    <3> HIDE DEF b
    <3> QED BY <2>1, <3>2, <3>3, <3>4, AnswerStep
  <2>9. CASE ses' = Both(SendResponse(in, 200), now)
    <3> DEFINE a == SendResponse(in, 200)
    <3>1. /\ a \in Session /\ Local(a) /\ a.dir = "INBOUND" /\ in.resp \subseteq a.resp
          /\ a.linked = in.linked /\ a.state = in.state
      <4>1. 200 \in Code /\ 200 \notin Negative
        BY <1>1
      <4>2. a \in Session /\ Local(a)
        BY <4>1, SendResponseType, SendResponseLocal
      <4> QED BY <4>1, <4>2, SendResponseFrame
    <3> HIDE DEF a
    <3>2. ses' = Both(a, now)
      BY <2>9 DEF a
    <3> QED BY <2>1, <2>5, <2>6, <3>1, <3>2, AnswerStep
  <2> QED BY <2>3, <2>7, <2>8, <2>9
<1>7. ASSUME NEW sc \in {486, 487}, Receive4xx(sc) PROVE IInv'
  <2> DEFINE t == AddResponse(ses["out"], sc)
             u == StopNoTimers(t)
             r == Ack3xxTo6xx(u, "Rejected")
             b == [r EXCEPT !.transform = FALSE]
             in == ses["in"]
             a == IF t.transform THEN ReleaseOrReject(in, sc) ELSE RerouteRequest(in, sc)
             o == IF t.state = "BeingCancelled" THEN Ack3xxTo6xxFinalize(t) ELSE t
  <2>1. ses["out"].added /\ UNCHANGED <<route, rd, uac>> /\ route = "done"
    BY <1>7, SentFacts DEF Receive4xx, Stored
  <2>2. ses' = Both(a, b) \/ ses' = [ses EXCEPT !["out"] = o]
    BY <1>7 DEF Receive4xx
  <2>3. Tame(ses["out"], t) /\ t \in Session /\ t.added
    BY <1>1, <2>1, AddResponseTame DEF Tame
  <2> HIDE DEF t
  <2>4. Tame(t, u) /\ u \in Session /\ u.added
    BY <2>3, StopNoTimersTame DEF Tame
  <2>5. Tame(ses["out"], r) /\ r \in Session
    <3>1. Tame(u, r)
      BY <2>4, Ack3xxTo6xxTame
    <3> QED BY <2>3, <2>4, <3>1, TameTrans DEF Tame
  <2>6. r.state = "Rejected"
    BY <2>4 DEF Ack3xxTo6xx, DropMeTimed, SendACK, SetState, Session
  <2>7. Tame(in, a) /\ a \in Session
    <3>1. sc \in Negative
      BY <1>1
    <3>2. Tame(in, ReleaseOrReject(in, sc))
      BY <3>1, ReleaseMeTame, RejectMeTame DEF ReleaseOrReject
    <3>3. Tame(in, RerouteRequest(in, sc))
      BY <3>1, RerouteRequestTame
    <3>4. Tame(in, a)
      BY <3>2, <3>3
    <3> QED BY <3>4 DEF Tame
  <2>8. Tame(ses["out"], o)
    BY <2>3, Ack3xxTo6xxFinalizeTame, TameTrans
  <2> HIDE DEF r, a, o
  <2>9. CASE ses' = Both(a, b)
    <3>1. b \in Session
      <4>1. r \in Session
        BY <2>5
      <4> QED BY <4>1, TransformOffType
    <3>2. /\ b.state = r.state /\ b.resp = r.resp /\ b.dir = r.dir
          /\ b.acked = r.acked /\ b.bye = r.bye /\ b.asleep = r.asleep
          /\ b.cancel = r.cancel /\ b.aux = r.aux /\ b.transform = FALSE
          /\ (b.sdp18x <=> r.sdp18x)
      BY <2>5 DEF Session
    <3> HIDE DEF b
    <3>3. Local(b)
      BY <2>5, <3>2 DEF Tame, Local
    <3>4. /\ a.dir = "INBOUND" /\ b.dir = "OUTBOUND" /\ Local(a) /\ ~b.transform
          /\ in.resp \subseteq a.resp /\ b.state # "BeingEstablished"
      BY <2>5, <2>6, <2>7, <3>2 DEF Tame
    <3>5. a.linked /\ 200 \in a.resp
            => 200 \in b.resp \/ (rd.flow = "TransformEarlyToFinal" /\ b.sdp18x)
      BY <2>5, <2>7, <3>2 DEF IInv, Cross, Tame
    <3>6. a.linked /\ a.state = "Established"
            => b.acked \/ rd.flow = "TransformEarlyToFinal"
      BY <2>5, <2>7, <3>2 DEF IInv, Cross, Tame
    <3> QED BY <2>1, <2>7, <2>9, <3>1, <3>3, <3>4, <3>5, <3>6, AnswerStep
  <2>10. CASE ses' = [ses EXCEPT !["out"] = o]
    BY <2>1, <2>8, <2>10, TameOne, ZenonT(60)
  <2> QED BY <2>2, <2>9, <2>10
<1>5. ASSUME NEW sc \in Answers, ReceiveCANCELResponse(sc) PROVE IInv'
  <2> DEFINE x == IF ses["out"].aux = "nil" /\ ~Finalized(ses["out"]) THEN "armed"
                  ELSE ses["out"].aux
             t == [ses["out"] EXCEPT !.cancel = "final", !.aux = x]
             u == IF sc = 302 THEN DropMe(t) ELSE t
  <2>1. /\ ses["out"].cancel # "none" /\ UNCHANGED <<route, rd, uac>>
        /\ ses' = [ses EXCEPT !["out"] = u]
    BY <1>5 DEF ReceiveCANCELResponse, Unanswered
  <2>2. x \in TimerState
    BY DEF Session, TimerState
  <2> HIDE DEF x
  <2>3. t \in Session
    BY <2>2, ZenonT(60) DEF Session, TxState
  <2>4. ~Quiet(ses["out"])
    BY <2>1 DEF Quiet
  <2>5. Local(t)
    BY <2>1 DEF Local, Session
  <2>6. Tame(ses["out"], t)
    BY <2>3, <2>4, <2>5 DEF Tame, Session
  <2>7. Tame(ses["out"], u)
    BY <2>3, <2>6, DropMeTame, TameTrans
  <2> HIDE DEF u
  <2> QED BY <2>1, <2>7, TameOne
<1> QED BY <1>2, <1>3, <1>4, <1>5, <1>6, <1>7 DEF Callee

-----------------------------------------------------------------------------
(***************************************************************************)
(* Steps of the routing goroutine.  Until it is done the caller has not    *)
(* been answered and ss2 is quiet.                                         *)
(***************************************************************************)
LEMMA RoutingStep ==
  ASSUME IInv, uac' = uac, route # "done", rd' \in RoutingRecord,
         route' \in {"linked", "checked", "echoWait", "done"},
         NEW a \in Session, NEW b \in Session, ses' = Both(a, b),
         a.dir = "INBOUND", b.dir = "OUTBOUND", Local(a), Local(b),
         ses["in"].resp \subseteq a.resp, a.state # "Established",
         a.linked => 200 \notin a.resp,
         route' # "done" => 200 \notin a.resp /\ Quiet(b),
         route' = "echoWait" => ~a.linked /\ ~b.transform,
         b.transform => rd'.flow = "TransformEarlyToFinal",
         rd'.flow = "TransformEarlyToFinal" /\ b.state = "BeingEstablished"
           => b.transform,
         rd'.flow = "TransformEarlyToFinal" /\ route' \in {"linked", "checked"}
           => b.transform
  PROVE  IInv'
<1>1. ses' \in [Leg -> Session] /\ ses'["in"] = a /\ ses'["out"] = b
  BY BothFacts DEF IInv
<1>2. TypeOK'
  BY <1>1 DEF IInv, TypeOK, RouteState
<1>3. \A l \in Leg : Local(ses'[l])
  BY <1>1 DEF Leg
<1>4. Cross'
  BY <1>1 DEF IInv, Cross
<1> QED BY <1>2, <1>3, <1>4 DEF IInv

\* What is known while the INVITE is routed.
LEMMA RoutingFacts ==
  ASSUME IInv, route # "done"
  PROVE  /\ 200 \notin ses["in"].resp /\ ses["in"].state # "Established"
         /\ Quiet(ses["out"]) /\ ses["out"].state = "NotSet"
         /\ route = "routing" => ~ses["in"].linked /\ ~ses["out"].transform
         /\ route = "echoWait" => ~ses["in"].linked /\ ~ses["out"].transform
         /\ ses["out"].transform => rd.flow = "TransformEarlyToFinal"
         /\ rd.flow = "TransformEarlyToFinal" /\ route \in {"linked", "checked"}
              => ses["out"].transform
         /\ rd \in RoutingRecord
<1>1. 200 \notin ses["in"].resp
  BY DEF IInv, Cross
<1>2. ses["in"].state # "Established"
  BY <1>1, SessionsTyped DEF Local
<1>3. Quiet(ses["out"]) /\ ses["out"].state = "NotSet"
  BY DEF IInv, Cross, Quiet
<1> QED BY <1>1, <1>2, <1>3 DEF IInv, Cross, TypeOK

\* A media port taken or handed back
LEMMA MediaTame ==
  ASSUME NEW s \in Session, NEW m \in BOOLEAN
  PROVE  Tame(s, [s EXCEPT !.media = m])
<1> DEFINE t == [s EXCEPT !.media = m]
<1>1. t \in Session
  BY DEF Session
<1>2. Local(s) => Local(t)
  BY DEF Local, Session
<1>3. Quiet(s) => Quiet(t)
  BY DEF Quiet, Session
<1> QED BY <1>1, <1>2, <1>3 DEF Tame, Session

\* The sessions are linked to each other
LEMMA LinkedFacts ==
  ASSUME NEW s \in Session, NEW m \in BOOLEAN
  PROVE  LET t == [s EXCEPT !.linked = TRUE, !.media = m]
         IN  /\ t \in Session /\ (Local(s) => Local(t)) /\ (Quiet(s) => Quiet(t))
             /\ t.dir = s.dir /\ t.resp = s.resp /\ t.state = s.state
             /\ t.transform = s.transform
<1> DEFINE t == [s EXCEPT !.linked = TRUE, !.media = m]
<1>1. t \in Session
  BY DEF Session
<1>2. Local(s) => Local(t)
  BY DEF Local, Session
<1>3. Quiet(s) => Quiet(t)
  BY DEF Quiet, Session
<1>4. /\ t.dir = s.dir /\ t.resp = s.resp /\ t.state = s.state
      /\ t.transform = s.transform
  BY DEF Session
<1> QED BY <1>1, <1>2, <1>3, <1>4

LEMMA TransformFacts ==
  ASSUME NEW s \in Session, NEW x \in BOOLEAN
  PROVE  LET t == [s EXCEPT !.transform = x]
         IN  /\ t \in Session /\ (Local(s) => Local(t)) /\ (Quiet(s) => Quiet(t))
             /\ t.dir = s.dir /\ t.state = s.state /\ t.transform = x
<1> DEFINE t == [s EXCEPT !.transform = x]
<1>1. t \in Session
  BY DEF Session
<1>2. Local(s) => Local(t)
  BY DEF Local, Session
<1>3. Quiet(s) => Quiet(t)
  BY DEF Quiet, Session
<1>4. t.dir = s.dir /\ t.state = s.state /\ t.transform = x
  BY DEF Session
<1> QED BY <1>1, <1>2, <1>3, <1>4

LEMMA RouteStepPreservesIInv == ASSUME IInv, RouteStep PROVE IInv'
<1> USE SessionsTyped, LegFacts
<1> DEFINE in == ses["in"]
           out == ses["out"]
<1>1. \A a : [ses EXCEPT !["in"] = a] = Both(a, out)
  BY DEF Both, IInv, TypeOK, Leg
<1>2. \A b : [ses EXCEPT !["out"] = b] = Both(in, b)
  BY DEF Both, IInv, TypeOK, Leg
<1>3. 503 \in Negative /\ 180 \in Code /\ 180 \notin Negative /\ 200 \in Code
      /\ 200 \notin Negative
  BY DEF Negative, Code, Provisional, Final
<1>4. \A r \in RoutingRecords : r \in RoutingRecord /\ r.steer \in BOOLEAN
  BY ConstantsAssumption DEF RoutingRecord
<1>5. CASE RouteReject
  <2>1. PICK port \in BOOLEAN :
          ses' = [ses EXCEPT !["in"] = RejectMe([in EXCEPT !.media = port], 503)]
    BY <1>5, ZenonT(60) DEF RouteReject
  <2> DEFINE m == [in EXCEPT !.media = port]
             a == RejectMe(m, 503)
  <2>2. route = "routing" /\ route' = "done" /\ rd' = rd /\ uac' = uac
    BY <1>5 DEF RouteReject
  <2>3. Tame(in, m) /\ m \in Session
    BY MediaTame DEF Tame
  <2> HIDE DEF m
  <2>4. Tame(in, a)
    BY <1>3, <2>3, RejectMeTame, TameTrans
  <2>5. ses' = Both(a, out)
    BY <1>1, <2>1, ZenonT(60) DEF m
  <2> HIDE DEF a
  <2>6. /\ a \in Session /\ a.dir = "INBOUND" /\ Local(a) /\ in.resp \subseteq a.resp
        /\ a.state # "Established" /\ ~a.linked
    BY <2>2, <2>4, RoutingFacts DEF Tame
  <2> QED BY <2>2, <2>5, <2>6, RoutingFacts, RoutingStep
<1>6. ASSUME NEW r \in RoutingRecords, RouteEcho(r) PROVE IInv'
  <2> DEFINE m == [in EXCEPT !.media = TRUE]
             a == SendResponse(m, 180)
  <2>1. /\ route = "routing" /\ route' = "echoWait" /\ rd' = r /\ uac' = uac
        /\ ses' = Both(a, out) /\ r.flow = "EchoResponder"
    BY <1>1, <1>6 DEF RouteEcho
  <2>2. Tame(in, m) /\ m \in Session /\ Local(m)
    BY MediaTame, ZenonT(60) DEF Tame
  <2>3. m.state = in.state /\ m.resp = in.resp /\ m.linked = in.linked
    BY DEF Session
  <2> HIDE DEF m
  <2>4. a \in Session /\ Local(a)
    BY <1>3, <2>2, SendResponseType, SendResponseLocal
  <2>5. /\ a.dir = "INBOUND" /\ a.state = in.state /\ a.linked = in.linked
        /\ in.resp \subseteq a.resp /\ (200 \in a.resp => 200 \in in.resp)
    BY <1>3, <2>2, <2>3, SendResponseFrame DEF Tame
  <2> HIDE DEF a
  <2> QED BY <1>4, <2>1, <2>4, <2>5, RoutingFacts, RoutingStep
<1>7. CASE EchoAnswer
  <2> DEFINE a == IF IsBeingEstablished(in) THEN SendResponse(in, 200) ELSE in
  <2>1. /\ route = "echoWait" /\ route' = "done" /\ rd' = rd /\ uac' = uac
        /\ ses' = Both(a, out)
    BY <1>1, <1>7, ZenonT(60) DEF EchoAnswer
  <2>2. /\ SendResponse(in, 200) \in Session /\ Local(SendResponse(in, 200))
    BY <1>3, SendResponseType, SendResponseLocal
  <2>3. LET t == SendResponse(in, 200)
        IN  /\ t.dir = in.dir /\ t.state = in.state /\ t.linked = in.linked
            /\ in.resp \subseteq t.resp
    BY <1>3, SendResponseFrame
  <2>4. /\ a \in Session /\ Local(a) /\ a.dir = "INBOUND" /\ a.state = in.state
        /\ a.linked = in.linked /\ in.resp \subseteq a.resp
    BY <2>2, <2>3
  <2> HIDE DEF a
  <2> QED BY <2>1, <2>4, RoutingFacts, RoutingStep
<1>8. ASSUME NEW r \in RoutingRecords, RouteLink(r) PROVE IInv'
  <2> DEFINE x == (r.flow = "TransformEarlyToFinal")
             a == [in EXCEPT !.linked = TRUE, !.media = r.steer]
             c == [out EXCEPT !.linked = TRUE, !.media = r.steer]
             b == [c EXCEPT !.transform = x]
  <2>1. /\ route = "routing" /\ route' = "linked" /\ rd' = r /\ uac' = uac
    BY <1>8 DEF RouteLink
  <2>2. ses' = Both(a, b)
    BY <1>8 DEF RouteLink
  <2>3. /\ a \in Session /\ Local(a) /\ a.dir = "INBOUND" /\ a.resp = in.resp
        /\ a.state = in.state
    BY <1>4, LinkedFacts
  <2>4. /\ c \in Session /\ Local(c) /\ Quiet(c) /\ c.dir = "OUTBOUND"
        /\ c.state = out.state
    BY <1>4, <2>1, RoutingFacts, LinkedFacts
  <2> HIDE DEF a, c
  <2>5. /\ b \in Session /\ Local(b) /\ Quiet(b) /\ b.dir = "OUTBOUND"
        /\ b.transform = x /\ b.state = out.state
    <3>1. x \in BOOLEAN
      OBVIOUS
    <3> HIDE DEF x
    <3> QED BY <2>4, <3>1, TransformFacts
  <2> HIDE DEF b
  <2>6. b.transform <=> r.flow = "TransformEarlyToFinal"
    BY <2>5
  <2>7. r \in RoutingRecord
    BY <1>4
  <2> HIDE DEF x
  <2> QED BY <2>1, <2>2, <2>3, <2>5, <2>6, <2>7, RoutingFacts, RoutingStep
<1>9. ASSUME NEW r \in RoutingRecords, RouteNoPort(r) PROVE IInv'
  <2> DEFINE m == [in EXCEPT !.linked = TRUE, !.media = TRUE]
             a == RejectMe(m, 503)
             k == [out EXCEPT !.linked = TRUE, !.media = out.media]
             c == [out EXCEPT !.linked = TRUE]
             b == DropMe(c)
  <2>1. /\ route = "routing" /\ route' = "done" /\ rd' = r /\ uac' = uac
        /\ ses' = Both(a, b)
    BY <1>9 DEF RouteNoPort
  <2>2. /\ m \in Session /\ Local(m) /\ m.dir = "INBOUND" /\ m.resp = in.resp
        /\ m.state = in.state
    BY LinkedFacts
  <2>3. Tame(m, a)
    BY <1>3, <2>2, RejectMeTame
  <2>4. /\ k \in Session /\ Local(k) /\ Quiet(k) /\ k.dir = "OUTBOUND"
        /\ k.state = out.state /\ k.transform = out.transform
    <3>1. out.media \in BOOLEAN
      BY DEF Session
    <3> QED BY <2>1, <3>1, RoutingFacts, LinkedFacts
  <2>5. c = k
    BY DEF Session
  <2> HIDE DEF m, a, c, k
  <2>6. Tame(c, b)
    BY <2>4, <2>5, DropMeTame
  <2> HIDE DEF b
  <2>7. /\ a \in Session /\ Local(a) /\ a.dir = "INBOUND" /\ in.resp \subseteq a.resp
        /\ 200 \notin a.resp /\ a.state # "Established"
    BY <2>1, <2>2, <2>3, RoutingFacts DEF Tame
  <2>8. /\ b \in Session /\ Local(b) /\ b.dir = "OUTBOUND" /\ ~b.transform
        /\ b.state # "BeingEstablished"
    BY <2>1, <2>4, <2>5, <2>6, RoutingFacts DEF Tame
  <2>9. r \in RoutingRecord
    BY <1>4
  <2> QED BY <2>1, <2>7, <2>8, <2>9, RoutingStep
<1>10. CASE RouteCheck
  <2>1. ses' = Both(in, out)
    BY <1>10 DEF RouteCheck, Both, IInv, TypeOK, Leg
  <2>2. route = "linked" /\ route' \in {"checked", "done"} /\ UNCHANGED <<rd, uac>>
    BY <1>10 DEF RouteCheck
  <2> QED BY <2>1, <2>2, RoutingFacts, RoutingStep
<1>11. CASE RouteSend
  <2> DEFINE b == [out EXCEPT !.state = "BeingEstablished", !.added = TRUE,
                              !.timer = "armed"]
  <2>1. /\ route = "checked" /\ route' = "done" /\ UNCHANGED <<rd, uac>>
        /\ ses' = Both(in, b)
    BY <1>2, <1>11 DEF RouteSend
  <2>2. b \in Session
    BY ZenonT(60) DEF Session, State, PendingState, TimerState
  <2>3. /\ b.dir = out.dir /\ b.state = "BeingEstablished" /\ b.resp = out.resp
        /\ b.bye = out.bye /\ b.cancel = out.cancel /\ b.asleep = out.asleep
        /\ b.aux = out.aux /\ (b.transform <=> out.transform)
    BY DEF Session
  <2> HIDE DEF b
  <2>4. Local(b)
    BY <2>1, <2>3, RoutingFacts DEF Local, Quiet
  <2> QED BY <2>1, <2>2, <2>3, <2>4, RoutingFacts, RoutingStep
<1> QED BY <1>5, <1>6, <1>7, <1>8, <1>9, <1>10, <1>11 DEF RouteStep

-----------------------------------------------------------------------------
LEMMA InitIInv == Init => IInv
<1> SUFFICES ASSUME Init PROVE IInv
  OBVIOUS
<1>1. \A d \in {"INBOUND", "OUTBOUND"} :
        NewSS(d) \in Session /\ NewSS(d).dir = d /\ Quiet(NewSS(d))
        /\ Local(NewSS(d)) /\ ~NewSS(d).linked /\ ~NewSS(d).transform
        /\ NewSS(d).state = "NotSet" /\ NewSS(d).resp = {}
  BY DEF NewSS, Session, Quiet, Local, State, SettledState, TimerState, TxState
<1>2. ses["in"] = NewSS("INBOUND") /\ ses["out"] = NewSS("OUTBOUND")
  BY DEF Init, Leg
<1>3. ses \in [Leg -> Session]
  BY <1>1 DEF Init
<1>4. rd \in RoutingRecord /\ rd.flow = "Transparent"
  BY DEF Init, NoRecord, RoutingRecord, CallFlow
<1>5. TypeOK
  BY <1>1, <1>2, <1>3, <1>4 DEF Init, TypeOK, RouteState
<1>6. \A l \in Leg : Local(ses[l])
  BY <1>1, <1>2 DEF Leg
<1>7. Cross
  BY <1>1, <1>2, <1>4 DEF Init, Cross
<1> QED BY <1>5, <1>6, <1>7 DEF IInv

LEMMA StutterIInv == ASSUME IInv, UNCHANGED vars PROVE IInv'
  BY DEF IInv, TypeOK, Cross, Local, Quiet, vars

LEMMA NextIInv == IInv /\ [Next]_vars => IInv'
  BY RouteStepPreservesIInv, CallerPreservesIInv, CalleePreservesIInv,
     EitherPreservesIInv, TimersPreserveIInv, StutterIInv DEF Next

LEMMA Invariance == Spec => []IInv
  BY InitIInv, NextIInv, PTL DEF Spec

(***************************************************************************)
(* Whatever routing finds and whatever peers and network do, the two       *)
(* sessions, the routing goroutine and the routing record keep their       *)
(* types: no handler takes a session to a state, timer or transaction      *)
(* status the code has no name for.                                        *)
(***************************************************************************)
THEOREM TypeCorrect == Spec => []TypeOK
<1>1. IInv => TypeOK
  BY DEF IInv
<1> QED BY <1>1, Invariance, PTL

(***************************************************************************)
(* A session of the call is Established, or has sent BYE or is about to,   *)
(* only after its INVITE was answered 2xx and the answer acknowledged.     *)
(***************************************************************************)
THEOREM ConfirmedDialogueHolds == Spec => []ConfirmedDialogue
<1>1. IInv => ConfirmedDialogue
  BY DEF IInv, ConfirmedDialogue, Local, IsEstablished, Received200
<1> QED BY <1>1, Invariance, PTL

(***************************************************************************)
(* A caller whose session is Established and linked has a callee that      *)
(* answered and was acknowledged, or one that a TransformEarlyToFinal call *)
(* answered for early.                                                     *)
(***************************************************************************)
THEOREM EstablishedPairHolds == Spec => []EstablishedPair
<1>1. IInv => EstablishedPair
  BY DEF IInv, EstablishedPair, Local, Cross, IsEstablished, Received200, Leg
<1> QED BY <1>1, Invariance, PTL

-----------------------------------------------------------------------------
(***************************************************************************)
(* How sessions end.                                                       *)
(*                                                                         *)
(* Ends is what every session satisfies by itself besides Local: a session *)
(* that is being released, cancelled or dropped is no longer alive; one    *)
(* that sleeps before its BYE has sent none; ss2 without final response is *)
(* being set up or cancelled; ss1 without ACK is in a transient state.     *)
(***************************************************************************)
Visited ==
  {"NotSet", "BeingEstablished", "Established", "BeingFailed", "BeingCancelled",
   "BeingCleared", "BeingDropped", "Failed", "Cancelled", "Cleared", "Dropped",
   "TimedOut", "Redirected", "Rejected"}
Alive == {"BeingEstablished", "Established"}

Ending(ss) ==
  \/ ss.bye # "none" \/ ss.cancel # "none" \/ ss.aux # "nil"
  \/ ss.dropping \/ ss.disposed \/ ss.asleep = "ackbye"

TimerOK(ss) ==
  /\ ss.dir = "OUTBOUND" /\ ss.resp # {} => ss.timer # "armed"
  /\ ss.dir = "INBOUND" /\ ss.acked => ss.timer # "armed"

Ends(ss) ==
  /\ ss.state \in Visited
  /\ Ending(ss) => ss.state \notin Alive
  /\ ss.asleep # "no" => ss.bye = "none" /\ ss.dir = "OUTBOUND"
  /\ ss.asleep = "timeoutbye" =>
       /\ ss.state \in {"BeingEstablished", "BeingCancelled"}
       /\ ~ss.disposed /\ ~ss.dropping /\ ss.cancel = "none" /\ ss.aux = "nil"
  /\ ss.state = "NotSet" <=> ~ss.added
  /\ ss.bye # "none" \/ ss.cancel # "none" \/ ss.aux # "nil" \/ ss.dropping
       \/ ss.asleep # "no" => ss.added
  /\ TimerOK(ss)
  /\ ss.dir = "OUTBOUND" =>
       /\ ss.added /\ ~ss.disposed /\ ss.resp \cap Final = {}
            => ss.state \in {"BeingEstablished", "BeingCancelled"}
       /\ ss.resp \cap Negative # {} => ss.acked
  /\ ss.dir = "INBOUND" /\ ss.added /\ ~ss.acked /\ ~ss.disposed
       => ss.state \in PendingState

EndsCross ==
  /\ route = "idle" => ~ses["in"].disposed
  /\ route # "idle" => ses["in"].added
  /\ route # "done" => ~ses["out"].disposed
  /\ ses["out"].asleep = "timeoutbye" => ses["in"].disposed
  /\ rd.flow = "TransformEarlyToFinal" /\ ses["out"].added /\ ~ses["out"].transform
       => Finalized(ses["out"])

EInv == (\A l \in Leg : Ends(ses[l])) /\ EndsCross

(***************************************************************************)
(* A step of SessionLife, and a step that starts no second BYE.            *)
(***************************************************************************)
LifeMove(p, d, q, e) ==
  \/ p = q /\ (d <=> e)
  \/ p = "idle" /\ q = "setup" /\ ~d /\ ~e
  \/ p = "setup" /\ q = "up" /\ ~d /\ ~e
  \/ p \in {"idle", "setup", "up"} /\ q = "ending" /\ ~d /\ ~e
  \/ p \in {"setup", "up", "ending"} /\ q = "over" /\ (d => e)
  \/ p \notin {"setup", "up"} /\ q = p /\ e

LifeStep(s, t) == LifeMove(PhaseOf(s.state), s.disposed, PhaseOf(t.state), t.disposed)
ByeStep(s, t) == s.bye # "none" => t.bye \in {s.bye, "stopped", "final"}

(***************************************************************************)
(* Calm(s, t): t is a session that s may become without a step in its life.*)
(***************************************************************************)
Calm(s, t) ==
  /\ t \in Session
  /\ t.dir = s.dir /\ t.state = s.state /\ t.disposed = s.disposed
  /\ t.asleep = s.asleep /\ t.dropping = s.dropping /\ t.added = s.added
  /\ t.acked = s.acked
  /\ s.dir = "OUTBOUND" => t.resp \cap Final = s.resp \cap Final
  /\ s.resp \subseteq t.resp
  /\ t.transform \/ ~s.transform \/ t.resp \cap Final # {}
  /\ TimerOK(s) => TimerOK(t)
  /\ t.bye \in {s.bye, "stopped", "final"} /\ (t.bye = "none" <=> s.bye = "none")
  /\ t.cancel = "none" <=> s.cancel = "none"
  /\ t.aux # "nil" => s.aux # "nil" \/ s.cancel # "none"

(***************************************************************************)
(* Turn(s, t): t is a session that s may become in one step.  Sleep(s, t)  *)
(* is the same for the step that falls asleep when the caller timed out.   *)
(***************************************************************************)
Sleep(s, t) ==
  /\ t \in Session /\ t.dir = s.dir
  /\ Ends(t) /\ LifeStep(s, t) /\ ByeStep(s, t)
  /\ t.added = s.added /\ (s.disposed => t.disposed)
  /\ t.disposed => s.disposed \/ s.added
  /\ s.resp \subseteq t.resp
  /\ t.transform \/ ~s.transform \/ t.resp \cap Final # {}

Turn(s, t) == Sleep(s, t) /\ (t.asleep = "timeoutbye" => s.asleep = "timeoutbye")

LEMMA PhaseValues ==
  /\ PhaseOf("NotSet") = "idle"
  /\ PhaseOf("BeingEstablished") = "setup"
  /\ PhaseOf("Established") = "up"
  /\ \A st \in {"BeingFailed", "BeingCancelled", "BeingCleared", "BeingDropped"} :
       PhaseOf(st) = "ending"
  /\ \A st \in {"Failed", "Cancelled", "Cleared", "Dropped", "TimedOut", "Redirected",
                "Rejected"} : PhaseOf(st) = "over"
  BY DEF PhaseOf, PendingState

LEMMA CalmTrans ==
  ASSUME NEW s, NEW t, NEW u, Calm(s, t), Calm(t, u)
  PROVE  Calm(s, u)
  BY DEF Calm

LEMMA CalmEnds ==
  ASSUME NEW s \in Session, NEW t, Calm(s, t), Ends(s)
  PROVE  Ends(t)
<1>1. Ending(t) => Ending(s)
  BY DEF Calm, Ending
<1> QED BY <1>1 DEF Calm, Ends, Final

LEMMA CalmTurn ==
  ASSUME NEW s \in Session, NEW t, Calm(s, t), Ends(s)
  PROVE  Turn(s, t)
<1>1. Ends(t)
  BY CalmEnds
<1>2. LifeStep(s, t)
  BY DEF Calm, LifeStep, LifeMove
<1>3. ByeStep(s, t)
  BY DEF Calm, ByeStep
<1> QED BY <1>1, <1>2, <1>3 DEF Calm, Turn, Sleep

LEMMA CalmFirst ==
  ASSUME NEW s, NEW t, NEW u, Calm(s, t), Turn(t, u)
  PROVE  Turn(s, u)
<1>1. LifeStep(s, u)
  BY DEF Calm, Turn, Sleep, LifeStep
<1>2. ByeStep(s, u)
  BY DEF Calm, Turn, Sleep, ByeStep
<1> QED BY <1>1, <1>2 DEF Calm, Turn, Sleep

LEMMA CalmLast ==
  ASSUME NEW s, NEW t \in Session, NEW u, Turn(s, t), Calm(t, u)
  PROVE  Turn(s, u)
<1>1. Ends(u)
  BY CalmEnds DEF Turn, Sleep
<1>2. LifeStep(s, u)
  BY DEF Calm, Turn, Sleep, LifeStep
<1>3. ByeStep(s, u)
  BY DEF Calm, Turn, Sleep, ByeStep
<1> QED BY <1>1, <1>2, <1>3 DEF Calm, Turn, Sleep

-----------------------------------------------------------------------------
(***************************************************************************)
(* The methods that are no step in the life of a session.                  *)
(***************************************************************************)
LEMMA StopNotArmed == \A t : Stop(t) # "armed"
  BY DEF Stop

LEMMA StopAllCalm ==
  ASSUME NEW s \in Session
  PROVE  Calm(s, StopAllOutTransactions(s))
<1> DEFINE t == StopAllOutTransactions(s)
<1>1. t = [s EXCEPT !.timer = Stop(s.timer), !.cancel = Stop(s.cancel),
                    !.bye = Stop(s.bye), !.probe = Stop(s.probe)]
  BY DEF StopAllOutTransactions
<1>2. t \in Session
  BY StopAllTame DEF Tame
<1>3. /\ t.bye = Stop(s.bye) /\ t.cancel = Stop(s.cancel) /\ t.timer = Stop(s.timer)
      /\ t.dir = s.dir /\ t.state = s.state /\ t.disposed = s.disposed
      /\ t.asleep = s.asleep /\ t.dropping = s.dropping /\ t.added = s.added
      /\ t.acked = s.acked /\ t.resp = s.resp /\ t.transform = s.transform /\ t.aux = s.aux
  BY <1>1 DEF Session
<1>4. /\ Stop(s.bye) \in {s.bye, "stopped"} /\ (Stop(s.bye) = "none" <=> s.bye = "none")
      /\ Stop(s.cancel) = "none" <=> s.cancel = "none"
  BY DEF Stop
<1>5. TimerOK(t)
  BY <1>3, StopNotArmed DEF TimerOK
<1> HIDE DEF t
<1>6. Calm(s, t)
  BY <1>2, <1>3, <1>4, <1>5 DEF Calm
<1> QED BY <1>6 DEF t

LEMMA StopPendingCalm ==
  ASSUME NEW s \in Session
  PROVE  Calm(s, StopPending(s)) /\ StopPending(s).acked = s.acked
<1> DEFINE t == StopPending(s)
           tm == IF s.dir = "OUTBOUND" /\ Finalized(s) THEN s.timer ELSE Stop(s.timer)
<1>1. t = [s EXCEPT !.cancel = Stop(s.cancel), !.bye = Stop(s.bye),
                    !.probe = Stop(s.probe), !.timer = tm, !.rcvdBye = TRUE]
  BY DEF StopPending
<1>2. t \in Session
  BY StopPendingTame DEF Tame
<1>3. /\ t.bye = Stop(s.bye) /\ t.cancel = Stop(s.cancel) /\ t.timer = tm
      /\ t.dir = s.dir /\ t.state = s.state /\ t.disposed = s.disposed
      /\ t.asleep = s.asleep /\ t.dropping = s.dropping /\ t.added = s.added
      /\ t.acked = s.acked /\ t.resp = s.resp /\ t.transform = s.transform /\ t.aux = s.aux
  BY <1>1 DEF Session
<1>4. /\ Stop(s.bye) \in {s.bye, "stopped"} /\ (Stop(s.bye) = "none" <=> s.bye = "none")
      /\ Stop(s.cancel) = "none" <=> s.cancel = "none"
  BY DEF Stop
<1>5. tm = "armed" => s.timer = "armed"
  BY StopNotArmed
<1> HIDE DEF t, tm
<1>6. TimerOK(s) => TimerOK(t)
  BY <1>3, <1>5 DEF TimerOK
<1>7. Calm(s, t) /\ t.acked = s.acked
  BY <1>2, <1>3, <1>4, <1>6 DEF Calm
<1> QED BY <1>7 DEF t

\* An update of fields that the life of a session does not depend on.
Aside(s, t) ==
  /\ t \in Session
  /\ t.dir = s.dir /\ t.state = s.state /\ t.disposed = s.disposed
  /\ t.asleep = s.asleep /\ t.dropping = s.dropping /\ t.added = s.added
  /\ t.acked = s.acked /\ t.resp = s.resp /\ t.transform = s.transform /\ t.aux = s.aux
  /\ t.timer \in {s.timer, "nil"}
  /\ t.bye = s.bye /\ t.cancel = s.cancel

LEMMA AsideCalm ==
  ASSUME NEW s, NEW t, Aside(s, t)
  PROVE  Calm(s, t)
<1>1. TimerOK(s) => TimerOK(t)
  BY DEF Aside, TimerOK
<1> QED BY <1>1 DEF Aside, Calm

LEMMA StopNoTimersCalm ==
  ASSUME NEW s \in Session
  PROVE  Calm(s, StopNoTimers(s)) /\ Aside(s, StopNoTimers(s))
<1>1. StopNoTimers(s) \in Session
  BY StopNoTimersTame DEF Tame
<1>2. StopNoTimers(s) = [s EXCEPT !.no18x = Stop(s.no18x), !.noAns = Stop(s.noAns)]
  BY DEF StopNoTimers
<1>3. Aside(s, StopNoTimers(s))
  BY <1>1, <1>2 DEF Aside, Session
<1> QED BY <1>3, AsideCalm

LEMMA StartTimerCalm ==
  ASSUME NEW s \in Session, s.state # "NotSet"
  PROVE  Calm(s, StartTimer(s))
<1> DEFINE a == IF s.no18x = "nil" /\ rd.no18x THEN "armed" ELSE s.no18x
           b == IF s.noAns = "nil" /\ rd.noAns THEN "armed" ELSE s.noAns
<1>1. StartTimer(s) \in Session
  BY StartTimerTame DEF Tame
<1>2. StartTimer(s) = [s EXCEPT !.no18x = a, !.noAns = b]
  BY DEF StartTimer
<1> HIDE DEF a, b
<1>3. Aside(s, StartTimer(s))
  BY <1>1, <1>2 DEF Aside, Session
<1> QED BY <1>3, AsideCalm

LEMMA SendResponseCalm ==
  ASSUME NEW s \in Session, NEW sc \in Code, s.dir = "INBOUND"
  PROVE  Calm(s, SendResponse(s, sc))
<1>1. CASE s.acked
  <2>1. SendResponse(s, sc) = s
    BY <1>1 DEF SendResponse
  <2> QED BY <2>1 DEF Calm
<1>2. CASE ~s.acked
  <2> DEFINE tm == IF s.timer = "nil" /\ (sc \in Final \/ Finalized(s))
                   THEN "armed" ELSE s.timer
             t == SendResponse(s, sc)
  <2>1. t = [s EXCEPT !.resp = s.resp \cup {sc}, !.sent = sc, !.timer = tm]
    BY <1>2 DEF SendResponse
  <2>2. t \in Session
    BY SendResponseType
  <2> HIDE DEF tm, t
  <2>3. /\ t.bye = s.bye /\ t.cancel = s.cancel /\ t.aux = s.aux
        /\ t.dir = s.dir /\ t.state = s.state /\ t.disposed = s.disposed
        /\ t.asleep = s.asleep /\ t.dropping = s.dropping /\ t.added = s.added
        /\ t.acked = s.acked /\ t.resp = s.resp \cup {sc} /\ t.transform = s.transform
    BY <2>1 DEF Session
  <2>4. TimerOK(t)
    BY <1>2, <2>3 DEF TimerOK
  <2>5. Calm(s, t)
    BY <2>2, <2>3, <2>4 DEF Calm
  <2> QED BY <2>5 DEF t
<1> QED BY <1>1, <1>2

\* what addIncomingResponse leaves alone, and that it stops the timers
LEMMA AddResponseFields ==
  ASSUME NEW s \in Session, NEW sc \in Code, NEW t, t = AddResponse(s, sc)
  PROVE  /\ t \in Session
         /\ t.bye = s.bye /\ t.cancel = s.cancel /\ (t.aux = "nil" <=> s.aux = "nil")
         /\ t.dir = s.dir /\ t.state = s.state /\ t.disposed = s.disposed
         /\ t.asleep = s.asleep /\ t.dropping = s.dropping /\ t.added = s.added
         /\ t.acked = s.acked /\ t.resp = s.resp \cup {sc} /\ t.transform = s.transform
         /\ t.sdp18x = s.sdp18x /\ t.linked = s.linked
         /\ t.timer # "armed"
<1> DEFINE tm == IF sc \in Final \/ Finalized(s) THEN Stop(s.aux) ELSE s.aux
<1>1. t = [s EXCEPT !.resp = s.resp \cup {sc}, !.timer = Stop(s.timer), !.aux = tm]
  BY DEF AddResponse
<1>2. tm = "nil" <=> s.aux = "nil"
  BY DEF Stop
<1>3. t \in Session
  BY AddResponseType
<1> HIDE DEF tm
<1> QED BY <1>1, <1>2, <1>3, StopNotArmed DEF Session

LEMMA ProvisionalCalm ==
  ASSUME NEW s \in Session, NEW sc \in Provisional, s.dir = "OUTBOUND"
  PROVE  Calm(s, AddResponse(s, sc))
<1> DEFINE t == AddResponse(s, sc)
<1>1. sc \in Code /\ sc \notin Final
  BY DEF Code, Provisional, Final, Negative
<1> HIDE DEF t
<1>2. /\ t \in Session
      /\ t.bye = s.bye /\ t.cancel = s.cancel /\ (t.aux = "nil" <=> s.aux = "nil")
      /\ t.dir = s.dir /\ t.state = s.state /\ t.disposed = s.disposed
      /\ t.asleep = s.asleep /\ t.dropping = s.dropping /\ t.added = s.added
      /\ t.acked = s.acked /\ t.resp = s.resp \cup {sc} /\ t.transform = s.transform
      /\ t.timer # "armed"
  BY <1>1, AddResponseFields DEF t
<1>3. t.resp \cap Final = s.resp \cap Final
  BY <1>1, <1>2
<1>4. TimerOK(t)
  BY <1>2 DEF TimerOK
<1>5. Calm(s, t)
  BY <1>2, <1>3, <1>4 DEF Calm
<1> QED BY <1>5 DEF t

-----------------------------------------------------------------------------
(***************************************************************************)
(* The methods that are a step in the life of a session.                   *)
(***************************************************************************)

LEMMA ReleaseTurn ==
  ASSUME NEW s \in Session, Local(s), Ends(s), s.state = "Established",
         NEW st \in {"BeingCleared", "BeingDropped"}
  PROVE  Turn(s, SendBYE(SetState(s, st)))
<1> DEFINE t == SendBYE(SetState(s, st))
<1>1. 200 \in s.resp /\ s.acked
  BY DEF Local
<1>2. Finalized(SetState(s, st))
  BY <1>1 DEF Finalized, SetState, Session, Final
<1>3. t = [s EXCEPT !.state = st, !.bye = "armed"]
  BY <1>2 DEF SendBYE, SetState, Session
<1>4. st \in State
  BY DEF State, PendingState
<1> HIDE DEF t
<1>5. /\ t \in Session /\ t.bye = "armed" /\ t.state = st
      /\ t.cancel = s.cancel /\ t.aux = s.aux /\ t.timer = s.timer
      /\ t.dir = s.dir /\ t.disposed = s.disposed
      /\ t.asleep = s.asleep /\ t.dropping = s.dropping /\ t.added = s.added
      /\ t.acked = s.acked /\ t.resp = s.resp /\ t.transform = s.transform
  BY <1>3, <1>4, ZenonT(60) DEF Session, TxState
<1>6. ~Ending(s) /\ s.asleep = "no" /\ s.added
  BY DEF Ends, Alive, Ending, Session
<1>7. TimerOK(t)
  BY <1>5 DEF Ends, TimerOK
<1>8. Ends(t)
  BY <1>1, <1>5, <1>6, <1>7 DEF Ends, Visited, Alive, Final
<1>9. LifeStep(s, t)
  BY <1>5, <1>6, PhaseValues DEF LifeStep, LifeMove, Ending
<1>10. ByeStep(s, t)
  BY <1>6 DEF ByeStep, Ending
<1>11. Turn(s, t)
  BY <1>5, <1>6, <1>8, <1>9, <1>10 DEF Turn, Sleep
<1> QED BY <1>11 DEF t

LEMMA CancelMeTurn ==
  ASSUME NEW s \in Session, Local(s), Ends(s)
  PROVE  Turn(s, CancelMe(s))
<1>1. CASE ~(s.dir = "OUTBOUND" /\ IsBeingEstablished(s))
  <2>1. CancelMe(s) = s
    BY <1>1 DEF CancelMe
  <2>2. Calm(s, s)
    BY DEF Calm
  <2> QED BY <2>1, <2>2, CalmTurn
<1>2. CASE s.dir = "OUTBOUND" /\ IsBeingEstablished(s)
  <2> DEFINE n == StopNoTimers(s)
             u == SetState(n, "BeingCancelled")
             t == SendCANCEL(u)
  <2>0. s.state = "BeingEstablished" /\ s.dir = "OUTBOUND"
    BY <1>2 DEF IsBeingEstablished
  <2>1. Aside(s, n)
    BY StopNoTimersCalm
  <2>2. u = [n EXCEPT !.state = "BeingCancelled"]
    BY DEF SetState
  <2>3. CancelMe(s) = t
    BY <1>2 DEF CancelMe
  <2>4. t = IF u.acked THEN u ELSE [u EXCEPT !.cancel = "armed"]
    BY DEF SendCANCEL
  <2> HIDE DEF n, u, t
  <2>5. "BeingCancelled" \in State
    BY DEF State, PendingState
  <2>6. /\ u \in Session /\ u.state = "BeingCancelled" /\ u.bye = s.bye
        /\ u.cancel = s.cancel /\ u.aux = s.aux /\ u.timer \in {s.timer, "nil"}
        /\ u.dir = s.dir /\ u.disposed = s.disposed
        /\ u.asleep = s.asleep /\ u.dropping = s.dropping /\ u.added = s.added
        /\ u.acked = s.acked /\ u.resp = s.resp /\ u.transform = s.transform
    BY <2>1, <2>2, <2>5 DEF Aside, Session
  <2>7. /\ t \in Session /\ t.state = "BeingCancelled" /\ t.bye = s.bye
        /\ t.cancel \in {s.cancel, "armed"} /\ (s.acked => t.cancel = s.cancel)
        /\ t.aux = s.aux /\ t.timer \in {s.timer, "nil"}
        /\ t.dir = s.dir /\ t.disposed = s.disposed
        /\ t.asleep = s.asleep /\ t.dropping = s.dropping /\ t.added = s.added
        /\ t.acked = s.acked /\ t.resp = s.resp /\ t.transform = s.transform
    <3>1. CASE u.acked
      BY <2>4, <2>6, <3>1
    <3>2. CASE ~u.acked
      BY <2>4, <2>6, <3>2 DEF Session, TxState
    <3> QED BY <3>1, <3>2
  <2>8. ~Ending(s) /\ s.added
    BY <2>0 DEF Ends, Alive
  <2>9. s.asleep # "no" => s.acked
    BY DEF Local
  <2>10. TimerOK(t)
    BY <2>7 DEF Ends, TimerOK
  <2>11. Ends(t)
    BY <2>0, <2>7, <2>8, <2>9, <2>10 DEF Ends, Visited, Alive, Ending
  <2>12. LifeStep(s, t)
    BY <2>0, <2>7, <2>8, PhaseValues DEF LifeStep, LifeMove, Ending
  <2>13. ByeStep(s, t)
    BY <2>7 DEF ByeStep
  <2> QED BY <2>3, <2>7, <2>11, <2>12, <2>13 DEF Turn, Sleep
<1> QED BY <1>1, <1>2

LEMMA SelfTurn ==
  ASSUME NEW s \in Session, Ends(s)
  PROVE  Turn(s, s)
<1>1. Calm(s, s)
  BY DEF Calm
<1> QED BY <1>1, CalmTurn

LEMMA RejectMeTurn ==
  ASSUME NEW s \in Session, Ends(s), NEW sc \in Negative
  PROVE  Turn(s, RejectMe(s, sc))
<1>1. CASE ~(s.dir = "INBOUND" /\ IsBeingEstablished(s))
  BY <1>1, SelfTurn DEF RejectMe
<1>2. CASE s.dir = "INBOUND" /\ IsBeingEstablished(s)
  <2> DEFINE u == SetState(s, "BeingFailed")
  <2>0. s.state = "BeingEstablished"
    BY <1>2 DEF IsBeingEstablished
  <2>1. u = [s EXCEPT !.state = "BeingFailed"]
    BY DEF SetState
  <2>2. "BeingFailed" \in State /\ "BeingFailed" \in PendingState
    BY DEF State, PendingState
  <2> HIDE DEF u
  <2>3. /\ u \in Session /\ u.state = "BeingFailed" /\ u.bye = s.bye
        /\ u.cancel = s.cancel /\ u.aux = s.aux /\ u.timer = s.timer
        /\ u.dir = s.dir /\ u.disposed = s.disposed
        /\ u.asleep = s.asleep /\ u.dropping = s.dropping /\ u.added = s.added
        /\ u.acked = s.acked /\ u.resp = s.resp /\ u.transform = s.transform
    BY <2>1, <2>2 DEF Session
  <2>4. ~Ending(s) /\ s.added /\ s.asleep = "no"
    BY <1>2, <2>0 DEF Ends, Alive
  <2>5. TimerOK(u)
    BY <2>3 DEF Ends, TimerOK
  <2>6. Ends(u)
    BY <1>2, <2>2, <2>3, <2>4, <2>5 DEF Ends, Visited, Alive
  <2>7. LifeStep(s, u)
    BY <2>0, <2>3, <2>4, PhaseValues DEF LifeStep, LifeMove, Ending
  <2>8. Turn(s, u)
    BY <2>3, <2>6, <2>7 DEF Turn, Sleep, ByeStep
  <2>9. Calm(u, SendResponse(u, sc))
    BY <1>2, <2>3, SendResponseCalm DEF Code, Final
  <2>10. RejectMe(s, sc) = SendResponse(u, sc)
    BY <1>2 DEF RejectMe, u
  <2> QED BY <2>3, <2>8, <2>9, <2>10, CalmLast
<1> QED BY <1>1, <1>2

LEMMA RerouteRequestTurn ==
  ASSUME NEW s \in Session, Ends(s), NEW sc \in Negative
  PROVE  Turn(s, RerouteRequest(s, sc))
<1> DEFINE t == [s EXCEPT !.linked = FALSE]
<1>1. Aside(s, t)
  BY DEF Aside, Session
<1>2. t \in Session /\ Calm(s, t)
  BY <1>1, AsideCalm DEF Aside
<1>3. Ends(t)
  BY <1>2, CalmEnds
<1> HIDE DEF t
<1>4. Turn(s, RejectMe(t, sc))
  BY <1>2, <1>3, RejectMeTurn, CalmFirst
<1> QED BY <1>4, SelfTurn DEF RerouteRequest, t

\* DropMe of a session that is not alive
LEMMA DropMeTurn ==
  ASSUME NEW s \in Session, Ends(s), s.state \notin Alive, s.asleep # "timeoutbye", s.added
  PROVE  Turn(s, DropMe(s))
<1>1. CASE s.disposed
  BY <1>1, SelfTurn DEF DropMe
<1>2. CASE ~s.disposed
  <2> DEFINE t == DropMe(s)
  <2>1. t = [s EXCEPT !.disposed = TRUE, !.media = FALSE, !.maxDur = Stop(s.maxDur)]
    BY <1>2 DEF DropMe
  <2>2. t \in Session
    BY DropMeTame DEF Tame
  <2> HIDE DEF t
  <2>3. /\ t.state = s.state /\ t.bye = s.bye
        /\ t.cancel = s.cancel /\ t.aux = s.aux /\ t.timer = s.timer
        /\ t.dir = s.dir /\ t.disposed
        /\ t.asleep = s.asleep /\ t.dropping = s.dropping /\ t.added = s.added
        /\ t.acked = s.acked /\ t.resp = s.resp /\ t.transform = s.transform
    BY <2>1 DEF Session
  <2>4. TimerOK(t)
    BY <2>3 DEF Ends, TimerOK
  <2>5. Ends(t)
    BY <2>3, <2>4 DEF Ends
  <2>6. PhaseOf(s.state) \notin {"setup", "up"}
    BY PhaseValues DEF Ends, Visited, Alive
  <2>7. LifeStep(s, t)
    BY <2>3, <2>6 DEF LifeStep, LifeMove
  <2>8. Turn(s, t)
    BY <2>2, <2>3, <2>5, <2>7 DEF Turn, Sleep, ByeStep
  <2> QED BY <2>8 DEF t
<1> QED BY <1>1, <1>2

\* SetState to the end of a session, or FinalizeState, with DropMe after it
LEMMA EndTurn ==
  ASSUME NEW s \in Session, Ends(s), s.asleep # "timeoutbye",
         NEW st \in {"Failed", "Cancelled", "Cleared", "Dropped", "TimedOut"},
         s.state \in Alive \cup {"BeingFailed", "BeingCancelled", "BeingCleared", "BeingDropped"}
  PROVE  Turn(s, DropMe(SetState(s, st)))
<1> DEFINE u == SetState(s, st)
           t == DropMe(u)
<1>1. st \in State /\ st \in Visited /\ st # "NotSet" /\ st \notin Alive /\ PhaseOf(st) = "over"
  BY PhaseValues DEF State, SettledState, Visited, Alive
<1>2. PhaseOf(s.state) \in {"setup", "up", "ending"}
  BY PhaseValues DEF Alive
<1>3. u = [s EXCEPT !.state = st]
  BY DEF SetState
<1> HIDE DEF u
<1>4. /\ u \in Session /\ u.state = st /\ u.bye = s.bye
      /\ u.cancel = s.cancel /\ u.aux = s.aux /\ u.timer = s.timer
      /\ u.dir = s.dir /\ u.disposed = s.disposed
      /\ u.asleep = s.asleep /\ u.dropping = s.dropping /\ u.added = s.added
      /\ u.acked = s.acked /\ u.resp = s.resp /\ u.transform = s.transform
  BY <1>1, <1>3 DEF Session
<1>5. t \in Session
  BY <1>4, DropMeTame DEF Tame
<1>6. /\ t.state = st /\ t.bye = s.bye
      /\ t.cancel = s.cancel /\ t.aux = s.aux /\ t.timer = s.timer
      /\ t.dir = s.dir /\ t.disposed
      /\ t.asleep = s.asleep /\ t.dropping = s.dropping /\ t.added = s.added
      /\ t.acked = s.acked /\ t.resp = s.resp /\ t.transform = s.transform
  <2>1. CASE u.disposed
    BY <1>4, <2>1 DEF DropMe
  <2>2. CASE ~u.disposed
    <3>1. t = [u EXCEPT !.disposed = TRUE, !.media = FALSE, !.maxDur = Stop(u.maxDur)]
      BY <2>2 DEF DropMe
    <3> QED BY <1>4, <3>1 DEF Session
  <2> QED BY <2>1, <2>2
<1> HIDE DEF t
<1>7. s.added
  BY DEF Ends, Alive
<1>8. TimerOK(t)
  BY <1>6 DEF Ends, TimerOK
<1>9. Ends(t)
  BY <1>1, <1>6, <1>7, <1>8 DEF Ends
<1>10. LifeStep(s, t)
  BY <1>1, <1>2, <1>6 DEF LifeStep, LifeMove
<1>11. Turn(s, t)
  BY <1>5, <1>6, <1>7, <1>9, <1>10 DEF Turn, Sleep, ByeStep
<1> QED BY <1>11 DEF t, u

LEMMA FinalizeVisited ==
  /\ FinalizeMe("BeingFailed") = "Failed" /\ FinalizeMe("BeingCancelled") = "Cancelled"
  /\ FinalizeMe("BeingCleared") = "Cleared" /\ FinalizeMe("BeingDropped") = "Dropped"
  /\ FinalizeMe("BeingEstablished") = "Established"
  /\ \A st \in Visited \cap SettledState : FinalizeMe(st) = st
  BY DEF FinalizeMe, Visited, SettledState

LEMMA FinalizeDropTurn ==
  ASSUME NEW s \in Session, Ends(s), s.asleep # "timeoutbye", s.state \notin Alive, s.added
  PROVE  Turn(s, DropMe(FinalizeState(s)))
<1>1. FinalizeState(s) = SetState(s, FinalizeMe(s.state))
  BY DEF FinalizeState, SetState
<1>2. CASE s.state \in {"BeingFailed", "BeingCancelled", "BeingCleared", "BeingDropped"}
  <2>1. FinalizeMe(s.state) \in {"Failed", "Cancelled", "Cleared", "Dropped", "TimedOut"}
    BY <1>2, FinalizeVisited
  <2> QED BY <1>1, <1>2, <2>1, EndTurn
<1>3. CASE s.state \notin {"BeingFailed", "BeingCancelled", "BeingCleared", "BeingDropped"}
  <2>1. s.state \in Visited \cap SettledState
    BY <1>3 DEF Ends, Visited, Alive, SettledState
  <2>2. FinalizeMe(s.state) = s.state
    BY <2>1, FinalizeVisited
  <2>3. FinalizeState(s) = s
    BY <1>1, <2>2 DEF SetState, Session
  <2> QED BY <2>3, DropMeTurn
<1> QED BY <1>2, <1>3

LEMMA TimedOutTurn ==
  ASSUME NEW s \in Session, Ends(s), s.asleep # "timeoutbye"
  PROVE  Turn(s, TimedOut(s)) /\ (IsPending(s.state) => TimedOut(s).disposed)
<1>1. CASE ~IsPending(s.state)
  BY <1>1, SelfTurn DEF TimedOut
<1>2. CASE IsPending(s.state)
  <2>1. s.state \in Alive \cup {"BeingFailed", "BeingCancelled", "BeingCleared", "BeingDropped"}
    BY <1>2 DEF IsPending, Ends, Visited, Alive, PendingState
  <2>2. Turn(s, DropMe(SetState(s, "TimedOut")))
    BY <2>1, EndTurn
  <2>3. SetState(s, "TimedOut") \in Session
    BY DEF SetState, Session, State, SettledState
  <2>4. DropMe(SetState(s, "TimedOut")).disposed
    BY <2>3 DEF DropMe, Session
  <2> QED BY <1>2, <2>2, <2>4 DEF TimedOut
<1> QED BY <1>1, <1>2

\* the callee of a caller that timed out: ACK now, BYE later; or CANCEL
LEMMA CallerTimedOutSleep ==
  ASSUME NEW s \in Session, Local(s), Ends(s), s.dir = "OUTBOUND"
  PROVE  Sleep(s, CallerTimedOut(s))
<1>1. CASE ~(IsBeingEstablished(s) /\ Received200(s))
  BY <1>1, CancelMeTurn DEF CallerTimedOut, Turn
<1>2. CASE IsBeingEstablished(s) /\ Received200(s)
  <2> DEFINE t == CallerTimedOut(s)
  <2>0. s.state = "BeingEstablished" /\ 200 \in s.resp
    BY <1>2 DEF IsBeingEstablished, Received200
  <2>1. t = [s EXCEPT !.acked = TRUE, !.asleep = "timeoutbye"]
    BY <1>2 DEF CallerTimedOut, SendACK, Session
  <2> HIDE DEF t
  <2>2. /\ t \in Session /\ t.state = s.state /\ t.bye = s.bye
        /\ t.cancel = s.cancel /\ t.aux = s.aux /\ t.timer = s.timer
        /\ t.dir = s.dir /\ t.disposed = s.disposed
        /\ t.asleep = "timeoutbye" /\ t.dropping = s.dropping /\ t.added = s.added
        /\ t.acked /\ t.resp = s.resp /\ t.transform = s.transform
    BY <2>1 DEF Session
  <2>3. ~Ending(s)
    BY <2>0 DEF Ends, Alive
  <2>4. TimerOK(t)
    BY <2>2 DEF Ends, TimerOK
  <2>5. Ends(t)
    BY <2>0, <2>2, <2>3, <2>4 DEF Ends, Ending
  <2>6. LifeStep(s, t)
    BY <2>2 DEF LifeStep, LifeMove
  <2>7. Sleep(s, t)
    BY <2>2, <2>5, <2>6 DEF Sleep, ByeStep
  <2> QED BY <2>7 DEF t
<1> QED BY <1>1, <1>2

-----------------------------------------------------------------------------
(***************************************************************************)
(* Final responses of the callee.                                          *)
(***************************************************************************)

\* ss2 while its INVITE has no final response
LEMMA Unanswered2 ==
  ASSUME NEW s \in Session, Local(s), Ends(s), s.dir = "OUTBOUND", Stored(s), ~Finalized(s)
  PROVE  /\ s.state \in {"BeingEstablished", "BeingCancelled"} /\ s.added /\ ~s.disposed
         /\ s.bye = "none" /\ s.asleep = "no"
         /\ s.resp \cap Final = {}
<1>1. 200 \notin s.resp
  BY DEF Finalized, Final
<1> QED BY <1>1 DEF Stored, Finalized, Local, Ends, Session

LEMMA NegativeTurn ==
  ASSUME NEW s \in Session, Local(s), Ends(s), s.dir = "OUTBOUND", Stored(s), ~Finalized(s),
         NEW sc \in Negative, NEW st \in {"Redirected", "Rejected", "Cancelled"},
         NEW t \in Session,
         t.state = st, t.acked, t.dropping, t.resp = s.resp \cup {sc}, t.timer # "armed",
         t.dir = s.dir, t.disposed = s.disposed, t.asleep = s.asleep, t.added = s.added,
         t.bye = s.bye
  PROVE  Turn(s, t)
<1>1. /\ s.state \in {"BeingEstablished", "BeingCancelled"} /\ s.added /\ ~s.disposed
      /\ s.bye = "none" /\ s.asleep = "no"
  BY Unanswered2
<1>2. sc \in t.resp /\ sc \in Final
  BY DEF Final
<1>3. TimerOK(t)
  BY DEF TimerOK
<1>4. Ends(t)
  BY <1>1, <1>2, <1>3 DEF Ends, Visited, Alive
<1>5. LifeStep(s, t)
  BY <1>1, PhaseValues DEF LifeStep, LifeMove
<1> QED BY <1>1, <1>2, <1>4, <1>5 DEF Turn, Sleep, ByeStep

LEMMA Ack3xxTo6xxTurn ==
  ASSUME NEW s \in Session, Local(s), Ends(s), s.dir = "OUTBOUND", Stored(s), ~Finalized(s),
         NEW sc \in Negative, NEW st \in {"Redirected", "Rejected"},
         NEW t, t = Ack3xxTo6xx(StopNoTimers(AddResponse(s, sc)), st)
  PROVE  Turn(s, t) /\ t \in Session /\ t.resp \cap Final # {}
<1> DEFINE a == AddResponse(s, sc)
           n == StopNoTimers(a)
<1>1. sc \in Code
  BY DEF Code, Final
<1>2. /\ a \in Session
      /\ a.bye = s.bye /\ a.dir = s.dir /\ a.disposed = s.disposed
      /\ a.asleep = s.asleep /\ a.added = s.added
      /\ a.resp = s.resp \cup {sc} /\ a.timer # "armed"
  BY <1>1, AddResponseFields
<1> HIDE DEF a
<1>3. Aside(a, n)
  BY <1>2, StopNoTimersCalm
<1>4. t = [n EXCEPT !.state = st, !.acked = TRUE, !.dropping = TRUE]
  BY <1>3 DEF Ack3xxTo6xx, DropMeTimed, SendACK, SetState, Session, Aside, a
<1>5. st \in State
  BY DEF State, SettledState
<1> HIDE DEF n
<1>6. /\ t \in Session /\ t.state = st /\ t.acked /\ t.dropping
      /\ t.resp = n.resp /\ t.timer = n.timer /\ t.dir = n.dir /\ t.disposed = n.disposed
      /\ t.asleep = n.asleep /\ t.added = n.added /\ t.bye = n.bye
  BY <1>3, <1>4, <1>5, ZenonT(60) DEF Session, Aside
<1>7. Turn(s, t)
  BY <1>2, <1>3, <1>6, NegativeTurn DEF Aside
<1>8. t.resp \cap Final # {}
  BY <1>2, <1>3, <1>6 DEF Aside, Final
<1> QED BY <1>6, <1>7, <1>8

LEMMA AckFinalizeTurn ==
  ASSUME NEW s \in Session, Local(s), Ends(s), s.dir = "OUTBOUND", Stored(s), ~Finalized(s),
         NEW sc \in Negative, s.state = "BeingCancelled"
  PROVE  Turn(s, Ack3xxTo6xxFinalize(AddResponse(s, sc)))
<1> DEFINE a == AddResponse(s, sc)
           t == Ack3xxTo6xxFinalize(a)
<1>1. sc \in Code
  BY DEF Code, Final
<1>2. /\ a \in Session /\ a.state = s.state
      /\ a.bye = s.bye /\ a.dir = s.dir /\ a.disposed = s.disposed
      /\ a.asleep = s.asleep /\ a.added = s.added
      /\ a.resp = s.resp \cup {sc} /\ a.timer # "armed"
  BY <1>1, AddResponseFields
<1> HIDE DEF a
<1>3. FinalizeState(a) = [a EXCEPT !.state = "Cancelled"]
  BY <1>2, FinalizeVisited DEF FinalizeState
<1>4. t = [a EXCEPT !.state = "Cancelled", !.acked = TRUE, !.dropping = TRUE]
  BY <1>2, <1>3 DEF Ack3xxTo6xxFinalize, DropMeTimed, SendACK, Session
<1>5. "Cancelled" \in State
  BY DEF State, SettledState
<1> HIDE DEF t
<1>6. /\ t \in Session /\ t.state = "Cancelled" /\ t.acked /\ t.dropping
      /\ t.resp = a.resp /\ t.timer = a.timer /\ t.dir = a.dir /\ t.disposed = a.disposed
      /\ t.asleep = a.asleep /\ t.added = a.added /\ t.bye = a.bye
  BY <1>2, <1>4, <1>5, ZenonT(60) DEF Session
<1>7. Turn(s, t)
  BY <1>2, <1>6, NegativeTurn
<1> QED BY <1>7 DEF t, a

(***************************************************************************)
(* The three cases of Receive2xx: a call that is over is acknowledged and  *)
(* will be released; one that was answered early is established; any other *)
(* waits for the caller's ACK.                                             *)
(***************************************************************************)
LEMMA Answer2xxTurn ==
  ASSUME NEW s \in Session, Local(s), Ends(s), s.dir = "OUTBOUND", Stored(s), ~Finalized(s),
         NEW t \in Session,
         t.resp = s.resp \cup {200}, t.timer # "armed",
         t.cancel = "none" <=> s.cancel = "none", t.aux = "nil" <=> s.aux = "nil",
         t.dir = s.dir, t.disposed = s.disposed, t.dropping = s.dropping, t.added = s.added,
         t.bye = s.bye,
         \/ t.state = s.state /\ s.state # "BeingEstablished" /\ t.asleep = "ackbye" /\ t.acked
         \/ s.state = "BeingEstablished" /\ t.state = "Established" /\ t.asleep = s.asleep
            /\ t.acked
         \/ s.state = "BeingEstablished" /\ t.state = s.state /\ t.asleep = s.asleep
            /\ t.acked = s.acked
  PROVE  Turn(s, t)
<1>1. /\ s.state \in {"BeingEstablished", "BeingCancelled"} /\ s.added /\ ~s.disposed
      /\ s.bye = "none" /\ s.asleep = "no" /\ s.resp \cap Final = {}
  BY Unanswered2
<1>2. 200 \in t.resp /\ 200 \in Final /\ t.resp \cap Final # {}
  BY DEF Final
<1>3. t.resp \cap Negative = {}
  BY <1>1 DEF Negative, Final
<1>4. TimerOK(t)
  BY DEF TimerOK
<1>5. Ends(t)
  <2>1. CASE t.asleep = "ackbye"
    BY <1>1, <1>2, <1>3, <1>4, <2>1 DEF Ends, Visited, Alive
  <2>2. CASE t.asleep = s.asleep /\ s.state = "BeingEstablished"
    <3>1. ~Ending(s)
      BY <2>2 DEF Ends, Alive
    <3>2. ~Ending(t)
      BY <1>1, <2>2, <3>1 DEF Ending
    <3> QED BY <1>1, <1>2, <1>3, <1>4, <2>2, <3>2 DEF Ends, Visited, Alive
  <2> QED BY <2>1, <2>2
<1>6. LifeStep(s, t)
  BY <1>1, PhaseValues DEF LifeStep, LifeMove
<1> QED BY <1>1, <1>2, <1>5, <1>6 DEF Turn, Sleep, ByeStep

LEMMA AnswerInTimeTurn ==
  ASSUME NEW s \in Session, Local(s), Ends(s), s.dir = "OUTBOUND", Stored(s), ~Finalized(s),
         s.state = "BeingEstablished",
         NEW now \in Session, now.resp = s.resp \cup {200}, now.timer # "armed",
         now.cancel = s.cancel, now.aux = "nil" <=> s.aux = "nil",
         now.dir = s.dir, now.state = s.state, now.disposed = s.disposed,
         now.asleep = s.asleep, now.dropping = s.dropping, now.added = s.added,
         now.acked = s.acked, now.bye = s.bye
  PROVE  Turn(s, SendACK(FinalizeState(now))) /\ Turn(s, now)
<1>2. Turn(s, now)
  BY Answer2xxTurn
<1> DEFINE t == SendACK(FinalizeState(now))
<1>3. FinalizeState(now) = [now EXCEPT !.state = "Established"]
  BY FinalizeVisited DEF FinalizeState
<1>4. t = [now EXCEPT !.state = "Established", !.acked = TRUE]
  BY <1>3 DEF SendACK, Session
<1>5. "Established" \in State
  BY DEF State, SettledState
<1> HIDE DEF t
<1>6. /\ t \in Session /\ t.state = "Established" /\ t.acked
      /\ t.bye = now.bye /\ t.cancel = now.cancel /\ t.aux = now.aux
      /\ t.dir = now.dir /\ t.disposed = now.disposed
      /\ t.asleep = now.asleep /\ t.dropping = now.dropping /\ t.added = now.added
      /\ t.resp = now.resp /\ t.timer = now.timer
  BY <1>4, <1>5, ZenonT(60) DEF Session
<1>7. Turn(s, t)
  BY <1>6, Answer2xxTurn
<1> QED BY <1>2, <1>7 DEF t

LEMMA Receive2xxTurn ==
  ASSUME NEW s \in Session, Local(s), Ends(s), s.dir = "OUTBOUND", Stored(s), ~Finalized(s),
         NEW out, out = AddResponse(s, 200),
         NEW now, now = [StopNoTimers(out) EXCEPT !.transform = FALSE]
  PROVE  /\ s.state # "BeingEstablished" =>
              Turn(s, [SendACK(StopAllOutTransactions(out)) EXCEPT !.asleep = "ackbye"])
         /\ s.state = "BeingEstablished" => Turn(s, SendACK(FinalizeState(now))) /\ Turn(s, now)
<1>1. 200 \in Code
  BY DEF Code, Final
<1>2. /\ out \in Session
      /\ out.bye = s.bye /\ out.cancel = s.cancel /\ (out.aux = "nil" <=> s.aux = "nil")
      /\ out.dir = s.dir /\ out.state = s.state /\ out.disposed = s.disposed
      /\ out.asleep = s.asleep /\ out.dropping = s.dropping /\ out.added = s.added
      /\ out.acked = s.acked /\ out.resp = s.resp \cup {200} /\ out.timer # "armed"
  BY <1>1, AddResponseFields
<1>3. /\ s.bye = "none" /\ s.state \in State
  BY Unanswered2 DEF Session
<1>4. ASSUME s.state # "BeingEstablished"
      PROVE  Turn(s, [SendACK(StopAllOutTransactions(out)) EXCEPT !.asleep = "ackbye"])
  <2> DEFINE t == [SendACK(StopAllOutTransactions(out)) EXCEPT !.asleep = "ackbye"]
             a == StopAllOutTransactions(out)
  <2>1. a = [out EXCEPT !.timer = Stop(out.timer), !.cancel = Stop(out.cancel),
                        !.bye = Stop(out.bye), !.probe = Stop(out.probe)]
    BY DEF StopAllOutTransactions
  <2>2. a \in Session
    BY <1>2, StopAllTame DEF Tame
  <2>3. /\ Stop(out.bye) = "none" /\ Stop(out.timer) # "armed"
        /\ Stop(out.cancel) = "none" <=> out.cancel = "none"
    BY <1>2, <1>3 DEF Stop
  <2>4. t = [a EXCEPT !.acked = TRUE, !.asleep = "ackbye"]
    BY <2>2 DEF SendACK, Session
  <2> HIDE DEF a, t
  <2>5. /\ t \in Session /\ t.acked /\ t.asleep = "ackbye"
        /\ t.bye = a.bye /\ t.cancel = a.cancel /\ t.aux = a.aux /\ t.timer = a.timer
        /\ t.dir = a.dir /\ t.state = a.state /\ t.disposed = a.disposed
        /\ t.dropping = a.dropping /\ t.added = a.added /\ t.resp = a.resp
    BY <2>2, <2>4 DEF Session
  <2>6. /\ a.bye = "none" /\ (a.cancel = "none" <=> out.cancel = "none") /\ a.aux = out.aux
        /\ a.timer # "armed"
        /\ a.dir = out.dir /\ a.state = out.state /\ a.disposed = out.disposed
        /\ a.dropping = out.dropping /\ a.added = out.added /\ a.resp = out.resp
    BY <1>2, <2>1, <2>3 DEF Session
  <2>7. Turn(s, t)
    BY <1>2, <1>3, <1>4, <2>5, <2>6, Answer2xxTurn
  <2> QED BY <2>7 DEF t
<1>5. ASSUME s.state = "BeingEstablished"
      PROVE  Turn(s, SendACK(FinalizeState(now))) /\ Turn(s, now)
  <2>1. PICK n : n = StopNoTimers(out)
    OBVIOUS
  <2>2. Aside(out, n) /\ now = [n EXCEPT !.transform = FALSE]
    BY <1>2, <2>1, StopNoTimersCalm
  <2>0. n \in Session /\ now = [n EXCEPT !.transform = FALSE]
    BY <2>2 DEF Aside
  <2>3. /\ now \in Session
        /\ now.bye = n.bye /\ now.cancel = n.cancel /\ now.aux = n.aux
        /\ now.dir = n.dir /\ now.state = n.state /\ now.disposed = n.disposed
        /\ now.asleep = n.asleep /\ now.dropping = n.dropping /\ now.added = n.added
        /\ now.acked = n.acked /\ now.resp = n.resp /\ now.timer = n.timer
    BY ONLY <2>0, ZenonT(60) DEF Session
  <2>4. /\ n.bye = out.bye /\ n.cancel = out.cancel /\ n.aux = out.aux
        /\ n.dir = out.dir /\ n.state = out.state /\ n.disposed = out.disposed
        /\ n.asleep = out.asleep /\ n.dropping = out.dropping /\ n.added = out.added
        /\ n.acked = out.acked /\ n.resp = out.resp /\ n.timer # "armed"
    BY <1>2, <2>2 DEF Aside
  <2>5. /\ now.bye = s.bye /\ now.cancel = s.cancel /\ (now.aux = "nil" <=> s.aux = "nil")
        /\ now.dir = s.dir /\ now.state = s.state /\ now.disposed = s.disposed
        /\ now.asleep = s.asleep /\ now.dropping = s.dropping /\ now.added = s.added
        /\ now.acked = s.acked /\ now.resp = s.resp \cup {200} /\ now.timer # "armed"
    BY <1>2, <2>3, <2>4
  <2> QED BY <1>5, <2>3, <2>5, AnswerInTimeTurn, ZenonT(60)
<1> QED BY <1>4, <1>5

-----------------------------------------------------------------------------
(***************************************************************************)
(* A step in which each session takes a turn.                              *)
(***************************************************************************)
Lives == \A l \in Leg : LifeStep(ses[l], ses'[l]) /\ ByeStep(ses[l], ses'[l])

LEMMA EndsFacts ==
  ASSUME IInv, EInv
  PROVE  /\ ses["in"] \in Session /\ ses["out"] \in Session
         /\ ses["in"].dir = "INBOUND" /\ ses["out"].dir = "OUTBOUND"
         /\ Local(ses["in"]) /\ Local(ses["out"])
         /\ Ends(ses["in"]) /\ Ends(ses["out"])
         /\ ses["in"].asleep = "no"
         /\ \A l \in Leg : ses[l] \in Session /\ Local(ses[l]) /\ Ends(ses[l])
<1>1. ses["in"] \in Session /\ ses["in"].dir = "INBOUND" /\ Ends(ses["in"])
  BY SessionsTyped DEF EInv, Leg
<1>2. ses["in"].asleep = "no"
  BY <1>1 DEF Ends
<1> QED BY <1>1, <1>2, SessionsTyped DEF EInv, Leg

LEMMA SleepStep ==
  ASSUME IInv, EInv, UNCHANGED <<route, rd>>, NEW a, NEW b,
         Turn(ses["in"], a), Sleep(ses["out"], b),
         b.asleep = "timeoutbye" => ses["out"].asleep = "timeoutbye" \/ a.disposed,
         ses'["in"] = a, ses'["out"] = b
  PROVE  EInv' /\ Lives
<1>1. \A l \in Leg : Ends(ses'[l])
  BY DEF Turn, Sleep, Leg
<1>2. Lives
  BY DEF Turn, Sleep, Leg, Lives
<1>3. EndsCross'
  <2>1. route = "idle" => ~a.disposed
    BY DEF IInv, Cross, Quiet, EInv, EndsCross, Turn, Sleep
  <2>2. route # "idle" => a.added
    BY DEF EInv, EndsCross, Turn, Sleep
  <2>3. route # "done" => ~b.disposed
    BY DEF IInv, Cross, Quiet, EInv, EndsCross, Sleep
  <2>4. b.asleep = "timeoutbye" => a.disposed
    BY DEF EInv, EndsCross, Turn, Sleep
  <2>5. rd.flow = "TransformEarlyToFinal" /\ b.added /\ ~b.transform => b.resp \cap Final # {}
    BY DEF EInv, EndsCross, Sleep, Finalized
  <2> QED BY <2>1, <2>2, <2>3, <2>4, <2>5 DEF EndsCross, Finalized
<1> QED BY <1>1, <1>2, <1>3 DEF EInv

LEMMA TurnBoth ==
  ASSUME IInv, EInv, UNCHANGED <<route, rd>>, NEW a, NEW b,
         Turn(ses["in"], a), Turn(ses["out"], b), ses' = Both(a, b)
  PROVE  EInv' /\ Lives
<1>1. a \in Session /\ b \in Session /\ TypeOK
  BY DEF Turn, Sleep, IInv
<1>2. ses'["in"] = a /\ ses'["out"] = b
  BY <1>1, BothFacts
<1> QED BY <1>2, SleepStep DEF Turn

LEMMA TurnOne ==
  ASSUME IInv, EInv, UNCHANGED <<route, rd>>, NEW l \in Leg, NEW a,
         Turn(ses[l], a), ses' = [ses EXCEPT ![l] = a]
  PROVE  EInv' /\ Lives
<1>1. a \in Session /\ TypeOK
  BY DEF Turn, Sleep, IInv
<1>2. ses'[l] = a /\ ses'[Lnk(l)] = ses[Lnk(l)]
  BY <1>1, OneFacts
<1>3. Turn(ses["in"], ses["in"]) /\ Turn(ses["out"], ses["out"])
  BY EndsFacts, SelfTurn
<1>4. CASE l = "in"
  <2>1. ses'["in"] = a /\ ses'["out"] = ses["out"]
    BY <1>2, <1>4 DEF Lnk
  <2> QED BY <1>3, <1>4, <2>1, SleepStep DEF Turn
<1>5. CASE l = "out"
  <2>1. ses'["out"] = a /\ ses'["in"] = ses["in"]
    BY <1>2, <1>5 DEF Lnk
  <2> QED BY <1>3, <1>5, <2>1, SleepStep DEF Turn
<1> QED BY <1>4, <1>5 DEF Leg

LEMMA OnLinkedTurn ==
  ASSUME IInv, EInv, NEW l \in Leg, NEW a, Turn(ses[Lnk(l)], a)
  PROVE  Turn(ses[Lnk(l)], OnLinked(l, a))
  BY EndsFacts, SelfTurn DEF OnLinked, Lnk, Leg

\* ReleaseCallLeg, ReleaseMe and ReleaseOrCancel
LEMMA ReleaseTurns ==
  ASSUME NEW s \in Session, Local(s), Ends(s)
  PROVE  Turn(s, ReleaseCallLeg(s)) /\ Turn(s, ReleaseMe(s)) /\ Turn(s, ReleaseOrCancel(s))
<1>1. Turn(s, s) /\ Turn(s, CancelMe(s))
  BY SelfTurn, CancelMeTurn
<1>2. s.state = "Established" =>
        Turn(s, SendBYE(SetState(s, "BeingDropped"))) /\ Turn(s, SendBYE(SetState(s, "BeingCleared")))
  BY ReleaseTurn
<1>3. Turn(s, ReleaseCallLeg(s)) /\ Turn(s, ReleaseMe(s))
  BY <1>1, <1>2 DEF ReleaseCallLeg, ReleaseMe, IsEstablished
<1> QED BY <1>1, <1>3 DEF ReleaseOrCancel

\* the same after the pending transactions were stopped
LEMMA StopAndReleaseTurn ==
  ASSUME NEW s \in Session, Local(s), Ends(s)
  PROVE  Turn(s, ReleaseOrCancel(StopAllOutTransactions(s)))
<1> DEFINE t == StopAllOutTransactions(s)
<1>1. t \in Session /\ Local(t) /\ Calm(s, t)
  BY StopAllTame, StopAllCalm DEF Tame
<1>2. Ends(t)
  BY <1>1, CalmEnds
<1> HIDE DEF t
<1>3. Turn(s, ReleaseOrCancel(t))
  BY <1>1, <1>2, ReleaseTurns, CalmFirst
<1> QED BY <1>3 DEF t

LEMMA AsideKeeps ==
  ASSUME NEW s \in Session, Local(s), Ends(s), NEW t, Aside(s, t)
  PROVE  t \in Session /\ Local(t) /\ Ends(t) /\ Calm(s, t)
<1>1. t \in Session /\ Calm(s, t)
  BY AsideCalm DEF Aside
<1>2. Local(t)
  BY DEF Aside, Local
<1> QED BY <1>1, <1>2, CalmEnds

LEMMA ReleaseCallEnds ==
  ASSUME IInv, EInv, UNCHANGED <<route, rd>>, NEW t, Aside(ses["in"], t), ReleaseCall(t)
  PROVE  EInv' /\ Lives
<1>1. t \in Session /\ Local(t) /\ Ends(t) /\ Calm(ses["in"], t)
  BY EndsFacts, AsideKeeps
<1>2. Turn(ses["in"], ReleaseCallLeg(t))
  BY <1>1, ReleaseTurns, CalmFirst
<1>3. Turn(ses["out"], OnLinked("in", ReleaseCallLeg(ses["out"])))
  BY EndsFacts, ReleaseTurns, OnLinkedTurn, LegFacts
<1> QED BY <1>2, <1>3, TurnBoth DEF ReleaseCall

\* ss1 timed out, and the callee with it
LEMMA TimeoutEnds ==
  ASSUME IInv, EInv, UNCHANGED <<route, rd>>, route # "idle", NEW t, Calm(ses["in"], t),
         ~t.acked, ses' = Both(TimedOut(t), OnLinked("in", CallerTimedOut(ses["out"])))
  PROVE  EInv' /\ Lives
<1> DEFINE a == TimedOut(t)
           b == OnLinked("in", CallerTimedOut(ses["out"]))
<1>1. t \in Session /\ Ends(t) /\ t.dir = "INBOUND" /\ t.added /\ t.asleep = "no"
  <2>1. t \in Session /\ Ends(t)
    BY EndsFacts, CalmEnds DEF Calm
  <2> QED BY <2>1, EndsFacts DEF Calm, EInv, EndsCross
<1>2. Turn(t, a) /\ (IsPending(t.state) => a.disposed)
  BY <1>1, TimedOutTurn
<1>3. a.disposed
  <2>1. t.disposed \/ IsPending(t.state)
    BY <1>1 DEF Ends, IsPending
  <2> QED BY <1>2, <2>1 DEF Turn, Sleep
<1>4. Turn(ses["in"], a)
  BY <1>2, CalmFirst
<1>5. Sleep(ses["out"], b)
  <2>1. Sleep(ses["out"], CallerTimedOut(ses["out"])) /\ Sleep(ses["out"], ses["out"])
    BY EndsFacts, CallerTimedOutSleep, SelfTurn DEF Turn
  <2> QED BY <2>1, LegFacts DEF OnLinked
<1> HIDE DEF a, b
<1>6. ses'["in"] = a /\ ses'["out"] = b
  <2>1. a \in Session /\ b \in Session /\ TypeOK
    BY <1>4, <1>5 DEF Turn, Sleep, IInv
  <2>2. ses' = Both(a, b)
    BY DEF a, b
  <2> QED BY <2>1, <2>2, BothFacts
<1> QED BY <1>3, <1>4, <1>5, <1>6, SleepStep

LEMMA TimersEnd == ASSUME IInv, EInv, Timers PROVE EInv' /\ Lives
<1> USE EndsFacts, LegFacts
<1>1. CASE ProbingTick
  <2> DEFINE t == [ses["in"] EXCEPT !.probe = "armed"]
  <2>1. Aside(ses["in"], t)
    BY DEF Aside, Session, TxState
  <2>2. Turn(ses["in"], t)
    BY <2>1, AsideCalm, CalmTurn
  <2>3. ses' = [ses EXCEPT !["in"] = t] /\ UNCHANGED <<route, rd>>
    BY <1>1 DEF ProbingTick
  <2> QED BY <2>2, <2>3, TurnOne
<1>2. CASE ProbeTimeout
  <2>1. Aside(ses["in"], [ses["in"] EXCEPT !.probe = "stopped"])
    BY DEF Aside, Session, TxState
  <2> QED BY <1>2, <2>1, ReleaseCallEnds DEF ProbeTimeout
<1>3. CASE MaxCallDuration
  <2>1. Aside(ses["in"], [ses["in"] EXCEPT !.maxDur = "stopped"])
    BY DEF Aside, Session, TimerState
  <2> QED BY <1>3, <2>1, ReleaseCallEnds DEF MaxCallDuration
<1>4. CASE InboundINVITETimeout
  <2>1. PICK t : t = [ses["in"] EXCEPT !.timer = "nil"]
    OBVIOUS
  <2>2. Aside(ses["in"], t)
    BY <2>1 DEF Aside, Session, TimerState
  <2>3. Calm(ses["in"], t)
    BY <2>2, AsideCalm
  <2>4. ses["in"].timer = "armed"
    BY <1>4 DEF InboundINVITETimeout
  <2>5. ~t.acked
    BY <2>2, <2>4 DEF Aside, Ends, TimerOK
  <2>6. route # "idle"
    BY <2>4 DEF IInv, Cross, Quiet
  <2>7. /\ ses' = Both(TimedOut(t), OnLinked("in", CallerTimedOut(ses["out"])))
        /\ UNCHANGED <<route, rd>>
    BY <1>4, <2>1 DEF InboundINVITETimeout
  <2> QED BY <2>3, <2>5, <2>6, <2>7, TimeoutEnds
<1>5. CASE OutboundINVITETimeout
  <2>1. PICK t : t = [ses["out"] EXCEPT !.timer = "nil"]
    OBVIOUS
  <2>2. Aside(ses["out"], t)
    BY <2>1 DEF Aside, Session, TimerState
  <2>3. t \in Session /\ Ends(t) /\ Calm(ses["out"], t)
    BY <2>2, AsideKeeps
  <2>4. t.asleep # "timeoutbye"
    <3>1. ses["out"].resp = {}
      BY <1>5 DEF OutboundINVITETimeout, Ends, TimerOK
    <3> QED BY <2>2, <3>1 DEF Aside, Local
  <2>5. Turn(ses["out"], TimedOut(t))
    BY <2>3, <2>4, TimedOutTurn, CalmFirst
  <2>6. Turn(ses["in"], RerouteRequest(ses["in"], 408))
    BY RerouteRequestTurn DEF Negative
  <2> QED BY <1>5, <2>1, <2>5, <2>6, TurnBoth DEF OutboundINVITETimeout
<1>6. CASE CANCELTimeout
  <2>1. PICK t : t = [ses["out"] EXCEPT !.cancel = "stopped"]
    OBVIOUS
  <2>2. ses["out"].cancel = "armed"
    BY <1>6 DEF CANCELTimeout
  <2>3. /\ t \in Session /\ t.state = ses["out"].state /\ t.asleep = ses["out"].asleep
        /\ t.added = ses["out"].added /\ Calm(ses["out"], t)
    BY <2>1, <2>2 DEF Calm, Session, TxState, TimerOK
  <2>4. /\ ses["out"].state \notin Alive /\ ses["out"].asleep # "timeoutbye" /\ ses["out"].added
    BY <2>2 DEF Ends, Ending
  <2>5. Ends(t)
    BY <2>3, CalmEnds
  <2>6. Turn(ses["out"], DropMe(FinalizeState(t)))
    BY <2>3, <2>4, <2>5, FinalizeDropTurn, CalmFirst
  <2> QED BY <1>6, <2>1, <2>6, TurnOne DEF CANCELTimeout
<1>7. ASSUME NEW l \in Leg, BYETimeout(l) PROVE EInv' /\ Lives
  <2>1. PICK t : t = [ses[l] EXCEPT !.bye = "stopped"]
    OBVIOUS
  <2>2. ses[l].bye = "armed"
    BY <1>7 DEF BYETimeout
  <2>3. /\ t \in Session /\ t.state = ses[l].state /\ t.asleep = ses[l].asleep
        /\ t.added = ses[l].added /\ Calm(ses[l], t)
    BY <2>1, <2>2 DEF Calm, Session, TxState, TimerOK
  <2>4. /\ ses[l].state \notin Alive /\ ses[l].asleep # "timeoutbye" /\ ses[l].added
    BY <2>2 DEF Ends, Ending
  <2>5. Ends(t)
    BY <2>3, CalmEnds
  <2>6. Turn(ses[l], DropMe(FinalizeState(t)))
    BY <2>3, <2>4, <2>5, FinalizeDropTurn, CalmFirst
  <2> QED BY <1>7, <2>1, <2>6, TurnOne DEF BYETimeout
<1>8. CASE cancelTimerHandler
  <2>1. PICK t : t = [ses["out"] EXCEPT !.aux = "stopped"]
    OBVIOUS
  <2>2. ses["out"].aux = "armed"
    BY <1>8 DEF cancelTimerHandler
  <2>3. /\ t \in Session /\ t.state = ses["out"].state /\ t.asleep = ses["out"].asleep
        /\ t.added = ses["out"].added /\ Calm(ses["out"], t)
    BY <2>1, <2>2 DEF Calm, Session, TimerState, TimerOK
  <2>4. /\ ses["out"].state \notin Alive /\ ses["out"].asleep # "timeoutbye" /\ ses["out"].added
    BY <2>2 DEF Ends, Ending
  <2>5. Ends(t)
    BY <2>3, CalmEnds
  <2>6. Turn(ses["out"], DropMe(FinalizeState(t))) /\ Turn(ses["out"], t)
    BY <2>3, <2>4, <2>5, FinalizeDropTurn, CalmFirst, CalmTurn
  <2>7. ses' = [ses EXCEPT !["out"] = IF IsPending(t.state) THEN DropMe(FinalizeState(t)) ELSE t]
        /\ UNCHANGED <<route, rd>>
    BY <1>8, <2>1 DEF cancelTimerHandler
  <2> QED BY <2>6, <2>7, TurnOne
<1>9. ASSUME NEW tt \in TimerType, timerHandler(tt) PROVE EInv' /\ Lives
  <2>1. PICK t : t = IF tt = "NoAnswer" THEN [ses["out"] EXCEPT !.noAns = "nil"]
                     ELSE [ses["out"] EXCEPT !.no18x = "nil"]
    OBVIOUS
  <2>2. Aside(ses["out"], t)
    <3>1. Aside(ses["out"], [ses["out"] EXCEPT !.noAns = "nil"])
      BY DEF Aside, Session, TimerState
    <3>2. Aside(ses["out"], [ses["out"] EXCEPT !.no18x = "nil"])
      BY DEF Aside, Session, TimerState
    <3> QED BY <2>1, <3>1, <3>2
  <2>3. t \in Session /\ Local(t) /\ Ends(t) /\ Calm(ses["out"], t)
    BY <2>2, AsideKeeps
  <2>4. Turn(ses["out"], CancelMe(t))
    BY <2>3, CancelMeTurn, CalmFirst
  <2>5. Turn(ses["in"], RerouteRequest(ses["in"], 487))
    BY RerouteRequestTurn DEF Negative
  <2>6. ses' = Both(RerouteRequest(ses["in"], 487), CancelMe(t)) /\ UNCHANGED <<route, rd>>
    BY <1>9, <2>1 DEF timerHandler
  <2> QED BY <2>4, <2>5, <2>6, TurnBoth
<1>10. CASE WakeAndBYE
  <2> DEFINE s == ses["out"]
             t == SendBYE(IF s.asleep = "timeoutbye"
                          THEN SetState([s EXCEPT !.asleep = "no"], "BeingDropped")
                          ELSE [s EXCEPT !.asleep = "no"])
             st == IF s.asleep = "timeoutbye" THEN "BeingDropped" ELSE s.state
  <2>1. ses' = [ses EXCEPT !["out"] = t] /\ UNCHANGED <<route, rd>> /\ s.asleep # "no"
    BY <1>10 DEF WakeAndBYE
  <2>2. /\ s \in Session /\ Local(s) /\ Ends(s) /\ s.dir = "OUTBOUND"
        /\ 200 \in s.resp /\ s.acked /\ s.bye = "none"
    BY <2>1 DEF Local, Ends
  <2>3. st \in State
    BY <2>2 DEF Session, State, PendingState
  <2>4. \/ s.asleep = "ackbye" /\ st = s.state /\ s.state \notin Alive
        \/ s.asleep = "timeoutbye" /\ st = "BeingDropped" /\ ~s.disposed /\ ~s.dropping
           /\ s.state \in {"BeingEstablished", "BeingCancelled"}
    <3>1. s.asleep \in {"ackbye", "timeoutbye"}
      BY <2>1, <2>2 DEF Session
    <3> QED BY <2>2, <3>1 DEF Ends, Ending
  <2>5. t = [s EXCEPT !.asleep = "no", !.state = st, !.bye = "armed"]
    <3>1. CASE s.asleep = "timeoutbye"
      BY <2>2, <3>1, ZenonT(60) DEF SendBYE, SetState, Session
    <3>2. CASE s.asleep # "timeoutbye"
      BY <2>2, <3>2, ZenonT(60) DEF SendBYE, Session
    <3> QED BY <3>1, <3>2
  <2>6. s.added
    BY <2>1, <2>2 DEF Ends
  <2>a. s \in Session
    BY <2>2
  <2> HIDE DEF s, t, st
  <2>7. /\ t \in Session /\ t.asleep = "no" /\ t.state = st /\ t.bye = "armed"
        /\ t.cancel = s.cancel /\ t.aux = s.aux /\ t.timer = s.timer
        /\ t.dir = s.dir /\ t.disposed = s.disposed
        /\ t.dropping = s.dropping /\ t.added = s.added
        /\ t.acked = s.acked /\ t.resp = s.resp /\ t.transform = s.transform
    BY ONLY <2>a, <2>3, <2>5, ZenonT(60) DEF Session, TxState
  <2>8. TimerOK(t)
    BY <2>2, <2>7 DEF Ends, TimerOK
  <2>9. Ends(t)
    BY <2>2, <2>4, <2>6, <2>7, <2>8 DEF Ends, Visited, Alive, Final
  <2>10. LifeStep(s, t)
    BY <2>4, <2>7, PhaseValues DEF LifeStep, LifeMove
  <2>11. Turn(s, t)
    BY <2>2, <2>6, <2>7, <2>9, <2>10 DEF Turn, Sleep, ByeStep
  <2> QED BY <2>1, <2>11, TurnOne DEF s
<1>11. CASE WakeAndDrop
  <2>1. PICK t : t = [ses["out"] EXCEPT !.dropping = FALSE]
    OBVIOUS
  <2>2. ses["out"].dropping
    BY <1>11 DEF WakeAndDrop
  <2>3. /\ ses["out"].state \notin Alive /\ ses["out"].asleep # "timeoutbye" /\ ses["out"].added
    BY <2>2 DEF Ends, Ending
  <2>4. /\ t \in Session
        /\ t.bye = ses["out"].bye /\ t.cancel = ses["out"].cancel /\ t.aux = ses["out"].aux
        /\ t.timer = ses["out"].timer /\ t.state = ses["out"].state
        /\ t.dir = ses["out"].dir /\ t.disposed = ses["out"].disposed /\ ~t.dropping
        /\ t.asleep = ses["out"].asleep /\ t.added = ses["out"].added
        /\ t.acked = ses["out"].acked /\ t.resp = ses["out"].resp
        /\ t.transform = ses["out"].transform
    BY <2>1, ZenonT(60) DEF Session
  <2>5. TimerOK(t)
    BY <2>4 DEF Ends, TimerOK
  <2>6. Ends(t)
    BY <2>3, <2>4, <2>5 DEF Ends
  <2>7. Turn(t, DropMe(t))
    BY <2>3, <2>4, <2>6, DropMeTurn
  <2>8. Turn(ses["out"], DropMe(t))
    BY <2>4, <2>7 DEF Turn, Sleep, LifeStep, ByeStep
  <2> QED BY <1>11, <2>1, <2>8, TurnOne DEF WakeAndDrop
<1> QED
  BY <1>1, <1>2, <1>3, <1>4, <1>5, <1>6, <1>7, <1>8, <1>9, <1>10, <1>11 DEF Timers

\* a step of one session and the other
LEMMA TurnPair ==
  ASSUME IInv, EInv, UNCHANGED <<route, rd>>, NEW l \in Leg, NEW a, NEW b,
         Turn(ses[l], a), Turn(ses[Lnk(l)], b), ses' = [ses EXCEPT ![l] = a, ![Lnk(l)] = b]
  PROVE  EInv' /\ Lives
<1>1. a \in Session /\ b \in Session /\ TypeOK
  BY DEF Turn, Sleep, IInv
<1>2. ses'[l] = a /\ ses'[Lnk(l)] = b
  BY <1>1 DEF TypeOK, Leg, Lnk
<1>3. CASE l = "in"
  <2>1. ses'["in"] = a /\ ses'["out"] = b /\ Turn(ses["in"], a) /\ Turn(ses["out"], b)
    BY <1>2, <1>3, LegFacts
  <2> QED BY <2>1, SleepStep DEF Turn
<1>4. CASE l = "out"
  <2>1. ses'["out"] = a /\ ses'["in"] = b /\ Turn(ses["out"], a) /\ Turn(ses["in"], b)
    BY <1>2, <1>4, LegFacts
  <2> QED BY <2>1, SleepStep DEF Turn
<1> QED BY <1>3, <1>4 DEF Leg

LEMMA EitherEnds == ASSUME IInv, EInv, Either PROVE EInv' /\ Lives
<1> USE EndsFacts, LegFacts
<1>1. ASSUME NEW l \in Leg, ReceiveBYE(l) PROVE EInv' /\ Lives
  <2>1. PICK me : me = StopPending(ses[l])
    OBVIOUS
  <2>2. PICK lnk : lnk = ses[Lnk(l)]
    OBVIOUS
  <2>3. /\ Calm(ses[l], me) /\ me \in Session /\ me.state = ses[l].state
        /\ lnk \in Session /\ Local(lnk) /\ Ends(lnk)
    BY <2>1, <2>2, StopPendingCalm DEF Calm, Lnk
  <2>4. Ends(me)
    BY <2>3, CalmEnds
  <2>5. UNCHANGED <<route, rd>> /\ ses[l].added
    BY <1>1 DEF ReceiveBYE, Stored
  <2>6. \/ /\ l = "in" /\ ~me.acked
           /\ ses' = Both(TimedOut(me), OnLinked(l, CallerTimedOut(lnk)))
        \/ /\ me.state = "Established"
           /\ ses' = [ses EXCEPT
                ![l] = DropMe(SetState(me, "Cleared")),
                ![Lnk(l)] = OnLinked(l, ReleaseOrCancel(StopAllOutTransactions(lnk)))]
        \/ ses' = [ses EXCEPT ![l] = me]
    BY <1>1, <2>1, <2>2 DEF ReceiveBYE, IsEstablished
  <2>7. CASE /\ l = "in" /\ ~me.acked
             /\ ses' = Both(TimedOut(me), OnLinked(l, CallerTimedOut(lnk)))
    <3>1. route # "idle"
      BY <2>5, <2>7 DEF IInv, Cross, Quiet
    <3>2. lnk = ses["out"]
      BY <2>2, <2>7
    <3> QED BY <2>3, <2>5, <2>7, <3>1, <3>2, TimeoutEnds
  <2>8. CASE /\ me.state = "Established"
             /\ ses' = [ses EXCEPT
                  ![l] = DropMe(SetState(me, "Cleared")),
                  ![Lnk(l)] = OnLinked(l, ReleaseOrCancel(StopAllOutTransactions(lnk)))]
    <3>1. me.asleep # "timeoutbye"
      BY <2>4, <2>8 DEF Ends
    <3>2. Turn(me, DropMe(SetState(me, "Cleared")))
      BY <2>3, <2>4, <2>8, <3>1, EndTurn DEF Alive
    <3>3. Turn(ses[l], DropMe(SetState(me, "Cleared")))
      BY <2>3, <3>2, CalmFirst
    <3>4. Turn(ses[Lnk(l)], OnLinked(l, ReleaseOrCancel(StopAllOutTransactions(lnk))))
      BY <2>2, <2>3, StopAndReleaseTurn, OnLinkedTurn
    <3> QED BY <2>5, <2>8, <3>3, <3>4, TurnPair
  <2>9. CASE ses' = [ses EXCEPT ![l] = me]
    BY <2>3, <2>5, <2>9, CalmTurn, TurnOne
  <2> QED BY <2>6, <2>7, <2>8, <2>9
<1>2. ASSUME NEW l \in Leg, NEW sc \in Answers, ReceiveBYEResponse(l, sc)
      PROVE  EInv' /\ Lives
  <2>1. PICK me : me = [ses[l] EXCEPT !.bye = "final"]
    OBVIOUS
  <2>2. ses[l].bye # "none"
    BY <1>2 DEF ReceiveBYEResponse, Unanswered
  <2>3. /\ me \in Session /\ me.state = ses[l].state /\ me.asleep = ses[l].asleep
        /\ me.added = ses[l].added /\ Calm(ses[l], me)
    BY <2>1, <2>2 DEF Calm, Session, TxState, TimerOK
  <2>4. ses[l].state \notin Alive /\ ses[l].asleep # "timeoutbye" /\ ses[l].added
    BY <2>2 DEF Ends, Ending
  <2>5. PICK s : s = StopAllOutTransactions(me)
    OBVIOUS
  <2>6. Calm(me, s)
    BY <2>3, <2>5, StopAllCalm
  <2>7. Ends(me) /\ Calm(ses[l], s) /\ s \in Session
    BY <2>3, <2>6, CalmEnds, CalmTrans DEF Calm
  <2>8. Ends(s) /\ s.state \notin Alive /\ s.asleep # "timeoutbye" /\ s.added
    BY <2>4, <2>7, CalmEnds DEF Calm
  <2>9. Turn(ses[l], DropMe(FinalizeState(s)))
    BY <2>7, <2>8, FinalizeDropTurn, CalmFirst
  <2>10. Turn(ses[l], DropMe(me)) /\ Turn(ses[l], me)
    BY <2>3, <2>4, <2>7, DropMeTurn, CalmFirst, CalmTurn
  <2>11. \/ ses' = [ses EXCEPT ![l] = DropMe(FinalizeState(s))]
         \/ ses' = [ses EXCEPT ![l] = DropMe(me)]
         \/ ses' = [ses EXCEPT ![l] = me]
    BY <1>2, <2>1, <2>5, ZenonT(60) DEF ReceiveBYEResponse, Answers
  <2>12. UNCHANGED <<route, rd>>
    BY <1>2 DEF ReceiveBYEResponse
  <2> QED BY <2>9, <2>10, <2>11, <2>12, TurnOne
<1>3. ASSUME NEW sc \in {200, 486}, ReceiveProbeResponse(sc) PROVE EInv' /\ Lives
  <2>1. PICK t : t = [ses["in"] EXCEPT !.probe = "final"]
    OBVIOUS
  <2>2. Aside(ses["in"], t)
    BY <2>1 DEF Aside, Session, TxState
  <2>3. UNCHANGED <<route, rd>> /\ (ReleaseCall(t) \/ ses' = [ses EXCEPT !["in"] = t])
    BY <1>3, <2>1 DEF ReceiveProbeResponse
  <2>4. Turn(ses["in"], t)
    BY <2>2, AsideCalm, CalmTurn
  <2> QED BY <2>2, <2>3, <2>4, ReleaseCallEnds, TurnOne
<1> QED BY <1>1, <1>2, <1>3 DEF Either

-----------------------------------------------------------------------------
(***************************************************************************)
(* Messages of the caller.                                                 *)
(***************************************************************************)

\* the INVITE arrives, and is accepted or refused
LEMMA ArrivalEnds ==
  ASSUME IInv, EInv, route = "idle", route' \in {"routing", "done"}, rd' = rd,
         NEW a \in Session, Ends(a), a.added, ~a.disposed,
         a.state \in {"BeingEstablished", "BeingFailed"}, ses' = [ses EXCEPT !["in"] = a]
  PROVE  EInv' /\ Lives
<1>1. ses'["in"] = a /\ ses'["out"] = ses["out"]
  BY OneFacts, LegFacts DEF IInv
<1>2. /\ ses["in"].state = "NotSet" /\ ses["in"].bye = "none" /\ ~ses["in"].disposed
      /\ ~ses["out"].added /\ ses["out"].asleep = "no" /\ ~ses["out"].disposed
  BY DEF IInv, Cross, Quiet, EInv, EndsCross
<1>3. LifeStep(ses["in"], a) /\ ByeStep(ses["in"], a)
  BY <1>2, PhaseValues DEF LifeStep, LifeMove, ByeStep
<1>4. Ends(ses["out"]) /\ LifeStep(ses["out"], ses["out"]) /\ ByeStep(ses["out"], ses["out"])
  BY EndsFacts, SelfTurn DEF Turn, Sleep
<1>5. (\A l \in Leg : Ends(ses'[l])) /\ Lives
  BY <1>1, <1>3, <1>4 DEF Leg, Lives
<1>6. EndsCross'
  BY <1>1, <1>2 DEF EndsCross
<1> QED BY <1>5, <1>6 DEF EInv

LEMMA CancelledTurn ==
  ASSUME NEW s \in Session, Ends(s), s.dir = "INBOUND", s.state = "BeingEstablished"
  PROVE  Turn(s, SetState(s, "BeingCancelled"))
<1> DEFINE u == SetState(s, "BeingCancelled")
<1>1. u = [s EXCEPT !.state = "BeingCancelled"]
  BY DEF SetState
<1>2. "BeingCancelled" \in State /\ "BeingCancelled" \in PendingState
  BY DEF State, PendingState
<1> HIDE DEF u
<1>3. /\ u \in Session /\ u.state = "BeingCancelled" /\ u.bye = s.bye
      /\ u.cancel = s.cancel /\ u.aux = s.aux /\ u.timer = s.timer
      /\ u.dir = s.dir /\ u.disposed = s.disposed
      /\ u.asleep = s.asleep /\ u.dropping = s.dropping /\ u.added = s.added
      /\ u.acked = s.acked /\ u.resp = s.resp /\ u.transform = s.transform
  BY <1>1, <1>2 DEF Session
<1>4. ~Ending(s) /\ s.added /\ s.asleep = "no"
  BY DEF Ends, Alive
<1>5. TimerOK(u)
  BY <1>3 DEF Ends, TimerOK
<1>6. Ends(u)
  BY <1>2, <1>3, <1>4, <1>5 DEF Ends, Visited, Alive
<1>7. LifeStep(s, u)
  BY <1>3, <1>4, PhaseValues DEF LifeStep, LifeMove, Ending
<1>8. Turn(s, u)
  BY <1>3, <1>6, <1>7 DEF Turn, Sleep, ByeStep
<1> QED BY <1>8 DEF u

\* the caller's ACK: an answered call is established
LEMMA EstablishTurn ==
  ASSUME NEW s \in Session, Ends(s), s.dir = "INBOUND", s.state = "BeingEstablished",
         NEW t \in Session, t.state = "Established", t.acked, t.timer # "armed",
         t.bye = s.bye, t.cancel = s.cancel, t.aux = s.aux, t.dir = s.dir,
         t.disposed = s.disposed, t.asleep = s.asleep, t.dropping = s.dropping,
         t.added = s.added, t.resp = s.resp, t.transform = s.transform
  PROVE  Turn(s, t)
<1>1. ~Ending(s) /\ s.added /\ s.asleep = "no"
  BY DEF Ends, Alive
<1>2. ~Ending(t)
  BY <1>1 DEF Ending
<1>3. TimerOK(t)
  BY DEF TimerOK
<1>4. Ends(t)
  BY <1>1, <1>2, <1>3 DEF Ends, Visited
<1>5. LifeStep(s, t)
  BY <1>1, PhaseValues DEF LifeStep, LifeMove, Ending
<1> QED BY <1>4, <1>5 DEF Turn, Sleep, ByeStep

\* ... and so is the callee's, unless it was released meanwhile
LEMMA AckOutTurn ==
  ASSUME NEW s \in Session, Ends(s), s.dir = "OUTBOUND", s.asleep # "timeoutbye",
         s.added => Finalized(s)
  PROVE  Turn(s, SendACK(FinalizeState(s)))
<1> DEFINE st == FinalizeMe(s.state)
           t == SendACK(FinalizeState(s))
<1>1. st \in State
  BY FinalizeMeType DEF Session
<1>2. t = [s EXCEPT !.state = st, !.acked = TRUE]
  BY DEF SendACK, FinalizeState, Session
<1>3. \/ s.state = "BeingEstablished" /\ st = "Established"
      \/ /\ s.state \in {"BeingFailed", "BeingCancelled", "BeingCleared", "BeingDropped"}
         /\ st \in {"Failed", "Cancelled", "Cleared", "Dropped"}
      \/ st = s.state /\ s.state # "BeingEstablished"
  BY FinalizeVisited DEF Ends, Visited, SettledState
<1> HIDE DEF st, t
<1>4. /\ t \in Session /\ t.state = st /\ t.acked
      /\ t.bye = s.bye /\ t.cancel = s.cancel /\ t.aux = s.aux /\ t.timer = s.timer
      /\ t.dir = s.dir /\ t.disposed = s.disposed
      /\ t.asleep = s.asleep /\ t.dropping = s.dropping /\ t.added = s.added
      /\ t.resp = s.resp /\ t.transform = s.transform
  BY ONLY s \in Session, <1>1, <1>2, ZenonT(60) DEF Session
<1>5. TimerOK(t)
  BY <1>4 DEF Ends, TimerOK
<1>6. /\ st \in Visited /\ (st = "NotSet" <=> s.state = "NotSet")
      /\ st \in Alive => s.state \in Alive
  BY <1>3 DEF Ends, Visited, Alive
<1>7. Ending(t) <=> Ending(s)
  BY <1>4 DEF Ending
<1>8. Ends(t)
  BY <1>4, <1>5, <1>6, <1>7 DEF Ends, Finalized
<1>9. s.state = "BeingEstablished" => ~s.disposed
  BY DEF Ends, Ending, Alive
<1>10. LifeStep(s, t)
  BY <1>3, <1>4, <1>9, PhaseValues DEF LifeStep, LifeMove
<1>11. Turn(s, t)
  BY <1>4, <1>8, <1>10 DEF Turn, Sleep, ByeStep
<1> QED BY <1>11 DEF t

\* ss1 with its INVITE acknowledged
LEMMA AckedEnds ==
  ASSUME NEW s \in Session, Ends(s), s.dir = "INBOUND", s.added,
         NEW t, t = [s EXCEPT !.acked = TRUE, !.timer = Stop(s.timer)]
  PROVE  /\ t \in Session /\ Ends(t) /\ t.timer # "armed" /\ t.acked
         /\ t.state = s.state /\ t.bye = s.bye /\ t.cancel = s.cancel /\ t.aux = s.aux
         /\ t.dir = s.dir /\ t.disposed = s.disposed /\ t.asleep = s.asleep
         /\ t.dropping = s.dropping /\ t.added = s.added /\ t.resp = s.resp
         /\ t.transform = s.transform /\ t.linked = s.linked
<1>1. Stop(s.timer) \in TimerState /\ Stop(s.timer) # "armed"
  BY StopFacts, StopNotArmed DEF Session
<1>2. /\ t \in Session /\ t.timer # "armed" /\ t.acked
      /\ t.state = s.state /\ t.bye = s.bye /\ t.cancel = s.cancel /\ t.aux = s.aux
      /\ t.dir = s.dir /\ t.disposed = s.disposed /\ t.asleep = s.asleep
      /\ t.dropping = s.dropping /\ t.added = s.added /\ t.resp = s.resp
      /\ t.transform = s.transform /\ t.linked = s.linked
  BY <1>1 DEF Session
<1>3. TimerOK(t)
  BY <1>2 DEF TimerOK
<1>4. Ending(t) <=> Ending(s)
  BY <1>2 DEF Ending
<1>5. Ends(t)
  BY <1>2, <1>3, <1>4 DEF Ends
<1> QED BY <1>2, <1>5

LEMMA ACKEnds == ASSUME IInv, EInv, ReceiveACK PROVE EInv' /\ Lives
<1> USE EndsFacts, LegFacts
<1>1. PICK s, out : s = ses["in"] /\ out = ses["out"]
  OBVIOUS
<1>2. PICK ack : ack = [s EXCEPT !.acked = TRUE, !.timer = Stop(s.timer)]
  OBVIOUS
<1>3. PICK in : in = FinalizeState(ack)
  OBVIOUS
<1>4. /\ uac # "calling" /\ ACKAccepted(s) /\ ~s.acked /\ s.added /\ ~s.disposed
      /\ UNCHANGED <<route, rd>>
  BY <1>1 DEF ReceiveACK, Stored
<1>5. s \in Session /\ Ends(s) /\ Local(s) /\ s.dir = "INBOUND"
  BY <1>1
<1>6. /\ ack \in Session /\ Ends(ack) /\ ack.timer # "armed" /\ ack.acked
      /\ ack.state = s.state /\ ack.bye = s.bye /\ ack.cancel = s.cancel /\ ack.aux = s.aux
      /\ ack.dir = s.dir /\ ack.disposed = s.disposed /\ ack.asleep = s.asleep
      /\ ack.dropping = s.dropping /\ ack.added = s.added /\ ack.resp = s.resp
      /\ ack.transform = s.transform /\ ack.linked = s.linked
  <2>1. s \in Session /\ Ends(s) /\ s.dir = "INBOUND" /\ s.added
    BY <1>4, <1>5
  <2> QED BY ONLY <1>2, <2>1, AckedEnds
<1>7. s.state # "Established" /\ in.state = FinalizeMe(s.state)
  BY <1>3, <1>4, <1>5, <1>6 DEF Local, FinalizeState, Session
<1>8. CASE IsEstablished(in)
  <2>1. s.state = "BeingEstablished"
    <3>1. s.state \in State
      BY <1>5 DEF Session
    <3> QED BY <1>7, <1>8, <3>1, FinalizeMeNotLive DEF IsEstablished
  <2>2. 200 \in s.resp /\ route = "done"
    BY <1>1, <1>4, <2>1, ACKOf200, SentFacts
  <2>3. PICK md : md = IF rd.maxDur THEN "armed" ELSE in.maxDur
    OBVIOUS
  <2>4. PICK a : a = [in EXCEPT !.maxDur = md]
    OBVIOUS
  <2>5. PICK b : b = IF in.linked /\ ~out.transform THEN SendACK(FinalizeState(out)) ELSE out
    OBVIOUS
  <2>6. ses' = Both(a, b)
    <3>1. in = FinalizeState([ses["in"] EXCEPT !.acked = TRUE, !.timer = Stop(@)])
      BY <1>1, <1>2, <1>3
    <3>2. ses' = Both([in EXCEPT !.maxDur = IF rd.maxDur THEN "armed" ELSE @],
                      IF in.linked /\ ~out.transform THEN SendACK(FinalizeState(out)) ELSE out)
      BY <1>1, <1>8, <3>1 DEF ReceiveACK
    <3> QED BY <2>3, <2>4, <2>5, <3>2
  <2>7. /\ in \in Session /\ in = [ack EXCEPT !.state = "Established"]
    BY <1>3, <1>6, <2>1, FinalizeMeValues DEF FinalizeState, Session, State, SettledState
  <2>8. md \in TimerState
    BY <2>3, <2>7 DEF Session, TimerState
  <2>9. /\ in.state = "Established" /\ in.acked /\ in.timer = ack.timer
        /\ in.bye = ack.bye /\ in.cancel = ack.cancel /\ in.aux = ack.aux /\ in.dir = ack.dir
        /\ in.disposed = ack.disposed /\ in.asleep = ack.asleep /\ in.dropping = ack.dropping
        /\ in.added = ack.added /\ in.resp = ack.resp /\ in.transform = ack.transform
        /\ in.linked = ack.linked
    BY <1>6, <2>7 DEF Session
  <2>10. /\ a \in Session /\ a.state = in.state /\ a.acked = in.acked /\ a.timer = in.timer
         /\ a.bye = in.bye /\ a.cancel = in.cancel /\ a.aux = in.aux /\ a.dir = in.dir
         /\ a.disposed = in.disposed /\ a.asleep = in.asleep /\ a.dropping = in.dropping
         /\ a.added = in.added /\ a.resp = in.resp /\ a.transform = in.transform
    BY ONLY <2>4, <2>7, <2>8, ZenonT(60) DEF Session
  <2>11. Turn(s, a)
    <3>1. /\ a \in Session /\ a.state = "Established" /\ a.acked /\ a.timer # "armed"
          /\ a.bye = s.bye /\ a.cancel = s.cancel /\ a.aux = s.aux /\ a.dir = s.dir
          /\ a.disposed = s.disposed /\ a.asleep = s.asleep /\ a.dropping = s.dropping
          /\ a.added = s.added /\ a.resp = s.resp /\ a.transform = s.transform
      BY ONLY <1>6, <2>9, <2>10
    <3> QED BY ONLY <1>5, <2>1, <3>1, EstablishTurn
  <2>12. Turn(out, b)
    <3>1. CASE s.linked /\ ~out.transform
      <4>1. out \in Session /\ Ends(out) /\ out.dir = "OUTBOUND" /\ out.asleep # "timeoutbye"
        BY <1>1, <1>4 DEF EInv, EndsCross
      <4>2. out.added => Finalized(out)
        <5>1. 200 \in out.resp \/ rd.flow = "TransformEarlyToFinal"
          BY <1>1, <2>2, <3>1 DEF IInv, Cross
        <5>2. 200 \in Final
          BY DEF Final
        <5> QED BY <1>1, <3>1, <5>1, <5>2 DEF EInv, EndsCross, Finalized
      <4>3. b = SendACK(FinalizeState(out))
        BY <1>6, <2>5, <2>9, <3>1
      <4> QED BY <4>1, <4>2, <4>3, AckOutTurn
    <3>2. CASE ~(s.linked /\ ~out.transform)
      <4>1. b = out
        BY <1>6, <2>5, <2>9, <3>2
      <4> QED BY <1>1, <4>1, SelfTurn
    <3> QED BY <3>1, <3>2
  <2> QED BY <1>1, <1>4, <2>6, <2>11, <2>12, TurnBoth
<1>9. CASE ~IsEstablished(in)
  <2>1. ses' = [ses EXCEPT !["in"] = DropMe(in)]
    BY <1>1, <1>2, <1>3, <1>9 DEF ReceiveACK
  <2>2. s.state # "BeingEstablished"
    BY <1>7, <1>9, FinalizeMeValues DEF IsEstablished
  <2>3. Turn(ack, DropMe(in))
    BY <1>3, <1>4, <1>5, <1>6, <1>7, <2>2, FinalizeDropTurn, ZenonT(60) DEF Alive, Ends
  <2>4. Turn(s, DropMe(in))
    BY <1>6, <2>3 DEF Turn, Sleep, LifeStep, ByeStep
  <2> QED BY <1>1, <1>4, <2>1, <2>4, TurnOne
<1> QED BY <1>8, <1>9

LEMMA CallerEnds == ASSUME IInv, EInv, Caller PROVE EInv' /\ Lives
<1> USE EndsFacts, LegFacts
<1>1. ASSUME route = "idle",
             NEW new, new = [ses["in"] EXCEPT !.state = "BeingEstablished", !.added = TRUE]
      PROVE  /\ new \in Session /\ Ends(new) /\ new.dir = "INBOUND" /\ new.added
             /\ ~new.disposed /\ new.state = "BeingEstablished"
  <2>1. Quiet(ses["in"]) /\ ~ses["in"].disposed
    BY <1>1 DEF IInv, Cross, EInv, EndsCross
  <2>2. new \in Session
    BY <1>1, ZenonT(60) DEF Session, State, PendingState
  <2>3. /\ new.dir = "INBOUND" /\ new.state = "BeingEstablished" /\ new.added
        /\ ~new.disposed /\ ~new.dropping /\ new.timer = "nil"
        /\ new.bye = "none" /\ new.cancel = "none" /\ new.aux = "nil" /\ new.asleep = "no"
    BY <1>1, <2>1 DEF Session, Quiet
  <2>4. TimerOK(new) /\ ~Ending(new)
    BY <2>3 DEF TimerOK, Ending
  <2>5. Ends(new)
    BY <2>3, <2>4 DEF Ends, Visited, PendingState
  <2> QED BY <2>2, <2>3, <2>5
<1>2. CASE ReceiveINVITE
  <2>1. PICK new : new = [ses["in"] EXCEPT !.state = "BeingEstablished", !.added = TRUE]
    OBVIOUS
  <2>2. PICK a : a = SendResponse(new, 100)
    OBVIOUS
  <2>3. /\ ses' = [ses EXCEPT !["in"] = a] /\ route = "idle" /\ route' = "routing"
        /\ rd' = rd
    BY <1>2, <2>1, <2>2 DEF ReceiveINVITE
  <2>4. 100 \in Code
    BY DEF Code, Provisional
  <2>5. Calm(new, a) /\ new \in Session /\ Ends(new)
    BY <1>1, <2>1, <2>2, <2>3, <2>4, SendResponseCalm
  <2>6. Ends(a)
    BY <2>5, CalmEnds
  <2>7. a \in Session /\ a.added /\ ~a.disposed /\ a.state = "BeingEstablished"
    BY <1>1, <2>1, <2>3, <2>5 DEF Calm
  <2> QED BY <2>3, <2>6, <2>7, ArrivalEnds
<1>3. CASE RejectINVITE
  <2>1. PICK new : new = [ses["in"] EXCEPT !.state = "BeingEstablished", !.added = TRUE]
    OBVIOUS
  <2>2. PICK a : a = RejectMe(new, 503)
    OBVIOUS
  <2>3. /\ ses' = [ses EXCEPT !["in"] = a] /\ route = "idle" /\ route' = "done"
        /\ rd' = rd
    BY <1>3, <2>1, <2>2 DEF RejectINVITE
  <2>4. /\ new \in Session /\ Ends(new) /\ new.dir = "INBOUND" /\ new.added
        /\ ~new.disposed /\ new.state = "BeingEstablished"
    BY <1>1, <2>1, <2>3
  <2>5. Turn(new, a)
    BY <2>2, <2>4, RejectMeTurn DEF Negative
  <2>6. PICK f : f = SetState(new, "BeingFailed")
    OBVIOUS
  <2>7. /\ f \in Session /\ f.state = "BeingFailed" /\ f.disposed = new.disposed
        /\ f.dir = "INBOUND"
    BY <2>4, <2>6 DEF SetState, Session, State, PendingState
  <2>8. a = SendResponse(f, 503) /\ 503 \in Code
    BY <2>2, <2>4, <2>6 DEF RejectMe, IsBeingEstablished, Code, Final, Negative
  <2>9. Calm(f, a)
    BY <2>7, <2>8, SendResponseCalm
  <2>10. a \in Session /\ Ends(a) /\ a.added /\ ~a.disposed /\ a.state = "BeingFailed"
    BY <2>4, <2>5, <2>7, <2>9 DEF Calm, Turn, Sleep
  <2> QED BY <2>3, <2>10, ArrivalEnds
<1>4. CASE CallerLearns
  <2>1. UNCHANGED <<ses, route, rd>>
    BY <1>4 DEF CallerLearns
  <2> QED BY <2>1, SelfTurn, SleepStep DEF Turn
<1>5. CASE ReceiveACK
  BY <1>5, ACKEnds
<1>6. CASE ReceiveCANCEL
  <2>1. PICK in : in = SetState(ses["in"], "BeingCancelled")
    OBVIOUS
  <2>2. PICK a : a = IF in.linked /\ IsEstablished(ses["out"]) THEN in
                     ELSE SendResponse(in, 487)
    OBVIOUS
  <2>3. /\ ses["in"].state = "BeingEstablished" /\ UNCHANGED <<route, rd>>
        /\ ses' = Both(a, OnLinked("in", ReleaseOrCancel(StopAllOutTransactions(ses["out"]))))
    BY <1>6, <2>1, <2>2 DEF ReceiveCANCEL, IsBeingEstablished
  <2>4. Turn(ses["in"], in)
    BY <2>1, <2>3, CancelledTurn
  <2>5. in \in Session /\ in.dir = "INBOUND" /\ 487 \in Code
    BY <2>4 DEF Turn, Sleep, Code, Final, Negative
  <2>6. Turn(ses["in"], SendResponse(in, 487))
    BY <2>4, <2>5, SendResponseCalm, CalmLast
  <2>7. Turn(ses["in"], a)
    BY <2>2, <2>4, <2>6
  <2>8. Turn(ses["out"], OnLinked("in", ReleaseOrCancel(StopAllOutTransactions(ses["out"]))))
    BY StopAndReleaseTurn, OnLinkedTurn
  <2> QED BY <2>3, <2>7, <2>8, TurnBoth
<1> QED BY <1>2, <1>3, <1>4, <1>5, <1>6 DEF Caller

-----------------------------------------------------------------------------
(***************************************************************************)
(* Responses of the callee.                                                *)
(***************************************************************************)

\* a provisional response to ss2, and to ss1
LEMMA RingingEnds ==
  ASSUME IInv, EInv, NEW sc \in {180, 183}, Receive18x(sc)
  PROVE  EInv' /\ Lives
<1> USE EndsFacts, LegFacts
<1>1. PICK out, now, in : /\ out = AddResponse(ses["out"], sc)
                          /\ now = [out EXCEPT !.no18x = Stop(out.no18x)]
                          /\ in = ses["in"]
  OBVIOUS
<1>2. PICK x : x = [now EXCEPT !.sdp18x = now.sdp18x \/ sc = 183]
  OBVIOUS
<1>3. PICK a : a = IF out.sdp18x THEN in
                   ELSE SendResponse(in, IF sc = 183 THEN 200 ELSE sc)
  OBVIOUS
<1>4. PICK c : c = IF IsBeingEstablished(in) THEN SendResponse(in, sc) ELSE in
  OBVIOUS
<1>5. /\ UNCHANGED <<route, rd>>
      /\ \/ ses' = [ses EXCEPT !["out"] = out]
         \/ ses' = Both(a, x)
         \/ ses' = Both(c, now)
  BY <1>1, <1>2, <1>3, <1>4 DEF Receive18x
<1>6. sc \in Code /\ sc \in Provisional /\ 200 \in Code
  BY DEF Code, Provisional, Final
<1>7. in \in Session /\ in.dir = "INBOUND" /\ Ends(in)
  BY <1>1
<1>8. Turn(in, a) /\ Turn(in, c)
  <2>1. /\ Turn(in, in) /\ Turn(in, SendResponse(in, sc))
        /\ Turn(in, SendResponse(in, 200))
    BY ONLY <1>6, <1>7, SelfTurn, SendResponseCalm, CalmTurn
  <2> QED BY ONLY <1>3, <1>4, <2>1
<1>9. Calm(ses["out"], out)
  BY <1>1, <1>6, ProvisionalCalm
<1>10. out \in Session
  BY <1>9 DEF Calm
<1>11. Aside(out, now) /\ now \in Session
  <2>1. Stop(out.no18x) \in TimerState
    BY <1>10, StopFacts DEF Session
  <2>2. now = [out EXCEPT !.no18x = Stop(out.no18x)]
    BY <1>1
  <2> QED BY ONLY <1>10, <2>1, <2>2 DEF Aside, Session
<1>12. Aside(now, x)
  BY ONLY <1>2, <1>11, ZenonT(60) DEF Aside, Session
<1>13. Calm(ses["out"], now) /\ Calm(ses["out"], x)
  BY <1>9, <1>11, <1>12, AsideCalm, CalmTrans
<1>14. Turn(ses["out"], out) /\ Turn(ses["out"], now) /\ Turn(ses["out"], x)
  BY <1>9, <1>13, CalmTurn
<1> QED BY <1>1, <1>5, <1>8, <1>14, TurnBoth, TurnOne

\* TransformEarlyToFinal is over once there is a final response
LEMMA TransformOffCalm ==
  ASSUME NEW n \in Session, n.resp \cap Final # {},
         NEW now, now = [n EXCEPT !.transform = FALSE]
  PROVE  Calm(n, now)
<1>1. /\ now \in Session
      /\ now.dir = n.dir /\ now.state = n.state /\ now.disposed = n.disposed
      /\ now.asleep = n.asleep /\ now.dropping = n.dropping /\ now.added = n.added
      /\ now.acked = n.acked /\ now.resp = n.resp /\ now.timer = n.timer
      /\ now.bye = n.bye /\ now.cancel = n.cancel /\ now.aux = n.aux
  BY DEF Session
<1>2. TimerOK(n) => TimerOK(now)
  BY <1>1 DEF TimerOK
<1> QED BY <1>1, <1>2 DEF Calm

LEMMA RejectionEnds ==
  ASSUME IInv, EInv, NEW sc \in {486, 487}, Receive4xx(sc)
  PROVE  EInv' /\ Lives
<1> USE EndsFacts, LegFacts
<1>1. PICK s, in, out : s = ses["out"] /\ in = ses["in"] /\ out = AddResponse(s, sc)
  OBVIOUS
<1>2. PICK n : n = Ack3xxTo6xx(StopNoTimers(out), "Rejected")
  OBVIOUS
<1>3. PICK now : now = [n EXCEPT !.transform = FALSE]
  BY ZenonT(60)
<1>4. PICK a : a = IF out.transform THEN ReleaseOrReject(in, sc) ELSE RerouteRequest(in, sc)
  OBVIOUS
<1>5. /\ UNCHANGED <<route, rd>> /\ Stored(s) /\ ~Finalized(s)
      /\ ses' = IF IsBeingEstablished(out) THEN Both(a, now)
                ELSE [ses EXCEPT !["out"] = IF out.state = "BeingCancelled"
                                            THEN Ack3xxTo6xxFinalize(out) ELSE out]
  BY <1>1, <1>2, <1>3, <1>4 DEF Receive4xx
<1>6. sc \in Negative /\ sc \in Code
  BY DEF Negative, Code, Final
<1>7. s \in Session /\ Local(s) /\ Ends(s) /\ s.dir = "OUTBOUND"
  BY <1>1
<1>8. out.state = s.state /\ s.state \in {"BeingEstablished", "BeingCancelled"}
  BY <1>1, <1>5, <1>6, <1>7, AddResponseFields, Unanswered2
<1>9. CASE IsBeingEstablished(out)
  <2>1. Turn(in, a)
    <3>1. in \in Session /\ Local(in) /\ Ends(in)
      BY <1>1
    <3>2. Turn(in, RejectMe(in, sc)) /\ Turn(in, RerouteRequest(in, sc)) /\ Turn(in, ReleaseMe(in))
      BY <1>6, <3>1, RejectMeTurn, RerouteRequestTurn, ReleaseTurns
    <3>3. Turn(in, ReleaseOrReject(in, sc))
      BY <3>2 DEF ReleaseOrReject
    <3> QED BY <1>4, <3>2, <3>3
  <2>2. Turn(s, n) /\ n \in Session /\ n.resp \cap Final # {}
    BY <1>1, <1>2, <1>5, <1>6, <1>7, Ack3xxTo6xxTurn
  <2>3. Calm(n, now)
    BY <1>3, <2>2, TransformOffCalm
  <2>4. Turn(s, now)
    BY <2>2, <2>3, CalmLast
  <2>5. ses' = Both(a, now)
    BY <1>5, <1>9
  <2> QED BY <1>1, <1>5, <2>1, <2>4, <2>5, TurnBoth
<1>10. CASE ~IsBeingEstablished(out)
  <2>1. out.state = "BeingCancelled" /\ s.state = "BeingCancelled"
    BY <1>8, <1>10 DEF IsBeingEstablished
  <2>2. ses' = [ses EXCEPT !["out"] = Ack3xxTo6xxFinalize(out)]
    BY <1>5, <1>10, <2>1
  <2>3. Turn(s, Ack3xxTo6xxFinalize(out))
    BY <1>1, <1>5, <1>6, <1>7, <2>1, AckFinalizeTurn
  <2> QED BY <1>1, <1>5, <2>2, <2>3, TurnOne, ZenonT(60)
<1> QED BY <1>9, <1>10

LEMMA CalleeEnds == ASSUME IInv, EInv, Callee PROVE EInv' /\ Lives
<1> USE EndsFacts, LegFacts
<1>1. CASE Receive100
  <2>1. PICK out : out = AddResponse(ses["out"], 100)
    OBVIOUS
  <2>2. Calm(ses["out"], out) /\ out \in Session
    BY <2>1, ProvisionalCalm DEF Provisional, Calm
  <2>3. IsBeingEstablished(out) => Calm(ses["out"], StartTimer(out))
    BY <2>2, StartTimerCalm, CalmTrans DEF IsBeingEstablished
  <2>4. /\ ses' = [ses EXCEPT !["out"] = IF IsBeingEstablished(out) THEN StartTimer(out) ELSE out]
        /\ UNCHANGED <<route, rd>>
    BY <1>1, <2>1 DEF Receive100
  <2>5. CASE IsBeingEstablished(out)
    BY <2>3, <2>4, <2>5, CalmTurn, TurnOne
  <2>6. CASE ~IsBeingEstablished(out)
    BY <2>2, <2>4, <2>6, CalmTurn, TurnOne
  <2> QED BY <2>5, <2>6
<1>2. ASSUME NEW sc \in {180, 183}, Receive18x(sc) PROVE EInv' /\ Lives
  BY <1>2, RingingEnds
<1>3. CASE Receive2xx
  <2>1. PICK s, out : s = ses["out"] /\ out = AddResponse(s, 200)
    OBVIOUS
  <2>2. PICK now : now = [StopNoTimers(out) EXCEPT !.transform = FALSE]
    OBVIOUS
  <2>3. /\ Stored(s) /\ ~Finalized(s) /\ UNCHANGED <<route, rd>>
        /\ \/ /\ ~IsBeingEstablished(out)
              /\ ses' = [ses EXCEPT !["out"] =
                   [SendACK(StopAllOutTransactions(out)) EXCEPT !.asleep = "ackbye"]]
           \/ /\ IsBeingEstablished(out)
              /\ ses' = [ses EXCEPT !["out"] = SendACK(FinalizeState(now))]
           \/ /\ IsBeingEstablished(out)
              /\ ses' = Both(SendResponse(ses["in"], 200), now)
    BY <1>3, <2>1, <2>2 DEF Receive2xx
  <2>4. s \in Session /\ Local(s) /\ Ends(s) /\ s.dir = "OUTBOUND" /\ 200 \in Code
    BY <2>1 DEF Code, Final
  <2>5. IsBeingEstablished(out) <=> s.state = "BeingEstablished"
    BY <2>1, <2>4, AddResponseFields DEF IsBeingEstablished
  <2>6. /\ s.state # "BeingEstablished" =>
             Turn(s, [SendACK(StopAllOutTransactions(out)) EXCEPT !.asleep = "ackbye"])
        /\ s.state = "BeingEstablished" => Turn(s, SendACK(FinalizeState(now))) /\ Turn(s, now)
    BY ONLY <2>1, <2>2, <2>3, <2>4, Receive2xxTurn
  <2>7. Turn(ses["in"], SendResponse(ses["in"], 200))
    BY <2>4, SendResponseCalm, CalmTurn
  <2>8. CASE ~IsBeingEstablished(out)
    BY <2>1, <2>3, <2>5, <2>6, <2>8, TurnOne
  <2>9. CASE IsBeingEstablished(out)
    <3>1. Turn(ses["out"], SendACK(FinalizeState(now))) /\ Turn(ses["out"], now)
      BY <2>1, <2>5, <2>6, <2>9
    <3>2. CASE ses' = [ses EXCEPT !["out"] = SendACK(FinalizeState(now))]
      BY <2>3, <3>1, <3>2, TurnOne
    <3>3. CASE ses' = Both(SendResponse(ses["in"], 200), now)
      BY <2>3, <2>7, <3>1, <3>3, TurnBoth
    <3> QED BY <2>3, <2>9, <3>2, <3>3
  <2> QED BY <2>8, <2>9
<1>4. CASE Receive3xx
  <2>1. PICK t : t = Ack3xxTo6xx(StopNoTimers(AddResponse(ses["out"], 302)), "Redirected")
    OBVIOUS
  <2>2. /\ Stored(ses["out"]) /\ ~Finalized(ses["out"]) /\ UNCHANGED <<route, rd>>
        /\ ses' = Both(RerouteRequest(ses["in"], 302), t)
    BY <1>4, <2>1 DEF Receive3xx
  <2>3. 302 \in Negative
    BY DEF Negative
  <2>4. Turn(ses["out"], t)
    BY <2>1, <2>2, <2>3, Ack3xxTo6xxTurn
  <2> QED BY <2>2, <2>3, <2>4, RerouteRequestTurn, TurnBoth
<1>5. ASSUME NEW sc \in {486, 487}, Receive4xx(sc) PROVE EInv' /\ Lives
  BY <1>5, RejectionEnds
<1>6. ASSUME NEW sc \in Answers, ReceiveCANCELResponse(sc) PROVE EInv' /\ Lives
  <2>1. PICK s : s = ses["out"]
    OBVIOUS
  <2>2. PICK aux : aux = IF s.aux = "nil" /\ ~Finalized(s) THEN "armed" ELSE s.aux
    OBVIOUS
  <2>3. PICK out : out = [s EXCEPT !.cancel = "final", !.aux = aux]
    OBVIOUS
  <2>4. /\ UNCHANGED <<route, rd>> /\ s.cancel # "none"
        /\ ses' = [ses EXCEPT !["out"] = IF sc = 302 THEN DropMe(out) ELSE out]
    BY <1>6, <2>1, <2>2, <2>3 DEF ReceiveCANCELResponse, Unanswered
  <2>5. s \in Session /\ aux \in TimerState
    BY <2>1, <2>2 DEF Session, TimerState
  <2>6. /\ out \in Session /\ out.cancel = "final"
        /\ out.dir = s.dir /\ out.state = s.state /\ out.disposed = s.disposed
        /\ out.asleep = s.asleep /\ out.dropping = s.dropping /\ out.added = s.added
        /\ out.acked = s.acked /\ out.resp = s.resp /\ out.transform = s.transform
        /\ out.timer = s.timer /\ out.bye = s.bye
    BY ONLY <2>3, <2>5, ZenonT(60) DEF Session, TxState
  <2>7. Calm(s, out)
    BY <2>4, <2>6 DEF Calm, TimerOK
  <2>8. Ends(s) /\ s.state \notin Alive /\ s.asleep # "timeoutbye" /\ s.added
    BY <2>1, <2>4 DEF Ends, Ending
  <2>9. Ends(out)
    BY <2>5, <2>7, <2>8, CalmEnds
  <2>10. Turn(s, DropMe(out)) /\ Turn(s, out)
    BY <2>5, <2>6, <2>7, <2>8, <2>9, DropMeTurn, CalmFirst, CalmTurn
  <2> QED BY <2>1, <2>4, <2>10, TurnOne
<1> QED BY <1>1, <1>2, <1>3, <1>4, <1>5, <1>6 DEF Callee

-----------------------------------------------------------------------------
(***************************************************************************)
(* Routing.                                                                *)
(***************************************************************************)
LEMMA RouteTurn ==
  ASSUME IInv, EInv, route \notin {"idle", "done"}, route' # "idle",
         NEW a, NEW b, Turn(ses["in"], a), ses'["in"] = a, ses'["out"] = b,
         Ends(b), LifeStep(ses["out"], b), ByeStep(ses["out"], b), b.asleep = "no",
         route' # "done" => ~b.disposed,
         rd'.flow = "TransformEarlyToFinal" /\ b.added => b.transform
  PROVE  EInv' /\ Lives
<1>1. (\A l \in Leg : Ends(ses'[l])) /\ Lives
  BY DEF Turn, Sleep, Leg, Lives
<1>2. a.added
  BY DEF EInv, EndsCross, Turn, Sleep
<1>3. EndsCross'
  BY <1>2 DEF EndsCross
<1> QED BY <1>1, <1>3 DEF EInv

\* ss2 before its INVITE is sent
LEMMA UnsentFacts ==
  ASSUME IInv, EInv, route # "done"
  PROVE  /\ Quiet(ses["out"]) /\ ~ses["out"].disposed
  BY DEF IInv, Cross, EInv, EndsCross

\* ... and while ss1 alone takes a turn
LEMMA RouteOne ==
  ASSUME IInv, EInv, route \notin {"idle", "done"}, route' # "idle",
         NEW a, Turn(ses["in"], a), ses' = [ses EXCEPT !["in"] = a]
  PROVE  EInv' /\ Lives
<1>1. a \in Session /\ TypeOK
  BY DEF Turn, Sleep, IInv
<1>2. ses'["in"] = a /\ ses'["out"] = ses["out"]
  BY <1>1, OneFacts, LegFacts
<1>3. Turn(ses["out"], ses["out"])
  BY EndsFacts, SelfTurn
<1>4. /\ Ends(ses["out"]) /\ LifeStep(ses["out"], ses["out"]) /\ ByeStep(ses["out"], ses["out"])
      /\ ses["out"].asleep = "no" /\ ~ses["out"].disposed /\ ~ses["out"].added
  BY <1>3, UnsentFacts DEF Turn, Sleep, Quiet
<1> QED BY <1>2, <1>4, RouteTurn

LEMMA MediaAside ==
  ASSUME NEW s \in Session, NEW k \in BOOLEAN, NEW p \in BOOLEAN
  PROVE  /\ Aside(s, [s EXCEPT !.media = p])
         /\ Aside(s, [s EXCEPT !.linked = k, !.media = p])
         /\ Aside(s, [s EXCEPT !.linked = k])
  BY ZenonT(60) DEF Aside, Session

LEMMA RouteEnds == ASSUME IInv, EInv, RouteStep PROVE EInv' /\ Lives
<1> USE EndsFacts, LegFacts
<1>1. CASE RouteReject
  <2>1. PICK port \in BOOLEAN :
          ses' = [ses EXCEPT !["in"] = RejectMe([ses["in"] EXCEPT !.media = port], 503)]
    BY <1>1, ZenonT(60) DEF RouteReject
  <2>2. PICK t : t = [ses["in"] EXCEPT !.media = port]
    OBVIOUS
  <2>3. t \in Session /\ Ends(t) /\ Calm(ses["in"], t)
    BY <2>2, MediaAside, AsideKeeps
  <2>4. Turn(ses["in"], RejectMe(t, 503))
    BY <2>3, RejectMeTurn, CalmFirst DEF Negative
  <2>5. route = "routing" /\ route' = "done"
    BY <1>1 DEF RouteReject
  <2> QED BY <2>1, <2>2, <2>4, <2>5, RouteOne, ZenonT(60)
<1>2. CASE EchoAnswer
  <2>1. PICK a : a = IF IsBeingEstablished(ses["in"]) THEN SendResponse(ses["in"], 200)
                     ELSE ses["in"]
    OBVIOUS
  <2>2. ses' = [ses EXCEPT !["in"] = a] /\ route = "echoWait" /\ route' = "done"
    BY <1>2, <2>1 DEF EchoAnswer
  <2>3. 200 \in Code
    BY DEF Code, Final
  <2>4. Turn(ses["in"], a)
    BY <2>1, <2>3, SelfTurn, SendResponseCalm, CalmTurn
  <2> QED BY <2>2, <2>4, RouteOne
<1>3. CASE RouteCheck
  <2>1. ses' = ses /\ route = "linked" /\ route' # "idle"
    BY <1>3 DEF RouteCheck
  <2>2. Turn(ses["in"], ses["in"]) /\ ses' = [ses EXCEPT !["in"] = ses["in"]]
    BY <2>1, SelfTurn DEF IInv, TypeOK
  <2> QED BY <2>1, <2>2, RouteOne
<1>4. CASE RouteSend
  <2>1. PICK s : s = ses["out"]
    OBVIOUS
  <2>2. PICK b : b = [s EXCEPT !.state = "BeingEstablished", !.added = TRUE, !.timer = "armed"]
    OBVIOUS
  <2>3. /\ ses' = [ses EXCEPT !["out"] = b] /\ route = "checked" /\ route' = "done"
        /\ rd' = rd
    BY <1>4, <2>1, <2>2 DEF RouteSend
  <2>4. Quiet(s) /\ ~s.disposed /\ s \in Session /\ s.dir = "OUTBOUND"
    BY <2>1, <2>3, UnsentFacts
  <2>5. "BeingEstablished" \in State
    BY DEF State, PendingState
  <2>6. /\ b \in Session /\ b.state = "BeingEstablished" /\ b.added
        /\ b.dir = s.dir /\ b.disposed = s.disposed /\ b.asleep = s.asleep
        /\ b.dropping = s.dropping /\ b.resp = s.resp /\ b.transform = s.transform
        /\ b.bye = s.bye /\ b.cancel = s.cancel /\ b.aux = s.aux
    <3>1. s \in Session /\ "armed" \in TimerState
      BY <2>4 DEF TimerState
    <3>2. b \in Session
      BY ONLY <2>2, <2>5, <3>1, ZenonT(60) DEF Session
    <3> QED BY ONLY <2>2, <3>1, <3>2, ZenonT(60) DEF Session
  <2>7. ses'["out"] = b /\ ses'["in"] = ses["in"]
    BY <2>3, <2>6, OneFacts DEF IInv
  <2>8. TimerOK(b) /\ ~Ending(b)
    BY <2>4, <2>6 DEF TimerOK, Ending, Quiet
  <2>9. Ends(b)
    BY <2>4, <2>6, <2>8 DEF Ends, Visited, Quiet
  <2>10. LifeStep(s, b) /\ ByeStep(s, b)
    BY <2>4, <2>6, PhaseValues DEF LifeStep, LifeMove, ByeStep, Quiet
  <2>11. rd.flow = "TransformEarlyToFinal" => b.transform
    BY <2>1, <2>3, <2>6 DEF IInv, Cross
  <2>12. b.asleep = "no"
    BY <2>4, <2>6 DEF Quiet
  <2>13. Turn(ses["in"], ses["in"])
    BY SelfTurn
  <2> QED BY <2>1, <2>3, <2>7, <2>9, <2>10, <2>11, <2>12, <2>13, RouteTurn
<1>5. ASSUME NEW r \in RoutingRecords, RouteEcho(r) PROVE EInv' /\ Lives
  <2>1. PICK t : t = [ses["in"] EXCEPT !.media = TRUE]
    OBVIOUS
  <2>2. t \in Session /\ Ends(t) /\ Calm(ses["in"], t)
    BY <2>1, MediaAside, AsideKeeps
  <2>3. t.dir = "INBOUND" /\ 180 \in Code
    BY <2>2 DEF Calm, Code, Provisional
  <2>4. Turn(ses["in"], SendResponse(t, 180))
    BY <2>2, <2>3, SendResponseCalm, CalmTurn, CalmFirst
  <2>5. /\ ses' = [ses EXCEPT !["in"] = SendResponse(t, 180)]
        /\ route = "routing" /\ route' = "echoWait"
    BY <1>5, <2>1 DEF RouteEcho
  <2> QED BY <2>4, <2>5, RouteOne
<1>6. ASSUME NEW r \in RoutingRecords, RouteLink(r) PROVE EInv' /\ Lives
  <2>1. PICK a : a = [ses["in"] EXCEPT !.linked = TRUE, !.media = r.steer]
    OBVIOUS
  <2>2. PICK tr : tr = (r.flow = "TransformEarlyToFinal")
    OBVIOUS
  <2>3. PICK b : b = [ses["out"] EXCEPT !.linked = TRUE, !.media = r.steer, !.transform = tr]
    OBVIOUS
  <2>4. ses' = Both(a, b) /\ route = "routing" /\ route' = "linked"
    BY <1>6, <2>1, <2>2, <2>3 DEF RouteLink
  <2>5. r.steer \in BOOLEAN /\ tr \in BOOLEAN
    BY <2>2, ConstantsAssumption DEF RoutingRecord
  <2>6. Turn(ses["in"], a)
    BY <2>1, <2>5, MediaAside, AsideCalm, CalmTurn, ZenonT(60)
  <2>7. Quiet(ses["out"]) /\ ~ses["out"].disposed /\ ~ses["out"].transform
    BY <2>4, UnsentFacts DEF IInv, Cross
  <2>8. Calm(ses["out"], b)
    <3>1. PICK s, p : s = ses["out"] /\ p = r.steer
      OBVIOUS
    <3>2. s \in Session /\ p \in BOOLEAN /\ b = [s EXCEPT !.linked = TRUE, !.media = p, !.transform = tr]
      BY <2>3, <2>5, <3>1
    <3>3. /\ b \in Session
          /\ b.dir = s.dir /\ b.state = s.state /\ b.disposed = s.disposed
          /\ b.asleep = s.asleep /\ b.dropping = s.dropping /\ b.added = s.added
          /\ b.acked = s.acked /\ b.resp = s.resp /\ b.timer = s.timer
          /\ b.bye = s.bye /\ b.cancel = s.cancel /\ b.aux = s.aux
      BY ONLY <2>5, <3>2, ZenonT(60) DEF Session
    <3>4. TimerOK(s) => TimerOK(b)
      BY <3>3 DEF TimerOK
    <3>5. ~s.transform
      BY <2>7, <3>1
    <3>6. Calm(s, b)
      BY <3>3, <3>4, <3>5 DEF Calm
    <3> QED BY <3>1, <3>6
  <2>9. /\ Ends(b) /\ LifeStep(ses["out"], b) /\ ByeStep(ses["out"], b)
    BY <2>8, CalmTurn DEF Turn, Sleep
  <2>10. b \in Session /\ b.asleep = "no" /\ ~b.disposed /\ ~b.added
    BY <2>7, <2>8 DEF Calm, Quiet
  <2>11. ses'["in"] = a /\ ses'["out"] = b
    BY <2>4, <2>6, <2>10, BothFacts DEF Turn, Sleep, IInv
  <2> QED BY <2>4, <2>6, <2>9, <2>10, <2>11, RouteTurn
<1>7. ASSUME NEW r \in RoutingRecords, RouteNoPort(r) PROVE EInv' /\ Lives
  <2>1. PICK t : t = [ses["in"] EXCEPT !.linked = TRUE, !.media = TRUE]
    OBVIOUS
  <2>2. PICK s : s = [ses["out"] EXCEPT !.linked = TRUE]
    OBVIOUS
  <2>3. PICK b : b = DropMe(s)
    OBVIOUS
  <2>4. ses' = Both(RejectMe(t, 503), b) /\ route = "routing" /\ route' = "done"
    BY <1>7, <2>1, <2>2, <2>3 DEF RouteNoPort
  <2>5. t \in Session /\ Ends(t) /\ Calm(ses["in"], t)
    BY <2>1, MediaAside, AsideKeeps
  <2>6. Turn(ses["in"], RejectMe(t, 503))
    BY <2>5, RejectMeTurn, CalmFirst DEF Negative
  <2>7. Aside(ses["out"], s) /\ Ends(s)
    BY <2>2, MediaAside, AsideKeeps
  <2>8. s \in Session /\ ~s.disposed /\ s.state = "NotSet" /\ ~s.added /\ s.asleep = "no"
    BY <2>4, <2>7, UnsentFacts DEF Aside, Quiet
  <2>9. b = [s EXCEPT !.disposed = TRUE, !.media = FALSE, !.maxDur = Stop(s.maxDur)]
    BY <2>3, <2>8 DEF DropMe
  <2>10. b \in Session
    BY <2>3, <2>8, DropMeTame DEF Tame
  <2>11. /\ b.dir = s.dir /\ b.state = s.state /\ b.disposed
         /\ b.asleep = s.asleep /\ b.dropping = s.dropping /\ b.added = s.added
         /\ b.acked = s.acked /\ b.resp = s.resp /\ b.timer = s.timer
         /\ b.bye = s.bye /\ b.cancel = s.cancel /\ b.aux = s.aux
    BY ONLY <2>8, <2>9 DEF Session
  <2>12. TimerOK(b)
    BY <2>7, <2>11 DEF Ends, TimerOK
  <2>13. Ends(b)
    BY <2>7, <2>8, <2>11, <2>12 DEF Ends, Alive
  <2>14. LifeStep(ses["out"], b) /\ ByeStep(ses["out"], b)
    BY <2>7, <2>8, <2>11, PhaseValues DEF Aside, LifeStep, LifeMove, ByeStep
  <2>15. ses'["in"] = RejectMe(t, 503) /\ ses'["out"] = b
    BY <2>4, <2>6, <2>10, BothFacts DEF Turn, Sleep, IInv
  <2> QED BY <2>4, <2>6, <2>8, <2>11, <2>13, <2>14, <2>15, RouteTurn
<1> QED BY <1>1, <1>2, <1>3, <1>4, <1>5, <1>6, <1>7 DEF RouteStep

-----------------------------------------------------------------------------
LEMMA InitEInv == Init => EInv
<1> SUFFICES ASSUME Init PROVE EInv
  OBVIOUS
<1>1. \A d \in {"INBOUND", "OUTBOUND"} :
        /\ NewSS(d).state = "NotSet" /\ ~NewSS(d).added /\ ~NewSS(d).disposed
        /\ NewSS(d).asleep = "no" /\ NewSS(d).bye = "none" /\ NewSS(d).cancel = "none"
        /\ NewSS(d).aux = "nil" /\ ~NewSS(d).dropping /\ NewSS(d).timer = "nil"
        /\ NewSS(d).resp = {}
  BY DEF NewSS
<1>2. \A d \in {"INBOUND", "OUTBOUND"} : Ends(NewSS(d))
  BY <1>1 DEF Ends, Visited, Alive, TimerOK
<1>3. ses["in"] = NewSS("INBOUND") /\ ses["out"] = NewSS("OUTBOUND")
  BY DEF Init, Leg
<1>4. \A l \in Leg : Ends(ses[l])
  BY <1>2, <1>3 DEF Leg
<1>5. EndsCross
  BY <1>1, <1>3 DEF Init, EndsCross
<1> QED BY <1>4, <1>5 DEF EInv

LEMMA StutterEInv == ASSUME IInv, EInv, UNCHANGED vars PROVE EInv' /\ Lives
<1>1. Turn(ses["in"], ses["in"]) /\ Turn(ses["out"], ses["out"])
  BY EndsFacts, SelfTurn
<1>2. UNCHANGED <<ses, route, rd>>
  BY DEF vars
<1> QED BY <1>1, <1>2, SleepStep DEF Turn

LEMMA NextEInv == IInv /\ EInv /\ [Next]_vars => EInv' /\ Lives
  BY RouteEnds, CallerEnds, CalleeEnds, EitherEnds, TimersEnd, StutterEInv DEF Next

LEMMA EndsInvariance == Spec => [](IInv /\ EInv)
<1>1. Init => IInv /\ EInv
  BY InitIInv, InitEInv
<1>2. IInv /\ EInv /\ [Next]_vars => (IInv /\ EInv)'
  BY NextIInv, NextEInv
<1> QED BY <1>1, <1>2, PTL DEF Spec

(***************************************************************************)
(* Every negative final response of the callee has been acknowledged, in   *)
(* whatever state ss2 received it and whatever the caller did meanwhile.   *)
(***************************************************************************)
THEOREM NegativeAckedHolds == Spec => []NegativeAcked
<1>1. IInv /\ EInv => NegativeAcked
  BY EndsFacts DEF NegativeAcked, Ends
<1> QED BY <1>1, EndsInvariance, PTL

(***************************************************************************)
(* Neither leg ever starts a second BYE, though seven handlers on several  *)
(* goroutines send one.                                                    *)
(***************************************************************************)
THEOREM OneBYEHolds == Spec => OneBYE
<1>1. IInv /\ EInv /\ [Next]_vars
        => [\A l \in Leg : ses[l].bye # "none"
              => ses'[l].bye \in {ses[l].bye, "stopped", "final"}]_vars
  BY NextEInv DEF Lives, ByeStep
<1> QED BY <1>1, EndsInvariance, PTL DEF Spec, OneBYE

(***************************************************************************)
(* Each session of the call implements SessionLife: it is set up once,     *)
(* answered at most once and only while it is set up, never comes back     *)
(* from its release, and is dropped only when no call is up or being set   *)
(* up in it.                                                               *)
(***************************************************************************)
THEOREM SessionsLiveHolds == Spec => SessionsLive
<1>1. Init => InLife!Init /\ OutLife!Init
  <2> SUFFICES ASSUME Init PROVE InLife!Init /\ OutLife!Init
    OBVIOUS
  <2>1. ses["in"] = NewSS("INBOUND") /\ ses["out"] = NewSS("OUTBOUND")
    BY DEF Init, Leg
  <2>2. /\ ses["in"].state = "NotSet" /\ ~ses["in"].disposed
        /\ ses["out"].state = "NotSet" /\ ~ses["out"].disposed
    BY <2>1 DEF NewSS
  <2> QED BY <2>2, PhaseValues DEF InLife!Init, OutLife!Init
<1>2. IInv /\ EInv /\ [Next]_vars
        => [InLife!Next]_(InLife!lifeVars) /\ [OutLife!Next]_(OutLife!lifeVars)
  <2> SUFFICES ASSUME IInv, EInv, [Next]_vars
               PROVE  [InLife!Next]_(InLife!lifeVars) /\ [OutLife!Next]_(OutLife!lifeVars)
    OBVIOUS
  <2>1. Lives /\ IInv'
    BY NextEInv, NextIInv
  <2>2. \A l \in Leg : ses[l].disposed \in BOOLEAN /\ ses'[l].disposed \in BOOLEAN
    BY <2>1 DEF IInv, TypeOK, Session
  <2>3. \A l \in Leg : LifeMove(PhaseOf(ses[l].state), ses[l].disposed,
                                PhaseOf(ses'[l].state), ses'[l].disposed)
    BY <2>1 DEF Lives, LifeStep
  <2>4. [InLife!Next]_(InLife!lifeVars)
    <3> DEFINE p == PhaseOf(ses["in"].state)
               d == ses["in"].disposed
               q == PhaseOf(ses'["in"].state)
               e == ses'["in"].disposed
    <3>1. d \in BOOLEAN /\ e \in BOOLEAN /\ LifeMove(p, d, q, e)
      BY <2>2, <2>3, LegFacts
    <3> HIDE DEF p, d, q, e
    <3>2. \/ p = q /\ e = d
          \/ p = "idle" /\ ~d /\ q = "setup" /\ e = d
          \/ p = "setup" /\ ~d /\ q = "up" /\ e = d
          \/ p \in {"idle", "setup", "up"} /\ ~d /\ q = "ending" /\ e = d
          \/ p \in {"setup", "up", "ending"} /\ q = "over" /\ e \in {d, TRUE}
          \/ p \notin {"setup", "up"} /\ e = TRUE /\ q = p
      <4>1. CASE d
        BY <3>1, <4>1 DEF LifeMove
      <4>2. CASE ~d
        BY <3>1, <4>2 DEF LifeMove
      <4> QED BY <4>1, <4>2
    <3> QED
      BY <3>2 DEF p, d, q, e, InLife!Next, InLife!lifeVars, InLife!SetUp, InLife!Answer, InLife!Release,
                  InLife!End, InLife!Dispose
  <2>5. [OutLife!Next]_(OutLife!lifeVars)
    <3> DEFINE p == PhaseOf(ses["out"].state)
               d == ses["out"].disposed
               q == PhaseOf(ses'["out"].state)
               e == ses'["out"].disposed
    <3>1. d \in BOOLEAN /\ e \in BOOLEAN /\ LifeMove(p, d, q, e)
      BY <2>2, <2>3, LegFacts
    <3> HIDE DEF p, d, q, e
    <3>2. \/ p = q /\ e = d
          \/ p = "idle" /\ ~d /\ q = "setup" /\ e = d
          \/ p = "setup" /\ ~d /\ q = "up" /\ e = d
          \/ p \in {"idle", "setup", "up"} /\ ~d /\ q = "ending" /\ e = d
          \/ p \in {"setup", "up", "ending"} /\ q = "over" /\ e \in {d, TRUE}
          \/ p \notin {"setup", "up"} /\ e = TRUE /\ q = p
      <4>1. CASE d
        BY <3>1, <4>1 DEF LifeMove
      <4>2. CASE ~d
        BY <3>1, <4>2 DEF LifeMove
      <4> QED BY <4>1, <4>2
    <3> QED
      BY <3>2 DEF p, d, q, e, OutLife!Next, OutLife!lifeVars, OutLife!SetUp, OutLife!Answer,
                  OutLife!Release, OutLife!End, OutLife!Dispose
  <2> QED BY <2>4, <2>5
<1> QED
  BY <1>1, <1>2, EndsInvariance, PTL DEF Spec, SessionsLive, InLife!Spec, OutLife!Spec
-----------------------------------------------------------------------------
(***************************************************************************)
(* The third invariant, of what the caller is told and of the ports.       *)
(*                                                                         *)
(* Told: the timer of ss1's INVITE runs only after a final response, and   *)
(* ss1 is linked to ss2 unless it was refused; no timer runs for a ss2     *)
(* that was not sent.  Held: ss2 has a port only once it is linked, and    *)
(* none when it was dropped.  Ordered is what orderly peers add: the       *)
(* caller waits while its call is routed, and a refused caller has no      *)
(* callee that could still answer.  Settled: a caller that has a 200 has   *)
(* no callee whose No18x or NoAnswer timer runs.                           *)
(***************************************************************************)
Routed == {"routing", "linked", "checked"}

Told ==
  /\ ses["in"].timer = "armed" => Finalized(ses["in"])
  /\ ses["out"].added \/ route \in {"linked", "checked"}
       => ses["in"].linked \/ ses["in"].resp \cap Negative # {}
  /\ ~ses["out"].added => /\ ses["out"].timer # "armed"
                          /\ ses["out"].no18x # "armed" /\ ses["out"].noAns # "armed"
  /\ route = "echoWait" => rd.flow # "TransformEarlyToFinal"

Held ==
  /\ route \in {"idle", "routing", "echoWait"} => ~ses["out"].media
  /\ ses["out"].disposed => ~ses["out"].media

Ordered ==
  OrderlyPeers =>
    /\ route \in Routed => ses["in"].state = "BeingEstablished"
    /\ ses["in"].disposed => ~ses["in"].media
    /\ route = "done" /\ ~ses["out"].added => ~ses["out"].media
    /\ ses["in"].resp \cap Negative # {} /\ ses["out"].added
         => ses["out"].state # "BeingEstablished" \/ Finalized(ses["out"])

Settled ==
  OrderlyCall /\ 200 \in ses["in"].resp /\ ses["out"].added
    => ses["out"].no18x # "armed" /\ ses["out"].noAns # "armed"

OInv == Told /\ Held /\ Ordered /\ Settled /\ OneFinalResponse /\ RetransmitsFinal

(***************************************************************************)
(* Fade(s, t): t is a session that s may become without telling the caller *)
(* anything, taking a port or setting a call up.  Wane(s, t): and without  *)
(* starting a timer.                                                       *)
(***************************************************************************)
Fade(s, t) ==
  /\ t \in Session /\ t.dir = s.dir
  /\ t.added = s.added /\ t.linked = s.linked
  /\ t.media => s.media
  /\ s.disposed => t.disposed
  /\ t.disposed => s.disposed \/ ~t.media
  /\ s.resp \subseteq t.resp
  /\ s.dir = "INBOUND" => t.resp = s.resp /\ t.sent = s.sent
  /\ t.timer = "armed" => s.timer = "armed"
  /\ t.state = "BeingEstablished" => s.state = "BeingEstablished"

Wane(s, t) ==
  /\ Fade(s, t)
  /\ t.no18x = "armed" => s.no18x = "armed"
  /\ t.noAns = "armed" => s.noAns = "armed"

LEMMA WaneRefl == ASSUME NEW s \in Session PROVE Wane(s, s)
  BY DEF Wane, Fade

LEMMA WaneTrans ==
  ASSUME NEW s, NEW t, NEW u, Wane(s, t), Wane(t, u)
  PROVE  Wane(s, u)
  BY DEF Wane, Fade

\* the fields that Wane is about are as they were, but for the state
Same(s, t) ==
  /\ t \in Session /\ t.dir = s.dir
  /\ t.added = s.added /\ t.linked = s.linked /\ t.media = s.media /\ t.disposed = s.disposed
  /\ t.resp = s.resp /\ t.sent = s.sent
  /\ t.timer = s.timer /\ t.no18x = s.no18x /\ t.noAns = s.noAns

LEMMA SameWane ==
  ASSUME NEW s, NEW t, Same(s, t), t.state = s.state \/ t.state # "BeingEstablished"
  PROVE  Wane(s, t)
  BY DEF Same, Wane, Fade

LEMMA SetStateWane ==
  ASSUME NEW s \in Session, NEW st \in State, st # "BeingEstablished"
  PROVE  Wane(s, SetState(s, st)) /\ SetState(s, st).state = st
<1>1. Same(s, SetState(s, st)) /\ SetState(s, st).state = st
  BY DEF SetState, Same, Session
<1> QED BY <1>1, SameWane

LEMMA FinalizeStateWane ==
  ASSUME NEW s \in Session
  PROVE  Wane(s, FinalizeState(s)) /\ FinalizeState(s).state # "BeingEstablished"
<1>1. PICK st \in State : st = FinalizeMe(s.state) /\ st # "BeingEstablished"
  BY FinalizeMeType, FinalizeMeNotLive DEF Session
<1>2. FinalizeState(s) = SetState(s, st)
  BY <1>1 DEF FinalizeState, SetState
<1> QED BY <1>1, <1>2, SetStateWane

LEMMA DropMeWane ==
  ASSUME NEW s \in Session
  PROVE  Wane(s, DropMe(s)) /\ DropMe(s).state = s.state
<1>1. CASE s.disposed
  BY <1>1, WaneRefl DEF DropMe
<1>2. CASE ~s.disposed
  <2>1. PICK m \in TimerState : m = Stop(s.maxDur)
    BY StopFacts DEF Session
  <2>2. DropMe(s) = [s EXCEPT !.disposed = TRUE, !.media = FALSE, !.maxDur = m]
    BY <1>2, <2>1 DEF DropMe
  <2> QED BY <2>2, ZenonT(60) DEF Wane, Fade, Session
<1> QED BY <1>1, <1>2

LEMMA SmallWane ==
  ASSUME NEW s \in Session
  PROVE  /\ Wane(s, SendACK(s)) /\ SendACK(s).state = s.state
         /\ Wane(s, DropMeTimed(s)) /\ DropMeTimed(s).state = s.state
         /\ Wane(s, SendCANCEL(s)) /\ SendCANCEL(s).state = s.state
<1>1. Same(s, SendACK(s)) /\ SendACK(s).state = s.state
  BY DEF SendACK, Same, Session
<1>2. Same(s, DropMeTimed(s)) /\ DropMeTimed(s).state = s.state
  BY DEF DropMeTimed, Same, Session
<1>3. Same(s, SendCANCEL(s)) /\ SendCANCEL(s).state = s.state
  <2>1. CASE s.acked
    BY <2>1 DEF SendCANCEL, Same
  <2>2. CASE ~s.acked
    BY <2>2 DEF SendCANCEL, Same, Session, TxState
  <2> QED BY <2>1, <2>2
<1> QED BY <1>1, <1>2, <1>3, SameWane

LEMMA StopsWane ==
  ASSUME NEW s \in Session
  PROVE  /\ Wane(s, StopAllOutTransactions(s)) /\ StopAllOutTransactions(s).state = s.state
         /\ Wane(s, StopPending(s)) /\ StopPending(s).state = s.state
         /\ Wane(s, StopNoTimers(s)) /\ StopNoTimers(s).state = s.state
         /\ StopNoTimers(s).no18x # "armed" /\ StopNoTimers(s).noAns # "armed"
<1>1. PICK tm, c, b, p, n, m :
        /\ tm = Stop(s.timer) /\ c = Stop(s.cancel) /\ b = Stop(s.bye) /\ p = Stop(s.probe)
        /\ n = Stop(s.no18x) /\ m = Stop(s.noAns)
  OBVIOUS
<1>2. /\ tm \in TimerState /\ n \in TimerState /\ m \in TimerState
      /\ c \in TxState /\ b \in TxState /\ p \in TxState
      /\ tm # "armed" /\ n # "armed" /\ m # "armed"
  BY <1>1, StopFacts, StopNotArmed DEF Session
<1>3. StopAllOutTransactions(s)
        = [s EXCEPT !.timer = tm, !.cancel = c, !.bye = b, !.probe = p]
  BY <1>1 DEF StopAllOutTransactions
<1>4. StopNoTimers(s) = [s EXCEPT !.no18x = n, !.noAns = m]
  BY <1>1 DEF StopNoTimers
<1>5. PICK u : u = IF s.dir = "OUTBOUND" /\ Finalized(s) THEN s.timer ELSE tm
  OBVIOUS
<1>6. u \in TimerState /\ (u = "armed" => s.timer = "armed")
  BY <1>2, <1>5 DEF Session
<1>7. StopPending(s)
        = [s EXCEPT !.cancel = c, !.bye = b, !.probe = p, !.timer = u, !.rcvdBye = TRUE]
  BY <1>1, <1>5 DEF StopPending
<1>a. /\ StopAllOutTransactions(s) \in Session /\ StopNoTimers(s) \in Session
      /\ StopPending(s) \in Session
  BY StopAllTame, StopNoTimersTame, StopPendingTame DEF Tame
<1>8. Wane(s, StopAllOutTransactions(s)) /\ StopAllOutTransactions(s).state = s.state
  <2>1. PICK t \in Session : t = StopAllOutTransactions(s)
    BY <1>a
  <2>2. /\ t.dir = s.dir /\ t.added = s.added /\ t.linked = s.linked /\ t.media = s.media
        /\ t.disposed = s.disposed /\ t.resp = s.resp /\ t.sent = s.sent /\ t.timer # "armed"
        /\ t.no18x = s.no18x /\ t.noAns = s.noAns /\ t.state = s.state
    BY ONLY s \in Session, <1>2, <1>3, <2>1 DEF Session
  <2>3. Wane(s, t)
    BY ONLY t \in Session, <2>2 DEF Wane, Fade
  <2> QED BY <2>1, <2>2, <2>3
<1>9. Wane(s, StopNoTimers(s)) /\ StopNoTimers(s).state = s.state
      /\ StopNoTimers(s).no18x # "armed" /\ StopNoTimers(s).noAns # "armed"
  BY ONLY s \in Session, <1>2, <1>4, <1>a DEF Wane, Fade, Session
<1>10. Wane(s, StopPending(s)) /\ StopPending(s).state = s.state
  <2>1. PICK t \in Session : t = StopPending(s)
    BY <1>a
  <2>2. /\ t.dir = s.dir /\ t.added = s.added /\ t.linked = s.linked /\ t.media = s.media
        /\ t.disposed = s.disposed /\ t.resp = s.resp /\ t.sent = s.sent /\ t.timer = u
        /\ t.no18x = s.no18x /\ t.noAns = s.noAns /\ t.state = s.state
    BY ONLY s \in Session, <1>7, <2>1 DEF Session
  <2>3. Wane(s, t)
    BY ONLY t \in Session, <1>6, <2>2 DEF Wane, Fade
  <2> QED BY <2>1, <2>2, <2>3
<1> QED BY <1>8, <1>9, <1>10

LEMMA CancelMeWane ==
  ASSUME NEW s \in Session
  PROVE  /\ Wane(s, CancelMe(s))
         /\ s.dir = "OUTBOUND" => CancelMe(s).state # "BeingEstablished"
         /\ CancelMe(s).state \in {s.state, "BeingCancelled"}
<1>1. CASE s.dir = "OUTBOUND" /\ s.state = "BeingEstablished"
  <2>1. PICK t : t = StopNoTimers(s) /\ Wane(s, t)
    BY StopsWane
  <2>2. PICK u : u = SetState(t, "BeingCancelled") /\ Wane(t, u) /\ u.state = "BeingCancelled"
    BY <2>1, SetStateWane DEF Wane, Fade, State, PendingState
  <2>3. Wane(u, SendCANCEL(u)) /\ SendCANCEL(u).state = "BeingCancelled"
    BY <2>2, SmallWane DEF Wane, Fade
  <2>4. CancelMe(s) = SendCANCEL(u)
    BY <1>1, <2>1, <2>2 DEF CancelMe, IsBeingEstablished
  <2> QED BY <2>1, <2>2, <2>3, <2>4, WaneTrans
<1>2. CASE ~(s.dir = "OUTBOUND" /\ s.state = "BeingEstablished")
  BY <1>2, WaneRefl DEF CancelMe, IsBeingEstablished
<1> QED BY <1>1, <1>2

\* an answered session that sends BYE answers nothing any more
LEMMA ReleaseWane ==
  ASSUME NEW s \in Session, 200 \in s.resp, NEW st \in State, st # "BeingEstablished"
  PROVE  Wane(s, SendBYE(SetState(s, st))) /\ SendBYE(SetState(s, st)).state = st
<1>1. PICK t : t = SetState(s, st) /\ Wane(s, t) /\ t.state = st
  BY SetStateWane
<1>2. t \in Session /\ Finalized(t)
  BY <1>1 DEF Wane, Fade, Finalized, Final
<1>3. SendBYE(t) = [t EXCEPT !.bye = "armed"]
  BY <1>2 DEF SendBYE
<1>4. Same(t, SendBYE(t)) /\ SendBYE(t).state = t.state
  BY ONLY <1>2, <1>3 DEF Same, Session, TxState
<1>5. Wane(t, SendBYE(t))
  BY <1>4, SameWane
<1> QED BY <1>1, <1>4, <1>5, WaneTrans

LEMMA ReleasesWane ==
  ASSUME NEW s \in Session, Local(s)
  PROVE  /\ Wane(s, ReleaseCallLeg(s)) /\ Wane(s, ReleaseMe(s)) /\ Wane(s, ReleaseOrCancel(s))
         /\ s.state = "BeingEstablished" => ReleaseCallLeg(s).state = "BeingEstablished"
         /\ s.dir = "OUTBOUND" => ReleaseOrCancel(s).state # "BeingEstablished"
<1>1. Wane(s, s) /\ Wane(s, CancelMe(s))
      /\ (s.dir = "OUTBOUND" => CancelMe(s).state # "BeingEstablished")
  BY WaneRefl, CancelMeWane
<1>2. CASE s.state = "Established"
  <2>1. 200 \in s.resp
    BY <1>2 DEF Local
  <2>2. /\ Wane(s, SendBYE(SetState(s, "BeingDropped")))
        /\ Wane(s, SendBYE(SetState(s, "BeingCleared")))
        /\ SendBYE(SetState(s, "BeingCleared")).state = "BeingCleared"
    BY <2>1, ReleaseWane DEF State, PendingState
  <2>3. /\ ReleaseCallLeg(s) = SendBYE(SetState(s, "BeingDropped"))
        /\ ReleaseMe(s) = SendBYE(SetState(s, "BeingCleared"))
        /\ ReleaseOrCancel(s) = ReleaseMe(s)
    BY <1>2 DEF ReleaseCallLeg, ReleaseMe, ReleaseOrCancel, IsEstablished
  <2> QED BY <1>2, <2>2, <2>3
<1>3. CASE s.state # "Established"
  <2>1. ReleaseCallLeg(s) = s /\ ReleaseMe(s) = s /\ ReleaseOrCancel(s) = CancelMe(s)
    BY <1>3 DEF ReleaseCallLeg, ReleaseMe, ReleaseOrCancel, IsEstablished
  <2> QED BY <1>1, <2>1
<1> QED BY <1>2, <1>3

\* the same after the pending transactions were stopped
LEMMA StopAndReleaseWane ==
  ASSUME NEW s \in Session, Local(s)
  PROVE  LET t == ReleaseOrCancel(StopAllOutTransactions(s))
         IN  /\ Wane(s, t)
             /\ s.dir = "OUTBOUND" => t.state # "BeingEstablished"
<1>1. PICK t : t = StopAllOutTransactions(s)
  OBVIOUS
<1>2. t \in Session /\ Local(t) /\ Wane(s, t)
  BY <1>1, StopAllTame, StopsWane DEF Tame
<1>3. t.dir = s.dir
  BY <1>2 DEF Wane, Fade
<1>4. Wane(s, ReleaseOrCancel(t)) /\ (t.dir = "OUTBOUND" => ReleaseOrCancel(t).state # "BeingEstablished")
  BY <1>2, ReleasesWane, WaneTrans
<1> QED BY <1>1, <1>3, <1>4

LEMMA EndWane ==
  ASSUME NEW s \in Session
  PROVE  Wane(s, DropMe(FinalizeState(s))) /\ Wane(s, TimedOut(s))
<1>1. PICK t : t = FinalizeState(s) /\ Wane(s, t) /\ t \in Session
  BY FinalizeStateWane DEF Wane, Fade
<1>2. Wane(s, DropMe(t))
  BY <1>1, DropMeWane, WaneTrans
<1>3. PICK u : u = SetState(s, "TimedOut") /\ Wane(s, u) /\ u \in Session
  BY SetStateWane DEF Wane, Fade, State, SettledState
<1>4. Wane(s, DropMe(u))
  BY <1>3, DropMeWane, WaneTrans
<1> QED BY <1>1, <1>2, <1>3, <1>4, WaneRefl DEF TimedOut

LEMMA TimedOutState ==
  ASSUME NEW s \in Session
  PROVE  TimedOut(s).state # "BeingEstablished"
<1>1. CASE IsPending(s.state)
  <2>1. PICK u \in Session : u = SetState(s, "TimedOut") /\ u.state = "TimedOut"
    BY SetStateWane DEF Wane, Fade, State, SettledState
  <2>2. TimedOut(s) = DropMe(u)
    BY <1>1, <2>1 DEF TimedOut
  <2> QED BY <2>1, <2>2, DropMeWane
<1>2. CASE ~IsPending(s.state)
  BY <1>2 DEF TimedOut, IsPending, PendingState
<1> QED BY <1>1, <1>2

LEMMA CallerTimedOutWane ==
  ASSUME NEW s \in Session
  PROVE  Wane(s, CallerTimedOut(s))
<1>1. CASE IsBeingEstablished(s) /\ Received200(s)
  <2>1. PICK t : t = SendACK(s) /\ Wane(s, t) /\ t \in Session
    BY SmallWane DEF Wane, Fade
  <2>2. CallerTimedOut(s) = [t EXCEPT !.asleep = "timeoutbye"]
    BY <1>1, <2>1 DEF CallerTimedOut
  <2>3. Same(t, CallerTimedOut(s)) /\ CallerTimedOut(s).state = t.state
    BY ONLY <2>1, <2>2 DEF Same, Session
  <2> QED BY <2>1, <2>3, SameWane, WaneTrans
<1>2. CASE ~(IsBeingEstablished(s) /\ Received200(s))
  BY <1>2, CancelMeWane DEF CallerTimedOut
<1> QED BY <1>1, <1>2

LEMMA AddResponseWane ==
  ASSUME NEW s \in Session, s.dir = "OUTBOUND", NEW sc \in Code
  PROVE  LET t == AddResponse(s, sc)
         IN  Wane(s, t) /\ t.state = s.state /\ t.resp = s.resp \cup {sc}
<1>1. PICK t \in Session : t = AddResponse(s, sc)
  BY AddResponseType
<1>2. PICK tm, x : /\ tm = Stop(s.timer)
                   /\ x = IF sc \in Final \/ Finalized(s) THEN Stop(s.aux) ELSE s.aux
  OBVIOUS
<1>3. tm # "armed"
  BY <1>2, StopNotArmed
<1>4. t = [s EXCEPT !.resp = s.resp \cup {sc}, !.timer = tm, !.aux = x]
  BY <1>1, <1>2 DEF AddResponse
<1>5. /\ t.dir = s.dir /\ t.added = s.added /\ t.linked = s.linked /\ t.media = s.media
      /\ t.disposed = s.disposed /\ t.resp = s.resp \cup {sc} /\ t.timer = tm
      /\ t.no18x = s.no18x /\ t.noAns = s.noAns /\ t.state = s.state
  BY ONLY s \in Session, <1>4 DEF Session
<1>6. Wane(s, t)
  BY ONLY t \in Session, s.dir = "OUTBOUND", <1>3, <1>5 DEF Wane, Fade
<1> QED BY <1>1, <1>5, <1>6

\* the answer to a negative response, of a session in any state
LEMMA AckWane ==
  ASSUME NEW s \in Session, NEW st \in State, st # "BeingEstablished"
  PROVE  Wane(s, Ack3xxTo6xx(s, st)) /\ Wane(s, Ack3xxTo6xxFinalize(s))
<1>1. ASSUME NEW t \in Session PROVE Wane(t, DropMeTimed(SendACK(t)))
  <2>1. PICK u : u = SendACK(t) /\ Wane(t, u) /\ u \in Session
    BY SmallWane DEF Wane, Fade
  <2> QED BY <2>1, SmallWane, WaneTrans
<1>2. PICK t : t = SetState(s, st) /\ Wane(s, t) /\ t \in Session
  BY SetStateWane DEF Wane, Fade
<1>3. PICK u : u = FinalizeState(s) /\ Wane(s, u) /\ u \in Session
  BY FinalizeStateWane DEF Wane, Fade
<1> QED BY <1>1, <1>2, <1>3, WaneTrans DEF Ack3xxTo6xx, Ack3xxTo6xxFinalize

-----------------------------------------------------------------------------
(***************************************************************************)
(* What follows from the three invariants: of a caller whose call is being *)
(* routed, and of one that has a 200.                                      *)
(***************************************************************************)
LEMMA Waiting ==
  ASSUME IInv, EInv, OInv, OrderlyPeers, route \in Routed
  PROVE  /\ uac = "calling" /\ ses["in"].state = "BeingEstablished"
         /\ ~Finalized(ses["in"]) /\ ses["in"].timer # "armed" /\ ses["in"].bye = "none"
         /\ ~ses["in"].disposed
<1>1. ses["in"].state = "BeingEstablished" /\ 200 \notin ses["in"].resp
  BY DEF OInv, Ordered, IInv, Cross, Routed
<1>2. ses["in"].resp \cap Negative = {} /\ ses["in"].bye = "none"
  BY <1>1, SessionsTyped DEF Local
<1>3. uac = "calling"
  BY <1>1, <1>2 DEF IInv, TypeOK, Cross
<1>4. ~Finalized(ses["in"])
  BY <1>1, <1>2 DEF Finalized, Final
<1>5. ~ses["in"].disposed
  BY <1>1, EndsFacts DEF Ends, Ending, Alive
<1> QED BY <1>1, <1>2, <1>3, <1>4, <1>5 DEF OInv, Told

LEMMA Unsent == ASSUME IInv, route # "done" PROVE Quiet(ses["out"])
  BY DEF IInv, Cross

LEMMA Answered ==
  ASSUME IInv, OInv, OrderlyCall, 200 \in ses["in"].resp, ses["out"].added
  PROVE  /\ 200 \in ses["out"].resp /\ Finalized(ses["out"])
         /\ ses["out"].no18x # "armed" /\ ses["out"].noAns # "armed"
<1>1. ses["in"].resp \cap Negative = {}
  BY DEF OInv, OneFinalResponse, Received200
<1>2. ses["in"].linked
  BY <1>1 DEF OInv, Told
<1>3. 200 \in ses["out"].resp
  BY <1>2 DEF IInv, Cross, OrderlyCall
<1> QED BY <1>3 DEF Finalized, Final, OInv, Settled

(***************************************************************************)
(* Steps that tell the caller nothing                                      *)
(***************************************************************************)
LEMMA FadeStep ==
  ASSUME IInv, EInv, OInv, UNCHANGED <<env, route, rd>>, NEW a, NEW b,
         Wane(ses["in"], a), Fade(ses["out"], b), ses'["in"] = a, ses'["out"] = b,
         OrderlyPeers /\ route \in Routed => a.state = "BeingEstablished",
         \/ Wane(ses["out"], b)
         \/ b.added /\ (OrderlyCall => 200 \notin ses["in"].resp)
  PROVE  OInv'
<1> DEFINE s == ses["in"]
           t == ses["out"]
<1>1. s.dir = "INBOUND" /\ (OrderlyPeers' <=> OrderlyPeers) /\ (OrderlyCall' <=> OrderlyCall)
  BY SessionsTyped DEF OrderlyPeers, OrderlyCall
<1>2. /\ a.resp = s.resp /\ a.sent = s.sent /\ a.linked = s.linked /\ b.added = t.added
      /\ t.resp \subseteq b.resp /\ (a.timer = "armed" => s.timer = "armed")
      /\ b.timer = "armed" => t.timer = "armed"
      /\ b.state = "BeingEstablished" => t.state = "BeingEstablished"
  BY <1>1 DEF Wane, Fade
<1>3. /\ (a.media => s.media) /\ (a.disposed => s.disposed \/ ~a.media)
      /\ (b.media => t.media) /\ (b.disposed => t.disposed \/ ~b.media)
  BY DEF Wane, Fade
<1>4. Told'
  BY <1>2 DEF OInv, Told, Finalized, Wane
<1>5. Held'
  BY <1>3 DEF OInv, Held
<1>6. Ordered'
  BY <1>1, <1>2, <1>3 DEF OInv, Ordered, Finalized
<1>7. Settled'
  BY <1>1, <1>2 DEF OInv, Settled, Wane
<1>8. OneFinalResponse' /\ RetransmitsFinal'
  BY <1>1, <1>2 DEF OInv, OneFinalResponse, RetransmitsFinal, Received200
<1> QED BY <1>4, <1>5, <1>6, <1>7, <1>8 DEF OInv

LEMMA WaneBoth ==
  ASSUME IInv, EInv, OInv, UNCHANGED <<env, route, rd>>, NEW a, NEW b,
         Wane(ses["in"], a), Wane(ses["out"], b), ses' = Both(a, b),
         OrderlyPeers /\ route \in Routed => a.state = "BeingEstablished"
  PROVE  OInv'
<1>1. a \in Session /\ b \in Session /\ TypeOK /\ Fade(ses["out"], b)
  BY DEF Wane, Fade, IInv
<1>2. ses'["in"] = a /\ ses'["out"] = b
  BY <1>1, BothFacts
<1> QED BY <1>1, <1>2, FadeStep

LEMMA WaneIn ==
  ASSUME IInv, EInv, OInv, UNCHANGED <<env, route, rd>>, NEW a,
         Wane(ses["in"], a), ses' = [ses EXCEPT !["in"] = a],
         OrderlyPeers /\ route \in Routed => a.state = "BeingEstablished"
  PROVE  OInv'
<1>1. a \in Session /\ TypeOK /\ Wane(ses["out"], ses["out"]) /\ Fade(ses["out"], ses["out"])
  BY SessionsTyped, WaneRefl DEF Wane, Fade, IInv
<1>2. ses'["in"] = a /\ ses'["out"] = ses["out"]
  BY <1>1, OneFacts, LegFacts
<1> QED BY <1>1, <1>2, FadeStep

LEMMA WaneOut ==
  ASSUME IInv, EInv, OInv, UNCHANGED <<env, route, rd>>, NEW b,
         Fade(ses["out"], b), ses' = [ses EXCEPT !["out"] = b],
         \/ Wane(ses["out"], b)
         \/ b.added /\ (OrderlyCall => 200 \notin ses["in"].resp)
  PROVE  OInv'
<1>1. b \in Session /\ TypeOK /\ Wane(ses["in"], ses["in"])
  BY SessionsTyped, WaneRefl DEF Fade, IInv
<1>2. ses'["out"] = b /\ ses'["in"] = ses["in"]
  BY <1>1, OneFacts, LegFacts
<1>3. OrderlyPeers /\ route \in Routed => ses["in"].state = "BeingEstablished"
  BY Waiting
<1> QED BY <1>1, <1>2, <1>3, FadeStep

LEMMA OnLinkedWane ==
  ASSUME IInv, NEW l \in Leg, NEW a, Wane(ses[Lnk(l)], a)
  PROVE  Wane(ses[Lnk(l)], OnLinked(l, a))
  BY SessionsTyped, WaneRefl DEF OnLinked, Lnk, Leg

LEMMA ReleaseCallO ==
  ASSUME IInv, EInv, OInv, UNCHANGED <<env, route, rd>>, NEW t, Same(ses["in"], t), Local(t),
         t.state = ses["in"].state, ReleaseCall(t)
  PROVE  OInv'
<1>1. Wane(ses["in"], t) /\ t \in Session
  BY SameWane DEF Same
<1>2. Wane(ses["in"], ReleaseCallLeg(t))
      /\ (t.state = "BeingEstablished" => ReleaseCallLeg(t).state = "BeingEstablished")
  BY <1>1, ReleasesWane, WaneTrans
<1>3. Wane(ses["out"], OnLinked("in", ReleaseCallLeg(ses["out"])))
  BY SessionsTyped, ReleasesWane, OnLinkedWane, LegFacts
<1>4. OrderlyPeers /\ route \in Routed => ReleaseCallLeg(t).state = "BeingEstablished"
  BY <1>2, Waiting
<1> QED BY <1>2, <1>3, <1>4, WaneBoth DEF ReleaseCall

(***************************************************************************)
(* Steps that refuse the caller                                            *)
(***************************************************************************)
Deny(s, t) ==
  /\ t \in Session /\ t.state # "BeingEstablished"
  /\ t.media = s.media /\ t.disposed = s.disposed
  /\ \/ /\ t.resp = s.resp /\ t.sent = s.sent /\ t.linked = s.linked
        /\ t.timer = "armed" => s.timer = "armed"
     \/ \E sc \in Negative : t.resp = s.resp \cup {sc} /\ t.sent = sc

LEMMA DenyStep ==
  ASSUME IInv, EInv, OInv, UNCHANGED <<env, route, rd>>, NEW a, NEW b,
         Deny(ses["in"], a), Wane(ses["out"], b), ses'["in"] = a, ses'["out"] = b,
         OrderlyPeers => /\ route \notin Routed
                         /\ b.added => b.state # "BeingEstablished" \/ Finalized(b),
         OrderlyCall => 200 \notin ses["in"].resp
  PROVE  OInv'
<1> DEFINE s == ses["in"]
           t == ses["out"]
<1>1. (OrderlyPeers' <=> OrderlyPeers) /\ (OrderlyCall' <=> OrderlyCall)
      /\ (OrderlyCall => OrderlyPeers)
  BY DEF OrderlyPeers, OrderlyCall
<1>2. /\ s.resp \subseteq a.resp /\ (200 \in a.resp => 200 \in s.resp)
      /\ a.timer = "armed" => (s.timer = "armed" /\ a.sent = s.sent) \/ a.sent \in Final
      /\ a.timer = "armed" => s.timer = "armed" \/ a.resp \cap Final # {}
      /\ a.linked = s.linked \/ a.resp \cap Negative # {}
  BY DEF Deny, Negative, Final
<1>3. /\ a.media = s.media /\ a.disposed = s.disposed /\ b.added = t.added
      /\ (b.media => t.media) /\ (b.disposed => t.disposed \/ ~b.media)
  BY DEF Deny, Wane, Fade
<1>4. Told'
  <2>1. a.timer = "armed" => a.resp \cap Final # {}
    BY <1>2 DEF OInv, Told, Finalized
  <2>2. b.added \/ route \in {"linked", "checked"} => a.linked \/ a.resp \cap Negative # {}
    BY <1>2, <1>3 DEF OInv, Told
  <2>3. ~b.added => b.timer # "armed" /\ b.no18x # "armed" /\ b.noAns # "armed"
    BY <1>3 DEF OInv, Told, Wane, Fade
  <2>4. route = "echoWait" => rd.flow # "TransformEarlyToFinal"
    BY DEF OInv, Told
  <2> QED BY <2>1, <2>2, <2>3, <2>4 DEF Told, Finalized
<1>5. Held'
  BY <1>3 DEF OInv, Held
<1>6. Ordered'
  BY <1>1, <1>3 DEF OInv, Ordered, Finalized
<1>7. Settled' /\ OneFinalResponse'
  BY <1>1, <1>2 DEF Settled, OneFinalResponse, Received200
<1>8. RetransmitsFinal'
  BY <1>1, <1>2 DEF OInv, RetransmitsFinal
<1> QED BY <1>4, <1>5, <1>6, <1>7, <1>8 DEF OInv

\* SendResponse, seen from the caller
LEMMA SendFacts ==
  ASSUME NEW s \in Session, NEW sc \in Code
  PROVE  LET t == SendResponse(s, sc)
         IN  /\ t \in Session /\ t.state = s.state /\ t.linked = s.linked /\ t.added = s.added
             /\ t.media = s.media /\ t.disposed = s.disposed
             /\ \/ s.acked /\ t = s
                \/ /\ ~s.acked /\ t.resp = s.resp \cup {sc} /\ t.sent = sc
                   /\ t.timer = "armed" => s.timer = "armed" \/ sc \in Final \/ Finalized(s)
<1>1. CASE s.acked
  BY <1>1 DEF SendResponse
<1>2. CASE ~s.acked
  <2>1. PICK tm : tm = IF s.timer = "nil" /\ (sc \in Final \/ Finalized(s)) THEN "armed" ELSE s.timer
    OBVIOUS
  <2>2. PICK t \in Session : t = SendResponse(s, sc)
    BY SendResponseType
  <2>3. t = [s EXCEPT !.resp = s.resp \cup {sc}, !.sent = sc, !.timer = tm]
    BY <1>2, <2>1, <2>2 DEF SendResponse
  <2>4. /\ t.state = s.state /\ t.linked = s.linked /\ t.added = s.added
        /\ t.media = s.media /\ t.disposed = s.disposed
        /\ t.resp = s.resp \cup {sc} /\ t.sent = sc /\ t.timer = tm
    BY ONLY s \in Session, <2>3 DEF Session
  <2> QED BY <1>2, <2>1, <2>2, <2>4
<1> QED BY <1>1, <1>2

\* a refusal in another state than the one being set up
LEMMA RefusalDenies ==
  ASSUME NEW s \in Session, NEW sc \in Negative, NEW st \in State, st # "BeingEstablished"
  PROVE  LET t == SendResponse(SetState(s, st), sc)
         IN  /\ Deny(s, t) /\ Deny(s, SetState(s, st)) /\ t.added = s.added /\ t.linked = s.linked
             /\ ~s.acked => t.resp = s.resp \cup {sc} /\ t.sent = sc
<1>1. PICK u \in Session : u = SetState(s, st)
  BY DEF SetState, Session
<1>2. /\ u.state = st /\ u.media = s.media /\ u.disposed = s.disposed /\ u.resp = s.resp
      /\ u.sent = s.sent /\ u.linked = s.linked /\ u.timer = s.timer /\ u.added = s.added
      /\ u.acked = s.acked
  BY ONLY s \in Session, <1>1 DEF SetState, Session
<1>3. sc \in Code
  BY DEF Code, Final
<1>4. PICK t : t = SendResponse(u, sc)
  OBVIOUS
<1>5. /\ t \in Session /\ t.state = u.state /\ t.linked = u.linked /\ t.added = u.added
      /\ t.media = u.media /\ t.disposed = u.disposed
      /\ \/ u.acked /\ t = u
         \/ ~u.acked /\ t.resp = u.resp \cup {sc} /\ t.sent = sc
  BY <1>3, <1>4, SendFacts
<1>6. Deny(s, t) /\ Deny(s, u)
  BY <1>2, <1>5 DEF Deny
<1> QED BY <1>1, <1>2, <1>4, <1>5, <1>6

LEMMA RejectDenies ==
  ASSUME NEW s \in Session, s.dir = "INBOUND", NEW sc \in Negative
  PROVE  /\ s.state = "BeingEstablished" => Deny(s, RejectMe(s, sc))
         /\ s.state # "BeingEstablished" => RejectMe(s, sc) = s
<1>1. "BeingFailed" \in State
  BY DEF State, PendingState
<1> QED BY <1>1, RefusalDenies DEF RejectMe, IsBeingEstablished

LEMMA RerouteDenies ==
  ASSUME NEW s \in Session, s.dir = "INBOUND", NEW sc \in Negative
  PROVE  \/ s.state = "BeingEstablished" /\ Deny(s, RerouteRequest(s, sc))
         \/ RerouteRequest(s, sc) = s
<1>1. CASE ~s.acked /\ s.state = "BeingEstablished"
  <2>1. PICK u \in Session : u = [s EXCEPT !.linked = FALSE]
    BY DEF Session
  <2>2. /\ u.dir = s.dir /\ u.state = s.state /\ u.media = s.media /\ u.disposed = s.disposed
        /\ u.resp = s.resp /\ u.sent = s.sent /\ u.acked = s.acked
    BY ONLY s \in Session, <2>1 DEF Session
  <2>3. PICK t : t = SendResponse(SetState(u, "BeingFailed"), sc)
    OBVIOUS
  <2>4. Deny(u, t) /\ t.resp = u.resp \cup {sc} /\ t.sent = sc
    BY <1>1, <2>2, <2>3, RefusalDenies DEF State, PendingState
  <2>5. RerouteRequest(s, sc) = t
    BY <1>1, <2>1, <2>2, <2>3 DEF RerouteRequest, RejectMe, IsBeingEstablished
  <2> QED BY <1>1, <2>2, <2>4, <2>5 DEF Deny
<1>2. CASE ~(~s.acked /\ s.state = "BeingEstablished")
  BY <1>2 DEF RerouteRequest, IsBeingEstablished
<1> QED BY <1>1, <1>2

\* a step of ss2 after which the caller is refused, if it still waits
LEMMA RerouteStep ==
  ASSUME IInv, EInv, OInv, UNCHANGED <<env, route, rd>>, NEW sc \in Negative, NEW b,
         Wane(ses["out"], b), ses' = Both(RerouteRequest(ses["in"], sc), b), route = "done",
         b.state # "BeingEstablished" \/ Finalized(b),
         OrderlyCall => 200 \notin ses["in"].resp
  PROVE  OInv'
<1>1. PICK a : a = RerouteRequest(ses["in"], sc)
  OBVIOUS
<1>2. a = ses["in"] \/ Deny(ses["in"], a)
  BY <1>1, SessionsTyped, RerouteDenies
<1>3. a \in Session /\ b \in Session /\ TypeOK
  BY <1>2, SessionsTyped DEF Deny, Wane, Fade, IInv
<1>4. ses'["in"] = a /\ ses'["out"] = b /\ ses' = Both(a, b)
  BY <1>1, <1>3, BothFacts
<1>5. CASE a = ses["in"]
  <2>1. Wane(ses["in"], a)
    BY <1>5, SessionsTyped, WaneRefl
  <2> QED BY <1>4, <2>1, WaneBoth DEF Routed
<1>6. CASE Deny(ses["in"], a)
  BY <1>4, <1>6, DenyStep DEF Routed
<1> QED BY <1>2, <1>5, <1>6

(***************************************************************************)
(* The steps of the timers                                                 *)
(***************************************************************************)
LEMMA TimersTell == ASSUME IInv, EInv, OInv, Timers PROVE OInv'
<1> USE SessionsTyped, LegFacts
<1>1. CASE ProbingTick
  <2>1. PICK t : t = [ses["in"] EXCEPT !.probe = "armed"]
    OBVIOUS
  <2>2. Same(ses["in"], t) /\ t.state = ses["in"].state
    BY <2>1 DEF Same, Session, TxState
  <2>3. ses' = [ses EXCEPT !["in"] = t] /\ UNCHANGED <<env, route, rd>>
    BY <1>1, <2>1 DEF ProbingTick
  <2>4. OrderlyPeers /\ route \in Routed => t.state = "BeingEstablished"
    BY <2>2, Waiting
  <2> QED BY <2>2, <2>3, <2>4, SameWane, WaneIn
<1>2. CASE ProbeTimeout
  <2>1. PICK t : t = [ses["in"] EXCEPT !.probe = "stopped"]
    OBVIOUS
  <2>2. Same(ses["in"], t) /\ t.state = ses["in"].state /\ Local(t)
    BY <2>1 DEF Same, Session, TxState, Local
  <2>3. ReleaseCall(t) /\ UNCHANGED <<env, route, rd>>
    BY <1>2, <2>1 DEF ProbeTimeout
  <2> QED BY <2>2, <2>3, ReleaseCallO
<1>3. CASE MaxCallDuration
  <2>1. PICK t : t = [ses["in"] EXCEPT !.maxDur = "stopped"]
    OBVIOUS
  <2>2. Same(ses["in"], t) /\ t.state = ses["in"].state /\ Local(t)
    BY <2>1 DEF Same, Session, TimerState, Local
  <2>3. ReleaseCall(t) /\ UNCHANGED <<env, route, rd>>
    BY <1>3, <2>1 DEF MaxCallDuration
  <2> QED BY <2>2, <2>3, ReleaseCallO
<1>4. CASE InboundINVITETimeout
  <2>1. PICK t : t = [ses["in"] EXCEPT !.timer = "nil"]
    OBVIOUS
  <2>2. Wane(ses["in"], t) /\ t \in Session
    BY <2>1 DEF Wane, Fade, Session, TimerState
  <2>3. Wane(ses["in"], TimedOut(t))
    BY <2>2, EndWane, WaneTrans
  <2>4. Wane(ses["out"], OnLinked("in", CallerTimedOut(ses["out"])))
    BY CallerTimedOutWane, OnLinkedWane
  <2>5. /\ ses' = Both(TimedOut(t), OnLinked("in", CallerTimedOut(ses["out"])))
        /\ UNCHANGED <<env, route, rd>>
    BY <1>4, <2>1 DEF InboundINVITETimeout
  <2>6. ~(OrderlyPeers /\ route \in Routed)
    BY <1>4, Waiting DEF InboundINVITETimeout
  <2> QED BY <2>3, <2>4, <2>5, <2>6, WaneBoth
<1>5. CASE OutboundINVITETimeout
  <2>1. PICK t : t = [ses["out"] EXCEPT !.timer = "nil"]
    OBVIOUS
  <2>2. Wane(ses["out"], t) /\ t \in Session
    BY <2>1 DEF Wane, Fade, Session, TimerState
  <2>3. Wane(ses["out"], TimedOut(t)) /\ TimedOut(t).state # "BeingEstablished"
    BY <2>2, EndWane, TimedOutState, WaneTrans
  <2>4. ses["out"].resp = {} /\ route = "done" /\ ses["out"].added
    BY <1>5, EndsFacts, Unsent DEF OutboundINVITETimeout, Ends, TimerOK, Quiet, OInv, Told
  <2>5. OrderlyCall => 200 \notin ses["in"].resp
    BY <2>4, Answered
  <2>6. /\ ses' = Both(RerouteRequest(ses["in"], 408), TimedOut(t))
        /\ UNCHANGED <<env, route, rd>>
    BY <1>5, <2>1 DEF OutboundINVITETimeout
  <2> QED BY <2>3, <2>4, <2>5, <2>6, RerouteStep DEF Negative
<1>6. CASE CANCELTimeout
  <2>1. PICK t : t = [ses["out"] EXCEPT !.cancel = "stopped"]
    OBVIOUS
  <2>2. Wane(ses["out"], t) /\ t \in Session
    BY <2>1 DEF Wane, Fade, Session, TxState
  <2>3. Wane(ses["out"], DropMe(FinalizeState(t)))
    BY <2>2, EndWane, WaneTrans
  <2>4. ses' = [ses EXCEPT !["out"] = DropMe(FinalizeState(t))] /\ UNCHANGED <<env, route, rd>>
    BY <1>6, <2>1 DEF CANCELTimeout
  <2> QED BY <2>3, <2>4, WaneOut DEF Wane
<1>7. ASSUME NEW l \in Leg, BYETimeout(l) PROVE OInv'
  <2>1. PICK t : t = [ses[l] EXCEPT !.bye = "stopped"]
    OBVIOUS
  <2>2. Wane(ses[l], t) /\ t \in Session
    BY <2>1 DEF Wane, Fade, Session, TxState
  <2>3. Wane(ses[l], DropMe(FinalizeState(t)))
    BY <2>2, EndWane, WaneTrans
  <2>4. ses' = [ses EXCEPT ![l] = DropMe(FinalizeState(t))] /\ UNCHANGED <<env, route, rd>>
    BY <1>7, <2>1 DEF BYETimeout
  <2>5. CASE l = "out"
    BY <2>3, <2>4, <2>5, WaneOut DEF Wane
  <2>6. CASE l = "in"
    <3>1. ~(OrderlyPeers /\ route \in Routed)
      BY <1>7, <2>6, Waiting DEF BYETimeout
    <3> QED BY <2>3, <2>4, <2>6, <3>1, WaneIn
  <2> QED BY <2>5, <2>6 DEF Leg
<1>8. CASE cancelTimerHandler
  <2>1. PICK t : t = [ses["out"] EXCEPT !.aux = "stopped"]
    OBVIOUS
  <2>2. Wane(ses["out"], t) /\ t \in Session
    BY <2>1 DEF Wane, Fade, Session, TimerState
  <2>3. PICK b : b = IF IsPending(t.state) THEN DropMe(FinalizeState(t)) ELSE t
    OBVIOUS
  <2>4. Wane(ses["out"], b)
    BY <2>2, <2>3, EndWane, WaneTrans
  <2>5. ses' = [ses EXCEPT !["out"] = b] /\ UNCHANGED <<env, route, rd>>
    BY <1>8, <2>1, <2>3 DEF cancelTimerHandler
  <2> QED BY <2>4, <2>5, WaneOut DEF Wane
<1>9. ASSUME NEW tt \in TimerType, timerHandler(tt) PROVE OInv'
  <2>1. PICK t : t = IF tt = "NoAnswer" THEN [ses["out"] EXCEPT !.noAns = "nil"]
                     ELSE [ses["out"] EXCEPT !.no18x = "nil"]
    OBVIOUS
  <2>2. Wane(ses["out"], t) /\ t \in Session /\ t.dir = "OUTBOUND"
    <3>1. CASE tt = "NoAnswer"
      BY <2>1, <3>1 DEF Wane, Fade, Session, TimerState
    <3>2. CASE tt # "NoAnswer"
      BY <2>1, <3>2 DEF Wane, Fade, Session, TimerState
    <3> QED BY <3>1, <3>2
  <2>3. Wane(ses["out"], CancelMe(t)) /\ CancelMe(t).state # "BeingEstablished"
    BY <2>2, CancelMeWane, WaneTrans
  <2>4. ses["out"].no18x = "armed" \/ ses["out"].noAns = "armed"
    BY <1>9 DEF timerHandler
  <2>5. route = "done" /\ ses["out"].added
    BY <2>4, Unsent DEF Quiet, OInv, Told
  <2>6. OrderlyCall => 200 \notin ses["in"].resp
    BY <2>4, <2>5, Answered
  <2>7. /\ ses' = Both(RerouteRequest(ses["in"], 487), CancelMe(t))
        /\ UNCHANGED <<env, route, rd>>
    BY <1>9, <2>1 DEF timerHandler
  <2> QED BY <2>3, <2>5, <2>6, <2>7, RerouteStep DEF Negative
<1>10. CASE WakeAndBYE
  <2>1. PICK s \in Session : s = [ses["out"] EXCEPT !.asleep = "no"]
    BY ZenonT(60) DEF Session
  <2>2. /\ s.dir = "OUTBOUND" /\ s.state = ses["out"].state /\ s.resp = ses["out"].resp
        /\ Wane(ses["out"], s)
    BY <2>1 DEF Wane, Fade, Session
  <2>3. 200 \in s.resp
    BY <1>10, <2>2 DEF WakeAndBYE, Local
  <2>4. Wane(s, SendBYE(SetState(s, "BeingDropped")))
    BY <2>3, ReleaseWane DEF State, PendingState
  <2>5. Wane(s, SendBYE(s))
    <3>1. SendBYE(s) = [s EXCEPT !.bye = "armed"]
      BY <2>2 DEF SendBYE
    <3> QED BY ONLY s \in Session, <3>1 DEF Wane, Fade, Session, TxState
  <2>6. PICK b : b = SendBYE(IF ses["out"].asleep = "timeoutbye" THEN SetState(s, "BeingDropped") ELSE s)
    OBVIOUS
  <2>7. Wane(ses["out"], b)
    BY <2>2, <2>4, <2>5, <2>6, WaneTrans
  <2>8. ses' = [ses EXCEPT !["out"] = b] /\ UNCHANGED <<env, route, rd>>
    BY <1>10, <2>1, <2>6 DEF WakeAndBYE
  <2> QED BY <2>7, <2>8, WaneOut DEF Wane
<1>11. CASE WakeAndDrop
  <2>1. PICK t : t = [ses["out"] EXCEPT !.dropping = FALSE]
    OBVIOUS
  <2>2. Wane(ses["out"], t) /\ t \in Session
    BY <2>1, ZenonT(60) DEF Wane, Fade, Session
  <2>3. Wane(ses["out"], DropMe(t))
    BY <2>2, DropMeWane, WaneTrans
  <2>4. ses' = [ses EXCEPT !["out"] = DropMe(t)] /\ UNCHANGED <<env, route, rd>>
    BY <1>11, <2>1 DEF WakeAndDrop
  <2> QED BY <2>3, <2>4, WaneOut DEF Wane
<1> QED
  BY <1>1, <1>2, <1>3, <1>4, <1>5, <1>6, <1>7, <1>8, <1>9, <1>10, <1>11 DEF Timers

\* a step of one session and the other
LEMMA WanePair ==
  ASSUME IInv, EInv, OInv, UNCHANGED <<env, route, rd>>, NEW l \in Leg, NEW a, NEW b,
         Wane(ses[l], a), Wane(ses[Lnk(l)], b), ses' = [ses EXCEPT ![l] = a, ![Lnk(l)] = b],
         ~(OrderlyPeers /\ route \in Routed)
  PROVE  OInv'
<1>1. TypeOK /\ a \in Session /\ b \in Session
  BY DEF Wane, Fade, IInv
<1>2. ses'[l] = a /\ ses'[Lnk(l)] = b
  BY <1>1 DEF TypeOK, Leg, Lnk
<1>3. CASE l = "in"
  BY <1>2, <1>3, LegFacts, FadeStep DEF Wane
<1>4. CASE l = "out"
  BY <1>2, <1>4, LegFacts, FadeStep DEF Wane
<1> QED BY <1>3, <1>4 DEF Leg

LEMMA WaneOne ==
  ASSUME IInv, EInv, OInv, UNCHANGED <<env, route, rd>>, NEW l \in Leg, NEW a,
         Wane(ses[l], a), ses' = [ses EXCEPT ![l] = a],
         l = "in" => ~(OrderlyPeers /\ route \in Routed)
  PROVE  OInv'
<1>1. CASE l = "in"
  BY <1>1, WaneIn
<1>2. CASE l = "out"
  BY <1>2, WaneOut DEF Wane
<1> QED BY <1>1, <1>2 DEF Leg

LEMMA EitherTell == ASSUME IInv, EInv, OInv, Either PROVE OInv'
<1> USE SessionsTyped, LegFacts
<1>1. ASSUME NEW l \in Leg, ReceiveBYE(l) PROVE OInv'
  <2>1. PICK me : me = StopPending(ses[l])
    OBVIOUS
  <2>2. Wane(ses[l], me) /\ me \in Session
    BY <2>1, StopsWane DEF Wane, Fade
  <2>3. ~(OrderlyPeers /\ route \in Routed)
    <3>1. CASE l = "in"
      BY <1>1, <3>1, Waiting DEF ReceiveBYE, ByeArrives
    <3>2. CASE l = "out"
      <4>1. ses["out"].resp # {}
        BY <1>1, <3>2 DEF ReceiveBYE, ByeArrives, Received200
      <4> QED BY <4>1, Unsent DEF Quiet, Routed
    <3> QED BY <3>1, <3>2 DEF Leg
  <2>4. UNCHANGED <<env, route, rd>>
    BY <1>1 DEF ReceiveBYE
  <2>5. CASE l = "in" /\ ses' = Both(TimedOut(me), OnLinked(l, CallerTimedOut(ses[Lnk(l)])))
    <3>1. Wane(ses["in"], TimedOut(me))
      BY <2>2, <2>5, EndWane, WaneTrans
    <3>2. Wane(ses["out"], OnLinked("in", CallerTimedOut(ses["out"])))
      BY CallerTimedOutWane, OnLinkedWane
    <3> QED BY <2>3, <2>4, <2>5, <3>1, <3>2, WaneBoth
  <2>6. CASE ses' = [ses EXCEPT
               ![l] = DropMe(SetState(me, "Cleared")),
               ![Lnk(l)] = OnLinked(l, ReleaseOrCancel(StopAllOutTransactions(ses[Lnk(l)])))]
    <3>1. PICK t : t = SetState(me, "Cleared") /\ Wane(me, t) /\ t \in Session
      BY <2>2, SetStateWane DEF Wane, Fade, State, SettledState
    <3>2. Wane(ses[l], DropMe(t))
      BY <2>2, <3>1, DropMeWane, WaneTrans
    <3>3. Lnk(l) \in Leg
      BY DEF Leg, Lnk
    <3>4. Wane(ses[Lnk(l)], ReleaseOrCancel(StopAllOutTransactions(ses[Lnk(l)])))
      BY <3>3, StopAndReleaseWane
    <3>5. Wane(ses[Lnk(l)], OnLinked(l, ReleaseOrCancel(StopAllOutTransactions(ses[Lnk(l)]))))
      BY <3>4, OnLinkedWane
    <3> QED BY <2>3, <2>4, <2>6, <3>1, <3>2, <3>5, WanePair
  <2>7. CASE ses' = [ses EXCEPT ![l] = me]
    BY <2>2, <2>3, <2>4, <2>7, WaneOne
  <2> QED BY <1>1, <2>1, <2>5, <2>6, <2>7 DEF ReceiveBYE
<1>2. ASSUME NEW l \in Leg, NEW sc \in Answers, ReceiveBYEResponse(l, sc) PROVE OInv'
  <2>1. PICK me : me = [ses[l] EXCEPT !.bye = "final"]
    OBVIOUS
  <2>2. Wane(ses[l], me) /\ me \in Session
    BY <2>1 DEF Wane, Fade, Session, TxState
  <2>3. PICK t : t = StopAllOutTransactions(me) /\ Wane(me, t) /\ t \in Session
    BY <2>2, StopsWane DEF Wane, Fade
  <2>4. Wane(ses[l], DropMe(FinalizeState(t))) /\ Wane(ses[l], DropMe(me))
    BY <2>2, <2>3, EndWane, DropMeWane, WaneTrans
  <2>5. PICK b : b = IF sc = 200 \/ (me.linked /\ sc = 486) THEN DropMe(FinalizeState(t))
                     ELSE IF me.linked THEN DropMe(me) ELSE me
    OBVIOUS
  <2>6. Wane(ses[l], b)
    BY <2>2, <2>4, <2>5
  <2>7. ses' = [ses EXCEPT ![l] = b] /\ UNCHANGED <<env, route, rd>>
    BY <1>2, <2>1, <2>3, <2>5 DEF ReceiveBYEResponse
  <2>8. l = "in" => ~(OrderlyPeers /\ route \in Routed)
    BY <1>2, Waiting DEF ReceiveBYEResponse, Unanswered
  <2> QED BY <2>6, <2>7, <2>8, WaneOne
<1>3. ASSUME NEW sc \in {200, 486}, ReceiveProbeResponse(sc) PROVE OInv'
  <2>1. PICK t : t = [ses["in"] EXCEPT !.probe = "final"]
    OBVIOUS
  <2>2. Same(ses["in"], t) /\ t.state = ses["in"].state /\ Local(t)
    BY <2>1 DEF Same, Session, TxState, Local
  <2>3. /\ ReleaseCall(t) \/ ses' = [ses EXCEPT !["in"] = t]
        /\ UNCHANGED <<env, route, rd>>
    BY <1>3, <2>1 DEF ReceiveProbeResponse
  <2>4. CASE ReleaseCall(t)
    BY <2>2, <2>3, <2>4, ReleaseCallO
  <2>5. CASE ses' = [ses EXCEPT !["in"] = t]
    <3>1. OrderlyPeers /\ route \in Routed => t.state = "BeingEstablished"
      BY <2>2, Waiting
    <3> QED BY <2>2, <2>3, <2>5, <3>1, SameWane, WaneIn, ZenonT(60)
  <2> QED BY <2>3, <2>4, <2>5
<1> QED BY <1>1, <1>2, <1>3 DEF Either

(***************************************************************************)
(* The steps of the caller                                                 *)
(***************************************************************************)
LEMMA ACKTells == ASSUME IInv, EInv, OInv, ReceiveACK PROVE OInv'
<1> USE SessionsTyped, LegFacts
<1>1. PICK tm : tm = Stop(ses["in"].timer)
  OBVIOUS
<1>2. tm \in TimerState /\ tm # "armed"
  BY <1>1, StopFacts, StopNotArmed DEF Session
<1>3. PICK t : t = [ses["in"] EXCEPT !.acked = TRUE, !.timer = tm]
  OBVIOUS
<1>4. Wane(ses["in"], t) /\ t \in Session
  BY <1>2, <1>3, ZenonT(60) DEF Wane, Fade, Session
<1>5. PICK in : in = FinalizeState(t) /\ Wane(ses["in"], in) /\ in \in Session
  BY <1>4, FinalizeStateWane, WaneTrans DEF Wane, Fade
<1>6. ~(OrderlyPeers /\ route \in Routed) /\ UNCHANGED <<env, route, rd>>
  BY Waiting DEF ReceiveACK
<1>7. PICK a : a = [in EXCEPT !.maxDur = IF rd.maxDur THEN "armed" ELSE in.maxDur]
  OBVIOUS
<1>8. Wane(ses["in"], a)
  <2>1. PICK m \in TimerState : m = IF rd.maxDur THEN "armed" ELSE in.maxDur
    BY <1>5 DEF Session, TimerState
  <2>2. a = [in EXCEPT !.maxDur = m]
    BY <1>7, <2>1
  <2>3. Wane(in, a)
    <3>1. in \in Session
      BY <1>5
    <3> QED BY ONLY <3>1, m \in TimerState, <2>2 DEF Wane, Fade, Session
  <2> QED BY <1>5, <2>3, WaneTrans
<1>9. PICK b : b = IF in.linked /\ ~ses["out"].transform
                   THEN SendACK(FinalizeState(ses["out"])) ELSE ses["out"]
  OBVIOUS
<1>10. Wane(ses["out"], b)
  <2>1. PICK u : u = FinalizeState(ses["out"]) /\ Wane(ses["out"], u) /\ u \in Session
    BY FinalizeStateWane DEF Wane, Fade
  <2>2. Wane(ses["out"], SendACK(u))
    BY <2>1, SmallWane, WaneTrans
  <2> QED BY <1>9, <2>1, <2>2, WaneRefl
<1>11. Wane(ses["in"], DropMe(in))
  BY <1>5, DropMeWane, WaneTrans
<1>12. ses' = Both(a, b) \/ ses' = [ses EXCEPT !["in"] = DropMe(in)]
  BY <1>1, <1>3, <1>5, <1>7, <1>9 DEF ReceiveACK
<1> QED BY <1>6, <1>8, <1>10, <1>11, <1>12, WaneBoth, WaneIn

LEMMA CANCELTells == ASSUME IInv, EInv, OInv, ReceiveCANCEL PROVE OInv'
<1> USE SessionsTyped, LegFacts
<1>1. PICK in : in = SetState(ses["in"], "BeingCancelled")
  OBVIOUS
<1>2. /\ Deny(ses["in"], in) /\ Deny(ses["in"], SendResponse(in, 487))
      /\ in.linked = ses["in"].linked
  <2>1. in.linked = ses["in"].linked
    BY <1>1 DEF SetState, Session
  <2> QED BY <1>1, <2>1, RefusalDenies DEF Negative, State, PendingState
<1>3. PICK a : a = IF in.linked /\ IsEstablished(ses["out"]) THEN in ELSE SendResponse(in, 487)
  OBVIOUS
<1>4. Deny(ses["in"], a)
  BY <1>2, <1>3
<1>5. PICK b : b = OnLinked("in", ReleaseOrCancel(StopAllOutTransactions(ses["out"])))
  OBVIOUS
<1>6. /\ Wane(ses["out"], b)
      /\ ses["in"].linked => b.state # "BeingEstablished"
  BY <1>5, StopAndReleaseWane, OnLinkedWane DEF OnLinked
<1>7. ses' = Both(a, b) /\ UNCHANGED <<env, route, rd>>
  BY <1>1, <1>3, <1>5 DEF ReceiveCANCEL
<1>8. OrderlyPeers => route \in {"done", "echoWait"} /\ ~Finalized(ses["in"])
  BY DEF ReceiveCANCEL, CancelArrives, OrderlyPeers
<1>9. OrderlyPeers => /\ 200 \notin ses["in"].resp /\ route \notin Routed
                      /\ ses["out"].added => ses["in"].linked
  BY <1>8 DEF Finalized, Final, Routed, OInv, Told
<1>10. ses'["in"] = a /\ ses'["out"] = b
  <2>1. a \in Session /\ b \in Session /\ TypeOK
    BY <1>4, <1>6 DEF Deny, Wane, Fade, IInv
  <2> QED BY <1>7, <2>1, BothFacts
<1>11. b.added = ses["out"].added
  BY <1>6 DEF Wane, Fade
<1>12. OrderlyCall => OrderlyPeers
  BY DEF OrderlyCall
<1> QED BY <1>4, <1>6, <1>7, <1>9, <1>10, <1>11, <1>12, DenyStep

LEMMA CallerLearnsTells == ASSUME OInv, UNCHANGED <<env, ses, route, rd>> PROVE OInv'
  BY DEF OInv, Told, Held, Ordered, Settled, OneFinalResponse, RetransmitsFinal,
         OrderlyCall, OrderlyPeers, Finalized, Received200

(***************************************************************************)
(* Steps that answer the caller, and the steps of the callee               *)
(***************************************************************************)
LEMMA TellStep ==
  ASSUME IInv, EInv, OInv, UNCHANGED <<env, route, rd>>, NEW sc \in {180, 183, 200}, NEW b,
         Wane(ses["out"], b), ses' = Both(SendResponse(ses["in"], sc), b), route = "done",
         OrderlyCall => \/ sc # 200 /\ ~Finalized(ses["in"])
                        \/ /\ sc = 200 /\ ses["in"].resp \cap Negative = {}
                           /\ b.no18x # "armed" /\ b.noAns # "armed"
  PROVE  OInv'
<1>1. (OrderlyPeers' <=> OrderlyPeers) /\ (OrderlyCall' <=> OrderlyCall)
  BY DEF OrderlyPeers, OrderlyCall
<1>2. PICK s : s = ses["in"] /\ s \in Session
  BY SessionsTyped
<1>3. PICK t : t = ses["out"]
  OBVIOUS
<1>4. PICK a : a = SendResponse(s, sc)
  OBVIOUS
<1>5. sc \in Code /\ sc \notin Negative
  BY DEF Code, Provisional, Final, Negative
<1>6. /\ a \in Session /\ a.state = s.state /\ a.linked = s.linked /\ a.added = s.added
      /\ a.media = s.media /\ a.disposed = s.disposed
      /\ \/ s.acked /\ a = s
         \/ /\ ~s.acked /\ a.resp = s.resp \cup {sc} /\ a.sent = sc
            /\ a.timer = "armed" => s.timer = "armed" \/ sc \in Final \/ Finalized(s)
  BY <1>2, <1>4, <1>5, SendFacts
<1>7. ses'["in"] = a /\ ses'["out"] = b
  <2>1. b \in Session /\ TypeOK
    BY DEF Wane, Fade, IInv
  <2> QED BY <1>2, <1>4, <1>6, <2>1, BothFacts
<1>8. /\ a.resp \cap Negative = s.resp \cap Negative /\ s.resp \subseteq a.resp
      /\ 200 \in a.resp => 200 \in s.resp \/ sc = 200
      /\ a.timer = "armed" => s.timer = "armed" \/ a.resp \cap Final # {}
      /\ a.timer = "armed" /\ sc # 200 => s.timer = "armed" \/ Finalized(s)
      /\ a.sent = s.sent \/ a.sent = sc
  BY <1>5, <1>6 DEF Final, Finalized
<1>9. /\ b.added = t.added /\ (b.media => t.media) /\ (b.disposed => t.disposed \/ ~b.media)
      /\ t.resp \subseteq b.resp
      /\ b.state = "BeingEstablished" => t.state = "BeingEstablished"
      /\ b.timer = "armed" => t.timer = "armed"
      /\ b.no18x = "armed" => t.no18x = "armed"
      /\ b.noAns = "armed" => t.noAns = "armed"
  BY <1>3 DEF Wane, Fade
<1>10. Told'
  <2>1. a.timer = "armed" => a.resp \cap Final # {}
    BY <1>2, <1>8 DEF OInv, Told, Finalized
  <2>2. b.added => a.linked \/ a.resp \cap Negative # {}
    BY <1>2, <1>3, <1>6, <1>8, <1>9 DEF OInv, Told
  <2>3. ~b.added => b.timer # "armed" /\ b.no18x # "armed" /\ b.noAns # "armed"
    BY <1>3, <1>9 DEF OInv, Told
  <2>4. route = "echoWait" => rd.flow # "TransformEarlyToFinal"
    BY DEF OInv, Told
  <2> QED BY <1>7, <2>1, <2>2, <2>3, <2>4 DEF Told, Finalized
<1>11. Held'
  BY <1>3, <1>7, <1>9 DEF OInv, Held
<1>12. Ordered'
  <2>1. t.resp \cap Final # {} => b.resp \cap Final # {}
    BY <1>9
  <2> QED BY <1>1, <1>2, <1>3, <1>6, <1>7, <1>8, <1>9, <2>1 DEF OInv, Ordered, Finalized, Routed
<1>13. Settled'
  BY <1>1, <1>2, <1>3, <1>7, <1>8, <1>9 DEF OInv, Settled
<1>14. OneFinalResponse'
  <2>1. OrderlyCall => ~(200 \in a.resp /\ a.resp \cap Negative # {})
    BY <1>2, <1>8 DEF OInv, OneFinalResponse, Received200
  <2> QED BY <1>1, <1>7, <2>1 DEF OneFinalResponse, Received200
<1>15. RetransmitsFinal'
  <2>1. OrderlyCall /\ a.timer = "armed" => a.sent \in Final
    <3>1. ASSUME OrderlyCall, a.timer = "armed" PROVE a.sent \in Final
      <4>1. CASE sc = 200
        <5>1. CASE a = s
          BY <1>2, <3>1, <5>1 DEF OInv, RetransmitsFinal
        <5>2. CASE a.sent = sc
          BY <4>1, <5>2 DEF Final
        <5> QED BY <1>6, <5>1, <5>2
      <4>2. CASE sc # 200
        <5>1. ~Finalized(s) /\ s.timer # "armed"
          BY <1>2, <3>1, <4>2 DEF OInv, Told
        <5> QED BY <1>8, <3>1, <4>2, <5>1
      <4> QED BY <4>1, <4>2
    <3> QED BY <3>1
  <2> QED BY <1>1, <1>7, <2>1 DEF RetransmitsFinal
<1> QED BY <1>10, <1>11, <1>12, <1>13, <1>14, <1>15 DEF OInv

LEMMA SentOut ==
  ASSUME IInv, Stored(ses["out"])
  PROVE  route = "done" /\ ses["out"].added
  BY Unsent DEF Stored, Quiet

LEMMA Receive100Tells == ASSUME IInv, EInv, OInv, Receive100 PROVE OInv'
<1> USE SessionsTyped, LegFacts
<1>1. PICK s : s = ses["out"]
  OBVIOUS
<1>2. PICK t : t = AddResponse(s, 100) /\ Wane(s, t) /\ t \in Session /\ t.state = s.state
  BY <1>1, AddResponseWane DEF Wane, Fade, Code, Provisional
<1>3. Fade(s, StartTimer(t))
  <2>1. PICK x, y : /\ x = IF t.no18x = "nil" /\ rd.no18x THEN "armed" ELSE t.no18x
                    /\ y = IF t.noAns = "nil" /\ rd.noAns THEN "armed" ELSE t.noAns
    OBVIOUS
  <2>2. x \in TimerState /\ y \in TimerState
    BY <1>2, <2>1 DEF Session, TimerState
  <2>3. StartTimer(t) = [t EXCEPT !.no18x = x, !.noAns = y]
    BY <2>1 DEF StartTimer
  <2>4. Fade(t, StartTimer(t))
    <3>1. t \in Session
      BY <1>2
    <3>2. StartTimer(t) \in Session
      BY ONLY <2>2, <2>3, <3>1, ZenonT(60) DEF Session
    <3> QED BY ONLY <2>3, <3>1, <3>2 DEF Fade, Session
  <2> QED BY <1>2, <2>4 DEF Wane, Fade
<1>4. PICK b : b = IF IsBeingEstablished(t) THEN StartTimer(t) ELSE t
  OBVIOUS
<1>5. ses' = [ses EXCEPT !["out"] = b] /\ UNCHANGED <<env, route, rd>>
  BY <1>1, <1>2, <1>4 DEF Receive100
<1>6. OrderlyCall => 200 \notin ses["in"].resp
  <2>1. ses["out"].added
    BY SentOut DEF Receive100
  <2>2. OrderlyCall => ses["out"].resp \subseteq {100}
    BY DEF Receive100, OrderlyCall, OrderlyPeers
  <2> QED BY <2>1, <2>2, Answered
<1>7. Fade(s, b) /\ b.added
  <2>1. s.added
    BY <1>1, SentOut DEF Receive100
  <2>2. Fade(s, b)
    BY <1>2, <1>3, <1>4 DEF Wane
  <2> QED BY <2>1, <2>2 DEF Fade
<1> QED BY <1>1, <1>5, <1>6, <1>7, WaneOut

LEMMA RingingTells == ASSUME IInv, EInv, OInv, NEW sc \in {180, 183}, Receive18x(sc) PROVE OInv'
<1> USE SessionsTyped, LegFacts
<1>1. PICK s : s = ses["out"]
  OBVIOUS
<1>2. PICK t : t = AddResponse(s, sc) /\ Wane(s, t) /\ t \in Session /\ t.state = s.state
  BY <1>1, AddResponseWane DEF Wane, Fade, Code, Provisional
<1>3. PICK n \in TimerState : n = Stop(t.no18x) /\ n # "armed"
  BY <1>2, StopFacts, StopNotArmed DEF Session
<1>4. PICK now : now = [t EXCEPT !.no18x = n]
  OBVIOUS
<1>5. Wane(t, now) /\ now \in Session
  BY ONLY <1>2, <1>3, <1>4 DEF Wane, Fade, Session
<1>6. UNCHANGED <<env, route, rd>> /\ route = "done" /\ s.added
  BY <1>1, SentOut DEF Receive18x
<1>7. CASE ses' = [ses EXCEPT !["out"] = t]
  BY <1>1, <1>2, <1>6, <1>7, WaneOut DEF Wane
<1>8. CASE t.transform /\ ses' = Both(IF t.sdp18x THEN ses["in"]
                                      ELSE SendResponse(ses["in"], IF sc = 183 THEN 200 ELSE sc),
                                      [now EXCEPT !.sdp18x = now.sdp18x \/ sc = 183])
  <2>1. s.transform
    <3>1. PICK tm, x : /\ tm = Stop(s.timer)
                       /\ x = IF sc \in Final \/ Finalized(s) THEN Stop(s.aux) ELSE s.aux
      OBVIOUS
    <3>2. t = [s EXCEPT !.resp = s.resp \cup {sc}, !.timer = tm, !.aux = x]
      BY <1>2, <3>1 DEF AddResponse
    <3> QED BY <1>1, <1>8, <3>2 DEF Session
  <2>2. ~OrderlyCall
    BY <1>1, <2>1 DEF IInv, Cross, OrderlyCall
  <2>3. PICK d \in BOOLEAN : d = (now.sdp18x \/ sc = 183)
    BY <1>5 DEF Session
  <2>4. PICK b : b = [now EXCEPT !.sdp18x = d]
    OBVIOUS
  <2>5. Wane(now, b)
    <3>1. now \in Session
      BY <1>5
    <3> QED BY ONLY <3>1, d \in BOOLEAN, <2>4 DEF Wane, Fade, Session
  <2>6. Wane(ses["out"], b)
    BY <1>1, <1>2, <1>5, <2>5, WaneTrans
  <2>7. PICK c \in {180, 183, 200} : c = IF sc = 183 THEN 200 ELSE sc
    OBVIOUS
  <2>8. ses' = Both(ses["in"], b) \/ ses' = Both(SendResponse(ses["in"], c), b)
    BY <1>8, <2>3, <2>4, <2>7
  <2>9. Wane(ses["in"], ses["in"])
    BY WaneRefl
  <2> QED BY <1>6, <2>2, <2>6, <2>8, <2>9, WaneBoth, TellStep DEF Routed
<1>9. CASE ses' = Both(IF IsBeingEstablished(ses["in"]) THEN SendResponse(ses["in"], sc)
                       ELSE ses["in"], now)
  <2>1. Wane(ses["out"], now) /\ Wane(ses["in"], ses["in"])
    BY <1>1, <1>2, <1>5, WaneTrans, WaneRefl
  <2>2. CASE ~IsBeingEstablished(ses["in"])
    BY <1>6, <1>9, <2>1, <2>2, WaneBoth DEF Routed
  <2>3. CASE IsBeingEstablished(ses["in"])
    <3>1. OrderlyCall => ~Finalized(ses["out"])
      BY DEF Receive18x, OrderlyCall, OrderlyPeers
    <3>2. ses["in"].resp \cap Negative = {}
      BY <2>3 DEF Local, IsBeingEstablished
    <3>3. OrderlyCall => ~Finalized(ses["in"])
      BY <1>1, <1>6, <3>1, <3>2, Answered DEF Finalized, Final
    <3> QED BY <1>6, <1>9, <2>1, <2>3, <3>3, TellStep
  <2> QED BY <2>2, <2>3
<1> QED BY <1>1, <1>2, <1>3, <1>4, <1>7, <1>8, <1>9 DEF Receive18x

LEMMA AnswerTells == ASSUME IInv, EInv, OInv, Receive2xx PROVE OInv'
<1> USE SessionsTyped, LegFacts
<1>1. PICK s : s = ses["out"]
  OBVIOUS
<1>2. PICK t : t = AddResponse(s, 200) /\ Wane(s, t) /\ t \in Session /\ t.state = s.state
  BY <1>1, AddResponseWane DEF Wane, Fade, Code, Final
<1>3. PICK u \in Session : /\ u = StopNoTimers(t) /\ Wane(t, u)
                           /\ u.no18x # "armed" /\ u.noAns # "armed"
  BY <1>2, StopsWane DEF Wane, Fade
<1>4. PICK now \in Session : now = [u EXCEPT !.transform = FALSE]
  BY TransformOffType
<1>5. Wane(u, now) /\ now.no18x = u.no18x /\ now.noAns = u.noAns
  BY ONLY u \in Session, now \in Session, <1>4, ZenonT(60) DEF Wane, Fade, Session
<1>6. Wane(s, now)
  BY <1>2, <1>3, <1>5, WaneTrans
<1>7. UNCHANGED <<env, route, rd>> /\ route = "done" /\ s.added /\ ~Finalized(s)
  BY <1>1, SentOut DEF Receive2xx
<1>8. CASE ses' = [ses EXCEPT !["out"] =
             [SendACK(StopAllOutTransactions(t)) EXCEPT !.asleep = "ackbye"]]
  <2>1. PICK v \in Session : v = StopAllOutTransactions(t) /\ Wane(t, v)
    BY <1>2, StopsWane DEF Wane, Fade
  <2>2. PICK w \in Session : w = SendACK(v) /\ Wane(v, w)
    BY <2>1, SmallWane DEF Wane, Fade
  <2>3. PICK b : b = [w EXCEPT !.asleep = "ackbye"]
    OBVIOUS
  <2>4. Wane(w, b)
    BY ONLY w \in Session, <2>3 DEF Wane, Fade, Session
  <2>5. Wane(ses["out"], b)
    BY <1>1, <1>2, <2>1, <2>2, <2>4, WaneTrans
  <2> QED BY <1>7, <1>8, <2>1, <2>2, <2>3, <2>5, WaneOut DEF Wane
<1>9. CASE ses' = [ses EXCEPT !["out"] = SendACK(FinalizeState(now))]
  <2>1. PICK v \in Session : v = FinalizeState(now) /\ Wane(now, v)
    BY FinalizeStateWane DEF Wane, Fade
  <2>2. Wane(ses["out"], SendACK(v))
    BY <1>1, <1>6, <2>1, SmallWane, WaneTrans
  <2> QED BY <1>7, <1>9, <2>1, <2>2, WaneOut DEF Wane
<1>10. CASE s.state = "BeingEstablished" /\ ses' = Both(SendResponse(ses["in"], 200), now)
  <2>1. OrderlyCall => ses["in"].resp \cap Negative = {}
    BY <1>1, <1>7, <1>10 DEF OInv, Ordered, OrderlyCall
  <2>2. now.no18x # "armed" /\ now.noAns # "armed"
    BY <1>3, <1>5
  <2> QED BY <1>1, <1>6, <1>7, <1>10, <2>1, <2>2, TellStep
<1> QED BY <1>1, <1>2, <1>3, <1>4, <1>8, <1>9, <1>10 DEF Receive2xx, IsBeingEstablished

\* what ss2 becomes when the callee refuses, and why the caller can be refused
LEMMA RefusedOut ==
  ASSUME IInv, OInv, Stored(ses["out"]), ~Finalized(ses["out"]), NEW sc \in Negative
  PROVE  LET t == AddResponse(ses["out"], sc)
         IN  /\ Wane(ses["out"], t) /\ t \in Session /\ t.state = ses["out"].state
             /\ t.transform = ses["out"].transform
             /\ \A b : Wane(t, b) => Finalized(b)
             /\ route = "done"
             /\ OrderlyCall => 200 \notin ses["in"].resp
<1> USE SessionsTyped
<1>1. PICK s : s = ses["out"]
  OBVIOUS
<1>2. PICK t : t = AddResponse(s, sc)
  OBVIOUS
<1>3. Wane(s, t) /\ t \in Session /\ t.state = s.state /\ t.resp = s.resp \cup {sc}
  BY <1>1, <1>2, AddResponseWane DEF Wane, Fade, Code, Final
<1>4. t.transform = s.transform
  <2>1. PICK tm, x : /\ tm = Stop(s.timer)
                     /\ x = IF sc \in Final \/ Finalized(s) THEN Stop(s.aux) ELSE s.aux
    OBVIOUS
  <2>2. t = [s EXCEPT !.resp = s.resp \cup {sc}, !.timer = tm, !.aux = x]
    BY <1>2, <2>1 DEF AddResponse
  <2> QED BY <1>1, <2>2 DEF Session
<1>5. \A b : Wane(t, b) => Finalized(b)
  BY <1>3 DEF Wane, Fade, Finalized, Final
<1>6. route = "done" /\ (OrderlyCall => 200 \notin ses["in"].resp)
  BY SentOut, Answered
<1> QED BY <1>1, <1>2, <1>3, <1>4, <1>5, <1>6

LEMMA RedirectTells == ASSUME IInv, EInv, OInv, Receive3xx PROVE OInv'
<1>1. 302 \in Negative /\ Stored(ses["out"]) /\ ~Finalized(ses["out"])
  BY DEF Negative, Receive3xx
<1>2. PICK t : /\ t = AddResponse(ses["out"], 302) /\ Wane(ses["out"], t) /\ t \in Session
               /\ \A b : Wane(t, b) => Finalized(b)
  BY <1>1, RefusedOut
<1>3. route = "done" /\ (OrderlyCall => 200 \notin ses["in"].resp)
  BY <1>1, RefusedOut
<1>4. PICK u \in Session : u = StopNoTimers(t) /\ Wane(t, u)
  BY <1>2, StopsWane DEF Wane, Fade
<1>5. PICK b : b = Ack3xxTo6xx(u, "Redirected") /\ Wane(u, b)
  BY AckWane DEF State, SettledState
<1>6. Wane(ses["out"], b) /\ Finalized(b)
  BY <1>2, <1>4, <1>5, WaneTrans
<1>7. ses' = Both(RerouteRequest(ses["in"], 302), b) /\ UNCHANGED <<env, route, rd>>
  BY <1>2, <1>4, <1>5 DEF Receive3xx
<1> QED BY <1>1, <1>3, <1>6, <1>7, RerouteStep

LEMMA RejectionTells ==
  ASSUME IInv, EInv, OInv, NEW sc \in {486, 487}, Receive4xx(sc)
  PROVE  OInv'
<1> USE SessionsTyped, LegFacts
<1>1. sc \in Negative /\ Stored(ses["out"]) /\ ~Finalized(ses["out"])
  BY DEF Negative, Receive4xx
<1>2. PICK t : /\ t = AddResponse(ses["out"], sc) /\ Wane(ses["out"], t) /\ t \in Session
               /\ t.transform = ses["out"].transform
               /\ \A b : Wane(t, b) => Finalized(b)
  BY <1>1, RefusedOut
<1>3. /\ route = "done" /\ (OrderlyCall => 200 \notin ses["in"].resp)
      /\ UNCHANGED <<env, route, rd>>
  BY <1>1, RefusedOut DEF Receive4xx
<1>4. PICK u \in Session : u = StopNoTimers(t) /\ Wane(t, u)
  BY <1>2, StopsWane DEF Wane, Fade
<1>5. PICK v \in Session : v = Ack3xxTo6xx(u, "Rejected") /\ Wane(u, v)
  BY AckWane, SMTT(30) DEF State, SettledState, Wane, Fade
<1>6. PICK now \in Session : now = [v EXCEPT !.transform = FALSE]
  BY TransformOffType, ZenonT(60)
<1>7. Wane(v, now)
  BY ONLY v \in Session, now \in Session, <1>6 DEF Wane, Fade, Session
<1>8. Wane(ses["out"], now) /\ Finalized(now)
  BY <1>2, <1>4, <1>5, <1>7, WaneTrans
<1>9. CASE ses' = Both(RerouteRequest(ses["in"], sc), now)
  BY <1>1, <1>3, <1>8, <1>9, RerouteStep
<1>10. CASE t.transform /\ ses' = Both(ReleaseOrReject(ses["in"], sc), now)
  <2>1. ~OrderlyCall
    BY <1>2, <1>10 DEF IInv, Cross, OrderlyCall
  <2>2. PICK a : a = ReleaseOrReject(ses["in"], sc)
    OBVIOUS
  <2>3. Wane(ses["in"], a) \/ Deny(ses["in"], a)
    <3>1. Wane(ses["in"], ReleaseMe(ses["in"])) /\ Wane(ses["in"], ses["in"])
      BY ReleasesWane, WaneRefl
    <3>2. RejectMe(ses["in"], sc) = ses["in"] \/ Deny(ses["in"], RejectMe(ses["in"], sc))
      BY <1>1, RejectDenies
    <3> QED BY <2>2, <3>1, <3>2 DEF ReleaseOrReject
  <2>4. CASE Wane(ses["in"], a)
    BY <1>3, <1>8, <1>10, <2>2, <2>4, WaneBoth DEF Routed
  <2>5. CASE Deny(ses["in"], a)
    <3>1. ses'["in"] = a /\ ses'["out"] = now
      <4>1. a \in Session /\ TypeOK
        BY <2>5 DEF Deny, IInv
      <4> QED BY <1>10, <2>2, <4>1, BothFacts
    <3> QED BY <1>3, <1>8, <2>1, <2>5, <3>1, DenyStep DEF Routed
  <2> QED BY <2>3, <2>4, <2>5
<1>11. CASE ses' = [ses EXCEPT !["out"] = IF t.state = "BeingCancelled"
                                          THEN Ack3xxTo6xxFinalize(t) ELSE t]
  <2>1. PICK b : b = IF t.state = "BeingCancelled" THEN Ack3xxTo6xxFinalize(t) ELSE t
    OBVIOUS
  <2>2. "Rejected" \in State
    BY DEF State, SettledState
  <2>3. Wane(ses["out"], b)
    BY <1>2, <2>1, <2>2, AckWane, WaneTrans
  <2>4. Fade(ses["out"], b)
    BY <2>3 DEF Wane
  <2>5. ses' = [ses EXCEPT !["out"] = b]
    BY <1>11, <2>1
  <2> QED BY <1>3, <2>3, <2>4, <2>5, WaneOut
<1>12. \/ t.transform /\ ses' = Both(ReleaseOrReject(ses["in"], sc), now)
       \/ ses' = Both(RerouteRequest(ses["in"], sc), now)
       \/ ses' = [ses EXCEPT !["out"] = IF t.state = "BeingCancelled"
                                        THEN Ack3xxTo6xxFinalize(t) ELSE t]
  BY <1>2, <1>4, <1>5, <1>6 DEF Receive4xx
<1> QED BY <1>9, <1>10, <1>11, <1>12

LEMMA CalleeTells == ASSUME IInv, EInv, OInv, Callee PROVE OInv'
<1>1. ASSUME NEW sc \in Answers, ReceiveCANCELResponse(sc) PROVE OInv'
  <2>1. PICK x : x = IF ses["out"].aux = "nil" /\ ~Finalized(ses["out"]) THEN "armed" ELSE ses["out"].aux
    OBVIOUS
  <2>2. x \in TimerState /\ ses["out"] \in Session
    BY <2>1, SessionsTyped DEF Session, TimerState
  <2>3. PICK t : t = [ses["out"] EXCEPT !.cancel = "final", !.aux = x]
    OBVIOUS
  <2>4. Wane(ses["out"], t) /\ t \in Session
    BY ONLY <2>2, <2>3, ZenonT(60) DEF Wane, Fade, Session, TxState
  <2>5. PICK b : b = IF sc = 302 THEN DropMe(t) ELSE t
    OBVIOUS
  <2>6. Wane(ses["out"], b)
    BY <2>4, <2>5, DropMeWane, WaneTrans
  <2>7. ses' = [ses EXCEPT !["out"] = b] /\ UNCHANGED <<env, route, rd>>
    BY <1>1, <2>1, <2>3, <2>5 DEF ReceiveCANCELResponse
  <2> QED BY <2>6, <2>7, WaneOut DEF Wane
<1> QED BY <1>1, Receive100Tells, RingingTells, AnswerTells, RedirectTells, RejectionTells DEF Callee

(***************************************************************************)
(* The steps of routing.  They are taken while no call was answered and    *)
(* ss2 was not sent, so most of the invariant is about the new sessions.   *)
(***************************************************************************)
LEMMA RouteTells ==
  ASSUME UNCHANGED env, NEW a, NEW b, ses'["in"] = a, ses'["out"] = b, b.resp = {},
         a.timer = "armed" => a.resp \cap Final # {},
         \/ 200 \notin a.resp
         \/ a.resp \cap Negative = {} /\ ~b.added,
         b.added \/ route' \in {"linked", "checked"} => a.linked \/ a.resp \cap Negative # {},
         ~b.added => b.timer # "armed" /\ b.no18x # "armed" /\ b.noAns # "armed",
         route' \in {"idle", "routing", "echoWait"} => ~b.media,
         b.disposed => ~b.media,
         route' = "echoWait" => rd'.flow # "TransformEarlyToFinal",
         OrderlyPeers => /\ a.timer = "armed" => a.sent \in Final
                         /\ route' \in Routed => a.state = "BeingEstablished"
                         /\ a.disposed => ~a.media
                         /\ route' = "done" /\ ~b.added => ~b.media
                         /\ b.added => a.resp \cap Negative = {}
  PROVE  OInv'
<1>1. (OrderlyPeers' <=> OrderlyPeers) /\ (OrderlyCall' => OrderlyPeers)
  BY DEF OrderlyPeers, OrderlyCall
<1>2. Told'
  BY DEF Told, Finalized
<1>3. Held'
  BY DEF Held
<1>4. Ordered'
  BY <1>1 DEF Ordered
<1>5. Settled'
  BY DEF Settled
<1>6. OneFinalResponse'
  BY DEF OneFinalResponse, Received200
<1>7. RetransmitsFinal'
  BY <1>1 DEF RetransmitsFinal
<1> QED BY <1>2, <1>3, <1>4, <1>5, <1>6, <1>7 DEF OInv

\* both sessions while the call is being routed
LEMMA RoutedFacts ==
  ASSUME IInv, EInv, OInv, route # "done"
  PROVE  /\ ses["out"].resp = {} /\ ~ses["out"].added /\ ~ses["out"].disposed
         /\ ses["out"].timer # "armed" /\ ses["out"].no18x # "armed" /\ ses["out"].noAns # "armed"
         /\ 200 \notin ses["in"].resp
         /\ ses["in"].timer = "armed" => ses["in"].resp \cap Negative # {}
         /\ route \in {"idle", "routing", "echoWait"} => ~ses["out"].media
<1>1. 200 \notin ses["in"].resp /\ Quiet(ses["out"]) /\ ~ses["out"].disposed
  BY DEF IInv, Cross, EInv, EndsCross
<1>2. ses["in"].timer = "armed" => ses["in"].resp \cap Negative # {}
  BY <1>1 DEF OInv, Told, Finalized, Final
<1> QED BY <1>1, <1>2 DEF Quiet, OInv, Held

\* a caller that is rejected, or was ended before
LEMMA RejectTold ==
  ASSUME NEW s \in Session, s.dir = "INBOUND", NEW sc \in Negative, 200 \notin s.resp,
         s.timer = "armed" => s.resp \cap Negative # {}
  PROVE  LET t == RejectMe(s, sc)
         IN  /\ t \in Session /\ 200 \notin t.resp /\ t.media = s.media /\ t.disposed = s.disposed
             /\ t.timer = "armed" => t.resp \cap Final # {}
             /\ t.timer = "armed" /\ s.timer # "armed" => t.sent \in Final
<1>1. PICK t : t = RejectMe(s, sc)
  OBVIOUS
<1>2. CASE t = s
  BY <1>1, <1>2 DEF Final
<1>3. CASE Deny(s, t)
  <2>1. CASE t.resp = s.resp /\ (t.timer = "armed" => s.timer = "armed")
    BY <1>1, <1>3, <2>1 DEF Deny, Final
  <2>2. CASE \E c \in Negative : t.resp = s.resp \cup {c} /\ t.sent = c
    <3>1. PICK c \in Negative : t.resp = s.resp \cup {c} /\ t.sent = c
      BY <2>2
    <3>2. c # 200 /\ c \in Final
      BY DEF Negative, Final
    <3> QED BY <1>1, <1>3, <3>1, <3>2 DEF Deny
  <2> QED BY <1>3, <2>1, <2>2 DEF Deny
<1> QED BY <1>1, <1>2, <1>3, RejectDenies

LEMMA RouteStepTells == ASSUME IInv, EInv, OInv, RouteStep PROVE OInv'
<1> USE SessionsTyped, LegFacts
<1>1. CASE RouteReject
  <2>1. PICK p \in BOOLEAN : ses' = [ses EXCEPT !["in"] = RejectMe([ses["in"] EXCEPT !.media = p], 503)]
    BY <1>1, ZenonT(60) DEF RouteReject
  <2>2. PICK s \in Session : s = [ses["in"] EXCEPT !.media = p]
    BY ZenonT(60) DEF Session
  <2>3. /\ s.dir = "INBOUND" /\ s.resp = ses["in"].resp /\ s.timer = ses["in"].timer
        /\ s.disposed = ses["in"].disposed
    BY <2>2 DEF Session
  <2>4. route = "routing" /\ route' = "done" /\ UNCHANGED env
    BY <1>1 DEF RouteReject
  <2>5. PICK a : a = RejectMe(s, 503)
    OBVIOUS
  <2>6. /\ a \in Session /\ 200 \notin a.resp /\ a.disposed = s.disposed
        /\ a.timer = "armed" => a.resp \cap Final # {}
        /\ a.timer = "armed" /\ s.timer # "armed" => a.sent \in Final
    BY <2>3, <2>4, <2>5, RoutedFacts, RejectTold DEF Negative
  <2>7. ses'["in"] = a /\ ses'["out"] = ses["out"]
    <3>1. ses' = [ses EXCEPT !["in"] = a]
      BY <2>1, <2>2, <2>5
    <3> QED BY <2>6, <3>1, OneFacts DEF IInv
  <2>8. OrderlyPeers => s.timer # "armed" /\ ~a.disposed
    BY <2>3, <2>4, <2>6, Waiting DEF Routed
  <2> QED BY <2>4, <2>6, <2>7, <2>8, RoutedFacts, RouteTells DEF Routed
<1>2. ASSUME NEW r \in RoutingRecords, RouteEcho(r) PROVE OInv'
  <2>1. PICK s \in Session : s = [ses["in"] EXCEPT !.media = TRUE]
    BY DEF Session
  <2>2. /\ s.resp = ses["in"].resp /\ s.timer = ses["in"].timer
        /\ s.disposed = ses["in"].disposed
    BY <2>1 DEF Session
  <2>3. /\ route = "routing" /\ route' = "echoWait" /\ UNCHANGED env
        /\ rd'.flow # "TransformEarlyToFinal"
    BY <1>2 DEF RouteEcho
  <2>4. PICK a : a = SendResponse(s, 180)
    OBVIOUS
  <2>5. 180 \in Code /\ 180 \notin Final
    BY DEF Code, Provisional, Final, Negative
  <2>6. /\ a \in Session /\ a.disposed = s.disposed
        /\ \/ a = s
           \/ /\ a.resp = s.resp \cup {180}
              /\ a.timer = "armed" => s.timer = "armed" \/ Finalized(s)
    BY <2>4, <2>5, SendFacts
  <2>7. 200 \notin a.resp /\ (a.timer = "armed" => a.resp \cap Final # {})
    <3>1. 200 \notin s.resp /\ (s.timer = "armed" => s.resp \cap Final # {})
      BY <2>2, <2>3, RoutedFacts DEF Final
    <3> QED BY <2>6, <3>1 DEF Finalized
  <2>8. ses'["in"] = a /\ ses'["out"] = ses["out"]
    <3>1. ses' = [ses EXCEPT !["in"] = a]
      BY <1>2, <2>1, <2>4 DEF RouteEcho
    <3> QED BY <2>6, <3>1, OneFacts, ZenonT(60) DEF IInv
  <2>9. OrderlyPeers => a.timer # "armed" /\ ~a.disposed
    <3>1. OrderlyPeers => s.timer # "armed" /\ ~Finalized(s) /\ ~s.disposed
      BY <2>2, <2>3, Waiting DEF Routed, Finalized
    <3> QED BY <2>6, <3>1
  <2> QED BY <2>3, <2>6, <2>7, <2>8, <2>9, RoutedFacts, RouteTells DEF Routed
<1>3. CASE EchoAnswer
  <2>1. route = "echoWait" /\ route' = "done" /\ UNCHANGED env
    BY <1>3 DEF EchoAnswer
  <2>2. PICK s \in Session : s = ses["in"]
    OBVIOUS
  <2>3. PICK a : a = IF IsBeingEstablished(s) THEN SendResponse(s, 200) ELSE s
    OBVIOUS
  <2>4. 200 \in Code /\ 200 \in Final /\ 200 \notin Negative
    BY DEF Code, Final, Negative
  <2>5. /\ a \in Session /\ a.media = s.media /\ a.disposed = s.disposed
        /\ \/ a = s
           \/ /\ s.state = "BeingEstablished"
              /\ a.resp = s.resp \cup {200} /\ a.sent = 200
    BY <2>3, <2>4, SendFacts DEF IsBeingEstablished
  <2>6. /\ 200 \notin s.resp
        /\ s.timer = "armed" => s.resp \cap Final # {}
        /\ s.state = "BeingEstablished" => s.resp \cap Negative = {}
    BY <2>1, <2>2, RoutedFacts DEF Local, Final
  <2>7. /\ 200 \notin a.resp \/ a.resp \cap Negative = {}
        /\ a.timer = "armed" => a.resp \cap Final # {}
    BY <2>4, <2>5, <2>6
  <2>8. ses'["in"] = a /\ ses'["out"] = ses["out"]
    <3>1. ses' = [ses EXCEPT !["in"] = a]
      BY <1>3, <2>2, <2>3 DEF EchoAnswer
    <3> QED BY <2>5, <3>1, OneFacts, ZenonT(60) DEF IInv
  <2>9. OrderlyPeers => /\ a.timer = "armed" => a.sent \in Final
                        /\ a.disposed => ~a.media
    <3>1. OrderlyPeers => (s.disposed => ~s.media)
      BY <2>2 DEF OInv, Ordered
    <3>2. OrderlyPeers => (s.timer = "armed" => s.sent \in Final)
      BY <2>1, <2>2 DEF OInv, Told, RetransmitsFinal, OrderlyCall
    <3> QED BY <2>4, <2>5, <3>1, <3>2
  <2> QED BY <2>1, <2>7, <2>8, <2>9, RoutedFacts, RouteTells DEF Routed
<1>4. ASSUME NEW r \in RoutingRecords, RouteLink(r) PROVE OInv'
  <2>1. route = "routing" /\ route' = "linked" /\ UNCHANGED env
    BY <1>4 DEF RouteLink
  <2>2. PICK f, x \in BOOLEAN : f = r.steer /\ x = (r.flow = "TransformEarlyToFinal")
    BY ConstantsAssumption DEF RoutingRecord
  <2>3. PICK a : a = [ses["in"] EXCEPT !.linked = TRUE, !.media = f]
    OBVIOUS
  <2>4. PICK b : b = [ses["out"] EXCEPT !.linked = TRUE, !.media = f, !.transform = x]
    OBVIOUS
  <2>5. /\ a \in Session /\ a.linked /\ a.resp = ses["in"].resp /\ a.timer = ses["in"].timer
        /\ a.state = ses["in"].state /\ a.disposed = ses["in"].disposed
    BY <2>2, <2>3, ZenonT(60) DEF Session
  <2>6. /\ b \in Session /\ b.resp = ses["out"].resp /\ b.timer = ses["out"].timer
        /\ b.no18x = ses["out"].no18x /\ b.noAns = ses["out"].noAns
        /\ b.added = ses["out"].added /\ b.disposed = ses["out"].disposed
    <3>1. ses["out"] \in Session
      OBVIOUS
    <3> QED BY ONLY <2>4, <3>1, f \in BOOLEAN, x \in BOOLEAN, ZenonT(60) DEF Session
  <2>7. ses'["in"] = a /\ ses'["out"] = b
    <3>1. ses' = Both(a, b)
      BY <1>4, <2>2, <2>3, <2>4 DEF RouteLink
    <3> QED BY <2>5, <2>6, <3>1, BothFacts DEF IInv
  <2>8. OrderlyPeers => a.timer # "armed" /\ ~a.disposed /\ a.state = "BeingEstablished"
    BY <2>1, <2>5, Waiting DEF Routed
  <2>9. 200 \notin a.resp /\ (a.timer = "armed" => a.resp \cap Final # {})
    BY <2>1, <2>5, RoutedFacts DEF Final
  <2> QED BY <2>1, <2>5, <2>6, <2>7, <2>8, <2>9, RoutedFacts, RouteTells
<1>5. ASSUME NEW r \in RoutingRecords, RouteNoPort(r) PROVE OInv'
  <2>1. route = "routing" /\ route' = "done" /\ UNCHANGED env
    BY <1>5 DEF RouteNoPort
  <2>2. PICK s \in Session : s = [ses["in"] EXCEPT !.linked = TRUE, !.media = TRUE]
    BY ZenonT(60) DEF Session
  <2>3. /\ s.dir = "INBOUND" /\ s.resp = ses["in"].resp /\ s.timer = ses["in"].timer
        /\ s.disposed = ses["in"].disposed
    BY <2>2 DEF Session
  <2>4. PICK a : a = RejectMe(s, 503)
    OBVIOUS
  <2>5. /\ a \in Session /\ 200 \notin a.resp /\ a.disposed = s.disposed
        /\ a.timer = "armed" => a.resp \cap Final # {}
        /\ a.timer = "armed" /\ s.timer # "armed" => a.sent \in Final
    BY <2>1, <2>3, <2>4, RoutedFacts, RejectTold DEF Negative
  <2>6. PICK t \in Session : t = [ses["out"] EXCEPT !.linked = TRUE]
    BY ZenonT(60) DEF Session
  <2>7. /\ t.dir = "OUTBOUND" /\ t.resp = ses["out"].resp /\ t.timer = ses["out"].timer
        /\ t.no18x = ses["out"].no18x /\ t.noAns = ses["out"].noAns
        /\ t.added = ses["out"].added /\ t.media = ses["out"].media
    BY <2>6 DEF Session
  <2>8. PICK b \in Session : b = DropMe(t) /\ Wane(t, b) /\ b.resp = t.resp
    <3>1. DropMe(t).resp = t.resp
      BY DEF DropMe, Session
    <3> QED BY <3>1, DropMeWane DEF Wane, Fade
  <2>9. /\ b.resp = {} /\ ~b.added /\ ~b.media
        /\ b.timer # "armed" /\ b.no18x # "armed" /\ b.noAns # "armed"
    BY <2>1, <2>7, <2>8, RoutedFacts DEF Wane, Fade
  <2>10. ses'["in"] = a /\ ses'["out"] = b
    <3>1. ses' = Both(a, b)
      BY <1>5, <2>2, <2>4, <2>6, <2>8 DEF RouteNoPort
    <3> QED BY <2>5, <3>1, BothFacts DEF IInv
  <2>11. OrderlyPeers => s.timer # "armed" /\ ~a.disposed
    BY <2>1, <2>3, <2>5, Waiting DEF Routed
  <2> QED BY <2>1, <2>5, <2>9, <2>10, <2>11, RouteTells DEF Routed
<1>6. CASE RouteCheck
  <2>1. /\ route = "linked" /\ route' \in {"checked", "done"} /\ UNCHANGED <<env, ses>>
        /\ ses["in"].state = "BeingEstablished" => route' = "checked"
    BY <1>6 DEF RouteCheck, IsBeingEstablished
  <2>2. PICK a, b : a = ses["in"] /\ b = ses["out"]
    OBVIOUS
  <2>3. ses'["in"] = a /\ ses'["out"] = b
    BY <2>1, <2>2
  <2>4. OrderlyPeers => /\ a.timer # "armed" /\ ~a.disposed /\ a.state = "BeingEstablished"
                        /\ route' = "checked"
    BY <2>1, <2>2, Waiting DEF Routed
  <2>5. /\ 200 \notin a.resp /\ (a.timer = "armed" => a.resp \cap Final # {})
        /\ a.linked \/ a.resp \cap Negative # {}
        /\ b.resp = {} /\ ~b.added /\ ~b.disposed
        /\ b.timer # "armed" /\ b.no18x # "armed" /\ b.noAns # "armed"
    BY <2>1, <2>2, RoutedFacts DEF Final, OInv, Told
  <2> QED BY <2>1, <2>3, <2>4, <2>5, RouteTells
<1>7. CASE RouteSend
  <2>1. route = "checked" /\ route' = "done" /\ UNCHANGED env
    BY <1>7 DEF RouteSend
  <2>2. PICK a : a = ses["in"]
    OBVIOUS
  <2>3. PICK b : b = [ses["out"] EXCEPT !.state = "BeingEstablished", !.added = TRUE, !.timer = "armed"]
    OBVIOUS
  <2>4. b \in Session /\ b.resp = ses["out"].resp /\ b.disposed = ses["out"].disposed /\ b.added
    BY <2>3, ZenonT(60) DEF Session, State, PendingState, TimerState
  <2>5. ses'["in"] = a /\ ses'["out"] = b
    <3>1. ses' = [ses EXCEPT !["out"] = b]
      BY <1>7, <2>3 DEF RouteSend
    <3> QED BY <2>2, <2>4, <3>1, OneFacts DEF IInv
  <2>6. OrderlyPeers => /\ a.timer # "armed" /\ ~a.disposed
                        /\ a.resp \cap Negative = {}
    BY <2>1, <2>2, Waiting DEF Routed, Finalized, Final
  <2>7. /\ 200 \notin a.resp /\ (a.timer = "armed" => a.resp \cap Final # {})
        /\ a.linked \/ a.resp \cap Negative # {}
        /\ b.resp = {} /\ ~b.disposed
    BY <2>1, <2>2, <2>4, RoutedFacts DEF Final, OInv, Told
  <2> QED BY <2>1, <2>4, <2>5, <2>6, <2>7, RouteTells DEF Routed
<1> QED BY <1>1, <1>2, <1>3, <1>4, <1>5, <1>6, <1>7 DEF RouteStep

LEMMA ArrivalTells == ASSUME IInv, EInv, OInv, ReceiveINVITE \/ RejectINVITE PROVE OInv'
<1> USE SessionsTyped, LegFacts
<1>1. route = "idle" /\ UNCHANGED <<env, rd>>
  BY DEF ReceiveINVITE, RejectINVITE
<1>2. ses["in"].resp = {} /\ ses["in"].timer = "nil" /\ ~ses["in"].disposed
  BY <1>1 DEF IInv, Cross, Quiet, EInv, EndsCross
<1>3. PICK s \in Session : s = [ses["in"] EXCEPT !.state = "BeingEstablished", !.added = TRUE]
  BY ZenonT(60) DEF Session, State, PendingState
<1>4. /\ s.dir = "INBOUND" /\ s.state = "BeingEstablished"
      /\ s.resp = {} /\ s.timer = "nil" /\ ~s.disposed
  BY <1>2, <1>3 DEF Session
<1>5. CASE ReceiveINVITE
  <2>1. PICK a : a = SendResponse(s, 100)
    OBVIOUS
  <2>2. 100 \in Code /\ 100 \notin Final
    BY DEF Code, Provisional, Final, Negative
  <2>3. /\ a \in Session /\ a.state = "BeingEstablished" /\ ~a.disposed
        /\ a.resp \subseteq {100} /\ a.timer # "armed"
    BY <1>4, <2>1, <2>2, SendFacts DEF Finalized
  <2>4. ses'["in"] = a /\ ses'["out"] = ses["out"]
    <3>1. ses' = [ses EXCEPT !["in"] = a]
      BY <1>3, <1>5, <2>1 DEF ReceiveINVITE
    <3> QED BY <2>3, <3>1, OneFacts DEF IInv
  <2>5. route' = "routing" /\ 200 \notin a.resp
    BY <1>5, <2>3 DEF ReceiveINVITE
  <2> QED BY <1>1, <2>3, <2>4, <2>5, RoutedFacts, RouteTells
<1>6. CASE RejectINVITE
  <2>1. PICK a : a = RejectMe(s, 503)
    OBVIOUS
  <2>2. /\ a \in Session /\ 200 \notin a.resp /\ ~a.disposed
        /\ a.timer = "armed" => a.resp \cap Final # {}
        /\ a.timer = "armed" => a.sent \in Final
    BY <1>4, <2>1, RejectTold DEF Negative
  <2>3. ses'["in"] = a /\ ses'["out"] = ses["out"]
    <3>1. ses' = [ses EXCEPT !["in"] = a]
      BY <1>3, <1>6, <2>1 DEF RejectINVITE
    <3> QED BY <2>2, <3>1, OneFacts DEF IInv
  <2>4. route' = "done"
    BY <1>6 DEF RejectINVITE
  <2> QED BY <1>1, <2>2, <2>3, <2>4, RoutedFacts, RouteTells DEF Routed
<1> QED BY <1>5, <1>6

LEMMA CallerTells == ASSUME IInv, EInv, OInv, Caller PROVE OInv'
<1>1. CASE CallerLearns
  BY <1>1, CallerLearnsTells DEF CallerLearns
<1> QED BY <1>1, ArrivalTells, ACKTells, CANCELTells DEF Caller

-----------------------------------------------------------------------------
LEMMA InitOInv == Init => OInv
<1> SUFFICES ASSUME Init PROVE OInv
  OBVIOUS
<1>1. \A d \in {"INBOUND", "OUTBOUND"} :
        /\ ~NewSS(d).added /\ ~NewSS(d).disposed /\ ~NewSS(d).media /\ NewSS(d).resp = {}
        /\ NewSS(d).timer = "nil" /\ NewSS(d).no18x = "nil" /\ NewSS(d).noAns = "nil"
  BY DEF NewSS
<1>2. ses["in"] = NewSS("INBOUND") /\ ses["out"] = NewSS("OUTBOUND") /\ route = "idle"
  BY DEF Init, Leg
<1>3. Told /\ Held /\ Ordered
  BY <1>1, <1>2 DEF Told, Held, Ordered, Routed
<1>4. Settled /\ OneFinalResponse /\ RetransmitsFinal
  BY <1>1, <1>2 DEF Settled, OneFinalResponse, RetransmitsFinal, Received200
<1> QED BY <1>3, <1>4 DEF OInv

LEMMA NextOInv == IInv /\ EInv /\ OInv /\ [Next]_vars => OInv'
<1>1. OInv /\ UNCHANGED vars => OInv'
  BY CallerLearnsTells DEF vars
<1> QED BY <1>1, RouteStepTells, CallerTells, CalleeTells, EitherTell, TimersTell DEF Next

LEMMA ToldInvariance == Spec => [](IInv /\ EInv /\ OInv)
<1>1. Init => IInv /\ EInv /\ OInv
  BY InitIInv, InitEInv, InitOInv
<1>2. IInv /\ EInv /\ OInv /\ [Next]_vars => (IInv /\ EInv /\ OInv)'
  BY NextIInv, NextEInv, NextOInv
<1> QED BY <1>1, <1>2, PTL DEF Spec

(***************************************************************************)
(* Between orderly peers the caller never gets both a 2xx and a negative   *)
(* final response, whichever of answer, CANCEL, redirection, No18x and     *)
(* NoAnswer timer and INVITE timeout comes first (stack.go:624 answers     *)
(* without looking at the state of ss1).                                   *)
(***************************************************************************)
THEOREM OneFinalResponseHolds == Spec => []OneFinalResponse
<1>1. OInv => OneFinalResponse
  BY DEF OInv
<1> QED BY <1>1, ToldInvariance, PTL

(***************************************************************************)
(* Between orderly peers the timer of the caller's INVITE retransmits a    *)
(* final response: no 18x is relayed after it and takes its place.         *)
(***************************************************************************)
THEOREM RetransmitsFinalHolds == Spec => []RetransmitsFinal
<1>1. OInv => RetransmitsFinal
  BY DEF OInv
<1> QED BY <1>1, ToldInvariance, PTL

(***************************************************************************)
(* Between orderly peers no session keeps its media port when it is        *)
(* dropped, and a second session that was never sent has none.             *)
(***************************************************************************)
THEOREM PortsReturnedHolds == Spec => []PortsReturned
<1>1. OInv => PortsReturned
  BY DEF OInv, Held, Ordered, PortsReturned, OrderlyCall, Leg
<1> QED BY <1>1, ToldInvariance, PTL
=============================================================================
