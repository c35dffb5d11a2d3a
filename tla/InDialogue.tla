----------------------------- MODULE InDialogue ------------------------------
(***************************************************************************)
(* Changes within an established call: a re-INVITE or an UPDATE with SDP   *)
(* received on one leg is relayed to the other, its answer back, and the   *)
(* ACK forward; INFO is relayed as well.  A flag per session,              *)
(* dialogueChanging, keeps two changes apart: the handler sets its own     *)
(* flag and then reads the one of the other leg.  Each access holds that   *)
(* session's dscmutex and is one step; setting, reading and resetting are  *)
(* not one step together.                                                  *)
(*                                                                         *)
(* While ss2 still transforms (its 18x was answered to the caller as a     *)
(* 200) a re-INVITE of the caller is relayed as an UPDATE.                 *)
(***************************************************************************)
EXTENDS Naturals

CONSTANT Envs   \* sets of the behaviours below, one of which is chosen

EnvBehaviour ==
  {"compete",   \* a peer starts a change while the other has one in progress
   "refuse",    \* a peer answers a change 4xx to 6xx
   "noSDP",     \* a re-INVITE without offer
   "early",     \* the call was established by TransformEarlyToFinal
   "silent",    \* a relayed request is never answered
   "info"}      \* peers send INFO

Leg == {"in", "out"}
Lnk(l) == IF l = "in" THEN "out" ELSE "in"

Kind == {"reinvite", "reinviteNoSDP", "update"}
Reinvite == {"reinvite", "reinviteNoSDP"}

VARIABLES
  env,      \* what peers do in this behaviour
  flag,     \* dialogueChanging of each session
  req,      \* the change each peer has asked for and how far it is
  early,    \* TransformEarlyToFinal of ss2
  info,     \* the INFO each peer has sent
  ended,    \* the call was released
  wronged   \* a change was refused with 491 while no other was in progress

vars == <<env, flag, req, early, info, ended, wronged>>

\* own: own flag set; relayed: sent on, as method "as"; resetting: the answer of
\* an UPDATE has reset one flag; toAck: answered 2xx; acking: the ACK has reset one
Step == {"none", "own", "relayed", "resetting", "toAck", "acking"}
Request == [kind : Kind, as : {"reinvite", "update"}, st : Step]
NoRequest == [kind |-> "update", as |-> "update", st |-> "none"]

TypeOK ==
  /\ flag \in [Leg -> BOOLEAN]
  /\ req \in [Leg -> Request]
  /\ early \in BOOLEAN /\ ended \in BOOLEAN /\ wronged \in BOOLEAN
  /\ info \in [Leg -> {"none", "relayed", "ignored"}]

Init ==
  /\ env \in Envs
  /\ flag = [l \in Leg |-> FALSE]
  /\ req = [l \in Leg |-> NoRequest]
  /\ early \in (IF "early" \in env THEN BOOLEAN ELSE {FALSE})
  /\ info = [l \in Leg |-> "none"]
  /\ ended = FALSE
  /\ wronged = FALSE

InProgress(l) == req[l].st \notin {"none", "own"}

\* mutant: the request waits for the other change instead of being refused
Bug_Refuse(l) == UNCHANGED <<env, req, wronged>>

\* 491 Request Pending; the flags stay as they are
Refuse(l) ==
  /\ req' = [req EXCEPT ![l] = NoRequest]
  /\ wronged' = (wronged \/ ~InProgress(Lnk(l)))

(***************************************************************************)
(* A peer starts a change only after its previous one is over. The handler *)
(* answers 100 and does ChecknSetDialogueChanging(true) on its session.    *)
(***************************************************************************)
ReceiveChange(l, k) ==
  /\ ~ended
  /\ req[l].st = "none"
  /\ "compete" \in env \/ req[Lnk(l)].st = "none"
  /\ k = "reinviteNoSDP" => "noSDP" \in env
  /\ IF flag[l]
       THEN Refuse(l) /\ UNCHANGED flag
       ELSE /\ flag' = [flag EXCEPT ![l] = TRUE]
            /\ req' = [req EXCEPT ![l] = [kind |-> k, as |-> "update", st |-> "own"]]
            /\ UNCHANGED wronged
  /\ UNCHANGED <<env, early, info, ended>>

(***************************************************************************)
(* ... then IsDialogueChanging on the linked one, and relays the request.  *)
(* A re-INVITE without SDP cannot be relayed as an UPDATE: 488.            *)
(***************************************************************************)
RelayChange(l) ==
  /\ req[l].st = "own"
  /\ \/ flag[Lnk(l)] /\ Refuse(l)
     \/ /\ ~flag[Lnk(l)]
        /\ LET transform == l = "in" /\ early /\ req[l].kind \in Reinvite
               method == IF req[l].kind \in Reinvite /\ ~transform THEN "reinvite" ELSE "update" IN
             req' = [req EXCEPT ![l] =
                       IF transform /\ @.kind = "reinviteNoSDP" THEN NoRequest
                       ELSE [@ EXCEPT !.as = method, !.st = "relayed"]]
        /\ UNCHANGED wronged
  /\ UNCHANGED <<env, flag, early, info, ended>>

(***************************************************************************)
(* 2xx of the other peer.  An UPDATE's resets the flags of both legs, the  *)
(* receiving one first, and is relayed; a re-INVITE's is relayed.          *)
(***************************************************************************)
AnswerChange(l) ==
  /\ ~ended
  /\ req[l].st = "relayed"
  /\ IF req[l].as = "update"
       THEN /\ flag' = [flag EXCEPT ![Lnk(l)] = FALSE]
            /\ req' = [req EXCEPT ![l].st = "resetting"]
       ELSE /\ req' = [req EXCEPT ![l].st = "toAck"]
            /\ UNCHANGED flag
  /\ UNCHANGED <<env, early, info, ended, wronged>>

RelayUpdateAnswer(l) ==
  /\ req[l].st = "resetting"
  /\ flag' = [flag EXCEPT ![l] = FALSE]
  /\ req' = [req EXCEPT ![l] =
               IF @.kind \in Reinvite THEN [@ EXCEPT !.st = "toAck"] ELSE NoRequest]
  /\ UNCHANGED <<env, early, info, ended, wronged>>

\* 4xx to 6xx is relayed and, for a re-INVITE, acknowledged: no flag is reset
RefuseChange(l) ==
  /\ ~ended
  /\ "refuse" \in env
  /\ req[l].st = "relayed"
  /\ req' = [req EXCEPT ![l] = NoRequest]
  /\ UNCHANGED <<env, flag, early, info, ended, wronged>>

\* mutant: the ACK does not reset the flag
Bug_AckChange(l) ==
  /\ ~ended
  /\ req[l].st = "toAck"
  /\ req' = [req EXCEPT ![l].st = "acking"]
  /\ UNCHANGED <<env, flag, early, info, ended, wronged>>

\* ACK of a re-INVITE whose relayed request was answered 2xx
AckChange(l) ==
  /\ ~ended
  /\ req[l].st = "toAck"
  /\ flag' = [flag EXCEPT ![l] = FALSE]
  /\ req' = [req EXCEPT ![l].st = "acking"]
  /\ UNCHANGED <<env, early, info, ended, wronged>>

RelayAck(l) ==
  /\ req[l].st = "acking"
  /\ flag' = [flag EXCEPT ![Lnk(l)] = FALSE]
  /\ req' = [req EXCEPT ![l] = NoRequest]
  /\ UNCHANGED <<env, early, info, ended, wronged>>

\* the retransmissions of a relayed change or INFO are used up: ReleaseCall
TimeoutRelayed ==
  /\ ~ended
  /\ "silent" \in env
  /\ \E l \in Leg : req[l].st = "relayed" \/ info[l] = "relayed"
  /\ ended' = TRUE
  /\ UNCHANGED <<env, flag, req, early, info, wronged>>

\* the callee answers the INVITE that was transformed: it is no more
EndTransform ==
  /\ early
  /\ early' = FALSE
  /\ UNCHANGED <<env, flag, req, info, ended, wronged>>

(***************************************************************************)
(* INFO is relayed; the responses to the relayed INFO are received and     *)
(* nothing is done with them.                                              *)
(***************************************************************************)
ReceiveInfo(l) ==
  /\ ~ended
  /\ "info" \in env
  /\ info[l] # "relayed"
  /\ info' = [info EXCEPT ![l] = "relayed"]
  /\ UNCHANGED <<env, flag, req, early, ended, wronged>>

AnswerInfo(l) ==
  /\ ~ended
  /\ info[l] = "relayed"
  /\ info' = [info EXCEPT ![l] = "ignored"]
  /\ UNCHANGED <<env, flag, req, early, ended, wronged>>

\* either peer hangs up
Hangup ==
  /\ ~ended
  /\ ended' = TRUE
  /\ UNCHANGED <<env, flag, req, early, info, wronged>>

Handler(l) == RelayChange(l) \/ RelayUpdateAnswer(l) \/ RelayAck(l)
Peer(l) == AnswerChange(l) \/ RefuseChange(l) \/ AckChange(l)

Next ==
  \/ \E l \in Leg : \/ \E k \in Kind : ReceiveChange(l, k)
                    \/ Handler(l) \/ Peer(l)
                    \/ ReceiveInfo(l) \/ AnswerInfo(l)
  \/ TimeoutRelayed \/ EndTransform \/ Hangup

(***************************************************************************)
(* Workers finish their handlers. A relayed request is answered or the     *)
(* call ends when its retransmission timer expires; peers acknowledge.     *)
(***************************************************************************)
Spec ==
  /\ Init /\ [][Next]_vars
  /\ \A l \in Leg : WF_vars(Handler(l)) /\ WF_vars(AckChange(l))
                    /\ WF_vars(AnswerChange(l) \/ RefuseChange(l)) /\ WF_vars(AnswerInfo(l))

-----------------------------------------------------------------------------
(***************************************************************************)
(* When no change is in progress no flag is left set, so the next one is   *)
(* accepted: whatever times out or ends meanwhile, and while the call is   *)
(* transformed; and a change is refused as "competing" (stack.go:451) only *)
(* while the other peer has one in progress.  Three things only break it:  *)
(* a change refused by the other peer, one without offer in a transformed  *)
(* call, and competing changes.                                            *)
(***************************************************************************)
Orderly == env \cap {"compete", "refuse", "noSDP"} = {}

FlagsFree ==
  Orderly =>
    /\ (\A l \in Leg : req[l].st = "none") => \A l \in Leg : ~flag[l]
    /\ ~wronged

(***************************************************************************)
(* Every change comes to an end, even if both peers compete: no pair of    *)
(* handlers waits for the other's flag.                                    *)
(***************************************************************************)
ChangeEnds == \A l \in Leg : (req[l].st # "none") ~> (req[l].st = "none" \/ ended)
=============================================================================
