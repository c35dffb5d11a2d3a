-------------------------------- MODULE Prack --------------------------------
(***************************************************************************)
(* Reliable provisional responses through the back-to-back user agent: a   *)
(* 18x of the callee with Require: 100rel is relayed under an RSeq of      *)
(* ss1's own, retransmitted until the caller's PRACK, and that PRACK is    *)
(* relayed to the callee for the RSeq the callee had used.                 *)
(*                                                                         *)
(* All responses to the INVITE of ss1 share its transaction and its one    *)
(* timer.  A timer that was stopped is not nil, so StartTransTimer leaves  *)
(* it stopped (transaction.go:170).                                        *)
(***************************************************************************)
EXTENDS Naturals, Sequences, FiniteSets

CONSTANTS
  Max18x,     \* bound: reliable 18x received from the callee
  ReTXCount,  \* retransmissions of a message
  MaxLoss,    \* bound: messages to the caller that are lost
  Envs        \* sets of the behaviours below, one of which is chosen

EnvBehaviour ==
  {"loss",         \* a response to the caller is lost
   "again18x",     \* another 18x, a copy of one, or one overtaken by the 200
   "earlyAnswer",  \* the callee answers 200 before the 18x is acknowledged
   "silentCallee"} \* the callee does not answer PRACK

ASSUME PrackAssumption ==
  /\ Max18x \in Nat /\ ReTXCount \in Nat /\ MaxLoss \in Nat
  /\ Envs \subseteq SUBSET EnvBehaviour

VARIABLES
  env,     \* what peers and network do in this behaviour
  rel,     \* the PRACK transactions of ss1, by RSeq: Expected or with the request
  out,     \* the PRACK transaction of ss2 linked to each
  heard,   \* the 18x the caller has received, by RSeq
  timer,   \* Timer of the INVITE transaction of ss1
  retx,    \* its ReTXCount
  sent,    \* SentMessage of the INVITE transaction of ss1
  final,   \* the final response, 0 before
  acked,   \* the caller heard it and its ACK arrived
  st1, st2,\* the sessions
  losses,
  crashed  \* a response was built for a transaction without request

vars == <<env, rel, out, heard, timer, retx, sent, final, acked, st1, st2, losses, crashed>>

RSeq == 1..Max18x

\* the responses to the INVITE of ss1: a 18x has an RSeq, a final response has none
Reliable(r) == [code |-> 180, rseq |-> r]
Final(sc) == [code |-> sc, rseq |-> 0]

TypeOK ==
  /\ rel \in Seq({"Expected", "Received"}) /\ Len(rel) <= Max18x
  /\ out \in Seq({"created", "sent", "finalized"}) /\ Len(out) = Len(rel)
  /\ heard \in SUBSET (1..Len(rel))
  /\ timer \in {"nil", "armed", "stopped"}
  /\ retx \in 0..ReTXCount
  /\ sent \in [code : {0, 180, 200, 408}, rseq : 0..Max18x]
  /\ final \in {0, 200, 408}
  /\ acked \in BOOLEAN /\ crashed \in BOOLEAN
  /\ st1 \in {"BeingEstablished", "BeingRejected", "Established", "Over"}
  /\ st2 \in {"BeingEstablished", "Established", "BeingCancelled", "Failed"}
  /\ losses \in 0..MaxLoss

Init ==
  /\ env \in Envs
  /\ rel = <<>> /\ out = <<>> /\ heard = {}
  /\ timer = "nil" /\ retx = 0 /\ sent = Final(0)
  /\ final = 0 /\ acked = FALSE
  /\ st1 = "BeingEstablished" /\ st2 = "BeingEstablished"
  /\ losses = 0 /\ crashed = FALSE

UnPRACKed == {r \in DOMAIN rel : rel[r] = "Expected"}

\* StartTransTimer: only if Timer is nil
Started(t) == IF t = "nil" THEN "armed" ELSE t
Stopped(t) == IF t = "armed" THEN "stopped" ELSE t

\* a 18x or a final response reaches the caller, or is lost on the way
Deliver(m) ==
  \/ /\ heard' = IF m.code = 180 THEN heard \cup {m.rseq} ELSE heard
     /\ acked' = (acked \/ m.code # 180)
     /\ UNCHANGED losses
  \/ /\ "loss" \in env /\ losses < MaxLoss
     /\ losses' = losses + 1
     /\ UNCHANGED <<env, heard, acked>>

\* mutant: the timer is not started for a 18x
Bug_Relay18x ==
  /\ st2 = "BeingEstablished" /\ st1 = "BeingEstablished"
  /\ Len(rel) < Max18x
  /\ rel' = Append(rel, "Expected")
  /\ out' = Append(out, "created")
  /\ sent' = Reliable(Len(rel) + 1)
  /\ Deliver(Reliable(Len(rel) + 1))
  /\ UNCHANGED <<env, timer, retx, final, st1, st2, crashed>>

(***************************************************************************)
(* A reliable 18x on ss2. GenerateOutgoingPRACKST and, on ss1,             *)
(* GenerateRSeqCreatePRACKSTSYNC create the two linked transactions; a     *)
(* copy of a 18x is no duplicate to IsDuplicateMessage and does the same.  *)
(***************************************************************************)
Relay18x ==
  /\ st2 = "BeingEstablished" /\ st1 = "BeingEstablished"
  /\ Len(rel) < Max18x
  /\ (Len(rel) > 0 \/ final # 0) => "again18x" \in env
  /\ rel' = Append(rel, "Expected")
  /\ out' = Append(out, "created")
  /\ sent' = Reliable(Len(rel) + 1)
  /\ timer' = Started(timer)
  /\ Deliver(Reliable(Len(rel) + 1))
  /\ UNCHANGED <<env, retx, final, st1, st2, crashed>>

(***************************************************************************)
(* The timer of the INVITE of ss1: SentMessage goes out again; after the   *)
(* last time a session that is still pending is dropped and ss2 cancelled. *)
(***************************************************************************)
TransTimer ==
  /\ timer = "armed"
  /\ \/ /\ retx < ReTXCount
        /\ retx' = retx + 1
        /\ Deliver(sent)
        /\ UNCHANGED <<env, timer, st1, st2>>
     \/ /\ retx = ReTXCount
        /\ timer' = "nil"
        /\ st1' = "Over"
        /\ st2' = IF st2 = "BeingEstablished" THEN "BeingCancelled" ELSE st2
        /\ UNCHANGED <<env, retx, heard, acked, losses>>
  /\ UNCHANGED <<env, rel, out, sent, final, crashed>>

(***************************************************************************)
(* PRACK of the caller.  GetPRACKTransaction stops the timer of the INVITE *)
(* that has no final response yet, whichever 18x is acknowledged; 200, and *)
(* the linked PRACK is sent to the callee. A copy of the PRACK is dropped. *)
(***************************************************************************)
StopsTimer == final = 0

\* mutant: the PRACK of the callee's last 18x is sent, whichever was acknowledged
Bug_LastPRACKed(r) ==
  /\ st1 # "Over"
  /\ r \in heard /\ rel[r] = "Expected"
  /\ rel' = [rel EXCEPT ![r] = "Received"]
  /\ out' = [out EXCEPT ![Len(out)] = "sent"]
  /\ UNCHANGED <<env, heard, timer, retx, sent, final, acked, st1, st2, losses, crashed>>

ReceivePRACK(r) ==
  /\ st1 # "Over"
  /\ r \in heard /\ rel[r] = "Expected"
  /\ rel' = [rel EXCEPT ![r] = "Received"]
  /\ timer' = IF StopsTimer THEN Stopped(timer) ELSE timer
  /\ out' = [out EXCEPT ![r] = IF st2 \in {"BeingEstablished", "Established"} THEN "sent" ELSE @]
  /\ UNCHANGED <<env, heard, retx, sent, final, acked, st1, st2, losses, crashed>>

\* the callee's answer to the PRACK, whichever, needs nothing more
AnswerPRACK(r) ==
  /\ r \in DOMAIN out /\ out[r] = "sent"
  /\ out' = [out EXCEPT ![r] = "finalized"]
  /\ UNCHANGED <<env, rel, heard, timer, retx, sent, final, acked, st1, st2, losses, crashed>>

SendFinal(sc) ==
  /\ final' = sc /\ sent' = Final(sc)
  /\ timer' = Started(timer)
  /\ Deliver(Final(sc))

\* CheckPendingTransaction for a PRACK: the caller is rejected with 408
TimeoutPRACK(r) ==
  /\ "silentCallee" \in env
  /\ r \in DOMAIN out /\ out[r] = "sent"
  /\ st2 \in {"BeingEstablished", "Established"}
  /\ st2' = "Failed"
  /\ out' = [out EXCEPT ![r] = "finalized"]
  /\ IF st1 = "BeingEstablished" /\ final = 0
       THEN st1' = "BeingRejected" /\ SendFinal(408)
       ELSE UNCHANGED <<env, st1, final, sent, timer, heard, acked, losses>>
  /\ UNCHANGED <<env, rel, retx, crashed>>

\* 200 of the callee
Relay200 ==
  /\ st2 = "BeingEstablished" /\ st1 = "BeingEstablished" /\ final = 0
  /\ "earlyAnswer" \in env \/ \A r \in DOMAIN out : out[r] = "finalized"
  /\ SendFinal(200)
  /\ UNCHANGED <<env, rel, out, retx, st1, st2, crashed>>

\* mutant: the ACK is ignored while a PRACK is expected
Bug_ReceiveACK ==
  /\ acked /\ st1 \in {"BeingEstablished", "BeingRejected"}
  /\ UnPRACKed = {}
  /\ timer' = Stopped(timer)
  /\ st1' = "Established"
  /\ UNCHANGED <<env, rel, out, heard, retx, sent, final, acked, st2, losses, crashed>>

\* ACK of the caller, relayed when the call is answered
ReceiveACK ==
  /\ acked /\ st1 \in {"BeingEstablished", "BeingRejected"}
  /\ timer' = Stopped(timer)
  /\ IF st1 = "BeingRejected"
       THEN st1' = "Over" /\ UNCHANGED st2
       ELSE /\ st1' = "Established"
            /\ st2' = IF st2 = "BeingEstablished" THEN "Established" ELSE st2
  /\ UNCHANGED <<env, rel, out, heard, retx, sent, final, acked, losses, crashed>>

(***************************************************************************)
(* We clear the call: before the BYE every pending incoming transaction is *)
(* answered 503.  A PRACK transaction that waits for its request has none  *)
(* to answer: createHeadersForResponse dereferences nil.                   *)
(***************************************************************************)
ReleaseMe ==
  /\ st1 = "Established"
  /\ st1' = "Over"
  /\ crashed' = (UnPRACKed # {})
  /\ UNCHANGED <<env, rel, out, heard, timer, retx, sent, final, acked, st2, losses>>

Next ==
  \/ Relay18x \/ TransTimer \/ Relay200 \/ ReceiveACK \/ ReleaseMe
  \/ \E r \in RSeq : ReceivePRACK(r) \/ AnswerPRACK(r) \/ TimeoutPRACK(r)

\* timers expire, workers handle what arrives, and peers answer a final response
Spec ==
  /\ Init /\ [][Next]_vars
  /\ WF_vars(TransTimer) /\ WF_vars(ReceiveACK)

-----------------------------------------------------------------------------
(***************************************************************************)
(* A 18x is retransmitted to the caller until its PRACK, whatever is lost  *)
(* (session.go:430), and so is a final response until it is acknowledged.  *)
(* Two things only break this: a callee that sends a second 18x, as the    *)
(* PRACK of the first has stopped the one timer both share; and any PRACK  *)
(* before the final response, which is then sent once and, if lost on the  *)
(* way to the caller, lost for good.                                       *)
(***************************************************************************)
Retransmitted ==
  /\ "again18x" \notin env /\ st1 = "BeingEstablished" /\ final = 0 /\ UnPRACKed # {}
       => timer = "armed"
  /\ final # 0 /\ ~acked /\ st1 # "Over" /\ timer # "armed"
       => \E r \in DOMAIN rel : rel[r] = "Received"

\* While no response is lost, the caller gets the final response and the INVITE
\* is acknowledged or given up, in whatever order PRACK and answers cross.
FinalDelivered ==
  "loss" \notin env /\ final # 0 ~> st1 \in {"Established", "Over"}

(***************************************************************************)
(* Every PRACK the callee gets acknowledges its own 18x once, and only     *)
(* after the caller acknowledged the 18x that was relayed for it; a PRACK  *)
(* of the caller that is not relayed finds a callee that is gone.  Unless  *)
(* the callee answers before its PRACK, or another 18x follows, no BYE     *)
(* meets a PRACK transaction without request, which ends the program       *)
(* (sessionHelper.go:132).                                                 *)
(***************************************************************************)
PRACKsInStep ==
  /\ \A r \in DOMAIN rel :
       /\ out[r] # "created" => rel[r] = "Received"
       /\ rel[r] = "Received" /\ out[r] = "created" => st2 \in {"BeingCancelled", "Failed"}
  /\ crashed => "earlyAnswer" \in env \/ "again18x" \in env
=============================================================================
