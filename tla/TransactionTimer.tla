--------------------------- MODULE TransactionTimer ---------------------------
(***************************************************************************)
(* One outgoing request within a call, an OPTIONS that probes the peer or  *)
(* the BYE, and its retransmission timer (sip/transaction.go).  The timer  *)
(* runs its handler in a goroutine of its own, which has to take the Lock  *)
(* of the transaction; a worker that handles the response, or a BYE of the *)
(* peer, takes it too and stops the timer.  Stop does nothing to a timer   *)
(* whose handler already waits, and the handler does not look whether it   *)
(* was stopped meanwhile: it sends again and resets the timer.             *)
(***************************************************************************)
EXTENDS Naturals

CONSTANTS
  ReTXCount,  \* retransmissions
  MaxLoss,    \* bound: requests and responses that are lost
  Envs        \* sets of the behaviours below, one of which is chosen

EnvBehaviour ==
  {"loss",    \* requests and responses may be lost
   "bye",     \* the peer sends a BYE of its own
   "race"}    \* a worker gets the Lock while the timer's handler waits for it

ASSUME TimerAssumption ==
  ReTXCount \in Nat /\ MaxLoss \in Nat /\ Envs \subseteq SUBSET EnvBehaviour

VARIABLES
  env,      \* what peers and network do in this behaviour
  method,   \* the request that was sent
  timer,    \* nil, running, fired (the handler waits for the Lock) or stopped
  retx,     \* transaction.ReTXCount
  final,    \* IsFinalized
  peer,     \* the request reached the peer; its answer is on the way
  session,  \* of the session
  bye,      \* a BYE of the peer was received
  timedOut, \* CheckPendingTransaction was called
  late,     \* the request was sent again after the BYE had been received
  losses

vars == <<env, method, timer, retx, final, peer, session, bye, timedOut, late, losses>>

TypeOK ==
  /\ method \in {"none", "OPTIONS", "BYE"}
  /\ timer \in {"nil", "running", "fired", "stopped"}
  /\ retx \in 0..ReTXCount
  /\ final \in BOOLEAN /\ bye \in BOOLEAN /\ timedOut \in BOOLEAN /\ late \in BOOLEAN
  /\ peer \in {"unaware", "answering", "answered"}
  /\ session \in {"Established", "BeingCleared", "Dropped"}
  /\ losses \in 0..MaxLoss

Init ==
  /\ env \in Envs
  /\ method = "none" /\ timer = "nil" /\ retx = 0 /\ final = FALSE
  /\ peer = "unaware" /\ session = "Established" /\ bye = FALSE
  /\ timedOut = FALSE /\ late = FALSE /\ losses = 0

\* the request is sent: it reaches the peer or is lost
Transmit ==
  \/ peer' = "answering" /\ UNCHANGED losses
  \/ /\ "loss" \in env /\ losses < MaxLoss
     /\ losses' = losses + 1
     /\ UNCHANGED peer

\* SendSTMessage; a BYE is sent when we clear the call
SendRequest(m) ==
  /\ method = "none" /\ session = "Established"
  /\ method' = m
  /\ session' = IF m = "BYE" THEN "BeingCleared" ELSE session
  /\ timer' = "running" /\ retx' = 0
  /\ Transmit
  /\ UNCHANGED <<env, final, bye, timedOut, late>>

Expire ==
  /\ timer = "running"
  /\ timer' = "fired"
  /\ UNCHANGED <<env, method, retx, final, peer, session, bye, timedOut, late, losses>>

\* mutant: nothing follows the last retransmission
Bug_GivesUpSilently ==
  /\ timer = "fired"
  /\ IF retx < ReTXCount THEN retx' = retx + 1 /\ timer' = "running" /\ Transmit
     ELSE timer' = "nil" /\ UNCHANGED <<env, retx, peer, losses>>
  /\ UNCHANGED <<env, method, final, session, bye, timedOut, late>>

(***************************************************************************)
(* transTimerHandler.  After the last retransmission the probed call is    *)
(* released (its BYE is another transaction), a session in clearing is     *)
(* dropped.                                                                *)
(***************************************************************************)
TransTimerHandler ==
  /\ timer = "fired"
  /\ IF retx < ReTXCount
       THEN /\ retx' = retx + 1
            /\ timer' = "running"
            /\ Transmit
            /\ late' = (late \/ bye)
            /\ UNCHANGED <<env, session, timedOut>>
       ELSE /\ timer' = "nil"
            /\ timedOut' = TRUE
            /\ session' = IF method = "BYE" THEN "Dropped"
                          ELSE IF session = "Established" THEN "BeingCleared" ELSE session
            /\ UNCHANGED <<env, retx, peer, losses, late>>
  /\ UNCHANGED <<env, method, final, bye>>

\* a worker that needs the Lock; without "race" a handler that waits has it first
LockFree == timer = "fired" => "race" \in env

\* mutant: the timer is left running
Bug_StopTransTimer == UNCHANGED timer

StopTransTimer == timer' = IF timer = "running" THEN "stopped" ELSE timer

(***************************************************************************)
(* The answer of the peer.  A second one is dropped by IsDuplicateMessage. *)
(***************************************************************************)
ReceiveResponse ==
  /\ peer = "answering" /\ LockFree
  /\ peer' = "answered"
  /\ \/ /\ ~final
        /\ StopTransTimer
        /\ final' = TRUE
        /\ session' = IF method = "BYE" THEN "Dropped" ELSE session
        /\ UNCHANGED losses
     \/ /\ final
        /\ UNCHANGED <<env, timer, final, session, losses>>
     \/ /\ "loss" \in env /\ losses < MaxLoss
        /\ losses' = losses + 1
        /\ UNCHANGED <<env, timer, final, session>>
  /\ UNCHANGED <<env, method, retx, bye, timedOut, late>>

(***************************************************************************)
(* A BYE of the peer stops the requests that are pending.  It clears an    *)
(* established call; while we clear it ourselves it is answered 400.       *)
(***************************************************************************)
ReceiveBYE ==
  /\ "bye" \in env
  /\ ~bye /\ session # "Dropped" /\ LockFree
  /\ bye' = TRUE
  /\ IF method # "none" /\ ~final THEN StopTransTimer ELSE UNCHANGED timer
  /\ session' = IF session = "Established" THEN "Dropped" ELSE session
  /\ UNCHANGED <<env, method, retx, final, peer, timedOut, late, losses>>

Next ==
  \/ \E m \in {"OPTIONS", "BYE"} : SendRequest(m)
  \/ Expire \/ TransTimerHandler \/ ReceiveResponse \/ ReceiveBYE

\* timers expire and their handlers run; a peer that got the request answers
Spec ==
  /\ Init /\ [][Next]_vars
  /\ WF_vars(Expire) /\ WF_vars(TransTimerHandler) /\ WF_vars(ReceiveResponse)

-----------------------------------------------------------------------------
(***************************************************************************)
(* A stopped timer has no effect: a request that was answered is not       *)
(* declared timed out, so a call whose probe is answered is not released,  *)
(* and nothing is sent again after a BYE of the peer ("Stop retransmitting *)
(* any pending outgoing requests after receiving BYE", sessionHelper.go:16). *)
(* It holds unless the timer's handler waits for the Lock while the answer *)
(* or the BYE is handled (transaction.go:187).                             *)
(***************************************************************************)
StoppedNoEffect ==
  [][(timedOut' /\ ~timedOut /\ final) \/ (late' /\ ~late) => "race" \in env]_vars

(***************************************************************************)
(* After our BYE the session is dropped: by the answer, or by the last     *)
(* retransmission when messages are lost, whatever races.  With a BYE of   *)
(* the peer it holds only if ours was not lost: that BYE stops our timer   *)
(* and is refused (sessionHelper.go:16).                                   *)
(***************************************************************************)
ClearedDropped ==
  (method = "BYE" /\ ~({"loss", "bye"} \subseteq env)) ~> (session = "Dropped")
=============================================================================
