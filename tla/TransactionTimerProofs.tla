------------------------ MODULE TransactionTimerProofs ------------------------
EXTENDS TransactionTimer, TLAPS

-----------------------------------------------------------------------------
(***************************************************************************)
(* The inductive invariant.  Before the request is sent there is no timer  *)
(* and nothing can be answered.  After a BYE of the peer the session is    *)
(* not established, so no request is sent any more.  Quiet is the heart of *)
(* it: unless workers race with the timer's handler, the timer of a        *)
(* request that was answered, or whose session received a BYE, neither     *)
(* runs nor has a handler waiting.                                         *)
(***************************************************************************)
Unsent == method = "none" => timer = "nil" /\ peer = "unaware" /\ ~final

Quiet == "race" \notin env /\ (final \/ bye) => timer \in {"nil", "stopped"}

IInv ==
  /\ TypeOK
  /\ Unsent
  /\ bye => session # "Established"
  /\ Quiet

LEMMA InitIInv == Init => IInv
<1> SUFFICES ASSUME Init PROVE IInv
  OBVIOUS
<1>1. TypeOK
  <2>1. retx \in 0..ReTXCount /\ losses \in 0..MaxLoss
    BY TimerAssumption DEF Init
  <2>2. final \in BOOLEAN /\ bye \in BOOLEAN /\ timedOut \in BOOLEAN /\ late \in BOOLEAN
    BY Zenon DEF Init
  <2> QED BY <2>1, <2>2 DEF Init, TypeOK
<1> QED BY <1>1 DEF Init, IInv, Unsent, Quiet

LEMMA TransmitType ==
  ASSUME TypeOK, Transmit
  PROVE  peer' \in {"unaware", "answering", "answered"} /\ losses' \in 0..MaxLoss
  BY TimerAssumption DEF TypeOK, Transmit

LEMMA SendRequestIInv ==
  ASSUME IInv, NEW m \in {"OPTIONS", "BYE"}, SendRequest(m)
  PROVE  IInv'
<1>1. TypeOK'
  BY TransmitType, TimerAssumption DEF IInv, TypeOK, SendRequest
<1>2. ~bye /\ ~final /\ UNCHANGED <<bye, final>> /\ method' # "none"
  BY DEF IInv, Unsent, SendRequest
<1> QED BY <1>1, <1>2 DEF IInv, Unsent, Quiet

LEMMA ExpireIInv == IInv /\ Expire => IInv'
  BY DEF IInv, TypeOK, Unsent, Quiet, Expire

LEMMA TransTimerHandlerIInv == IInv /\ TransTimerHandler => IInv'
<1> SUFFICES ASSUME IInv, TransTimerHandler PROVE IInv'
  OBVIOUS
<1>1. timer = "fired" /\ UNCHANGED <<env, method, final, bye>> /\ method # "none"
  BY DEF TransTimerHandler, IInv, Unsent
<1>2. CASE retx < ReTXCount
  <2>1. TypeOK'
    BY <1>2, TransmitType, TimerAssumption DEF IInv, TypeOK, TransTimerHandler
  <2> QED BY <1>1, <1>2, <2>1 DEF IInv, Unsent, Quiet, TransTimerHandler
<1>3. CASE ~(retx < ReTXCount)
  <2>1. TypeOK'
    BY <1>3 DEF IInv, TypeOK, TransTimerHandler
  <2> QED BY <1>1, <1>3, <2>1 DEF IInv, Unsent, Quiet, TransTimerHandler
<1> QED BY <1>2, <1>3

LEMMA ReceiveResponseIInv == IInv /\ ReceiveResponse => IInv'
<1> SUFFICES ASSUME IInv, ReceiveResponse PROVE IInv'
  OBVIOUS
<1>1. /\ peer = "answering" /\ peer' = "answered" /\ LockFree /\ method # "none"
      /\ UNCHANGED <<env, method, retx, bye, timedOut, late>>
  BY DEF ReceiveResponse, IInv, Unsent
<1>2. TypeOK'
  <2>1. /\ timer' \in {"nil", "running", "fired", "stopped"} /\ losses' \in 0..MaxLoss
        /\ session' \in {"Established", "BeingCleared", "Dropped"}
    BY TimerAssumption DEF IInv, TypeOK, ReceiveResponse, StopTransTimer
  <2>2. final' \in BOOLEAN
    BY DEF IInv, TypeOK, ReceiveResponse
  <2> QED BY <1>1, <2>1, <2>2 DEF IInv, TypeOK
<1>3. Quiet'
  BY <1>1 DEF IInv, TypeOK, Quiet, ReceiveResponse, StopTransTimer, LockFree
<1>4. session' # "Established" \/ session' = session
  BY DEF ReceiveResponse
<1> QED BY <1>1, <1>2, <1>3, <1>4 DEF IInv, Unsent

LEMMA ReceiveBYEIInv == IInv /\ ReceiveBYE => IInv'
<1> SUFFICES ASSUME IInv, ReceiveBYE PROVE IInv'
  OBVIOUS
<1>1. TypeOK' /\ session' # "Established"
  BY DEF IInv, TypeOK, ReceiveBYE, StopTransTimer
<1>2. Unsent'
  BY DEF IInv, Unsent, ReceiveBYE
<1>3. Quiet'
  BY DEF IInv, TypeOK, Unsent, Quiet, ReceiveBYE, StopTransTimer, LockFree
<1> QED BY <1>1, <1>2, <1>3 DEF IInv

LEMMA NextIInv == IInv /\ [Next]_vars => IInv'
<1> SUFFICES ASSUME IInv, [Next]_vars PROVE IInv'
  OBVIOUS
<1>1. CASE \E m \in {"OPTIONS", "BYE"} : SendRequest(m)
  BY <1>1, SendRequestIInv
<1>2. CASE Expire \/ TransTimerHandler \/ ReceiveResponse \/ ReceiveBYE
  BY <1>2, ExpireIInv, TransTimerHandlerIInv, ReceiveResponseIInv, ReceiveBYEIInv
<1>3. CASE UNCHANGED vars
  BY <1>3 DEF vars, IInv, TypeOK, Unsent, Quiet
<1> QED BY <1>1, <1>2, <1>3 DEF Next

-----------------------------------------------------------------------------
(***************************************************************************)
(* Only the handler of the timer declares a request timed out or sends it  *)
(* again, and only when it was waiting.                                    *)
(***************************************************************************)
LEMMA OnlyWhenFired ==
  ASSUME IInv, [Next]_vars, (timedOut' /\ ~timedOut) \/ (late' /\ ~late)
  PROVE  timer = "fired" /\ ((late' /\ ~late) => bye)
<1>1. CASE TransTimerHandler
  BY <1>1 DEF TransTimerHandler
<1>2. CASE ~TransTimerHandler
  BY <1>2 DEF Next, vars, SendRequest, Expire, ReceiveResponse, ReceiveBYE
<1> QED BY <1>1, <1>2

(***************************************************************************)
(* For any number of retransmissions and any losses: a request that was    *)
(* answered is never declared timed out, and nothing is sent again after a *)
(* BYE of the peer (sessionHelper.go:16), unless a worker overtakes the    *)
(* timer's handler that waits for the Lock (transaction.go:187).           *)
(***************************************************************************)
THEOREM StoppedNoEffectHolds == Spec => StoppedNoEffect
<1>1. IInv /\ [Next]_vars =>
        [(timedOut' /\ ~timedOut /\ final) \/ (late' /\ ~late) => "race" \in env]_vars
  BY OnlyWhenFired DEF IInv, Quiet
<1> QED BY <1>1, InitIInv, NextIInv, PTL DEF Spec, StoppedNoEffect
=============================================================================
