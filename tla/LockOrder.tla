------------------------------ MODULE LockOrder ------------------------------
(***************************************************************************)
(* The locks that the goroutines of one call take, and in which order.     *)
(* Workers and timers run the same methods, so each is described by the    *)
(* sequence of locks it takes and releases: TransLock of ss1 and ss2 (T1,  *)
(* T2), a sync.RWMutex, and Lock of the INVITE of ss1 (I1), of the INVITE  *)
(* of ss2 (I2) and of the OPTIONS that probes ss1 (P1).  Locks that are    *)
(* never held while another is taken (states, timers, flags) and those of  *)
(* transactions no other goroutine knows yet are left out.                 *)
(***************************************************************************)
EXTENDS Naturals, Sequences

RW == {"T1", "T2"}
Lock == RW \cup {"I1", "I2", "P1"}

\* taking a lock, to write ("W") or to read ("R"), and releasing it ("U").
\* A lock that is released before the next one is taken is used in one step.
W(k) == <<[op |-> "W", k |-> k]>>
R(k) == <<[op |-> "R", k |-> k]>>
U(k) == <<[op |-> "U", k |-> k]>>
Use(k) == <<[op |-> "use", k |-> k]>>
Read(k) == <<[op |-> "read", k |-> k]>>
Hold(k, body) == W(k) \o body \o U(k)

(***************************************************************************)
(* The methods that are used by several goroutines.                        *)
(***************************************************************************)
\* GetTransactionSYNC of IsDuplicateMessage and addIncomingResponse; the
\* response is recorded in the transaction
AddIncomingResponse(T, I) == Read(T) \o Use(I)

\* SendCreatedResponseDetailed of a final response: recorded, then sent
SendFinal(I) == Use(I)

\* addOutgoingRequest(BYE)
SendBYE(T) == Use(T)

\* addOutgoingRequest(ACK): CreateACKST looks at the responses of the INVITE
SendACK(T, I) == Hold(T, Use(I))

\* CheckPendingTransaction for the unacknowledged INVITE of ss1
CallerTimedOut ==
  Read("T2") \o Use("I2") \o SendACK("T2", "I2") \o SendBYE("T2")

-----------------------------------------------------------------------------
(***************************************************************************)
(* The goroutines, by the phase of the call in which they run.             *)
(***************************************************************************)
\* a reliable 18x of the callee; SendSTMessage counts the unPRACKed ones
Relay18x ==
  AddIncomingResponse("T2", "I2") \o Use("T2")
    \o Use("I1") \o Use("T1") \o Hold("I1", Read("T1"))

\* PRACK of the caller: GetPRACKTransaction stops the timer of the INVITE
ReceivePRACK == Read("T1") \o Hold("T1", Use("I1")) \o Use("T2")

Relay200 == AddIncomingResponse("T2", "I2") \o SendFinal("I1")

ReceiveCANCEL == Read("T1") \o Use("T1") \o SendFinal("I1") \o Use("T2")

\* the no-answer timer: CancelMe, RerouteRequest
NoAnswer == Use("T2") \o Use("T1") \o SendFinal("I1")

\* last run of transTimerHandler for the INVITE of ss2: RerouteRequest
TimerI2 == Hold("I2", Use("T1") \o SendFinal("I1"))

\* the same for a 18x of ss1 that is not PRACKed: CancelMe
Timer18x == Hold("I1", Read("T2") \o Use("I2") \o Use("T2"))

ReceiveACK == Read("T1") \o Hold("T1", Use("I1")) \o SendACK("T2", "I2")

\* mutant: the handler looks up the INVITE among the transactions of ss1
Bug_Timer200 == Hold("I1", Read("T1") \o CallerTimedOut)

\* the same for a 200 of ss1 that is not acknowledged
Timer200 == Hold("I1", CallerTimedOut)

\* BYE of a caller that did not acknowledge: CheckPendingTransaction under TransLock
ReceiveEarlyBYE == Read("T1") \o Hold("T1", Use("I1") \o CallerTimedOut)

\* BYE of the caller in an established call: pending requests of ss1 are stopped
ReceiveBYE == Read("T1") \o Hold("T1", Use("P1")) \o SendBYE("T2")

\* mutant: TransLock is not released
Bug_StopAll == Read("T1") \o R("T1") \o Use("I1") \o Use("P1")

ReceiveCalleeBYE == Read("T2") \o Use("T2") \o SendBYE("T1")

\* the answer to a BYE of ss1: StopAllOutTransactions
StopAll == Read("T1") \o R("T1") \o Use("I1") \o Use("P1") \o U("T1")

\* the probe is not answered: ReleaseCall on both sides
TimerProbe == Hold("P1", SendBYE("T1") \o SendBYE("T2"))

AnswerProbe == AddIncomingResponse("T1", "P1")

Phase == {"calling", "ringing", "answered", "established"}

Script ==
  [relay18x |-> Relay18x, again18x |-> Relay18x, prack |-> ReceivePRACK, relay200 |-> Relay200,
   cancel |-> ReceiveCANCEL, noAnswer |-> NoAnswer, timerI2 |-> TimerI2,
   timer18x |-> Timer18x, ack |-> ReceiveACK, timer200 |-> Timer200,
   earlyBye |-> ReceiveEarlyBYE, bye |-> ReceiveBYE, calleeBye |-> ReceiveCalleeBYE,
   stopAll |-> StopAll, timerProbe |-> TimerProbe, answerProbe |-> AnswerProbe]

RunsIn(p) ==
  CASE p = "calling"     -> {"relay18x", "cancel", "timerI2", "noAnswer"}
    [] p = "ringing"     -> {"again18x", "prack", "relay200", "cancel", "noAnswer", "timer18x"}
    [] p = "answered"    -> {"ack", "timer200", "earlyBye", "prack", "cancel"}
    [] p = "established" -> {"bye", "calleeBye", "stopAll", "timerProbe", "answerProbe"}

Task == DOMAIN Script

VARIABLES
  phase,    \* of the call
  started,  \* the goroutines that run in this behaviour
  at,       \* how many steps of its script each goroutine has done
  holds     \* the locks each goroutine holds, and how

vars == <<phase, started, at, holds>>

\* A lock is held by one writer or by readers, and by goroutines that are not
\* done with their script.
TypeOK ==
  /\ phase \in Phase
  /\ started \subseteq RunsIn(phase)
  /\ \A t \in Task : at[t] \in 0..Len(Script[t])
  /\ holds \in [Task -> [Lock -> {"no", "R", "W"}]]
  /\ \A k \in Lock, t, u \in Task :
       t # u /\ holds[t][k] = "W" => holds[u][k] = "no"
  /\ \A t \in Task : at[t] = Len(Script[t]) => \A k \in Lock : holds[t][k] = "no"

Init ==
  /\ phase \in Phase
  /\ started \in SUBSET RunsIn(phase)
  /\ at = [t \in Task |-> 0]
  /\ holds = [t \in Task |-> [k \in Lock |-> "no"]]

-----------------------------------------------------------------------------
Done(t) == at[t] = Len(Script[t])
NextStep(t) == Script[t][at[t] + 1]
Wants(t, op, k) ==
  t \in started /\ ~Done(t) /\ NextStep(t) = [op |-> op, k |-> k]

(***************************************************************************)
(* sync.Mutex and sync.RWMutex.  A reader also waits for a writer that     *)
(* waits: blocked by those who hold the lock, or by writers in the queue.  *)
(***************************************************************************)
Blockers(t) ==
  IF t \notin started \/ Done(t) THEN {}
  ELSE LET k == NextStep(t).k
           writers == {u \in Task \ {t} : holds[u][k] = "W"}
           readers == {u \in Task \ {t} : holds[u][k] = "R"}
           queue == {u \in Task \ {t} : Wants(u, "W", k) \/ Wants(u, "use", k)} IN
       CASE NextStep(t).op \in {"W", "use"} -> writers \cup readers
         [] NextStep(t).op \in {"R", "read"} ->
              writers \cup (IF readers = {} THEN {} ELSE queue)
         [] OTHER -> {}

Step(t) ==
  /\ t \in started /\ ~Done(t)
  /\ Blockers(t) = {}
  /\ at' = [at EXCEPT ![t] = @ + 1]
  /\ holds' = [holds EXCEPT ![t][NextStep(t).k] =
                 CASE NextStep(t).op = "U" -> "no"
                   [] NextStep(t).op \in {"W", "R"} -> NextStep(t).op
                   [] OTHER -> @]
  /\ UNCHANGED <<phase, started>>

Next == \E t \in Task : Step(t)

\* goroutines run, and the locks of Go do not starve those who wait
Spec == Init /\ [][Next]_vars /\ \A t \in Task : WF_vars(Step(t))

-----------------------------------------------------------------------------
(***************************************************************************)
(* Everyone waiting on everyone: a set of goroutines each of which waits   *)
(* only for others of the set.                                             *)
(***************************************************************************)
Deadlocked(S) ==
  S # {} /\ \A t \in S : Blockers(t) # {} /\ Blockers(t) \subseteq S

(***************************************************************************)
(* Goroutines of a call block one another for ever only where locks are    *)
(* taken in two orders: a relayed 18x against a PRACK (session.go:429,     *)
(* 241), or a timed-out probe against a BYE or its answer                  *)
(* (transaction.go:188, sessionHelper.go:18, session.go:366).              *)
(***************************************************************************)
OnlyKnownDeadlocks ==
  \A S \in SUBSET {t \in started : Blockers(t) # {}} :
    Deadlocked(S) =>
      \/ {"again18x", "prack"} \subseteq S
      \/ "timerProbe" \in S /\ S \cap {"bye", "stopAll"} # {}

(***************************************************************************)
(* Without a PRACK and a timed-out probe every goroutine that has begun    *)
(* ends, whichever others run: no handler of a call holds a worker for     *)
(* ever.                                                                   *)
(***************************************************************************)
AllFinish ==
  started \cap {"prack", "timerProbe"} = {} ~> \A t \in started : Done(t)
=============================================================================
