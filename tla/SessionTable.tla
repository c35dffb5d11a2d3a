---------------------------- MODULE SessionTable -----------------------------
(***************************************************************************)
(* The table of sessions and the workers that fill it: worker, processPacket*)
(* and sessionGetter with the part of sipStack that decides whether a new  *)
(* session stays, ConcurrentMapMutex with its gauge, and the call limiter. *)
(*                                                                         *)
(* Every operation of the table, of the gauge and of the limiter holds a   *)
(* lock and is one step. What a worker does between them is not protected: *)
(* it looks a Call-ID up and stores a session later, stores a session      *)
(* before it has a transaction, and only then asks the limiter.            *)
(***************************************************************************)
EXTENDS Integers, Sequences, FiniteSets

CONSTANTS
  Workers,     \* WorkerCount goroutines
  CallIDs,     \* Call-IDs that peers send
  EgressIDs,   \* Call-IDs generated for outbound sessions
  NoCall,      \* the empty Call-ID of a session that was never given one
  MaxSessions, \* bound: sessions created in a behaviour
  Rate,        \* RateLimit; -1 is unlimited
  MaxTicks,    \* bound: seconds that pass
  Envs         \* sets of the behaviours below, one of which is chosen

EnvBehaviour ==
  {"dupInvite",   \* a copy of an INVITE that a worker is still setting up
   "earlyCancel", \* a CANCEL overtakes that set-up
   "strayAck",    \* an ACK of the same Call-ID does
   "atStart",     \* requests arrive before StartServer has set CallLimiter
   "noPort"}      \* no media port for the outbound session

ASSUME TableAssumption ==
  /\ MaxSessions \in Nat /\ MaxTicks \in Nat
  /\ Rate \in Nat \cup {-1}
  /\ NoCall \notin CallIDs \cup EgressIDs
  /\ CallIDs \cap EgressIDs = {}
  /\ Envs \subseteq SUBSET EnvBehaviour

Method == {"INVITE", "CANCEL", "ACK", "OPTIONS"}
Message == [call : CallIDs, method : Method]
SessionId == 1..MaxSessions
NoSession == 0

VARIABLES
  env,      \* what peers and network do in this behaviour
  table,    \* Sessions._map
  ses,      \* the session objects created so far
  work,     \* what each worker is doing
  gauge,    \* Prometrics.ConSessions
  limiter,  \* CallLimiter: whether it is set, callCount
  caps,     \* Prometrics.Caps
  ticks

vars == <<env, table, ses, work, gauge, limiter, caps, ticks>>

\* "out" sessions are OUTBOUND; listed: the session has a transaction
Session ==
  [call : CallIDs \cup EgressIDs \cup {NoCall}, dir : {"in", "out"}, stored : BOOLEAN,
   listed : BOOLEAN, state : {"none", "BeingEstablished", "BeingCancelled", "Rejected", "Other"},
   final : BOOLEAN, drop : {"no", "disposed", "deleted"}, egress : BOOLEAN, panicked : BOOLEAN]

\* a worker: its step, the message, the session and whether the rate is exceeded
Idle == [pc |-> "idle", msg |-> [call |-> NoCall, method |-> "ACK"], s |-> NoSession,
         exceeded |-> FALSE]

TypeOK ==
  /\ table \in [CallIDs \cup EgressIDs -> SessionId \cup {NoSession}]
  /\ ses \in Seq(Session) /\ Len(ses) <= MaxSessions
  /\ gauge \in Int
  /\ limiter \in [set : BOOLEAN, count : Nat] /\ caps \in Nat
  /\ ticks \in 0..MaxTicks

Init ==
  /\ env \in Envs
  /\ table = [c \in CallIDs \cup EgressIDs |-> NoSession]
  /\ ses = <<>>
  /\ work = [w \in Workers |-> Idle]
  /\ gauge = 0
  /\ limiter = [set |-> "atStart" \notin env, count |-> 0]
  /\ caps = 0
  /\ ticks = 0

Created == DOMAIN ses

-----------------------------------------------------------------------------
(***************************************************************************)
(* ConcurrentMapMutex.  Store and Delete move the gauge whatever the map   *)
(* held.                                                                   *)
(***************************************************************************)
Store(c, s) ==
  /\ table' = [table EXCEPT ![c] = s]
  /\ gauge' = gauge + 1

Delete(c) ==
  /\ table' = IF c = NoCall THEN table ELSE [table EXCEPT ![c] = NoSession]
  /\ gauge' = gauge - 1

NewSession(c, d) ==
  [call |-> c, dir |-> d, stored |-> FALSE, listed |-> FALSE, state |-> "none",
   final |-> FALSE, drop |-> "no", egress |-> FALSE, panicked |-> FALSE]

\* a worker is between the look-up of c and the transaction of its session
SettingUp(c) ==
  \E w \in Workers : work[w].pc \in {"miss", "stored", "counted"} /\ work[w].msg.call = c

\* peers that wait for a provisional response before they send anything more
Ordered(m) ==
  SettingUp(m.call) =>
    \/ m.method = "INVITE" /\ "dupInvite" \in env
    \/ m.method = "CANCEL" /\ "earlyCancel" \in env
    \/ m.method = "ACK" /\ "strayAck" \in env

\* mutant: a Call-ID that is found gets a new session all the same
Bug_Load(w, m) ==
  /\ work[w].pc = "idle" /\ Ordered(m)
  /\ Len(ses) < MaxSessions
  /\ work' = [work EXCEPT ![w] = [Idle EXCEPT !.pc = "miss", !.msg = m]]
  /\ UNCHANGED <<env, table, ses, gauge, limiter, caps, ticks>>

(***************************************************************************)
(* sessionGetter, Sessions.Load.  An INVITE that finds a session is a      *)
(* duplicate; a worker that panicked is idle again.                        *)
(***************************************************************************)
Load(w, m) ==
  /\ work[w].pc = "idle"
  /\ Ordered(m)
  /\ LET s == table[m.call] IN
       IF s = NoSession
         THEN /\ Len(ses) < MaxSessions
              /\ work' = [work EXCEPT ![w] = [Idle EXCEPT !.pc = "miss", !.msg = m]]
         ELSE /\ m.method # "INVITE"
              /\ work' = [work EXCEPT ![w] = [Idle EXCEPT !.pc = "hit", !.msg = m, !.s = s]]
  /\ UNCHANGED <<env, table, ses, gauge, limiter, caps, ticks>>

\* NewSIPSession and the first half of Store
StoreNew(w) ==
  /\ work[w].pc = "miss"
  /\ Len(ses) < MaxSessions
  /\ LET s == Len(ses) + 1
         m == work[w].msg IN
       /\ ses' = Append(ses, [NewSession(m.call, "in") EXCEPT !.stored = TRUE])
       /\ Store(m.call, s)
       /\ work' = [work EXCEPT ![w] = [Idle EXCEPT !.pc = "stored", !.msg = m, !.s = s]]
  /\ UNCHANGED <<env, limiter, caps, ticks>>

(***************************************************************************)
(* ExceedCondition asks the limiter for every inbound session, whatever    *)
(* its method.  While CallLimiter is nil it panics: sessionGetter recovers *)
(* and returns no session, and the one just stored stays in the table.     *)
(***************************************************************************)
AcceptNewCall == Rate = -1 \/ limiter.count < Rate

ExceedCondition(w) ==
  /\ work[w].pc = "stored"
  /\ IF limiter.set
       THEN LET m == work[w].msg
                s == work[w].s IN
            /\ limiter' = IF AcceptNewCall
                            THEN [limiter EXCEPT !.count = @ + 1] ELSE limiter
            /\ ses' = IF m.method = "INVITE"
                        THEN [ses EXCEPT ![s].state = "BeingEstablished"] ELSE ses
            /\ work' = [work EXCEPT ![w].pc = "counted", ![w].exceeded = ~AcceptNewCall]
       ELSE /\ work' = [work EXCEPT ![w] = Idle]
            /\ ses' = [ses EXCEPT ![work[w].s].panicked = TRUE]
            /\ UNCHANGED limiter
  /\ UNCHANGED <<env, table, gauge, caps, ticks>>

\* mutant: IsDisposed is not looked at
Bug_Disposed(r) == [r EXCEPT !.drop = "disposed"]

\* DropMe up to IsDisposed = true; Sessions.Delete follows (Forget)
Disposed(r) == [r EXCEPT !.drop = IF @ = "no" THEN "disposed" ELSE @]

\* mutant: an ACK without a session is ignored, and its new session kept
Bug_Handle(w) ==
  /\ work[w].pc = "counted"
  /\ ses' = IF work[w].msg.method = "ACK" THEN ses
            ELSE [ses EXCEPT ![work[w].s].listed = TRUE]
  /\ work' = [work EXCEPT ![w] = Idle]
  /\ UNCHANGED <<env, table, gauge, limiter, caps, ticks>>

(***************************************************************************)
(* sipStack for a new session.  An INVITE gets its transaction and is      *)
(* rejected or routed; CANCEL is answered 481 and OPTIONS 200, and the     *)
(* session is dropped; an ACK has no transaction and drops it as well.     *)
(***************************************************************************)
Handle(w) ==
  /\ work[w].pc = "counted"
  /\ LET m == work[w].msg
         s == work[w].s IN
       IF m.method = "INVITE"
         THEN /\ ses' = [ses EXCEPT ![s] =
                           IF work[w].exceeded
                             THEN [@ EXCEPT !.listed = TRUE, !.state = "Rejected", !.final = TRUE]
                             ELSE [@ EXCEPT !.listed = TRUE]]
              /\ work' = [work EXCEPT ![w] =
                            IF work[w].exceeded THEN Idle ELSE [Idle EXCEPT !.pc = "route", !.s = s]]
         ELSE /\ ses' = [ses EXCEPT ![s] =
                           Disposed([@ EXCEPT !.state = "Other", !.listed = (m.method # "ACK")])]
              /\ work' = [work EXCEPT ![w] = Idle]
  /\ UNCHANGED <<env, table, gauge, limiter, caps, ticks>>

\* mutant: the INVITE that is cancelled is not answered
Bug_HandleFound(w) ==
  /\ work[w].pc = "hit"
  /\ ses' = [ses EXCEPT ![work[w].s].state =
               IF work[w].msg.method = "CANCEL" /\ @ = "BeingEstablished" THEN "BeingCancelled" ELSE @]
  /\ work' = [work EXCEPT ![w] = Idle]
  /\ UNCHANGED <<env, table, gauge, limiter, caps, ticks>>

(***************************************************************************)
(* sipStack for a session that was found.  CANCEL moves a session that is  *)
(* being established and rejects its INVITE with 487, if the INVITE has a  *)
(* transaction; an ACK that has no transaction to acknowledge drops a      *)
(* session without any.                                                    *)
(***************************************************************************)
HandleFound(w) ==
  /\ work[w].pc = "hit"
  /\ LET m == work[w].msg
         s == work[w].s IN
       CASE m.method = "CANCEL" ->
              ses' = [ses EXCEPT ![s] =
                        IF @.state = "BeingEstablished"
                          THEN [@ EXCEPT !.state = "BeingCancelled",
                                         !.final = ses[s].final \/ ses[s].listed, !.listed = TRUE]
                          ELSE [@ EXCEPT !.listed = TRUE]]
         [] m.method = "ACK" ->
              ses' = [ses EXCEPT ![s] = IF @.listed THEN @ ELSE Disposed(@)]
         [] OTHER ->
              ses' = [ses EXCEPT ![s].listed = TRUE]
  /\ work' = [work EXCEPT ![w] = Idle]
  /\ UNCHANGED <<env, table, gauge, limiter, caps, ticks>>

(***************************************************************************)
(* Routing creates the outbound session.  It is stored if the inbound one  *)
(* is still being established; without a media port it is dropped although *)
(* it was never stored and has no Call-ID yet.                             *)
(***************************************************************************)
Route(w) ==
  /\ work[w].pc = "route"
  /\ work' = [work EXCEPT ![w] = Idle]
  /\ LET s == work[w].s
         n == Len(ses) + 1 IN
       \/ /\ n <= MaxSessions
          /\ "noPort" \in env
          /\ ses' = Append([ses EXCEPT ![s].state = "Rejected", ![s].final = TRUE],
                            [NewSession(NoCall, "out") EXCEPT !.drop = "disposed"])
          /\ UNCHANGED <<env, table, gauge>>
       \/ /\ n <= MaxSessions
          /\ ses[s].state = "BeingEstablished"
          /\ \E c \in EgressIDs :
               /\ table[c] = NoSession
               /\ \A i \in Created : ses[i].call # c
               /\ ses' = Append([ses EXCEPT ![s].egress = TRUE],
                                 [NewSession(c, "out") EXCEPT !.stored = TRUE, !.listed = TRUE])
               /\ Store(c, n)
       \/ UNCHANGED <<env, table, ses, gauge>>
  /\ UNCHANGED <<env, limiter, caps, ticks>>

-----------------------------------------------------------------------------
\* the call ends, in whichever way: the session is dropped
Drop(s) ==
  /\ ses[s].drop = "no" /\ ses[s].stored /\ ses[s].listed
  /\ ses' = [ses EXCEPT ![s].drop = "disposed"]
  /\ UNCHANGED <<env, table, work, gauge, limiter, caps, ticks>>

\* the end of DropMe: Sessions.Delete(session.CallID)
Forget(s) ==
  /\ ses[s].drop = "disposed"
  /\ ses' = [ses EXCEPT ![s].drop = "deleted"]
  /\ Delete(ses[s].call)
  /\ UNCHANGED <<env, work, limiter, caps, ticks>>

\* the end of StartServer: NewCallLimiter
SetLimiter ==
  /\ ~limiter.set
  /\ limiter' = [limiter EXCEPT !.set = TRUE]
  /\ UNCHANGED <<env, table, ses, work, gauge, caps, ticks>>

\* resetCount, once a second
ResetCount ==
  /\ limiter.set
  /\ ticks < MaxTicks
  /\ ticks' = ticks + 1
  /\ caps' = limiter.count
  /\ limiter' = [limiter EXCEPT !.count = 0]
  /\ UNCHANGED <<env, table, ses, work, gauge>>

Work(w) == StoreNew(w) \/ ExceedCondition(w) \/ Handle(w) \/ HandleFound(w) \/ Route(w)

Next ==
  \/ \E w \in Workers : Work(w) \/ \E m \in Message : Load(w, m)
  \/ \E s \in Created : Drop(s) \/ Forget(s)
  \/ SetLimiter \/ ResetCount

Spec == Init /\ [][Next]_vars

-----------------------------------------------------------------------------
(***************************************************************************)
(* Whatever peers do, the gauge counts the stored sessions that are not    *)
(* deleted yet, less the dropped sessions that were never stored: no       *)
(* session is stored or deleted twice (syncMapMutex.go:23, 31).            *)
(***************************************************************************)
GaugeBalanced ==
  gauge = Cardinality({s \in Created : ses[s].stored /\ ses[s].drop # "deleted"})
            - Cardinality({s \in Created : ~ses[s].stored /\ ses[s].drop = "deleted"})

\* peers that wait for a response before they send anything more of a call
OrderedPeers == env \cap {"dupInvite", "earlyCancel", "strayAck", "atStart"} = {}

(***************************************************************************)
(* A Call-ID never leads to a session whose DropMe has finished, and with  *)
(* ordered peers it leads to every session that is not dropped: what the   *)
(* peer sends next reaches it, and no second session of the same INVITE is *)
(* routed beside it (stack.go:297, 374).                                   *)
(***************************************************************************)
Reachable ==
  /\ \A c \in DOMAIN table : table[c] # NoSession => ses[table[c]].drop # "deleted"
  /\ OrderedPeers => \A s \in Created : ses[s].stored /\ ses[s].drop = "no" => table[ses[s].call] = s

\* With ordered peers, an INVITE whose CANCEL is accepted is answered: the 487
\* finds the transaction of the INVITE.
CancelledAnswered ==
  OrderedPeers => \A s \in Created : ses[s].state = "BeingCancelled" => ses[s].final

(***************************************************************************)
(* A session that no worker has in hand, without transaction and not       *)
(* dropped, was abandoned by a worker that found no CallLimiter            *)
(* (init.go:119): no race of requests strands another one.                 *)
(***************************************************************************)
StrandedOnlyAtStart ==
  \A s \in Created :
    /\ ses[s].dir = "in" /\ ~ses[s].listed /\ ses[s].drop = "no"
    /\ \A w \in Workers : work[w].s # s
    => ses[s].panicked
=============================================================================
