------------------------------ MODULE MediaPool ------------------------------
(***************************************************************************)
(* The pool of media ports (sip/mediapool.go), the routing handlers that   *)
(* reserve a port for each session of a call with steered media and for an *)
(* echo call, DropMe that gives it back, and the goroutines that read the  *)
(* port (HandleNSteerMedia, HandleEchoResponderMedia).                     *)
(*                                                                         *)
(* The mutex of the pool makes ReserveSocket one step, and the second half *)
(* of ReleaseSocket another: the socket is closed before the mutex is      *)
(* taken. ReserveSocket returns the socket and the handler then stores it  *)
(* in the session: a session dropped in between does not see it.           *)
(***************************************************************************)
EXTENDS Naturals, FiniteSets

CONSTANTS
  Ports,     \* MediaStartPort .. MediaEndPort
  Calls,     \* calls that need media ports, each routed once
  NoPort,    \* MediaConn = nil
  Envs       \* sets of the behaviours below, one of which is chosen

EnvBehaviour == {"stray"}   \* packets arrive that nobody of the call sent

ASSUME PoolAssumption ==
  /\ NoPort \notin Ports /\ NoPort \notin Calls \X {"in", "out"}
  /\ Envs \subseteq SUBSET EnvBehaviour

Sessions == Calls \X {"in", "out"}

In(c)  == <<c, "in">>
Out(c) == <<c, "out">>
Linked(s) == IF s[2] = "in" THEN Out(s[1]) ELSE In(s[1])

VARIABLES
  env,       \* what arrives in this behaviour
  alloc,     \* MediaPool.alloc
  foreign,   \* ports that other programs of the host listen on
  kind,      \* OutCallFlow of the call: steered media or echo
  pc,        \* where the handler that routes the INVITE of the call is
  got,       \* the port of the socket the handler got and has not stored yet
  conn,      \* the port of the session's MediaConn
  open,      \* sessions whose socket is open
  drop,      \* how far DropMe has come
  reader,    \* the goroutine that reads MediaConn
  answered,  \* calls whose callee's SDP was relayed to the caller
  warned,    \* "Port [%d] already released!" was logged
  crashed    \* a goroutine panicked and the process ended

vars == <<env, alloc, foreign, kind, pc, got, conn, open, drop, reader, answered, warned, crashed>>

RoutePC == {"new", "gotIn", "hasIn", "gotOut", "hasOut", "ringing", "done", "gaveUp"}

TypeOK ==
  /\ alloc \in [Ports -> BOOLEAN]
  /\ foreign \in SUBSET Ports
  /\ kind \in [Calls -> {"steer", "echo"}]
  /\ pc \in [Calls -> RoutePC]
  /\ got \in [Calls -> Ports \cup {NoPort}]
  /\ conn \in [Sessions -> Ports \cup {NoPort}]
  /\ open \in SUBSET Sessions
  /\ drop \in [Sessions -> {"live", "closed", "disposed"}]
  /\ reader \in [Sessions -> {"off", "reading", "ended"}]
  /\ answered \in SUBSET Calls
  /\ warned \in BOOLEAN
  /\ crashed \in BOOLEAN

Init ==
  /\ env \in Envs
  /\ alloc = [p \in Ports |-> FALSE]
  /\ foreign \in SUBSET Ports
  /\ kind \in [Calls -> {"steer", "echo"}]
  /\ pc = [c \in Calls |-> "new"]
  /\ got = [c \in Calls |-> NoPort]
  /\ conn = [s \in Sessions |-> NoPort]
  /\ open = {}
  /\ drop = [s \in Sessions |-> "live"]
  /\ reader = [s \in Sessions |-> "off"]
  /\ answered = {}
  /\ warned = FALSE
  /\ crashed = FALSE

-----------------------------------------------------------------------------
\* a port StartListening can bind: nobody on the host listens on it
CanListen(p) ==
  /\ p \notin foreign
  /\ \A s \in open : conn[s] # p
  /\ \A c \in Calls : got[c] # p

\* mutant: the map is not consulted
Bug_ReserveSocket(c, next) ==
  /\ \E p \in Ports :
       /\ CanListen(p)
       /\ alloc' = [alloc EXCEPT ![p] = TRUE]
       /\ got' = [got EXCEPT ![c] = p]
  /\ pc' = [pc EXCEPT ![c] = next]

(***************************************************************************)
(* ReserveSocket walks the map in any order, skips the ports in use and    *)
(* those it cannot listen on, and takes the first that is left.            *)
(***************************************************************************)
ReserveSocket(c, next) ==
  /\ \E p \in Ports :
       /\ ~alloc[p]
       /\ CanListen(p)
       /\ alloc' = [alloc EXCEPT ![p] = TRUE]
       /\ got' = [got EXCEPT ![c] = p]
  /\ pc' = [pc EXCEPT ![c] = next]

\* there was none: ReserveSocket returns nil
Exhausted == \A p \in Ports : alloc[p] \/ ~CanListen(p)

\* the socket ReserveSocket returned becomes the session's MediaConn
Store(c, s) ==
  /\ conn' = [conn EXCEPT ![s] = got[c]]
  /\ open' = open \cup {s}
  /\ got' = [got EXCEPT ![c] = NoPort]

(***************************************************************************)
(* Routing: ss1 first, then ss2; without a port for ss2, which nothing but *)
(* the handler knows, ss2 is dropped and ss1 rejected.                     *)
(***************************************************************************)
ReserveIn(c) ==
  /\ pc[c] = "new"
  /\ \/ ReserveSocket(c, "gotIn")
     \/ /\ Exhausted
        /\ pc' = [pc EXCEPT ![c] = "gaveUp"]
        /\ UNCHANGED <<env, alloc, got>>
  /\ UNCHANGED <<env, foreign, kind, conn, open, drop, reader, answered, warned, crashed>>

StoreIn(c) ==
  /\ pc[c] = "gotIn"
  /\ Store(c, In(c))
  /\ IF kind[c] = "echo"
       THEN /\ pc' = [pc EXCEPT ![c] = "ringing"]
            /\ UNCHANGED reader
       ELSE /\ pc' = [pc EXCEPT ![c] = "hasIn"]
            /\ reader' = [reader EXCEPT ![In(c)] = "reading"]
  /\ UNCHANGED <<env, alloc, foreign, kind, drop, answered, warned, crashed>>

ReserveOut(c) ==
  /\ pc[c] = "hasIn"
  /\ \/ /\ ReserveSocket(c, "gotOut")
        /\ UNCHANGED drop
     \/ /\ Exhausted
        /\ pc' = [pc EXCEPT ![c] = "gaveUp"]
        /\ drop' = [drop EXCEPT ![Out(c)] = "disposed"]
        /\ UNCHANGED <<env, alloc, got>>
  /\ UNCHANGED <<env, foreign, kind, conn, open, reader, answered, warned, crashed>>

StoreOut(c) ==
  /\ pc[c] = "gotOut"
  /\ Store(c, Out(c))
  /\ reader' = [reader EXCEPT ![Out(c)] = "reading"]
  /\ pc' = [pc EXCEPT ![c] = "hasOut"]
  /\ UNCHANGED <<env, alloc, foreign, kind, drop, answered, warned, crashed>>

(***************************************************************************)
(* ss2 is stored and its INVITE sent, unless ss1 is no longer being        *)
(* established: then the handler returns and nobody will drop ss2.         *)
(***************************************************************************)
Launch(c) ==
  /\ pc[c] = "hasOut"
  /\ \/ /\ drop[In(c)] = "live"
        /\ pc' = [pc EXCEPT ![c] = "done"]
     \/ pc' = [pc EXCEPT ![c] = "gaveUp"]
  /\ UNCHANGED <<env, alloc, foreign, kind, got, conn, open, drop, reader, answered, warned, crashed>>

\* the echo delay is over: the 200 is sent if the caller still waits; or the
\* answer could not be built in the first place
AnswerEcho(c) ==
  /\ pc[c] = "ringing"
  /\ \/ /\ drop[In(c)] = "live"
        /\ pc' = [pc EXCEPT ![c] = "done"]
        /\ reader' = [reader EXCEPT ![In(c)] = "reading"]
     \/ /\ pc' = [pc EXCEPT ![c] = "gaveUp"]
        /\ UNCHANGED reader
  /\ UNCHANGED <<env, alloc, foreign, kind, got, conn, open, drop, answered, warned, crashed>>

-----------------------------------------------------------------------------
(***************************************************************************)
(* DropMe.  ss1 is in the table from the start, ss2 once it was launched.  *)
(* IsDisposed, read and written under multiUseMutex, lets one caller       *)
(* through; the others wait for it and return.                             *)
(***************************************************************************)
Droppable(s) == drop[s] = "live" /\ (s[2] = "in" \/ pc[s[1]] = "done")

\* ReleaseSocket up to conn.Close(); without a socket it returns at once
CloseSocket(s) ==
  /\ Droppable(s)
  /\ drop' = [drop EXCEPT ![s] = IF conn[s] = NoPort THEN "disposed" ELSE "closed"]
  /\ open' = open \ {s}
  /\ UNCHANGED <<env, alloc, foreign, kind, pc, got, conn, reader, answered, warned, crashed>>

\* mutant: the port is not marked free
Bug_FreePort(s) ==
  /\ drop[s] = "closed"
  /\ drop' = [drop EXCEPT ![s] = "disposed"]
  /\ UNCHANGED <<env, alloc, foreign, kind, pc, got, conn, open, reader, answered, warned, crashed>>

\* the rest of ReleaseSocket, under the pool's mutex
FreePort(s) ==
  /\ drop[s] = "closed"
  /\ alloc' = [alloc EXCEPT ![conn[s]] = FALSE]
  /\ warned' = (warned \/ ~alloc[conn[s]])
  /\ drop' = [drop EXCEPT ![s] = "disposed"]
  /\ UNCHANGED <<env, foreign, kind, pc, got, conn, open, reader, answered, crashed>>

-----------------------------------------------------------------------------
\* mutant: the address of ss1's peer is stored with the callee's answer only
Bug_MediaAddrKnown(s) == s[1] \in answered

(***************************************************************************)
(* The media goroutines.  A packet on a steered port is written to the     *)
(* linked session's peer, whose address is stored when an SDP body is      *)
(* relayed: with the INVITE for ss1, with the callee's answer for ss2.     *)
(* RemoteMediaUdpAddr panics while there is none, and LogCallStack, called *)
(* by the deferred function and not deferred itself, does not recover.     *)
(***************************************************************************)
MediaAddrKnown(s) ==
  IF s[2] = "in" THEN pc[s[1]] = "done" ELSE s[1] \in answered

\* the peer of s learns the port of s from the SDP that is relayed to it
PeerKnowsPort(s) ==
  IF s[2] = "in" THEN s[1] \in answered ELSE pc[s[1]] = "done"

SteerPacket(s) ==
  /\ reader[s] = "reading" /\ s \in open
  /\ kind[s[1]] = "steer"
  /\ PeerKnowsPort(s) \/ "stray" \in env
  /\ crashed' = (conn[Linked(s)] # NoPort /\ ~MediaAddrKnown(Linked(s)))
  /\ UNCHANGED <<env, alloc, foreign, kind, pc, got, conn, open, drop, reader, answered, warned>>

\* mutant: after an error the goroutine reads again
Bug_EndReader(s) ==
  /\ reader[s] = "reading" /\ s \notin open
  /\ UNCHANGED vars

\* an error of the read, which a closed socket gives, ends the goroutine
EndReader(s) ==
  /\ reader[s] = "reading" /\ s \notin open
  /\ reader' = [reader EXCEPT ![s] = "ended"]
  /\ UNCHANGED <<env, alloc, foreign, kind, pc, got, conn, open, drop, answered, warned, crashed>>

\* a 18x or 200 of the callee is relayed, and with it the callee's SDP
RelayAnswer(c) ==
  /\ pc[c] = "done" /\ kind[c] = "steer"
  /\ drop[In(c)] = "live" /\ drop[Out(c)] = "live"
  /\ c \notin answered
  /\ answered' = answered \cup {c}
  /\ UNCHANGED <<env, alloc, foreign, kind, pc, got, conn, open, drop, reader, warned, crashed>>

\* another program of the host binds or frees a port
ForeignBind(p) ==
  /\ CanListen(p)
  /\ foreign' = foreign \cup {p}
  /\ UNCHANGED <<env, alloc, kind, pc, got, conn, open, drop, reader, answered, warned, crashed>>

ForeignFree(p) ==
  /\ p \in foreign
  /\ foreign' = foreign \ {p}
  /\ UNCHANGED <<env, alloc, kind, pc, got, conn, open, drop, reader, answered, warned, crashed>>

Route(c) ==
  ReserveIn(c) \/ StoreIn(c) \/ ReserveOut(c) \/ StoreOut(c) \/ Launch(c) \/ AnswerEcho(c)

Next ==
  /\ ~crashed
  /\ \/ \E c \in Calls : Route(c) \/ RelayAnswer(c)
     \/ \E s \in Sessions :
          CloseSocket(s) \/ FreePort(s) \/ SteerPacket(s) \/ EndReader(s)
     \/ \E p \in Ports : ForeignBind(p) \/ ForeignFree(p)

(***************************************************************************)
(* Goroutines that can run do run. That a session is dropped is up to the  *)
(* call (B2BCall) and not assumed, nor are packets and SDP bodies.         *)
(***************************************************************************)
Spec ==
  /\ Init /\ [][Next]_vars
  /\ \A c \in Calls : WF_vars(~crashed /\ Route(c))
  /\ \A s \in Sessions : WF_vars(~crashed /\ FreePort(s)) /\ WF_vars(~crashed /\ EndReader(s))

-----------------------------------------------------------------------------
(***************************************************************************)
(* Refinement.  The owner of a port is the handler that got it, then the   *)
(* session that stores it, until FreePort; a closed socket's port is still *)
(* owned.  Both are known by the session the port is reserved for.         *)
(***************************************************************************)
ReservedFor(c) == IF pc[c] = "gotIn" THEN In(c) ELSE Out(c)

Owns(s, p) ==
  \/ conn[s] = p /\ (s \in open \/ drop[s] = "closed")
  \/ got[s[1]] = p /\ s = ReservedFor(s[1])

Owner ==
  [p \in Ports |->
     IF \E s \in Sessions : Owns(s, p)
       THEN CHOOSE s \in Sessions : Owns(s, p) ELSE NoPort]

Alloc == INSTANCE PortAllocator WITH Owners <- Sessions, NoOwner <- NoPort, owner <- Owner

\* ReserveSocket and ReleaseSocket implement the allocator: no port is given
\* to two sessions, although closing and marking free are two steps.
Allocates == Alloc!Spec

(***************************************************************************)
(* The map and the sockets agree: a port is marked used exactly while it   *)
(* has an owner (mediapool.go:36, 55), and no path of the program releases *)
(* a socket twice, so "already released" (mediapool.go:58) is never seen.  *)
(***************************************************************************)
PoolExact ==
  /\ \A p \in Ports : alloc[p] <=> \E s \in Sessions : Owns(s, p)
  /\ ~warned

(***************************************************************************)
(* Steering media does not stop the program: no peer sends before the      *)
(* address of the other side is known.  A stray packet does, for the panic *)
(* is not recovered: LogCallStack is not the deferred function itself      *)
(* (routing.go:311, support.go:31).                                        *)
(***************************************************************************)
SteeringSurvives == crashed => "stray" \in env

\* Closing the socket ends the goroutine that reads it (routing.go:321), unless
\* the program has ended.
ReaderEnds == \A s \in Sessions :
  (drop[s] # "live" /\ s \notin open /\ conn[s] # NoPort)
     ~> (reader[s] \in {"off", "ended"} \/ crashed)
=============================================================================
