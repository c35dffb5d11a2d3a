--------------------------- MODULE MediaPoolProofs ---------------------------
EXTENDS MediaPool, TLAPS

-----------------------------------------------------------------------------
(***************************************************************************)
(* The inductive invariant.  CallInv says what the routing handler holds   *)
(* at each of its steps: a port that was reserved and not stored yet       *)
(* exactly after a reservation, and no MediaConn before it was stored.     *)
(* SessionInv relates MediaConn, the socket and DropMe of a session: the   *)
(* socket of a live session is open, and a port that is being released was *)
(* stored and its socket closed.  OneOwner is the exclusion itself.        *)
(***************************************************************************)
CallInv(c) ==
  /\ got[c] # NoPort <=> pc[c] \in {"gotIn", "gotOut"}
  /\ pc[c] \in {"new", "gotIn"} => conn[In(c)] = NoPort
  /\ pc[c] \in {"new", "gotIn", "hasIn", "gotOut"} => conn[Out(c)] = NoPort

SessionInv(s) ==
  /\ s \in open => conn[s] # NoPort /\ drop[s] # "closed"
  /\ drop[s] = "closed" => conn[s] # NoPort
  /\ drop[s] = "live" /\ conn[s] # NoPort => s \in open

OneOwner ==
  \A p \in Ports : \A s, t \in Sessions : Owns(s, p) /\ Owns(t, p) => s = t

IInv ==
  /\ TypeOK
  /\ \A c \in Calls : CallInv(c)
  /\ \A s \in Sessions : SessionInv(s)
  /\ OneOwner
  /\ PoolExact

-----------------------------------------------------------------------------
(***************************************************************************)
(* The sessions of a call                                                  *)
(***************************************************************************)
LEMMA SidesOfCall ==
  /\ \A c \in Calls : In(c) \in Sessions /\ Out(c) \in Sessions
  /\ \A c \in Calls : In(c)[1] = c /\ Out(c)[1] = c /\ In(c)[2] = "in" /\ Out(c)[2] = "out"
  /\ \A s \in Sessions : s[1] \in Calls /\ (s = In(s[1]) \/ s = Out(s[1]))
  /\ \A c, d \in Calls : In(c) # Out(d) /\ (In(c) = In(d) => c = d) /\ (Out(c) = Out(d) => c = d)
  BY DEF In, Out, Sessions

LEMMA ReservedForIsSession == \A c \in Calls : ReservedFor(c) \in Sessions /\ ReservedFor(c)[1] = c
  BY SidesOfCall DEF ReservedFor

LEMMA NoPortFree == NoPort \notin Ports /\ NoPort \notin Sessions
  BY PoolAssumption DEF Sessions

-----------------------------------------------------------------------------
(***************************************************************************)
(* A step that neither reserves nor frees a port leaves every port with    *)
(* its owner.  Then the map, which the step does not change either, stays  *)
(* exact.                                                                  *)
(***************************************************************************)
SameOwners == \A p \in Ports : \A s \in Sessions : Owns(s, p)' <=> Owns(s, p)

LEMMA KeepsOwners ==
  ASSUME IInv, SameOwners, UNCHANGED <<alloc, warned>>
  PROVE  OneOwner' /\ PoolExact'
<1>1. OneOwner'
  BY DEF IInv, OneOwner, SameOwners
<1>2. PoolExact'
  BY DEF IInv, PoolExact, SameOwners
<1> QED BY <1>1, <1>2

(***************************************************************************)
(* ReserveSocket: the port had no owner and gets one, which had no port.   *)
(***************************************************************************)
LEMMA ReserveTakes ==
  ASSUME IInv, NEW c \in Calls, NEW next \in {"gotIn", "gotOut"}, ReserveSocket(c, next),
         pc[c] = (IF next = "gotIn" THEN "new" ELSE "hasIn"),
         UNCHANGED <<conn, open, warned>>,
         \A s \in Sessions : drop'[s] = drop[s]
  PROVE  \E p \in Ports : \E o \in Sessions :
           /\ \A s \in Sessions : ~Owns(s, p)
           /\ \A q \in Ports : ~Owns(o, q)
           /\ alloc' = [alloc EXCEPT ![p] = TRUE]
           /\ \A q \in Ports : \A s \in Sessions :
                Owns(s, q)' <=> (Owns(s, q) \/ (q = p /\ s = o))
<1>1. PICK p \in Ports : /\ ~alloc[p]
                         /\ alloc' = [alloc EXCEPT ![p] = TRUE]
                         /\ got' = [got EXCEPT ![c] = p]
  BY DEF ReserveSocket
<1>2. pc' = [pc EXCEPT ![c] = next]
  BY DEF ReserveSocket
<1> DEFINE o == IF next = "gotIn" THEN In(c) ELSE Out(c)
<1>3. o \in Sessions /\ o[1] = c /\ ReservedFor(c)' = o
  BY <1>2, SidesOfCall DEF ReservedFor, IInv, TypeOK
<1>4. \A s \in Sessions : ~Owns(s, p)
  BY <1>1 DEF IInv, PoolExact
<1>5. conn[o] = NoPort /\ got[c] = NoPort
  BY DEF IInv, CallInv
<1>6. \A q \in Ports : ~Owns(o, q)
  BY <1>3, <1>5, NoPortFree DEF Owns
<1>7. ASSUME NEW q \in Ports, NEW s \in Sessions
      PROVE  Owns(s, q)' <=> (Owns(s, q) \/ (q = p /\ s = o))
  <2>1. CASE s[1] = c
    <3>1. got'[c] = p
      BY <1>1 DEF IInv, TypeOK
    <3>2. ~(got[s[1]] = q /\ s = ReservedFor(s[1]))
      BY <2>1, <1>5, NoPortFree
    <3> QED BY <2>1, <3>1, <3>2, <1>3 DEF Owns
  <2>2. CASE s[1] # c
    <3>1. s[1] \in Calls
      BY SidesOfCall
    <3>2. got'[s[1]] = got[s[1]] /\ pc'[s[1]] = pc[s[1]]
      BY <1>1, <1>2, <2>2, <3>1 DEF IInv, TypeOK
    <3>3. ReservedFor(s[1])' = ReservedFor(s[1])
      BY <3>2 DEF ReservedFor
    <3> QED BY <2>2, <3>2, <3>3, <1>3 DEF Owns
  <2> QED BY <2>1, <2>2
<1> HIDE DEF o
<1> QED BY <1>1, <1>3, <1>4, <1>6, <1>7

LEMMA TakenStaysExact ==
  ASSUME IInv, UNCHANGED warned, NEW p \in Ports, NEW o \in Sessions,
         \A s \in Sessions : ~Owns(s, p),
         alloc' = [alloc EXCEPT ![p] = TRUE],
         \A q \in Ports : \A s \in Sessions : Owns(s, q)' <=> (Owns(s, q) \/ (q = p /\ s = o))
  PROVE  OneOwner' /\ PoolExact'
<1>1. OneOwner'
  BY DEF IInv, OneOwner
<1>2. PoolExact'
  BY DEF IInv, PoolExact, TypeOK
<1> QED BY <1>1, <1>2

-----------------------------------------------------------------------------
(***************************************************************************)
(* Every step preserves the invariant: one lemma for each action that      *)
(* changes what the invariant is about.                                    *)
(***************************************************************************)
LEMMA InitIInv == Init => IInv
<1> SUFFICES ASSUME Init PROVE IInv
  OBVIOUS
<1>1. TypeOK
  BY DEF Init, TypeOK, RoutePC
<1>2. \A c \in Calls : CallInv(c)
  BY SidesOfCall DEF Init, CallInv
<1>3. \A s \in Sessions : SessionInv(s)
  BY DEF Init, SessionInv
<1>4. \A p \in Ports : \A s \in Sessions : ~Owns(s, p)
  BY SidesOfCall, NoPortFree DEF Init, Owns
<1>5. OneOwner /\ PoolExact
  BY <1>4 DEF Init, OneOwner, PoolExact
<1> QED BY <1>1, <1>2, <1>3, <1>5 DEF IInv

LEMMA ReserveInIInv ==
  ASSUME IInv, NEW c \in Calls, ReserveIn(c)
  PROVE  IInv'
<1>1. TypeOK'
  BY DEF IInv, TypeOK, ReserveIn, ReserveSocket, RoutePC
<1>2. \A d \in Calls : CallInv(d)'
  BY SidesOfCall, NoPortFree DEF IInv, TypeOK, CallInv, ReserveIn, ReserveSocket, RoutePC
<1>3. \A s \in Sessions : SessionInv(s)'
  BY DEF IInv, SessionInv, ReserveIn
<1>4. OneOwner' /\ PoolExact'
  <2>1. CASE ReserveSocket(c, "gotIn")
    BY <2>1, ReserveTakes, TakenStaysExact DEF ReserveIn
  <2>2. CASE pc' = [pc EXCEPT ![c] = "gaveUp"] /\ UNCHANGED <<alloc, got>>
    <3>1. got[c] = NoPort
      BY DEF ReserveIn, IInv, CallInv
    <3>2. \A d \in Calls : d # c => ReservedFor(d)' = ReservedFor(d)
      BY <2>2 DEF ReservedFor, IInv, TypeOK
    <3>3. SameOwners
      BY <2>2, <3>1, <3>2, SidesOfCall, NoPortFree DEF SameOwners, Owns, ReserveIn
    <3> QED BY <2>2, <3>3, KeepsOwners DEF ReserveIn
  <2> QED BY <2>1, <2>2 DEF ReserveIn
<1> QED BY <1>1, <1>2, <1>3, <1>4 DEF IInv

LEMMA StoreKeepsOwners ==
  ASSUME IInv, NEW c \in Calls, NEW s \in Sessions, Store(c, s),
         pc[c] \in {"gotIn", "gotOut"}, s = ReservedFor(c),
         \A d \in Calls : d # c => pc'[d] = pc[d],
         UNCHANGED <<alloc, drop, warned>>
  PROVE  SameOwners /\ OneOwner' /\ PoolExact'
<1>1. conn[s] = NoPort /\ s[1] = c /\ got[c] \in Ports
  BY SidesOfCall DEF IInv, CallInv, ReservedFor, TypeOK
<1>2. conn'[s] = got[c] /\ s \in open' /\ got'[c] = NoPort
  BY DEF Store, IInv, TypeOK
<1>3. \A t \in Sessions : t # s => conn'[t] = conn[t] /\ (t \in open' <=> t \in open)
  BY DEF Store, IInv, TypeOK
<1>4. \A d \in Calls : d # c => got'[d] = got[d] /\ ReservedFor(d)' = ReservedFor(d)
  BY DEF Store, IInv, TypeOK, ReservedFor
<1>5. ASSUME NEW p \in Ports, NEW t \in Sessions
      PROVE  Owns(t, p)' <=> Owns(t, p)
  <2>1. CASE t = s
    BY <2>1, <1>1, <1>2, NoPortFree DEF Owns
  <2>2. CASE t # s /\ t[1] = c
    BY <2>2, <1>1, <1>2, <1>3, NoPortFree DEF Owns
  <2>3. CASE t[1] # c
    BY <2>3, <1>1, <1>3, <1>4, SidesOfCall DEF Owns
  <2> QED BY <2>1, <2>2, <2>3
<1>6. SameOwners
  BY <1>5 DEF SameOwners
<1> QED BY <1>6, KeepsOwners

LEMMA StoreInIInv ==
  ASSUME IInv, NEW c \in Calls, StoreIn(c)
  PROVE  IInv' /\ SameOwners
<1>1. In(c) \in Sessions /\ In(c) = ReservedFor(c)
  BY SidesOfCall DEF StoreIn, ReservedFor
<1>2. got[c] \in Ports /\ got[c] # NoPort /\ drop[In(c)] # "closed"
  BY <1>1 DEF StoreIn, IInv, CallInv, SessionInv, TypeOK
<1>3. TypeOK'
  BY <1>1 DEF IInv, TypeOK, StoreIn, Store, RoutePC
<1>4. \A d \in Calls : CallInv(d)'
  BY SidesOfCall, NoPortFree DEF IInv, TypeOK, CallInv, StoreIn, Store
<1>5. \A s \in Sessions : SessionInv(s)'
  BY <1>1, <1>2 DEF IInv, TypeOK, SessionInv, StoreIn, Store
<1>6. SameOwners /\ OneOwner' /\ PoolExact'
  <2>1. \A d \in Calls : d # c => pc'[d] = pc[d]
    BY DEF StoreIn, IInv, TypeOK
  <2> QED BY <1>1, <2>1, StoreKeepsOwners DEF StoreIn
<1> QED BY <1>3, <1>4, <1>5, <1>6 DEF IInv

LEMMA ReserveOutIInv ==
  ASSUME IInv, NEW c \in Calls, ReserveOut(c)
  PROVE  IInv'
<1>1. Out(c) \in Sessions /\ conn[Out(c)] = NoPort /\ got[c] = NoPort
  BY SidesOfCall DEF ReserveOut, IInv, CallInv
<1>2. TypeOK'
  BY <1>1, ZenonT(60) DEF IInv, TypeOK, ReserveOut, ReserveSocket, RoutePC
<1>3. \A d \in Calls : CallInv(d)'
  BY SidesOfCall, NoPortFree DEF IInv, TypeOK, CallInv, ReserveOut, ReserveSocket, RoutePC
<1>4. \A s \in Sessions : SessionInv(s)'
  BY <1>1 DEF IInv, TypeOK, SessionInv, ReserveOut
<1>5. OneOwner' /\ PoolExact'
  <2>1. CASE ReserveSocket(c, "gotOut") /\ UNCHANGED drop
    BY <2>1, ReserveTakes, TakenStaysExact DEF ReserveOut
  <2>2. CASE /\ pc' = [pc EXCEPT ![c] = "gaveUp"] /\ UNCHANGED <<alloc, got>>
             /\ drop' = [drop EXCEPT ![Out(c)] = "disposed"]
    <3>1. \A d \in Calls : d # c => ReservedFor(d)' = ReservedFor(d)
      BY <2>2 DEF ReservedFor, IInv, TypeOK
    <3>2. \A s \in Sessions : s # Out(c) => drop'[s] = drop[s]
      BY <2>2 DEF IInv, TypeOK
    <3>3. SameOwners
      BY <2>2, <1>1, <3>1, <3>2, SidesOfCall, NoPortFree DEF SameOwners, Owns, ReserveOut
    <3> QED BY <2>2, <3>3, KeepsOwners DEF ReserveOut
  <2> QED BY <2>1, <2>2 DEF ReserveOut
<1> QED BY <1>2, <1>3, <1>4, <1>5 DEF IInv

LEMMA StoreOutIInv ==
  ASSUME IInv, NEW c \in Calls, StoreOut(c)
  PROVE  IInv' /\ SameOwners
<1>1. Out(c) \in Sessions /\ Out(c) = ReservedFor(c)
  BY SidesOfCall DEF StoreOut, ReservedFor
<1>2. got[c] \in Ports /\ got[c] # NoPort /\ drop[Out(c)] # "closed"
  BY <1>1 DEF StoreOut, IInv, CallInv, SessionInv, TypeOK
<1>3. TypeOK'
  BY <1>1 DEF IInv, TypeOK, StoreOut, Store, RoutePC
<1>4. \A d \in Calls : CallInv(d)'
  BY SidesOfCall, NoPortFree DEF IInv, TypeOK, CallInv, StoreOut, Store
<1>5. \A s \in Sessions : SessionInv(s)'
  BY <1>1, <1>2 DEF IInv, TypeOK, SessionInv, StoreOut, Store
<1>6. SameOwners /\ OneOwner' /\ PoolExact'
  <2>1. \A d \in Calls : d # c => pc'[d] = pc[d]
    BY DEF StoreOut, IInv, TypeOK
  <2> QED BY <1>1, <2>1, StoreKeepsOwners DEF StoreOut
<1> QED BY <1>3, <1>4, <1>5, <1>6 DEF IInv

\* a step of the handler that has stored what it reserved
LEMMA HandlerIInv ==
  ASSUME IInv, NEW c \in Calls, pc[c] \in {"hasOut", "ringing"},
         NEW q \in {"done", "gaveUp"}, pc' = [pc EXCEPT ![c] = q],
         reader' \in [Sessions -> {"off", "reading", "ended"}],
         UNCHANGED <<alloc, foreign, kind, got, conn, open, drop, answered, warned, crashed>>
  PROVE  IInv' /\ SameOwners
<1>1. TypeOK'
  BY DEF IInv, TypeOK, RoutePC
<1>2. \A d \in Calls : CallInv(d)'
  BY DEF IInv, TypeOK, CallInv
<1>3. \A s \in Sessions : SessionInv(s)'
  BY DEF IInv, SessionInv
<1>4. got[c] = NoPort
  BY DEF IInv, CallInv
<1>5. \A d \in Calls : d # c => ReservedFor(d)' = ReservedFor(d)
  BY DEF ReservedFor, IInv, TypeOK
<1>6. SameOwners
  BY <1>4, <1>5, SidesOfCall, NoPortFree DEF SameOwners, Owns
<1> QED BY <1>1, <1>2, <1>3, <1>6, KeepsOwners DEF IInv

LEMMA LaunchIInv ==
  ASSUME IInv, NEW c \in Calls, Launch(c)
  PROVE  IInv' /\ SameOwners
<1>1. reader' \in [Sessions -> {"off", "reading", "ended"}]
  BY DEF Launch, IInv, TypeOK
<1> QED BY <1>1, HandlerIInv DEF Launch

LEMMA AnswerEchoIInv ==
  ASSUME IInv, NEW c \in Calls, AnswerEcho(c)
  PROVE  IInv' /\ SameOwners
<1>1. reader' \in [Sessions -> {"off", "reading", "ended"}]
  BY SidesOfCall DEF AnswerEcho, IInv, TypeOK
<1> QED BY <1>1, HandlerIInv DEF AnswerEcho

LEMMA CloseSocketIInv ==
  ASSUME IInv, NEW s \in Sessions, CloseSocket(s)
  PROVE  IInv' /\ SameOwners
<1>1. TypeOK'
  BY DEF IInv, TypeOK, CloseSocket
<1>2. \A d \in Calls : CallInv(d)'
  BY DEF IInv, CallInv, CloseSocket
<1>3. \A t \in Sessions : SessionInv(t)'
  BY DEF IInv, TypeOK, SessionInv, CloseSocket, Droppable
<1>4. \A d \in Calls : ReservedFor(d)' = ReservedFor(d)
  BY DEF ReservedFor, CloseSocket
<1>5. SessionInv(s)
  BY DEF IInv
<1>6. drop'[s] = (IF conn[s] = NoPort THEN "disposed" ELSE "closed")
      /\ \A t \in Sessions : t # s => drop'[t] = drop[t]
  BY DEF CloseSocket, IInv, TypeOK
<1>7. ASSUME NEW p \in Ports, NEW t \in Sessions
      PROVE  Owns(t, p)' <=> Owns(t, p)
  <2>1. t[1] \in Calls /\ conn' = conn /\ got' = got /\ open' = open \ {s}
    BY SidesOfCall DEF CloseSocket
  <2>2. CASE t = s
    BY <2>1, <2>2, <1>4, <1>5, <1>6, NoPortFree DEF Owns, SessionInv, CloseSocket, Droppable
  <2>3. CASE t # s
    BY <2>1, <2>3, <1>4, <1>6 DEF Owns
  <2> QED BY <2>2, <2>3
<1>8. SameOwners
  BY <1>7 DEF SameOwners
<1> QED BY <1>1, <1>2, <1>3, <1>8, KeepsOwners DEF IInv, CloseSocket

(***************************************************************************)
(* FreePort: the port has an owner, which gives it back.                   *)
(***************************************************************************)
LEMMA FreePortGives ==
  ASSUME IInv, NEW s \in Sessions, FreePort(s)
  PROVE  /\ conn[s] \in Ports /\ Owns(s, conn[s]) /\ alloc[conn[s]]
         /\ \A q \in Ports : \A t \in Sessions :
              Owns(t, q)' <=> (Owns(t, q) /\ ~(q = conn[s] /\ t = s))
<1>1. SessionInv(s) /\ drop[s] = "closed"
  BY DEF IInv, FreePort
<1>2. conn[s] \in Ports /\ s \notin open /\ Owns(s, conn[s])
  BY <1>1 DEF SessionInv, Owns, IInv, TypeOK
<1>3. alloc[conn[s]]
  BY <1>2 DEF IInv, PoolExact
<1>4. \A d \in Calls : ReservedFor(d)' = ReservedFor(d)
  BY DEF ReservedFor, FreePort
<1>5. drop'[s] = "disposed" /\ \A t \in Sessions : t # s => drop'[t] = drop[t]
  BY DEF FreePort, IInv, TypeOK
<1>6. ASSUME NEW q \in Ports, NEW t \in Sessions
      PROVE  Owns(t, q)' <=> (Owns(t, q) /\ ~(q = conn[s] /\ t = s))
  <2>1. t[1] \in Calls /\ conn' = conn /\ got' = got /\ open' = open
    BY SidesOfCall DEF FreePort
  <2>2. CASE t = s
    <3>1. ~(got[s[1]] = q /\ s = ReservedFor(s[1]))
      <4>1. CallInv(s[1])
        BY SidesOfCall DEF IInv
      <4> QED BY <1>1, <1>2, <4>1, SidesOfCall, NoPortFree DEF CallInv, SessionInv, ReservedFor
    <3> QED BY <2>1, <2>2, <3>1, <1>2, <1>4, <1>5 DEF Owns
  <2>3. CASE t # s
    BY <2>1, <2>3, <1>4, <1>5 DEF Owns
  <2> QED BY <2>2, <2>3
<1> QED BY <1>2, <1>3, <1>6

LEMMA FreePortIInv ==
  ASSUME IInv, NEW s \in Sessions, FreePort(s)
  PROVE  IInv'
<1>1. conn[s] \in Ports /\ alloc[conn[s]] /\ Owns(s, conn[s])
  BY FreePortGives
<1>2. TypeOK'
  BY <1>1 DEF IInv, TypeOK, FreePort
<1>3. \A d \in Calls : CallInv(d)'
  BY DEF IInv, CallInv, FreePort
<1>4. \A t \in Sessions : SessionInv(t)'
  BY DEF IInv, TypeOK, SessionInv, FreePort
<1>5. \A q \in Ports : \A t \in Sessions :
        Owns(t, q)' <=> (Owns(t, q) /\ ~(q = conn[s] /\ t = s))
  BY FreePortGives
<1>6. OneOwner'
  BY <1>5 DEF IInv, OneOwner
<1>7. \A q \in Ports : alloc'[q] <=> \E t \in Sessions : Owns(t, q)'
  BY <1>1, <1>5 DEF IInv, PoolExact, OneOwner, TypeOK, FreePort
<1>8. ~warned'
  BY <1>1 DEF FreePort, IInv, PoolExact
<1>9. PoolExact'
  BY <1>7, <1>8 DEF PoolExact
<1> QED BY <1>2, <1>3, <1>4, <1>6, <1>9 DEF IInv

\* packets, the end of a reader, the callee's answer and other programs
LEMMA MediaIInv ==
  ASSUME IInv, UNCHANGED <<alloc, kind, pc, got, conn, open, drop, warned>>,
         foreign' \in SUBSET Ports, answered' \in SUBSET Calls, crashed' \in BOOLEAN,
         reader' \in [Sessions -> {"off", "reading", "ended"}]
  PROVE  IInv' /\ SameOwners
<1>1. TypeOK' /\ (\A d \in Calls : CallInv(d)') /\ (\A t \in Sessions : SessionInv(t)')
  BY DEF IInv, TypeOK, CallInv, SessionInv
<1>2. SameOwners
  BY DEF SameOwners, Owns, ReservedFor
<1> QED BY <1>1, <1>2, KeepsOwners DEF IInv

(***************************************************************************)
(* What a step may do to the owners: nothing, give a free port to somebody *)
(* without one, or take a port from its owner.                             *)
(***************************************************************************)
Takes(p, o) ==
  /\ \A s \in Sessions : ~Owns(s, p)
  /\ \A q \in Ports : ~Owns(o, q)
  /\ \A q \in Ports : \A s \in Sessions : Owns(s, q)' <=> (Owns(s, q) \/ (q = p /\ s = o))

Gives(p, o) ==
  /\ Owns(o, p)
  /\ \A q \in Ports : \A s \in Sessions : Owns(s, q)' <=> (Owns(s, q) /\ ~(q = p /\ s = o))

OwnersStep == SameOwners \/ \E p \in Ports, o \in Sessions : Takes(p, o) \/ Gives(p, o)

LEMMA ReserveOwners ==
  ASSUME IInv, NEW c \in Calls, ReserveIn(c) \/ ReserveOut(c)
  PROVE  OwnersStep
<1>1. Out(c) \in Sessions /\ got[c] = NoPort /\ conn[Out(c)] = NoPort
  BY SidesOfCall DEF ReserveIn, ReserveOut, IInv, CallInv
<1>2. CASE ReserveSocket(c, "gotIn") /\ ReserveIn(c)
  BY <1>2, ReserveTakes DEF ReserveIn, OwnersStep, Takes
<1>3. CASE ReserveSocket(c, "gotOut") /\ UNCHANGED drop /\ ReserveOut(c)
  BY <1>3, ReserveTakes DEF ReserveOut, OwnersStep, Takes
<1>4. CASE /\ pc' = [pc EXCEPT ![c] = "gaveUp"] /\ UNCHANGED <<alloc, got, conn, open>>
           /\ drop' = drop \/ drop' = [drop EXCEPT ![Out(c)] = "disposed"]
  <2>1. \A d \in Calls : d # c => ReservedFor(d)' = ReservedFor(d)
    BY <1>4 DEF ReservedFor, IInv, TypeOK
  <2>2. \A s \in Sessions : s # Out(c) => drop'[s] = drop[s]
    BY <1>4 DEF IInv, TypeOK
  <2>3. SameOwners
    BY <1>4, <1>1, <2>1, <2>2, SidesOfCall, NoPortFree DEF SameOwners, Owns
  <2> QED BY <2>3 DEF OwnersStep
<1> QED BY <1>2, <1>3, <1>4 DEF ReserveIn, ReserveOut

LEMMA NextIInv == IInv /\ [Next]_vars => IInv' /\ OwnersStep
<1> SUFFICES ASSUME IInv, [Next]_vars PROVE IInv' /\ OwnersStep
  OBVIOUS
<1>1. ASSUME NEW c \in Calls, Route(c) PROVE IInv' /\ OwnersStep
  <2>1. CASE ReserveIn(c)
    BY <2>1, ReserveInIInv, ReserveOwners
  <2>2. CASE StoreIn(c)
    BY <2>2, StoreInIInv DEF OwnersStep
  <2>3. CASE ReserveOut(c)
    BY <2>3, ReserveOutIInv, ReserveOwners
  <2>4. CASE StoreOut(c)
    BY <2>4, StoreOutIInv DEF OwnersStep
  <2>5. CASE Launch(c)
    BY <2>5, LaunchIInv DEF OwnersStep
  <2>6. CASE AnswerEcho(c)
    BY <2>6, AnswerEchoIInv DEF OwnersStep
  <2> QED BY <1>1, <2>1, <2>2, <2>3, <2>4, <2>5, <2>6 DEF Route
<1>2. ASSUME NEW s \in Sessions, CloseSocket(s) PROVE IInv' /\ OwnersStep
  BY <1>2, CloseSocketIInv DEF OwnersStep
<1>3. ASSUME NEW s \in Sessions, FreePort(s) PROVE IInv' /\ OwnersStep
  <2>1. IInv'
    BY <1>3, FreePortIInv
  <2>2. conn[s] \in Ports /\ Gives(conn[s], s)
    BY <1>3, FreePortGives DEF Gives
  <2> QED BY <2>1, <2>2 DEF OwnersStep
<1>4. CASE \/ \E c \in Calls : RelayAnswer(c)
           \/ \E s \in Sessions : SteerPacket(s) \/ EndReader(s)
           \/ \E p \in Ports : ForeignBind(p) \/ ForeignFree(p)
           \/ UNCHANGED vars
  <2>1. UNCHANGED <<alloc, kind, pc, got, conn, open, drop, warned>>
    BY <1>4 DEF RelayAnswer, SteerPacket, EndReader, ForeignBind, ForeignFree, vars
  <2>2. foreign' \in SUBSET Ports
    BY <1>4 DEF RelayAnswer, SteerPacket, EndReader, ForeignBind, ForeignFree, vars, IInv, TypeOK
  <2>3. answered' \in SUBSET Calls
    BY <1>4 DEF RelayAnswer, SteerPacket, EndReader, ForeignBind, ForeignFree, vars, IInv, TypeOK
  <2>4. crashed' \in BOOLEAN
    BY <1>4 DEF RelayAnswer, SteerPacket, EndReader, ForeignBind, ForeignFree, vars, IInv, TypeOK
  <2>5. reader' \in [Sessions -> {"off", "reading", "ended"}]
    BY <1>4 DEF RelayAnswer, SteerPacket, EndReader, ForeignBind, ForeignFree, vars, IInv, TypeOK
  <2> QED BY <2>1, <2>2, <2>3, <2>4, <2>5, MediaIInv DEF OwnersStep
<1> QED BY <1>1, <1>2, <1>3, <1>4 DEF Next

LEMMA Invariance == Spec => []IInv
  BY InitIInv, NextIInv, PTL DEF Spec

-----------------------------------------------------------------------------
(***************************************************************************)
(* For any ports, any number of calls and whatever other programs bind: a  *)
(* port is marked used in MediaPool.alloc exactly while somebody owns it,  *)
(* and ReleaseSocket never finds a port already released.                  *)
(***************************************************************************)
THEOREM PoolExactHolds == Spec => []PoolExact
<1>1. IInv => PoolExact
  BY DEF IInv
<1> QED BY <1>1, Invariance, PTL

(***************************************************************************)
(* No packet of the peers of a call makes RemoteMediaUdpAddr panic: only a *)
(* stray packet can arrive before the address of the other side is known.  *)
(***************************************************************************)
THEOREM SteeringSurvivesHolds == Spec => []SteeringSurvives
<1>1. Init => SteeringSurvives
  BY DEF Init, SteeringSurvives
<1>2. SteeringSurvives /\ [Next]_vars => SteeringSurvives'
  <2> SUFFICES ASSUME SteeringSurvives, [Next]_vars PROVE SteeringSurvives'
    OBVIOUS
  <2>1. ASSUME NEW s \in Sessions, SteerPacket(s) PROVE SteeringSurvives'
    <3>1. CASE "stray" \in env
      BY <2>1, <3>1 DEF SteerPacket, SteeringSurvives
    <3>2. CASE PeerKnowsPort(s)
      <4>1. MediaAddrKnown(Linked(s))
        BY <3>2, SidesOfCall DEF PeerKnowsPort, MediaAddrKnown, Linked
      <4> QED BY <2>1, <4>1 DEF SteerPacket, SteeringSurvives
    <3> QED BY <2>1, <3>1, <3>2 DEF SteerPacket
  <2>2. ASSUME UNCHANGED <<env, crashed>> PROVE SteeringSurvives'
    BY <2>2 DEF SteeringSurvives
  <2>3. ASSUME NEW c \in Calls, Route(c) \/ RelayAnswer(c) PROVE UNCHANGED <<env, crashed>>
    BY <2>3 DEF Route, RelayAnswer, ReserveIn, StoreIn, ReserveOut, StoreOut, Launch, AnswerEcho
  <2>4. ASSUME NEW s \in Sessions, CloseSocket(s) \/ FreePort(s) \/ EndReader(s)
        PROVE  UNCHANGED <<env, crashed>>
    BY <2>4 DEF CloseSocket, FreePort, EndReader
  <2>5. ASSUME NEW p \in Ports, ForeignBind(p) \/ ForeignFree(p) PROVE UNCHANGED <<env, crashed>>
    BY <2>5 DEF ForeignBind, ForeignFree
  <2> QED BY <2>1, <2>2, <2>3, <2>4, <2>5 DEF Next, vars
<1> QED BY <1>1, <1>2, PTL DEF Spec

-----------------------------------------------------------------------------
(***************************************************************************)
(* Refinement.  Under the invariant Owner[p] is the one who owns p.        *)
(***************************************************************************)
OwnerIsOwner ==
  \A p \in Ports : /\ \A s \in Sessions : Owns(s, p) => Owner[p] = s
                   /\ (\A s \in Sessions : ~Owns(s, p)) => Owner[p] = NoPort

LEMMA OwnerOfPort == IInv => OwnerIsOwner
<1> SUFFICES ASSUME IInv, NEW p \in Ports
             PROVE  /\ \A s \in Sessions : Owns(s, p) => Owner[p] = s
                    /\ (\A s \in Sessions : ~Owns(s, p)) => Owner[p] = NoPort
  BY DEF OwnerIsOwner
<1>1. Owner[p] = IF \E s \in Sessions : Owns(s, p)
                   THEN CHOOSE s \in Sessions : Owns(s, p) ELSE NoPort
  BY DEF Owner
<1>2. ASSUME NEW s \in Sessions, Owns(s, p) PROVE Owner[p] = s
  <2>1. /\ (CHOOSE t \in Sessions : Owns(t, p)) \in Sessions
        /\ Owns(CHOOSE t \in Sessions : Owns(t, p), p)
    BY <1>2
  <2>2. Owner[p] \in Sessions /\ Owns(Owner[p], p)
    BY <1>1, <1>2, <2>1
  <2> QED BY <1>2, <2>2 DEF IInv, OneOwner
<1> QED BY <1>1, <1>2

LEMMA StepRefines == IInv /\ IInv' /\ OwnersStep => [Alloc!Next]_Owner
<1> SUFFICES ASSUME IInv, IInv', OwnersStep PROVE Alloc!Next \/ Owner' = Owner
  OBVIOUS
<1>1. OwnerIsOwner
  BY OwnerOfPort
<1>2. OwnerIsOwner'
  BY OwnerOfPort, PTL
<1>3. DOMAIN Owner = Ports /\ DOMAIN Owner' = Ports
      /\ Owner = [p \in Ports |-> Owner[p]] /\ Owner' = [p \in Ports |-> Owner'[p]]
  BY DEF Owner
<1>4. CASE SameOwners
  <2>1. \A p \in Ports : Owner'[p] = Owner[p]
    BY <1>1, <1>2, <1>4 DEF OwnerIsOwner, SameOwners
  <2> QED BY <1>3, <2>1
<1>5. ASSUME NEW p \in Ports, NEW o \in Sessions, Takes(p, o) PROVE Alloc!Next
  <2>1. Owner[p] = NoPort /\ \A q \in Ports : Owner[q] # o
    BY <1>1, <1>5, NoPortFree DEF OwnerIsOwner, Takes
  <2>2. Owner'[p] = o /\ \A q \in Ports : q # p => Owner'[q] = Owner[q]
    BY <1>1, <1>2, <1>5 DEF OwnerIsOwner, Takes
  <2>3. Owner' = [Owner EXCEPT ![p] = o]
    BY <1>3, <2>2
  <2> QED BY <2>1, <2>3 DEF Alloc!Next, Alloc!Take
<1>6. ASSUME NEW p \in Ports, NEW o \in Sessions, Gives(p, o) PROVE Alloc!Next
  <2>1. Owner[p] = o
    BY <1>1, <1>6 DEF OwnerIsOwner, Gives
  <2>2. \A s \in Sessions : Owns(s, p) => s = o
    BY <1>6 DEF IInv, OneOwner, Gives
  <2>3. Owner'[p] = NoPort /\ \A q \in Ports : q # p => Owner'[q] = Owner[q]
    BY <1>1, <1>2, <1>6, <2>2 DEF OwnerIsOwner, Gives
  <2>4. Owner' = [Owner EXCEPT ![p] = NoPort]
    BY <1>3, <2>3
  <2> QED BY <2>1, <2>4 DEF Alloc!Next, Alloc!Give
<1> QED BY <1>4, <1>5, <1>6 DEF OwnersStep

(***************************************************************************)
(* ReserveSocket and ReleaseSocket, each split where the mutex is not      *)
(* held, implement the allocator: a port has one owner at a time, a        *)
(* session one port, and only the owner gives a port back.                 *)
(***************************************************************************)
THEOREM PoolAllocates == Spec => Allocates
<1>1. Init => Alloc!Init
  <2> SUFFICES ASSUME Init PROVE Owner = [p \in Ports |-> NoPort]
    BY DEF Alloc!Init
  <2>1. \A p \in Ports : \A s \in Sessions : ~Owns(s, p)
    BY SidesOfCall, NoPortFree DEF Init, Owns
  <2> QED BY <2>1 DEF Owner
<1>2. IInv /\ [Next]_vars => [Alloc!Next]_Owner
  BY NextIInv, StepRefines
<1> QED BY <1>1, <1>2, Invariance, PTL DEF Spec, Allocates, Alloc!Spec
=============================================================================
