-------------------------- MODULE SessionTableProofs --------------------------
EXTENDS SessionTable, FiniteSetTheorems, TLAPS

-----------------------------------------------------------------------------
(***************************************************************************)
(* The inductive invariant.                                                *)
(*                                                                         *)
(* WorkInv: the session a worker has in hand exists, and it is the one of  *)
(* the message's Call-ID.  CallInv: a session without Call-ID was never    *)
(* stored.  TableInv: an entry of the table is a session of that Call-ID   *)
(* which is not deleted.  StrandInv: a new session without transaction is  *)
(* in the hands of the worker that stored it.                              *)
(*                                                                         *)
(* OrderedInv holds while peers are ordered: one worker at a time sets a   *)
(* Call-ID up, and finds it unused until it stores its session; so the     *)
(* table has every session that is not deleted, also the ones that are     *)
(* being dropped; and what is found in the table is no session another     *)
(* worker still sets up, so a CANCEL finds the transaction of its INVITE.  *)
(***************************************************************************)
CallSet == CallIDs \cup EgressIDs

Setting(w) == work[w].pc \in {"miss", "stored", "counted"}

Busy(s) == \E w \in Workers : work[w].pc \in {"stored", "counted"} /\ work[w].s = s

WorkType ==
  work \in [Workers -> [pc : {"idle", "miss", "hit", "stored", "counted", "route"},
                        msg : [call : CallIDs \cup {NoCall}, method : Method],
                        s : SessionId \cup {NoSession}, exceeded : BOOLEAN]]

WorkInv ==
  \A w \in Workers :
    /\ work[w].pc \in {"hit", "stored", "counted", "route"} => work[w].s \in Created
    /\ work[w].pc \in {"miss", "hit", "stored", "counted"} => work[w].msg.call \in CallIDs
    /\ work[w].pc \in {"stored", "counted"} => ses[work[w].s].call = work[w].msg.call

CallInv == \A s \in Created : ses[s].stored <=> ses[s].call # NoCall

TableInv ==
  \A c \in CallSet :
    table[c] # NoSession => /\ table[c] \in Created
                            /\ ses[table[c]].call = c
                            /\ ses[table[c]].drop # "deleted"

StrandInv ==
  \A s \in Created :
    ses[s].dir = "in" /\ ~ses[s].listed /\ ses[s].drop = "no" /\ ~ses[s].panicked => Busy(s)

Alone == \A v, w \in Workers : Setting(v) /\ Setting(w) /\ work[v].msg.call = work[w].msg.call => v = w

Unused == \A w \in Workers : work[w].pc = "miss" => table[work[w].msg.call] = NoSession

InTable == \A s \in Created : ses[s].stored /\ ses[s].drop # "deleted" => table[ses[s].call] = s

FoundDone == \A w \in Workers : work[w].pc = "hit" => ~Busy(work[w].s)

CancelInv ==
  \A s \in Created :
    /\ ses[s].state = "BeingEstablished" /\ ~ses[s].listed => Busy(s)
    /\ ses[s].state = "BeingCancelled" => ses[s].final

OrderedInv ==
  OrderedPeers => limiter.set /\ Alone /\ Unused /\ InTable /\ FoundDone /\ CancelInv

IInv ==
  /\ TypeOK /\ WorkType
  /\ WorkInv /\ CallInv /\ TableInv /\ GaugeBalanced /\ StrandInv
  /\ OrderedInv

-----------------------------------------------------------------------------
(***************************************************************************)
(* The sequence of sessions: one is changed, or one is added.              *)
(***************************************************************************)
LEMMA SesType ==
  ASSUME TypeOK
  PROVE  /\ ses \in Seq(Session) /\ Created = 1..Len(ses) /\ Len(ses) \in Nat
         /\ \A s \in Created : ses[s] \in Session
         /\ Created \subseteq SessionId /\ NoSession \notin Created
  BY TableAssumption DEF TypeOK, Created, SessionId, NoSession

LEMMA SetOne ==
  ASSUME NEW q \in Seq(Session), NEW s \in DOMAIN q, NEW r \in Session
  PROVE  /\ [q EXCEPT ![s] = r] \in Seq(Session)
         /\ DOMAIN [q EXCEPT ![s] = r] = DOMAIN q /\ Len([q EXCEPT ![s] = r]) = Len(q)
         /\ [q EXCEPT ![s] = r][s] = r
         /\ \A i \in DOMAIN q : i # s => [q EXCEPT ![s] = r][i] = q[i]
  OBVIOUS

LEMMA AddOne ==
  ASSUME NEW q \in Seq(Session), NEW r \in Session
  PROVE  /\ Append(q, r) \in Seq(Session) /\ Len(Append(q, r)) = Len(q) + 1
         /\ DOMAIN Append(q, r) = DOMAIN q \cup {Len(q) + 1} /\ Len(q) + 1 \notin DOMAIN q
         /\ Append(q, r)[Len(q) + 1] = r
         /\ \A i \in DOMAIN q : Append(q, r)[i] = q[i]
  OBVIOUS

LEMMA NewSessionType ==
  ASSUME NEW c \in CallSet \cup {NoCall}, NEW d \in {"in", "out"}
  PROVE  /\ NewSession(c, d) \in Session
         /\ NewSession(c, d).call = c /\ NewSession(c, d).dir = d
         /\ ~NewSession(c, d).stored /\ NewSession(c, d).drop = "no"
         /\ NewSession(c, d).state = "none"
  BY DEF NewSession, Session, CallSet

LEMMA IdleType ==
  /\ Idle \in [pc : {"idle", "miss", "hit", "stored", "counted", "route"},
               msg : [call : CallIDs \cup {NoCall}, method : Method],
               s : SessionId \cup {NoSession}, exceeded : BOOLEAN]
  /\ Idle.pc = "idle" /\ Idle.s = NoSession
  BY DEF Idle, Method

-----------------------------------------------------------------------------
(***************************************************************************)
(* The gauge.  Counted and Uncounted are its two sets; a step that keeps   *)
(* both keeps it, and Store and Delete move one of them by one session.    *)
(***************************************************************************)
Counted == {s \in Created : ses[s].stored /\ ses[s].drop # "deleted"}
Uncounted == {s \in Created : ~ses[s].stored /\ ses[s].drop = "deleted"}

\* s, known before, is as far as the table and the gauge are concerned as it was
Same(s) ==
  /\ ses'[s].call = ses[s].call
  /\ ses'[s].stored <=> ses[s].stored
  /\ ses'[s].drop = "deleted" <=> ses[s].drop = "deleted"

LEMMA CountedFinite ==
  ASSUME TypeOK
  PROVE  /\ IsFiniteSet(Counted) /\ IsFiniteSet(Uncounted)
         /\ Cardinality(Counted) \in Nat /\ Cardinality(Uncounted) \in Nat
<1>1. IsFiniteSet(1..Len(ses))
  BY SesType, FS_Interval
<1>2. Counted \subseteq 1..Len(ses) /\ Uncounted \subseteq 1..Len(ses)
  BY SesType DEF Counted, Uncounted
<1>3. IsFiniteSet(Counted) /\ IsFiniteSet(Uncounted)
  BY <1>1, <1>2, FS_Subset
<1> QED BY <1>3, FS_CardinalityType

LEMMA GaugeSame ==
  ASSUME GaugeBalanced, Created' = Created, \A s \in Created : Same(s), UNCHANGED gauge
  PROVE  GaugeBalanced'
<1>1. Counted' = Counted /\ Uncounted' = Uncounted
  BY DEF Counted, Uncounted, Same
<1> QED BY <1>1 DEF GaugeBalanced, Counted, Uncounted

\* a session is added that was never stored and is not deleted
LEMMA GaugeAdded ==
  ASSUME GaugeBalanced, NEW n, n \notin Created, Created' = Created \cup {n},
         \A s \in Created : Same(s), ~ses'[n].stored, ses'[n].drop # "deleted", UNCHANGED gauge
  PROVE  GaugeBalanced'
<1>1. Counted' = Counted /\ Uncounted' = Uncounted
  BY DEF Counted, Uncounted, Same
<1> QED BY <1>1 DEF GaugeBalanced, Counted, Uncounted

LEMMA GaugeStored ==
  ASSUME TypeOK, GaugeBalanced, NEW n, n \notin Created, Created' = Created \cup {n},
         \A s \in Created : Same(s), ses'[n].stored, ses'[n].drop # "deleted", gauge' = gauge + 1
  PROVE  GaugeBalanced'
<1>1. Counted' = Counted \cup {n} /\ Uncounted' = Uncounted /\ n \notin Counted
  BY DEF Counted, Uncounted, Same
<1>2. Cardinality(Counted') = Cardinality(Counted) + 1
  BY <1>1, CountedFinite, FS_AddElement
<1>3. gauge = Cardinality(Counted) - Cardinality(Uncounted)
  BY DEF GaugeBalanced, Counted, Uncounted
<1>4. gauge' = Cardinality(Counted') - Cardinality(Uncounted')
  BY <1>1, <1>2, <1>3, CountedFinite
<1> QED BY <1>4 DEF GaugeBalanced, Counted, Uncounted

LEMMA GaugeDeleted ==
  ASSUME TypeOK, GaugeBalanced, NEW s \in Created, Created' = Created,
         \A i \in Created : i # s => Same(i),
         ses[s].drop # "deleted", ses'[s].drop = "deleted", ses'[s].stored <=> ses[s].stored,
         gauge' = gauge - 1
  PROVE  GaugeBalanced'
<1>1. gauge = Cardinality(Counted) - Cardinality(Uncounted)
  BY DEF GaugeBalanced, Counted, Uncounted
<1>2. CASE ses[s].stored
  <2>1. Counted' = Counted \ {s} /\ Uncounted' = Uncounted /\ s \in Counted
    BY <1>2 DEF Counted, Uncounted, Same
  <2>2. Cardinality(Counted') = Cardinality(Counted) - 1
    BY <2>1, CountedFinite, FS_RemoveElement
  <2>3. gauge' = Cardinality(Counted') - Cardinality(Uncounted')
    BY <1>1, <2>1, <2>2, CountedFinite
  <2> QED BY <2>3 DEF GaugeBalanced, Counted, Uncounted
<1>3. CASE ~ses[s].stored
  <2>1. Uncounted' = Uncounted \cup {s} /\ Counted' = Counted /\ s \notin Uncounted
    BY <1>3 DEF Counted, Uncounted, Same
  <2>2. Cardinality(Uncounted') = Cardinality(Uncounted) + 1
    BY <2>1, CountedFinite, FS_AddElement
  <2>3. gauge' = Cardinality(Counted') - Cardinality(Uncounted')
    BY <1>1, <2>1, <2>2, CountedFinite
  <2> QED BY <2>3 DEF GaugeBalanced, Counted, Uncounted
<1> QED BY <1>2, <1>3

LEMMA InitIInv == Init => IInv
<1> SUFFICES ASSUME Init PROVE IInv
  OBVIOUS
<1>1. ses = <<>> /\ Len(ses) = 0 /\ Created = {}
  BY DEF Init, Created
<1>2. limiter.set = ("atStart" \notin env) /\ limiter.count = 0 /\ limiter \in [set : BOOLEAN, count : Nat]
  BY DEF Init
<1>3. TypeOK
  BY <1>1, <1>2, TableAssumption DEF Init, TypeOK
<1>4. WorkType /\ \A w \in Workers : work[w].pc = "idle"
  BY IdleType DEF Init, WorkType
<1>5. WorkInv /\ CallInv /\ StrandInv /\ TableInv
  BY <1>1, <1>4 DEF Init, WorkInv, CallInv, StrandInv, TableInv, CallSet
<1>6. GaugeBalanced
  <2>1. Counted = {} /\ Uncounted = {}
    BY <1>1 DEF Counted, Uncounted
  <2>2. Cardinality(Counted) = 0 /\ Cardinality(Uncounted) = 0
    BY <2>1, FS_EmptySet
  <2> QED BY <2>2 DEF Init, GaugeBalanced, Counted, Uncounted
<1>7. OrderedInv
  <2>1. OrderedPeers => limiter.set
    BY <1>2 DEF OrderedPeers
  <2> QED BY <1>1, <1>4, <2>1 DEF OrderedInv, Alone, Setting, Unused, InTable, FoundDone, CancelInv
<1> QED BY <1>3, <1>4, <1>5, <1>6, <1>7 DEF IInv

-----------------------------------------------------------------------------
(***************************************************************************)
(* What a step keeps if it changes no session as far as the table is       *)
(* concerned: the table stays right.                                       *)
(***************************************************************************)
LEMMA TableKept ==
  ASSUME IInv, Created' = Created, \A s \in Created : Same(s), UNCHANGED <<table, gauge>>
  PROVE  CallInv' /\ TableInv' /\ GaugeBalanced' /\ (InTable => InTable')
<1>1. CallInv' /\ TableInv'
  BY DEF IInv, CallInv, TableInv, Same
<1>2. GaugeBalanced'
  BY GaugeSame DEF IInv
<1>3. InTable => InTable'
  BY DEF InTable, Same
<1> QED BY <1>1, <1>2, <1>3

\* one session is changed, as far as the table is concerned not
LEMMA OneChanged ==
  ASSUME IInv, NEW s \in Created, NEW r \in Session, ses' = [ses EXCEPT ![s] = r],
         r.call = ses[s].call, r.stored <=> ses[s].stored,
         r.drop = "deleted" <=> ses[s].drop = "deleted"
  PROVE  /\ ses' \in Seq(Session) /\ Len(ses') = Len(ses) /\ Created' = Created
         /\ ses'[s] = r /\ \A i \in Created : i # s => ses'[i] = ses[i]
         /\ \A i \in Created : Same(i)
<1>1. ses \in Seq(Session) /\ s \in DOMAIN ses
  BY SesType DEF IInv, Created
<1>2. /\ ses' \in Seq(Session) /\ Len(ses') = Len(ses) /\ Created' = Created
      /\ ses'[s] = r /\ \A i \in Created : i # s => ses'[i] = ses[i]
  BY <1>1, SetOne DEF Created
<1> QED BY <1>2 DEF Same

LEMMA WorkSet ==
  ASSUME WorkType, NEW w \in Workers,
         NEW x \in [pc : {"idle", "miss", "hit", "stored", "counted", "route"},
                    msg : [call : CallIDs \cup {NoCall}, method : Method],
                    s : SessionId \cup {NoSession}, exceeded : BOOLEAN],
         work' = [work EXCEPT ![w] = x]
  PROVE  WorkType' /\ work'[w] = x /\ \A v \in Workers : v # w => work'[v] = work[v]
  BY DEF WorkType

-----------------------------------------------------------------------------
LEMMA LoadIInv ==
  ASSUME IInv, NEW w \in Workers, NEW m \in Message, Load(w, m)
  PROVE  IInv'
<1> DEFINE s == table[m.call]
           x == IF s = NoSession THEN [Idle EXCEPT !.pc = "miss", !.msg = m]
                ELSE [Idle EXCEPT !.pc = "hit", !.msg = m, !.s = s]
<1>1. /\ work[w].pc = "idle" /\ Ordered(m) /\ work' = [work EXCEPT ![w] = x]
      /\ UNCHANGED <<env, table, ses, gauge, limiter, caps, ticks>>
  BY DEF Load
<1>2. m.call \in CallIDs /\ m.method \in Method /\ m \in [call : CallIDs \cup {NoCall}, method : Method]
  BY DEF Message
<1>3. s \in SessionId \cup {NoSession}
  BY <1>2 DEF IInv, TypeOK
<1>4. /\ x \in [pc : {"idle", "miss", "hit", "stored", "counted", "route"},
                msg : [call : CallIDs \cup {NoCall}, method : Method],
                s : SessionId \cup {NoSession}, exceeded : BOOLEAN]
      /\ x.pc = (IF s = NoSession THEN "miss" ELSE "hit") /\ x.msg = m
      /\ s # NoSession => x.s = s
  BY <1>2, <1>3 DEF Idle
<1> HIDE DEF x
<1>5. WorkType' /\ work'[w] = x /\ \A v \in Workers : v # w => work'[v] = work[v]
  BY <1>1, <1>4, WorkSet DEF IInv
<1>6. s # NoSession => s \in Created /\ ses[s].call = m.call
  BY <1>2 DEF IInv, TableInv, CallSet
<1> HIDE DEF s
<1>7. \A i : Busy(i)' <=> Busy(i)
  BY <1>1, <1>4, <1>5 DEF Busy
<1>8. Created' = Created /\ TypeOK' /\ CallInv' /\ TableInv' /\ GaugeBalanced'
  BY <1>1 DEF IInv, TypeOK, CallInv, TableInv, GaugeBalanced, Created
<1>9. WorkInv'
  BY <1>1, <1>2, <1>4, <1>5, <1>6, <1>8 DEF IInv, WorkInv
<1>10. StrandInv'
  BY <1>1, <1>7, <1>8 DEF IInv, StrandInv
<1>11. OrderedInv'
  <2> SUFFICES ASSUME OrderedPeers
               PROVE  limiter'.set /\ Alone' /\ Unused' /\ InTable' /\ FoundDone' /\ CancelInv'
    BY <1>1 DEF OrderedInv, OrderedPeers
  <2>1. limiter.set /\ Alone /\ Unused /\ InTable /\ FoundDone /\ CancelInv
    BY DEF IInv, OrderedInv
  <2>2. \A v \in Workers : Setting(v) => work[v].msg.call # m.call
    BY <1>1 DEF Ordered, SettingUp, OrderedPeers, Setting
  <2>3. Alone'
    BY <1>1, <1>4, <1>5, <2>1, <2>2 DEF Alone, Setting
  <2>4. Unused'
    BY <1>1, <1>4, <1>5, <2>1 DEF Unused, s
  <2>5. InTable' /\ CancelInv'
    BY <1>1, <1>7, <1>8, <2>1 DEF InTable, CancelInv
  <2>6. FoundDone'
    <3>1. s # NoSession => ~Busy(s)
      BY <1>6, <2>2 DEF Busy, Setting, IInv, WorkInv
    <3> QED BY <1>1, <1>4, <1>5, <1>7, <2>1, <3>1 DEF FoundDone
  <2> QED BY <1>1, <2>1, <2>3, <2>4, <2>5, <2>6
<1> QED BY <1>5, <1>8, <1>9, <1>10, <1>11 DEF IInv

LEMMA StoreNewIInv ==
  ASSUME IInv, NEW w \in Workers, StoreNew(w)
  PROVE  IInv'
<1>0. PICK n : n = Len(ses) + 1
  OBVIOUS
<1> DEFINE m == work[w].msg
           c == m.call
           r == [NewSession(c, "in") EXCEPT !.stored = TRUE]
           x == [Idle EXCEPT !.pc = "stored", !.msg = m, !.s = n]
<1>1. /\ work[w].pc = "miss" /\ Len(ses) < MaxSessions
      /\ ses' = Append(ses, r) /\ table' = [table EXCEPT ![c] = n] /\ gauge' = gauge + 1
      /\ work' = [work EXCEPT ![w] = x]
      /\ UNCHANGED <<env, limiter, caps, ticks>>
  BY <1>0 DEF StoreNew, Store
<1>2. c \in CallIDs /\ c \in CallSet /\ c # NoCall /\ m \in [call : CallIDs \cup {NoCall}, method : Method]
  BY <1>1, TableAssumption DEF IInv, WorkInv, WorkType, CallSet
<1>3. /\ r \in Session /\ r.call = c /\ r.stored /\ r.drop = "no" /\ r.state = "none"
  <2> DEFINE nw == NewSession(c, "in")
  <2>1. nw \in Session /\ nw.call = c /\ nw.drop = "no" /\ nw.state = "none"
    BY <1>2, NewSessionType
  <2> HIDE DEF nw
  <2>2. [nw EXCEPT !.stored = TRUE] \in Session
    BY <2>1 DEF Session
  <2>3. /\ [nw EXCEPT !.stored = TRUE].call = c /\ [nw EXCEPT !.stored = TRUE].stored
        /\ [nw EXCEPT !.stored = TRUE].drop = "no" /\ [nw EXCEPT !.stored = TRUE].state = "none"
    BY <2>1 DEF Session
  <2> QED BY <2>2, <2>3 DEF nw
<1> HIDE DEF r
<1>4. /\ n \in SessionId /\ n # NoSession /\ n \in Nat
  BY <1>0, <1>1, SesType, TableAssumption DEF IInv, SessionId, NoSession
<1>5. /\ ses' \in Seq(Session) /\ Len(ses') = n /\ Created' = Created \cup {n} /\ n \notin Created
      /\ ses'[n] = r /\ \A i \in Created : ses'[i] = ses[i]
  BY <1>0, <1>1, <1>3, SesType, AddOne DEF IInv, Created
<1>6. /\ x \in [pc : {"idle", "miss", "hit", "stored", "counted", "route"},
                msg : [call : CallIDs \cup {NoCall}, method : Method],
                s : SessionId \cup {NoSession}, exceeded : BOOLEAN]
      /\ x.pc = "stored" /\ x.msg = m /\ x.s = n
  BY <1>2, <1>4 DEF Idle
<1> HIDE DEF x
<1>7. WorkType' /\ work'[w] = x /\ \A v \in Workers : v # w => work'[v] = work[v]
  BY <1>1, <1>6, WorkSet DEF IInv
<1>8. /\ table'[c] = n /\ \A d \in CallSet : d # c => table'[d] = table[d]
      /\ table' \in [CallIDs \cup EgressIDs -> SessionId \cup {NoSession}]
  <2> HIDE DEF c
  <2> QED BY <1>1, <1>2, <1>4 DEF IInv, TypeOK, CallSet
<1>9. TypeOK'
  <2>1. n <= MaxSessions
    BY <1>0, <1>1, SesType, TableAssumption DEF IInv
  <2>2. gauge' \in Int
    BY <1>1 DEF IInv, TypeOK
  <2> QED BY <1>1, <1>5, <1>8, <2>1, <2>2 DEF IInv, TypeOK
<1>10. Busy(n)' /\ \A i \in Created : Busy(i)' <=> Busy(i)
  BY <1>1, <1>5, <1>6, <1>7 DEF Busy
<1>11. WorkInv'
  <2> SUFFICES ASSUME NEW v \in Workers
               PROVE  /\ work'[v].pc \in {"hit", "stored", "counted", "route"} => work'[v].s \in Created'
                      /\ work'[v].pc \in {"miss", "hit", "stored", "counted"} => work'[v].msg.call \in CallIDs
                      /\ work'[v].pc \in {"stored", "counted"} => ses'[work'[v].s].call = work'[v].msg.call
    BY DEF WorkInv
  <2>1. CASE v = w
    BY <1>2, <1>3, <1>5, <1>6, <1>7, <2>1
  <2>2. CASE v # w
    BY <1>5, <1>7, <2>2 DEF IInv, WorkInv
  <2> QED BY <2>1, <2>2
<1>12. CallInv' /\ TableInv'
  BY <1>2, <1>3, <1>5, <1>8 DEF IInv, CallInv, TableInv
<1>13. GaugeBalanced'
  <2>1. \A i \in Created : Same(i)
    BY <1>5 DEF Same
  <2> QED BY <1>1, <1>3, <1>5, <2>1, GaugeStored DEF IInv
<1>14. StrandInv'
  BY <1>5, <1>10 DEF IInv, StrandInv
<1>15. OrderedInv'
  <2> SUFFICES ASSUME OrderedPeers
               PROVE  limiter'.set /\ Alone' /\ Unused' /\ InTable' /\ FoundDone' /\ CancelInv'
    BY <1>1 DEF OrderedInv, OrderedPeers
  <2>1. limiter.set /\ Alone /\ Unused /\ InTable /\ FoundDone /\ CancelInv
    BY DEF IInv, OrderedInv
  <2>2. Setting(w) /\ Setting(w)' /\ work'[w].msg = m
    BY <1>1, <1>6, <1>7 DEF Setting
  <2>3. Alone'
    BY <1>7, <2>1, <2>2 DEF Alone, Setting
  <2>4. Unused'
    <3>1. ASSUME NEW v \in Workers, work'[v].pc = "miss"
          PROVE  work'[v] = work[v] /\ work[v].msg.call \in CallSet /\ work[v].msg.call # c
      <4>1. work'[v] = work[v] /\ v # w
        BY <1>6, <1>7, <3>1
      <4>2. work[v].msg.call \in CallSet
        BY <3>1, <4>1 DEF IInv, WorkInv, CallSet
      <4> QED BY <3>1, <4>1, <4>2, <2>1, <2>2 DEF Alone, Setting
    <3> QED BY <1>8, <2>1, <3>1 DEF Unused
  <2>5. InTable'
    <3>1. ASSUME NEW i \in Created, ses[i].stored, ses[i].drop # "deleted"
          PROVE  ses[i].call \in CallSet /\ ses[i].call # c
      <4>1. ses[i].call \in CallSet
        BY <3>1, SesType DEF IInv, CallInv, Session, CallSet
      <4>2. table[c] = NoSession /\ table[ses[i].call] = i
        BY <1>1, <2>1, <3>1 DEF Unused, InTable
      <4> QED BY <4>1, <4>2, SesType DEF IInv
    <3> QED BY <1>3, <1>5, <1>8, <2>1, <3>1 DEF InTable
  <2>6. FoundDone'
    BY <1>6, <1>7, <1>10, <2>1 DEF FoundDone, IInv, WorkInv
  <2>7. CancelInv'
    BY <1>3, <1>5, <1>10, <2>1 DEF CancelInv
  <2> QED BY <1>1, <2>1, <2>3, <2>4, <2>5, <2>6, <2>7
<1> QED BY <1>7, <1>9, <1>11, <1>12, <1>13, <1>14, <1>15 DEF IInv

-----------------------------------------------------------------------------
(***************************************************************************)
(* A worker goes on and changes one session s, as far as the table is      *)
(* concerned not: what remains to be shown is that s is not stranded by it *)
(* and that a cancelled INVITE is answered.                                *)
(***************************************************************************)
LEMMA StepOn ==
  ASSUME IInv, NEW w \in Workers, NEW s \in Created,
         NEW r \in Session, ses' = [ses EXCEPT ![s] = r],
         r.call = ses[s].call, r.stored <=> ses[s].stored,
         r.drop = "deleted" <=> ses[s].drop = "deleted",
         NEW x \in [pc : {"idle", "miss", "hit", "stored", "counted", "route"},
                    msg : [call : CallIDs \cup {NoCall}, method : Method],
                    s : SessionId \cup {NoSession}, exceeded : BOOLEAN],
         work' = [work EXCEPT ![w] = x],
         \/ x.pc = "idle"
         \/ x.pc = "route" /\ x.s \in Created
         \/ x.pc = "counted" /\ work[w].pc = "stored" /\ x.s = work[w].s /\ x.msg = work[w].msg,
         work[w].s = s,
         UNCHANGED <<env, table, gauge, caps, ticks>>,
         limiter' \in [set : BOOLEAN, count : Nat], limiter.set => limiter'.set,
         r.dir = "in" /\ ~r.listed /\ r.drop = "no" /\ ~r.panicked => Busy(s)',
         OrderedPeers => /\ r.state = "BeingEstablished" /\ ~r.listed => Busy(s)'
                         /\ r.state = "BeingCancelled" => r.final
  PROVE  IInv'
<1>1. /\ ses' \in Seq(Session) /\ Len(ses') = Len(ses) /\ Created' = Created
      /\ ses'[s] = r /\ \A i \in Created : i # s => ses'[i] = ses[i]
      /\ \A i \in Created : Same(i)
  BY OneChanged
<1>2. WorkType' /\ work'[w] = x /\ \A v \in Workers : v # w => work'[v] = work[v]
  BY WorkSet DEF IInv
<1>3. TypeOK'
  BY <1>1 DEF IInv, TypeOK
<1>4. CallInv' /\ TableInv' /\ GaugeBalanced' /\ (InTable => InTable')
  BY <1>1, TableKept
<1>5. \A i \in Created : i # s => (Busy(i)' <=> Busy(i))
  BY <1>2 DEF Busy
<1>6. \A i \in Created : Busy(i)' => Busy(i)
  BY <1>2 DEF Busy
<1>7. WorkInv'
  <2> SUFFICES ASSUME NEW v \in Workers
               PROVE  /\ work'[v].pc \in {"hit", "stored", "counted", "route"} => work'[v].s \in Created'
                      /\ work'[v].pc \in {"miss", "hit", "stored", "counted"} => work'[v].msg.call \in CallIDs
                      /\ work'[v].pc \in {"stored", "counted"} => ses'[work'[v].s].call = work'[v].msg.call
    BY DEF WorkInv
  <2>1. /\ work[v].pc \in {"hit", "stored", "counted", "route"} => work[v].s \in Created
        /\ work[v].pc \in {"miss", "hit", "stored", "counted"} => work[v].msg.call \in CallIDs
        /\ work[v].pc \in {"stored", "counted"} => ses[work[v].s].call = work[v].msg.call
    BY DEF IInv, WorkInv
  <2>2. \A i \in Created : ses'[i].call = ses[i].call
    BY <1>1 DEF Same
  <2>3. CASE v = w
    BY <1>1, <1>2, <2>1, <2>2, <2>3
  <2>4. CASE v # w
    BY <1>1, <1>2, <2>1, <2>2, <2>4
  <2> QED BY <2>3, <2>4
<1>8. StrandInv'
  BY <1>1, <1>5 DEF IInv, StrandInv
<1>9. OrderedInv'
  <2> SUFFICES ASSUME OrderedPeers
               PROVE  limiter'.set /\ Alone' /\ Unused' /\ InTable' /\ FoundDone' /\ CancelInv'
    BY DEF OrderedInv, OrderedPeers
  <2>1. limiter.set /\ Alone /\ Unused /\ InTable /\ FoundDone /\ CancelInv
    BY DEF IInv, OrderedInv
  <2>2. Alone' /\ Unused'
    BY <1>2, <2>1 DEF Alone, Unused, Setting
  <2>3. FoundDone'
    BY <1>2, <1>6, <2>1 DEF FoundDone, IInv, WorkInv
  <2>4. CancelInv'
    BY <1>1, <1>5, <2>1 DEF CancelInv
  <2> QED BY <1>4, <2>1, <2>2, <2>3, <2>4
<1> QED BY <1>2, <1>3, <1>4, <1>7, <1>8, <1>9 DEF IInv

LEMMA ExceedConditionIInv ==
  ASSUME IInv, NEW w \in Workers, ExceedCondition(w)
  PROVE  IInv'
<1>1. work[w].pc = "stored" /\ UNCHANGED <<env, table, gauge, caps, ticks>>
  BY DEF ExceedCondition
<1>2. PICK s \in Created : s = work[w].s
  BY <1>1 DEF IInv, WorkInv
<1>3. ses[s] \in Session
  BY <1>2, SesType DEF IInv
<1>4. CASE limiter.set
  <2> DEFINE r == IF work[w].msg.method = "INVITE"
                    THEN [ses[s] EXCEPT !.state = "BeingEstablished"] ELSE ses[s]
             x == [work[w] EXCEPT !.pc = "counted", !.exceeded = ~AcceptNewCall]
  <2>1. /\ limiter' = IF AcceptNewCall THEN [limiter EXCEPT !.count = @ + 1] ELSE limiter
        /\ ses' = IF work[w].msg.method = "INVITE"
                    THEN [ses EXCEPT ![s].state = "BeingEstablished"] ELSE ses
        /\ work' = [work EXCEPT ![w].pc = "counted", ![w].exceeded = ~AcceptNewCall]
    BY <1>2, <1>4 DEF ExceedCondition
  <2>2. limiter' \in [set : BOOLEAN, count : Nat] /\ limiter'.set
    BY <1>4, <2>1 DEF IInv, TypeOK
  <2>3. ses' = [ses EXCEPT ![s] = r]
    <3>1. CASE work[w].msg.method = "INVITE"
      BY <2>1, <3>1
    <3>2. CASE work[w].msg.method # "INVITE"
      <4>1. ses' = ses /\ r = ses[s] /\ ses \in Seq(Session) /\ s \in DOMAIN ses
        BY <2>1, <3>2, SesType DEF IInv, Created
      <4> HIDE DEF r
      <4> QED BY <4>1
    <3> QED BY <3>1, <3>2
  <2>4. /\ r \in Session /\ r.call = ses[s].call /\ (r.stored <=> ses[s].stored) /\ r.drop = ses[s].drop
        /\ r.state = "BeingCancelled" => ses[s].state = "BeingCancelled" /\ (r.final <=> ses[s].final)
    BY <1>3 DEF Session
  <2>5. work' = [work EXCEPT ![w] = x]
    BY <2>1
  <2>6. /\ x \in [pc : {"idle", "miss", "hit", "stored", "counted", "route"},
                  msg : [call : CallIDs \cup {NoCall}, method : Method],
                  s : SessionId \cup {NoSession}, exceeded : BOOLEAN]
        /\ x.pc = "counted" /\ x.s = work[w].s /\ x.msg = work[w].msg
    BY DEF IInv, WorkType
  <2> HIDE DEF x, r
  <2>7. Busy(s)'
    BY <1>2, <2>5, <2>6 DEF Busy, IInv, WorkType
  <2>8. OrderedPeers => (ses[s].state = "BeingCancelled" => ses[s].final)
    BY <1>2 DEF IInv, OrderedInv, CancelInv
  <2> QED BY <1>1, <1>2, <2>2, <2>3, <2>4, <2>5, <2>6, <2>7, <2>8, StepOn, ZenonT(60)
<1>5. CASE ~limiter.set
  <2> DEFINE r == [ses[s] EXCEPT !.panicked = TRUE]
  <2>1. work' = [work EXCEPT ![w] = Idle] /\ ses' = [ses EXCEPT ![s] = r] /\ UNCHANGED limiter
    BY <1>2, <1>5 DEF ExceedCondition
  <2>2. r \in Session /\ r.call = ses[s].call /\ (r.stored <=> ses[s].stored) /\ r.drop = ses[s].drop /\ r.panicked
    BY <1>3 DEF Session
  <2> HIDE DEF r
  <2>3. ~OrderedPeers /\ limiter' \in [set : BOOLEAN, count : Nat]
    BY <1>5, <2>1 DEF IInv, OrderedInv, TypeOK
  <2> QED BY <1>1, <1>2, <1>5, <2>1, <2>2, <2>3, IdleType, StepOn
<1> QED BY <1>4, <1>5

LEMMA HandleIInv ==
  ASSUME IInv, NEW w \in Workers, Handle(w)
  PROVE  IInv'
<1>1. work[w].pc = "counted" /\ UNCHANGED <<env, table, gauge, limiter, caps, ticks>>
  BY DEF Handle
<1>2. PICK s \in Created : s = work[w].s
  BY <1>1 DEF IInv, WorkInv
<1>3. /\ ses[s] \in Session /\ s \in SessionId
      /\ limiter' \in [set : BOOLEAN, count : Nat] /\ (limiter.set => limiter'.set)
  BY <1>1, <1>2, SesType DEF IInv, TypeOK
<1>4. CASE work[w].msg.method = "INVITE"
  <2> DEFINE r == IF work[w].exceeded
                    THEN [ses[s] EXCEPT !.listed = TRUE, !.state = "Rejected", !.final = TRUE]
                    ELSE [ses[s] EXCEPT !.listed = TRUE]
             x == IF work[w].exceeded THEN Idle ELSE [Idle EXCEPT !.pc = "route", !.s = s]
  <2>1. ses' = [ses EXCEPT ![s] = r] /\ work' = [work EXCEPT ![w] = x]
    BY <1>2, <1>4 DEF Handle
  <2>2. /\ r \in Session /\ r.call = ses[s].call /\ (r.stored <=> ses[s].stored) /\ r.drop = ses[s].drop
        /\ r.listed
        /\ r.state = "BeingCancelled" => ses[s].state = "BeingCancelled" /\ (r.final <=> ses[s].final)
    BY <1>3 DEF Session
  <2>3. /\ x \in [pc : {"idle", "miss", "hit", "stored", "counted", "route"},
                  msg : [call : CallIDs \cup {NoCall}, method : Method],
                  s : SessionId \cup {NoSession}, exceeded : BOOLEAN]
        /\ x = Idle \/ (x.pc = "route" /\ x.s = s)
    <3>1. CASE work[w].exceeded
      <4>1. x = Idle
        BY <3>1
      <4> QED BY <4>1, IdleType
    <3>2. CASE ~work[w].exceeded
      <4>1. x = [Idle EXCEPT !.pc = "route", !.s = s]
        BY <3>2
      <4> QED BY <1>3, <4>1, IdleType
    <3> QED BY <3>1, <3>2
  <2> HIDE DEF r, x
  <2>4. OrderedPeers => (ses[s].state = "BeingCancelled" => ses[s].final)
    BY <1>2 DEF IInv, OrderedInv, CancelInv
  <2>6. OrderedPeers => /\ r.state = "BeingEstablished" /\ ~r.listed => Busy(s)'
                        /\ r.state = "BeingCancelled" => r.final
    BY <2>2, <2>4
  <2>7. /\ r \in Session /\ r.call = ses[s].call /\ (r.stored <=> ses[s].stored)
        /\ r.drop = "deleted" <=> ses[s].drop = "deleted"
        /\ r.dir = "in" /\ ~r.listed /\ r.drop = "no" /\ ~r.panicked => Busy(s)'
    BY <2>2
  <2>8. CASE x = Idle
    BY <1>1, <1>2, <1>3, <2>1, <2>6, <2>7, <2>8, IdleType, StepOn
  <2>9. CASE x.pc = "route" /\ x.s = s
    BY <1>1, <1>2, <1>3, <2>1, <2>3, <2>6, <2>7, <2>9, StepOn
  <2> QED BY <2>3, <2>8, <2>9
<1>5. CASE work[w].msg.method # "INVITE"
  <2> DEFINE q == [ses[s] EXCEPT !.state = "Other", !.listed = (work[w].msg.method # "ACK")]
             r == Disposed(q)
  <2>1. ses' = [ses EXCEPT ![s] = r] /\ work' = [work EXCEPT ![w] = Idle]
    BY <1>2, <1>5 DEF Handle
  <2>2. /\ q \in Session /\ q.call = ses[s].call /\ (q.stored <=> ses[s].stored) /\ q.drop = ses[s].drop
        /\ q.state = "Other"
    BY <1>3 DEF Session
  <2> HIDE DEF q
  <2>3. /\ r \in Session /\ r.call = ses[s].call /\ (r.stored <=> ses[s].stored)
        /\ r.drop # "no" /\ (r.drop = "deleted" <=> ses[s].drop = "deleted") /\ r.state = "Other"
    BY <2>2 DEF Disposed, Session
  <2> HIDE DEF r
  <2> QED BY <1>1, <1>2, <1>3, <2>1, <2>3, IdleType, StepOn, ZenonT(60)
<1> QED BY <1>4, <1>5

LEMMA HandleFoundIInv ==
  ASSUME IInv, NEW w \in Workers, HandleFound(w)
  PROVE  IInv'
<1>1. /\ work[w].pc = "hit" /\ work' = [work EXCEPT ![w] = Idle]
      /\ UNCHANGED <<env, table, gauge, limiter, caps, ticks>>
  BY DEF HandleFound
<1>2. PICK s \in Created : s = work[w].s
  BY <1>1 DEF IInv, WorkInv
<1>3. /\ ses[s] \in Session
      /\ limiter' \in [set : BOOLEAN, count : Nat] /\ (limiter.set => limiter'.set)
  BY <1>1, <1>2, SesType DEF IInv, TypeOK
<1>4. OrderedPeers => /\ ~Busy(s)
                      /\ ses[s].state = "BeingEstablished" => ses[s].listed
                      /\ ses[s].state = "BeingCancelled" => ses[s].final
  BY <1>1, <1>2 DEF IInv, OrderedInv, FoundDone, CancelInv
<1>5. CASE work[w].msg.method = "CANCEL"
  <2> DEFINE r == IF ses[s].state = "BeingEstablished"
                    THEN [ses[s] EXCEPT !.state = "BeingCancelled",
                                        !.final = ses[s].final \/ ses[s].listed, !.listed = TRUE]
                    ELSE [ses[s] EXCEPT !.listed = TRUE]
  <2>1. ses' = [ses EXCEPT ![s] = r]
    BY <1>2, <1>5 DEF HandleFound
  <2>2. /\ r \in Session /\ r.call = ses[s].call /\ (r.stored <=> ses[s].stored) /\ r.drop = ses[s].drop
        /\ r.listed
    BY <1>3, ZenonT(60) DEF Session
  <2>3. OrderedPeers => (r.state = "BeingCancelled" => r.final)
    BY <1>3, <1>4 DEF Session
  <2> HIDE DEF r
  <2> QED BY <1>1, <1>2, <1>3, <2>1, <2>2, <2>3, IdleType, StepOn, ZenonT(60)
<1>6. CASE work[w].msg.method = "ACK"
  <2> DEFINE r == IF ses[s].listed THEN ses[s] ELSE Disposed(ses[s])
  <2>1. ses' = [ses EXCEPT ![s] = r]
    BY <1>2, <1>6 DEF HandleFound
  <2>2. /\ r \in Session /\ r.call = ses[s].call /\ (r.stored <=> ses[s].stored)
        /\ r.drop = "deleted" <=> ses[s].drop = "deleted"
        /\ r.listed \/ r.drop # "no"
        /\ r.state = ses[s].state /\ (r.listed <=> ses[s].listed) /\ (r.final <=> ses[s].final)
    BY <1>3 DEF Session, Disposed
  <2> HIDE DEF r
  <2> QED BY <1>1, <1>2, <1>3, <1>4, <2>1, <2>2, IdleType, StepOn, ZenonT(60)
<1>7. CASE work[w].msg.method \notin {"CANCEL", "ACK"}
  <2> DEFINE r == [ses[s] EXCEPT !.listed = TRUE]
  <2>1. ses' = [ses EXCEPT ![s] = r]
    BY <1>2, <1>7 DEF HandleFound
  <2>2. /\ r \in Session /\ r.call = ses[s].call /\ (r.stored <=> ses[s].stored) /\ r.drop = ses[s].drop
        /\ r.listed /\ r.state = ses[s].state /\ (r.final <=> ses[s].final)
    BY <1>3 DEF Session
  <2> HIDE DEF r
  <2>3. OrderedPeers => /\ r.state = "BeingEstablished" /\ ~r.listed => Busy(s)'
                        /\ r.state = "BeingCancelled" => r.final
    BY <1>4, <2>2
  <2>4. /\ r \in Session /\ r.call = ses[s].call /\ (r.stored <=> ses[s].stored)
        /\ r.drop = "deleted" <=> ses[s].drop = "deleted"
        /\ r.dir = "in" /\ ~r.listed /\ r.drop = "no" /\ ~r.panicked => Busy(s)'
    BY <2>2
  <2> QED BY <1>1, <1>2, <1>3, <2>1, <2>3, <2>4, IdleType, StepOn
<1> QED BY <1>5, <1>6, <1>7

-----------------------------------------------------------------------------
(***************************************************************************)
(* Route: session s is changed to r, which is as far as the table, the     *)
(* workers and its transaction are concerned what it was, and an outbound  *)
(* session, new, is added.                                                 *)
(***************************************************************************)
Alike(s, r) ==
  /\ r.call = ses[s].call /\ (r.stored <=> ses[s].stored) /\ r.drop = ses[s].drop
  /\ r.dir = ses[s].dir /\ (r.listed <=> ses[s].listed) /\ (r.panicked <=> ses[s].panicked)
  /\ \/ r.state = "Rejected"
     \/ r.state = ses[s].state /\ (r.final <=> ses[s].final)

Grown(w, n, new) ==
  /\ ses' \in Seq(Session) /\ Len(ses') <= MaxSessions
  /\ n \in SessionId /\ n # NoSession /\ n \notin Created /\ Created' = Created \cup {n}
  /\ ses'[n] = new /\ \A i \in Created : Same(i)
  /\ WorkType' /\ WorkInv' /\ StrandInv'
  /\ \A v \in Workers : v # w => work'[v] = work[v]
  /\ work'[w] = Idle
  /\ OrderedPeers => limiter'.set /\ Alone' /\ FoundDone' /\ CancelInv'

LEMMA Grows ==
  ASSUME IInv, NEW w \in Workers, work[w].pc = "route", work' = [work EXCEPT ![w] = Idle],
         UNCHANGED <<env, limiter, caps, ticks>>,
         NEW s \in Created, NEW n, n = Len(ses) + 1, n <= MaxSessions,
         NEW r \in Session, NEW new \in Session,
         ses' = Append([ses EXCEPT ![s] = r], new),
         Alike(s, r), new.dir = "out", new.state = "none"
  PROVE  Grown(w, n, new)
<1>1. ses \in Seq(Session) /\ s \in DOMAIN ses /\ Created = 1..Len(ses) /\ Len(ses) \in Nat
  BY SesType DEF IInv, Created
<1> DEFINE q == [ses EXCEPT ![s] = r]
<1>2. /\ q \in Seq(Session) /\ DOMAIN q = DOMAIN ses /\ Len(q) = Len(ses)
      /\ q[s] = r /\ \A i \in DOMAIN ses : i # s => q[i] = ses[i]
  BY <1>1, SetOne
<1> HIDE DEF q
<1>3. /\ ses' \in Seq(Session) /\ Len(ses') = n /\ DOMAIN ses' = DOMAIN q \cup {n} /\ n \notin DOMAIN q
      /\ ses'[n] = new /\ \A i \in DOMAIN q : ses'[i] = q[i]
  BY <1>2, AddOne DEF q
<1>4. n \in SessionId /\ n # NoSession
  BY <1>1, TableAssumption DEF SessionId, NoSession
<1>5. /\ Created' = Created \cup {n} /\ n \notin Created
      /\ ses'[s] = r /\ \A i \in Created : i # s => ses'[i] = ses[i]
  BY <1>2, <1>3 DEF Created
<1>6. \A i \in Created : Same(i)
  BY <1>5, ZenonT(60) DEF Same, Alike
<1>7. WorkType' /\ work'[w] = Idle /\ \A v \in Workers : v # w => work'[v] = work[v]
  BY IdleType, WorkSet DEF IInv
<1>8. \A i : Busy(i)' <=> Busy(i)
  BY <1>7, IdleType DEF Busy
<1>9. WorkInv'
  <2> SUFFICES ASSUME NEW v \in Workers
               PROVE  /\ work'[v].pc \in {"hit", "stored", "counted", "route"} => work'[v].s \in Created'
                      /\ work'[v].pc \in {"miss", "hit", "stored", "counted"} => work'[v].msg.call \in CallIDs
                      /\ work'[v].pc \in {"stored", "counted"} => ses'[work'[v].s].call = work'[v].msg.call
    BY DEF WorkInv
  <2>1. CASE v = w
    BY <1>7, <2>1, IdleType
  <2>2. CASE v # w
    <3>1. /\ work[v].pc \in {"hit", "stored", "counted", "route"} => work[v].s \in Created
          /\ work[v].pc \in {"miss", "hit", "stored", "counted"} => work[v].msg.call \in CallIDs
          /\ work[v].pc \in {"stored", "counted"} => ses[work[v].s].call = work[v].msg.call
      BY DEF IInv, WorkInv
    <3>2. \A i \in Created : ses'[i].call = ses[i].call
      BY <1>6 DEF Same
    <3>3. work'[v] = work[v] /\ Created \subseteq Created'
      BY <1>5, <1>7, <2>2
    <3> QED BY <3>1, <3>2, <3>3
  <2> QED BY <2>1, <2>2
<1>10. StrandInv'
  <2> SUFFICES ASSUME NEW i \in Created', ses'[i].dir = "in", ~ses'[i].listed, ses'[i].drop = "no",
                      ~ses'[i].panicked
               PROVE  Busy(i)'
    BY DEF StrandInv
  <2>1. i \in Created
    BY <1>3, <1>5
  <2>2. ses[i].dir = "in" /\ ~ses[i].listed /\ ses[i].drop = "no" /\ ~ses[i].panicked
    BY <1>5, <2>1, ZenonT(60) DEF Alike
  <2>3. Busy(i)
    BY <2>1, <2>2 DEF IInv, StrandInv
  <2> QED BY <1>8, <2>3
<1>11. ASSUME OrderedPeers
       PROVE  limiter'.set /\ Alone' /\ FoundDone' /\ CancelInv'
  <2>1. limiter.set /\ Alone /\ FoundDone /\ CancelInv
    BY <1>11 DEF IInv, OrderedInv
  <2>2. Alone'
    BY <1>7, <2>1, IdleType DEF Alone, Setting
  <2>3. FoundDone'
    BY <1>7, <1>8, <2>1, IdleType DEF FoundDone
  <2>4. CancelInv'
    <3> SUFFICES ASSUME NEW i \in Created'
                 PROVE  /\ ses'[i].state = "BeingEstablished" /\ ~ses'[i].listed => Busy(i)'
                        /\ ses'[i].state = "BeingCancelled" => ses'[i].final
      BY DEF CancelInv
    <3>1. CASE i = n
      BY <1>3, <3>1
    <3>2. CASE i \in Created
      <4>1. /\ ses[i].state = "BeingEstablished" /\ ~ses[i].listed => Busy(i)
            /\ ses[i].state = "BeingCancelled" => ses[i].final
        BY <2>1, <3>2 DEF CancelInv
      <4>2. /\ ses'[i].listed <=> ses[i].listed
            /\ \/ ses'[i].state = "Rejected"
               \/ ses'[i].state = ses[i].state /\ (ses'[i].final <=> ses[i].final)
        BY <1>5, <3>2, ZenonT(60) DEF Alike
      <4> QED BY <1>8, <4>1, <4>2
    <3> QED BY <1>5, <3>1, <3>2
  <2> QED BY <2>1, <2>2, <2>3, <2>4
<1> QED BY <1>3, <1>4, <1>5, <1>6, <1>7, <1>9, <1>10, <1>11 DEF Grown

LEMMA RouteIInv ==
  ASSUME IInv, NEW w \in Workers, Route(w)
  PROVE  IInv'
<1>1. /\ work[w].pc = "route" /\ work' = [work EXCEPT ![w] = Idle]
      /\ UNCHANGED <<env, limiter, caps, ticks>>
  BY DEF Route
<1>2. PICK s \in Created : s = work[w].s
  BY <1>1 DEF IInv, WorkInv
<1>3. ses[s] \in Session /\ ses \in Seq(Session) /\ s \in DOMAIN ses
  BY <1>2, SesType DEF IInv, Created
<1>4. PICK n : n = Len(ses) + 1
  OBVIOUS
<1>5. CASE /\ n <= MaxSessions
           /\ ses' = Append([ses EXCEPT ![s].state = "Rejected", ![s].final = TRUE],
                            [NewSession(NoCall, "out") EXCEPT !.drop = "disposed"])
           /\ UNCHANGED <<table, gauge>>
  <2> DEFINE r == [ses[s] EXCEPT !.state = "Rejected", !.final = TRUE]
             nw == NewSession(NoCall, "out")
             new == [nw EXCEPT !.drop = "disposed"]
  <2>0. n <= MaxSessions /\ UNCHANGED table
    BY <1>5
  <2>1. ses' = Append([ses EXCEPT ![s] = r], new)
    <3>1. [ses EXCEPT ![s].state = "Rejected", ![s].final = TRUE] = [ses EXCEPT ![s] = r]
      BY <1>3
    <3> QED BY <1>5, <3>1
  <2>2. r \in Session /\ Alike(s, r)
    BY <1>3 DEF Session, Alike
  <2>3. /\ new \in Session /\ new.dir = "out" /\ new.state = "none" /\ ~new.stored
        /\ new.call = NoCall /\ new.drop = "disposed"
    <3>1. /\ nw \in Session /\ nw.call = NoCall /\ nw.dir = "out" /\ ~nw.stored /\ nw.state = "none"
      BY NewSessionType
    <3> HIDE DEF nw
    <3> QED BY <3>1 DEF Session
  <2> HIDE DEF r, new
  <2>4. Grown(w, n, new)
    BY <1>1, <1>2, <1>4, <2>0, <2>1, <2>2, <2>3, Grows
  <2> USE DEF Grown
  <2>5. TypeOK'
    BY <1>1, <1>5, <2>4 DEF IInv, TypeOK
  <2>6. CallInv' /\ TableInv'
    <3>1. CallInv'
      BY <2>3, <2>4 DEF IInv, CallInv, Same
    <3>2. TableInv'
      BY <2>0, <2>4 DEF IInv, TableInv, Same
    <3> QED BY <3>1, <3>2
  <2>7. GaugeBalanced'
    BY <1>5, <2>3, <2>4, GaugeAdded DEF IInv
  <2>8. OrderedInv'
    <3>1. ASSUME OrderedPeers PROVE Unused' /\ InTable'
      <4>1. Unused /\ InTable
        BY <3>1 DEF IInv, OrderedInv
      <4>2. Unused'
        BY <1>5, <2>4, <4>1, IdleType, ZenonT(60) DEF Unused
      <4>3. InTable'
        BY <2>0, <2>3, <2>4, <4>1 DEF InTable, Same
      <4> QED BY <4>2, <4>3
    <3> QED BY <1>1, <2>4, <3>1 DEF OrderedInv, OrderedPeers
  <2> QED BY <2>4, <2>5, <2>6, <2>7, <2>8 DEF IInv
<1>6. ASSUME n <= MaxSessions, NEW c \in EgressIDs, table[c] = NoSession,
             \A i \in Created : ses[i].call # c,
             ses' = Append([ses EXCEPT ![s].egress = TRUE],
                           [NewSession(c, "out") EXCEPT !.stored = TRUE, !.listed = TRUE]),
             Store(c, n)
      PROVE  IInv'
  <2> DEFINE r == [ses[s] EXCEPT !.egress = TRUE]
             nw == NewSession(c, "out")
             new == [nw EXCEPT !.stored = TRUE, !.listed = TRUE]
  <2>0. n <= MaxSessions
    BY <1>6
  <2>1. ses' = Append([ses EXCEPT ![s] = r], new)
    BY <1>6
  <2>2. r \in Session /\ Alike(s, r)
    BY <1>3 DEF Session, Alike
  <2>3. /\ new \in Session /\ new.dir = "out" /\ new.state = "none" /\ new.stored
        /\ new.call = c /\ new.drop = "no"
    <3>1. /\ nw \in Session /\ nw.call = c /\ nw.dir = "out" /\ nw.drop = "no" /\ nw.state = "none"
      BY NewSessionType DEF CallSet
    <3> HIDE DEF nw
    <3> QED BY <3>1 DEF Session
  <2> HIDE DEF r, new
  <2>4. Grown(w, n, new)
    BY <1>1, <1>2, <1>4, <2>0, <2>1, <2>2, <2>3, Grows
  <2> USE DEF Grown
  <2>5. /\ gauge' = gauge + 1 /\ table' = [table EXCEPT ![c] = n]
        /\ table' \in [CallIDs \cup EgressIDs -> SessionId \cup {NoSession}]
        /\ table'[c] = n /\ \A d \in CallSet : d # c => table'[d] = table[d]
    BY <1>6, <2>4 DEF Store, IInv, TypeOK, CallSet
  <2>6. TypeOK'
    <3>1. gauge' \in Int
      BY <2>5 DEF IInv, TypeOK
    <3> QED BY <1>1, <2>4, <2>5, <3>1 DEF IInv, TypeOK
  <2>7. CallInv'
    BY <2>3, <2>4, TableAssumption DEF IInv, CallInv, Same
  <2>8. TableInv'
    BY <2>3, <2>4, <2>5 DEF IInv, TableInv, Same
  <2>9. GaugeBalanced'
    BY <2>3, <2>4, <2>5, GaugeStored DEF IInv
  <2>10. OrderedInv'
    <3>1. ASSUME OrderedPeers PROVE Unused' /\ InTable'
      <4>1. Unused /\ InTable
        BY <3>1 DEF IInv, OrderedInv
      <4>2. \A v \in Workers : work[v].pc = "miss" => work[v].msg.call \in CallSet /\ work[v].msg.call # c
        BY TableAssumption DEF IInv, WorkInv, CallSet
      <4>3. Unused'
        BY <2>4, <2>5, <4>1, <4>2, IdleType DEF Unused
      <4>4. \A i \in Created : ses[i].stored => ses[i].call \in CallSet
        BY SesType DEF IInv, CallInv, Session, CallSet
      <4>5. InTable'
        <5> SUFFICES ASSUME NEW i \in Created', ses'[i].stored, ses'[i].drop # "deleted"
                     PROVE  table'[ses'[i].call] = i
          BY DEF InTable
        <5>1. CASE i = n
          BY <2>3, <2>4, <2>5, <5>1
        <5>2. CASE i \in Created
          <6>1. ses'[i].call = ses[i].call /\ ses[i].stored /\ ses[i].drop # "deleted"
            BY <2>4, <5>2 DEF Same
          <6>2. table[ses[i].call] = i /\ ses[i].call \in CallSet /\ ses[i].call # c
            BY <1>6, <4>1, <4>4, <5>2, <6>1 DEF InTable
          <6> QED BY <2>5, <6>1, <6>2
        <5> QED BY <2>4, <5>1, <5>2
      <4> QED BY <4>3, <4>5
    <3> QED BY <1>1, <2>4, <3>1 DEF OrderedInv, OrderedPeers
  <2> QED BY <2>4, <2>6, <2>7, <2>8, <2>9, <2>10 DEF IInv
<1>7. CASE UNCHANGED <<table, ses, gauge>>
  <2>0. PICK r : r = ses[s]
    OBVIOUS
  <2>1. ses' = [ses EXCEPT ![s] = r]
    BY <1>3, <1>7, <2>0
  <2>2. limiter' \in [set : BOOLEAN, count : Nat] /\ (limiter.set => limiter'.set)
    BY <1>1 DEF IInv, TypeOK
  <2>3. Busy(s)' <=> Busy(s)
    BY <1>1, IdleType, WorkSet DEF Busy, IInv
  <2>4. /\ ses[s].dir = "in" /\ ~ses[s].listed /\ ses[s].drop = "no" /\ ~ses[s].panicked => Busy(s)'
        /\ OrderedPeers => /\ ses[s].state = "BeingEstablished" /\ ~ses[s].listed => Busy(s)'
                           /\ ses[s].state = "BeingCancelled" => ses[s].final
    BY <1>2, <2>3 DEF IInv, StrandInv, OrderedInv, CancelInv
  <2>5. /\ r \in Session /\ r.call = ses[s].call /\ (r.stored <=> ses[s].stored)
        /\ r.drop = "deleted" <=> ses[s].drop = "deleted"
        /\ r.dir = "in" /\ ~r.listed /\ r.drop = "no" /\ ~r.panicked => Busy(s)'
        /\ OrderedPeers => /\ r.state = "BeingEstablished" /\ ~r.listed => Busy(s)'
                           /\ r.state = "BeingCancelled" => r.final
    BY <1>3, <2>0, <2>4
  <2>6. UNCHANGED <<env, table, gauge, caps, ticks>>
    BY <1>1, <1>7
  <2> QED BY <1>1, <1>2, <2>1, <2>2, <2>5, <2>6, IdleType, StepOn
<1> QED BY <1>2, <1>4, <1>5, <1>6, <1>7 DEF Route

-----------------------------------------------------------------------------
(***************************************************************************)
(* The end of a session                                                    *)
(***************************************************************************)
LEMMA DropIInv ==
  ASSUME IInv, NEW s \in Created, Drop(s)
  PROVE  IInv'
<1> DEFINE r == [ses[s] EXCEPT !.drop = "disposed"]
<1>1. /\ ses[s].drop = "no" /\ ses[s].listed /\ ses' = [ses EXCEPT ![s] = r]
      /\ UNCHANGED <<env, table, work, gauge, limiter, caps, ticks>>
  BY DEF Drop
<1>2. /\ r \in Session /\ r.call = ses[s].call /\ (r.stored <=> ses[s].stored)
      /\ r.drop = "disposed" /\ r.listed /\ r.state = ses[s].state /\ (r.final <=> ses[s].final)
  BY <1>1, SesType DEF IInv, Session
<1> HIDE DEF r
<1>3. /\ ses' \in Seq(Session) /\ Len(ses') = Len(ses) /\ Created' = Created
      /\ ses'[s] = r /\ \A i \in Created : i # s => ses'[i] = ses[i]
      /\ \A i \in Created : Same(i)
  BY <1>1, <1>2, OneChanged
<1>4. TypeOK' /\ WorkType'
  BY <1>1, <1>3 DEF IInv, TypeOK, WorkType
<1>5. CallInv' /\ TableInv' /\ GaugeBalanced' /\ (InTable => InTable')
  BY <1>1, <1>3, TableKept
<1>6. \A i : Busy(i)' <=> Busy(i)
  BY <1>1 DEF Busy
<1>7. WorkInv'
  BY <1>1, <1>3 DEF IInv, WorkInv, Same
<1>8. StrandInv'
  BY <1>2, <1>3, <1>6 DEF IInv, StrandInv
<1>9. OrderedInv'
  <2>1. CancelInv => CancelInv'
    BY <1>2, <1>3, <1>6 DEF CancelInv
  <2>2. FoundDone => FoundDone'
    BY <1>1, <1>6 DEF FoundDone
  <2> QED BY <1>1, <1>5, <2>1, <2>2 DEF IInv, OrderedInv, OrderedPeers, Alone, Unused, Setting
<1> QED BY <1>4, <1>5, <1>7, <1>8, <1>9 DEF IInv

(***************************************************************************)
(* Delete takes the entry of the session's Call-ID out of the table: with  *)
(* ordered peers it is the session's own.                                  *)
(***************************************************************************)
LEMMA ForgetIInv ==
  ASSUME IInv, NEW s \in Created, Forget(s)
  PROVE  IInv'
<1> DEFINE r == [ses[s] EXCEPT !.drop = "deleted"]
           c == ses[s].call
<1>1. /\ ses[s].drop = "disposed" /\ ses' = [ses EXCEPT ![s] = r]
      /\ table' = IF c = NoCall THEN table ELSE [table EXCEPT ![c] = NoSession]
      /\ gauge' = gauge - 1
      /\ UNCHANGED <<env, work, limiter, caps, ticks>>
  BY DEF Forget, Delete
<1>2. /\ r \in Session /\ r.call = c /\ (r.stored <=> ses[s].stored) /\ r.drop = "deleted"
      /\ r.state = ses[s].state /\ (r.final <=> ses[s].final) /\ (r.listed <=> ses[s].listed)
  BY SesType DEF IInv, Session
<1> HIDE DEF r
<1>3. /\ ses' \in Seq(Session) /\ Len(ses') = Len(ses) /\ Created' = Created
      /\ ses'[s] = r /\ \A i \in Created : i # s => ses'[i] = ses[i]
  BY <1>1, <1>2, SesType, SetOne DEF IInv, Created
<1>4. c \in CallSet \cup {NoCall} /\ NoCall \notin CallSet
  BY SesType, TableAssumption DEF IInv, Session, CallSet
<1>5. /\ table' \in [CallIDs \cup EgressIDs -> SessionId \cup {NoSession}]
      /\ \A d \in CallSet : table'[d] = IF d = c THEN NoSession ELSE table[d]
  <2> HIDE DEF c
  <2>1. CASE c = NoCall
    BY <1>1, <1>4, <2>1 DEF IInv, TypeOK
  <2>2. CASE c # NoCall
    BY <1>1, <1>4, <2>2 DEF IInv, TypeOK, CallSet
  <2> QED BY <2>1, <2>2
<1>6. TypeOK' /\ WorkType'
  <2>1. gauge' \in Int
    BY <1>1 DEF IInv, TypeOK
  <2> QED BY <1>1, <1>3, <1>5, <2>1 DEF IInv, TypeOK, WorkType
<1>7. \A i \in Created : ses'[i].call = ses[i].call /\ (ses'[i].stored <=> ses[i].stored)
  BY <1>2, <1>3
<1>8. WorkInv' /\ CallInv'
  BY <1>1, <1>3, <1>7 DEF IInv, WorkInv, CallInv
<1>9. TableInv'
  BY <1>3, <1>5, <1>7 DEF IInv, TableInv
<1>10. GaugeBalanced'
  <2>1. \A i \in Created : i # s => Same(i)
    BY <1>3 DEF Same
  <2> QED BY <1>1, <1>2, <1>3, <2>1, GaugeDeleted DEF IInv
<1>11. \A i : Busy(i)' <=> Busy(i)
  BY <1>1 DEF Busy
<1>12. StrandInv'
  BY <1>2, <1>3, <1>11 DEF IInv, StrandInv
<1>13. OrderedInv'
  <2> SUFFICES ASSUME OrderedPeers
               PROVE  limiter'.set /\ Alone' /\ Unused' /\ InTable' /\ FoundDone' /\ CancelInv'
    BY <1>1 DEF OrderedInv, OrderedPeers
  <2>1. limiter.set /\ Alone /\ Unused /\ InTable /\ FoundDone /\ CancelInv
    BY DEF IInv, OrderedInv
  <2>2. Alone'
    BY <1>1, <2>1 DEF Alone, Setting
  <2>3. Unused'
    <3>1. \A w \in Workers : work[w].pc = "miss" => work[w].msg.call \in CallSet
      BY DEF IInv, WorkInv, CallSet
    <3> QED BY <1>1, <1>5, <2>1, <3>1 DEF Unused
  <2>4. InTable'
    <3> SUFFICES ASSUME NEW i \in Created, ses'[i].stored, ses'[i].drop # "deleted"
                 PROVE  table'[ses'[i].call] = i
      BY <1>3 DEF InTable
    <3>1. i # s /\ ses'[i] = ses[i]
      BY <1>2, <1>3
    <3>2. table[ses[i].call] = i /\ ses[i].call \in CallSet
      BY <2>1, <3>1, SesType DEF IInv, CallInv, Session, CallSet, InTable
    <3>3. ses[i].call # c
      <4>1. CASE c = NoCall
        BY <1>4, <3>2, <4>1
      <4>2. CASE c # NoCall
        <5>1. table[c] = s
          BY <1>1, <2>1, <4>2 DEF IInv, CallInv, InTable
        <5> QED BY <3>1, <3>2, <5>1
      <4> QED BY <4>1, <4>2
    <3> QED BY <1>5, <3>1, <3>2, <3>3
  <2>5. FoundDone'
    BY <1>1, <1>11, <2>1 DEF FoundDone
  <2>6. CancelInv'
    BY <1>2, <1>3, <1>11, <2>1 DEF CancelInv
  <2> QED BY <1>1, <2>1, <2>2, <2>3, <2>4, <2>5, <2>6
<1> QED BY <1>6, <1>8, <1>9, <1>10, <1>12, <1>13 DEF IInv

(***************************************************************************)
(* The call limiter has no part in the sessions, once it is set.           *)
(***************************************************************************)
LEMMA LimiterIInv ==
  ASSUME IInv, SetLimiter \/ ResetCount \/ UNCHANGED vars
  PROVE  IInv'
<1>1. UNCHANGED <<env, table, ses, work, gauge>>
  BY DEF SetLimiter, ResetCount, vars
<1>2. limiter' \in [set : BOOLEAN, count : Nat] /\ (limiter.set => limiter'.set)
  <2>1. limiter \in [set : BOOLEAN, count : Nat]
    BY DEF IInv, TypeOK
  <2>2. CASE SetLimiter
    BY <2>1, <2>2 DEF SetLimiter
  <2>3. CASE ResetCount
    BY <2>1, <2>3 DEF ResetCount
  <2> QED BY <2>1, <2>2, <2>3 DEF vars
<1>3. caps' \in Nat /\ ticks' \in 0..MaxTicks
  BY TableAssumption DEF SetLimiter, ResetCount, vars, IInv, TypeOK
<1>4. TypeOK'
  BY <1>1, <1>2, <1>3 DEF IInv, TypeOK
<1>5. WorkType' /\ WorkInv' /\ CallInv' /\ TableInv' /\ GaugeBalanced' /\ StrandInv'
  BY <1>1 DEF IInv, WorkType, WorkInv, CallInv, TableInv, GaugeBalanced, StrandInv, Busy, Created
<1>6. OrderedInv'
  BY <1>1, <1>2 DEF IInv, OrderedInv, OrderedPeers, Alone, Setting, Unused, InTable, FoundDone,
                    CancelInv, Busy, Created
<1> QED BY <1>4, <1>5, <1>6 DEF IInv

LEMMA NextIInv == IInv /\ [Next]_vars => IInv'
<1> SUFFICES ASSUME IInv, [Next]_vars PROVE IInv'
  OBVIOUS
<1>1. ASSUME NEW w \in Workers, Work(w) PROVE IInv'
  BY <1>1, StoreNewIInv, ExceedConditionIInv, HandleIInv, HandleFoundIInv, RouteIInv DEF Work
<1>2. ASSUME NEW w \in Workers, NEW m \in Message, Load(w, m) PROVE IInv'
  BY <1>2, LoadIInv
<1>3. ASSUME NEW s \in Created, Drop(s) \/ Forget(s) PROVE IInv'
  BY <1>3, DropIInv, ForgetIInv
<1>4. CASE SetLimiter \/ ResetCount \/ UNCHANGED vars
  BY <1>4, LimiterIInv
<1> QED BY <1>1, <1>2, <1>3, <1>4 DEF Next

LEMMA SpecIInv == Spec => []IInv
  BY InitIInv, NextIInv, PTL DEF Spec

-----------------------------------------------------------------------------
(***************************************************************************)
(* For any number of workers, Call-IDs and sessions, whatever peers send   *)
(* and in whatever order: the gauge is the number of stored sessions that  *)
(* are not deleted, less the dropped sessions that were never stored       *)
(* (syncMapMutex.go:23, 31).                                               *)
(***************************************************************************)
THEOREM GaugeBalancedHolds == Spec => []GaugeBalanced
<1>1. IInv => GaugeBalanced
  BY DEF IInv
<1> QED BY <1>1, SpecIInv, PTL

(***************************************************************************)
(* No Call-ID leads to a session whose DropMe has finished; and while      *)
(* peers are ordered, the table leads to every session that is not         *)
(* dropped, although a worker looks a Call-ID up and stores a session      *)
(* under it in two steps (stack.go:297, 374).                              *)
(***************************************************************************)
THEOREM ReachableHolds == Spec => []Reachable
<1>1. IInv => Reachable
  <2> SUFFICES ASSUME IInv PROVE Reachable
    OBVIOUS
  <2>1. DOMAIN table = CallSet
    BY DEF IInv, TypeOK, CallSet
  <2>2. \A c \in DOMAIN table : table[c] # NoSession => ses[table[c]].drop # "deleted"
    BY <2>1 DEF IInv, TableInv
  <2>3. OrderedPeers => \A s \in Created : ses[s].stored /\ ses[s].drop = "no" => table[ses[s].call] = s
    BY DEF IInv, OrderedInv, InTable
  <2> QED BY <2>2, <2>3 DEF Reachable
<1> QED BY <1>1, SpecIInv, PTL

(***************************************************************************)
(* While peers are ordered, the INVITE of every session that a CANCEL      *)
(* moved to BeingCancelled has its final response: the CANCEL never meets  *)
(* a session whose INVITE has no transaction yet (stack.go:374).           *)
(***************************************************************************)
THEOREM CancelledAnsweredHolds == Spec => []CancelledAnswered
<1>1. IInv => CancelledAnswered
  BY DEF IInv, OrderedInv, CancelInv, CancelledAnswered
<1> QED BY <1>1, SpecIInv, PTL

(***************************************************************************)
(* Whatever races, the only inbound sessions that stay in the table        *)
(* without transaction and without a worker are those of a worker that     *)
(* found no CallLimiter (init.go:119).                                     *)
(***************************************************************************)
THEOREM StrandedOnlyAtStartHolds == Spec => []StrandedOnlyAtStart
<1>1. IInv => StrandedOnlyAtStart
  BY DEF IInv, StrandInv, Busy, StrandedOnlyAtStart
<1> QED BY <1>1, SpecIInv, PTL
=============================================================================
