-------------------------- MODULE CallRoutingProofs ---------------------------
(***************************************************************************)
(* Proofs of the safety of CallRouting for every routing table, every      *)
(* number of registrations and every choice of the environment.            *)
(***************************************************************************)
EXTENDS CallRouting, WellFoundedInduction, TLAPS

Agent == [addr : Contact, alive : BOOLEAN, answered : BOOLEAN]
Phone == [exists : BOOLEAN, ua : Nat, reachable : BOOLEAN, registered : BOOLEAN]
Reg == [pc : {"idle", "resolve", "clear", "finish"}, text : Contact, keep : BOOLEAN]
Invite ==
  [pc : {"new", "found", "ua", "reg", "reach", "db", "done"}, body : Body,
   from : {"AS", "phone", "trunk"}, parts : BOOLEAN, sock : Contact \cup {NoAddr},
   result : Result, homes : SUBSET Contact]

(***************************************************************************)
(* The types, with the records spelled out.                                *)
(***************************************************************************)
Types ==
  /\ env \subseteq EnvBehaviour
  /\ SkipAS \in BOOLEAN
  /\ phone \in Phone
  /\ uas \in Seq(Agent)
  /\ reg \in Reg
  /\ nreg \in 0..MaxReg
  /\ probe \in [pc : {"idle", "found"}, pending : SUBSET (1..Len(uas))]
  /\ file \in Files
  /\ call \in Invite

(***************************************************************************)
(* The user agent of the phone is one of those created, one per REGISTER   *)
(* at most; only its own answer makes one alive; without rehome all have   *)
(* the same address.                                                       *)
(***************************************************************************)
AgentInv ==
  /\ phone.ua \in 0..Len(uas)
  /\ Len(uas) <= nreg /\ (reg.pc = "resolve" => Len(uas) < nreg)
  /\ \A u \in 1..Len(uas) :
       /\ uas[u].alive => uas[u].answered
       /\ "rehome" \notin env => uas[u].addr = "a"

(***************************************************************************)
(* What the worker inside AddOrUpdate has done so far.                     *)
(***************************************************************************)
RegInv ==
  /\ reg.text = "b" => "rehome" \in env
  /\ reg.text = "bad" => "badAddr" \in env
  /\ ~phone.exists => phone.ua = NoUA /\ reg.pc = "idle"
  /\ reg.pc = "resolve" => phone.reachable
  /\ reg.pc = "clear" => ~phone.reachable /\ "badAddr" \in env
  /\ reg.pc \in {"idle", "finish"} /\ phone.exists =>
       /\ phone.reachable <=> phone.ua # NoUA
       /\ "badAddr" \notin env => phone.ua # NoUA

(***************************************************************************)
(* What the handler of the INVITE has read so far.                         *)
(***************************************************************************)
CallInv ==
  /\ call.body = NoBody => "noBody" \in env
  /\ call.pc # "done" => call.result = "none"
  /\ call.pc \notin {"new", "done"} => Home(phone, uas) \subseteq call.homes
  /\ call.pc = "found" /\ env \cap {"badAddr", "early"} = {} => phone.ua # NoUA
  /\ call.pc \in {"ua", "reg", "reach"} =>
       /\ "badAddr" \notin env => phone.ua # NoUA
       /\ "rehome" \notin env => call.sock = "a"
  /\ call.pc \in {"reg", "reach"} /\ env \cap {"rehome", "badAddr"} = {} =>
       call.sock \in call.homes

(***************************************************************************)
(* The routing table holds nothing ReadConfig would skip.                  *)
(***************************************************************************)
TableInv ==
  /\ DOMAIN db \subseteq Nat
  /\ \A i \in DOMAIN db : db[i] \in Record /\ Usable(db[i])

IInv == Types /\ AgentInv /\ RegInv /\ CallInv /\ TableInv /\ NeverStuck /\ SentToRegistered

-----------------------------------------------------------------------------
(***************************************************************************)
(* RoutingEngine.Get finds a matching record if there is one.              *)
(***************************************************************************)
LEMMA FirstIn ==
  ASSUME NEW S, S \subseteq Nat, S # {}
  PROVE  First(S) \in S
<1>1. IsWellFoundedOn(OpToRel(<, Nat), Nat)
  BY NatLessThanWellFounded
<1>2. PICK i \in S : \A j \in S : ~(<<j, i>> \in OpToRel(<, Nat))
  BY <1>1, WFMin, Zenon
<1>3. \A j \in S : i <= j
  <2> SUFFICES ASSUME NEW j \in S, j < i PROVE FALSE
    OBVIOUS
  <2>1. <<j, i>> \in OpToRel(<, Nat)
    BY DEF OpToRel
  <2> QED BY <2>1, <1>2
<1> QED BY <1>3 DEF First

(***************************************************************************)
(* A file that was read holds usable records only, and a file that was not *)
(* leaves the table as it is.                                              *)
(***************************************************************************)
LEMMA ReadConfigUsable ==
  ASSUME NEW f \in Files, NEW old, DOMAIN old \subseteq Nat,
         \A i \in DOMAIN old : old[i] \in Record /\ Usable(old[i]),
         NEW new, new = ReadConfig(f, old)
  PROVE  DOMAIN new \subseteq Nat /\ \A i \in DOMAIN new : new[i] \in Record /\ Usable(new[i])
<1>1. CASE f = BadJSON
  BY <1>1 DEF ReadConfig
<1>2. CASE f # BadJSON
  <2>1. f \in Seq(Record)
    BY <1>2, RoutingAssumption
  <2>2. new = [i \in {j \in DOMAIN f : Usable(f[j])} |-> f[i]]
    BY <1>2 DEF ReadConfig
  <2>3. DOMAIN f \subseteq Nat /\ \A i \in DOMAIN f : f[i] \in Record
    BY <2>1
  <2> QED BY <2>2, <2>3, Zenon
<1> QED BY <1>1, <1>2

LEMMA InitIInv == Init => IInv
<1> SUFFICES ASSUME Init PROVE IInv
  OBVIOUS
<1> USE DEF Init
<1>1. Types
  <2>1. env \subseteq EnvBehaviour
    BY RoutingAssumption
  <2>2. phone \in Phone /\ reg \in Reg
    BY DEF Phone, Reg, Contact, NoUA
  <2>3. uas \in Seq(Agent) /\ nreg \in 0..MaxReg
    BY RoutingAssumption
  <2>4. probe \in [pc : {"idle", "found"}, pending : SUBSET (1..Len(uas))]
    OBVIOUS
  <2>5. call \in Invite
    BY DEF Invite, Contact, Body, Result
  <2> QED BY <2>1, <2>2, <2>3, <2>4, <2>5 DEF Types
<1>2. AgentInv /\ RegInv
  BY DEF AgentInv, RegInv, NoUA
<1>3. CallInv /\ NeverStuck /\ SentToRegistered
  BY DEF CallInv, NeverStuck, SentToRegistered, Body, NoBody
<1>4. TableInv
  <2>1. DOMAIN <<>> = {}
    OBVIOUS
  <2> QED BY <2>1, ReadConfigUsable DEF TableInv
<1> QED BY <1>1, <1>2, <1>3, <1>4 DEF IInv

-----------------------------------------------------------------------------
(***************************************************************************)
(* The call as Watch leaves it: the handler is where it was, and what it   *)
(* has seen of the phone includes where the phone is now.                  *)
(***************************************************************************)
LEMMA WatchCall ==
  ASSUME NEW c \in Invite, NEW p, NEW agents, Home(p, agents) \subseteq Contact,
         NEW d, d = Watch(c, p, agents)
  PROVE  /\ d \in Invite
         /\ d.pc = c.pc /\ d.body = c.body /\ d.from = c.from /\ d.parts = c.parts
         /\ d.sock = c.sock /\ d.result = c.result
         /\ c.homes \subseteq d.homes
         /\ d.pc \notin {"new", "done"} => Home(p, agents) \subseteq d.homes
<1>1. CASE c.pc \in {"new", "done"}
  BY <1>1 DEF Watch
<1>2. CASE c.pc \notin {"new", "done"}
  <2>1. d = [c EXCEPT !.homes = c.homes \cup Home(p, agents)]
    BY <1>2 DEF Watch
  <2> QED BY <2>1 DEF Invite
<1> QED BY <1>1, <1>2

(***************************************************************************)
(* A step that does not touch the call but through Watch keeps all that is *)
(* known of the call, if the phone keeps its user agent or may lose it.    *)
(***************************************************************************)
Watching ==
  /\ UNCHANGED <<env, SkipAS, db, file>>
  /\ call' \in Invite
  /\ call'.pc = call.pc /\ call'.body = call.body /\ call'.sock = call.sock
  /\ call'.result = call.result
  /\ call.homes \subseteq call'.homes
  /\ call'.pc \notin {"new", "done"} => Home(phone', uas') \subseteq call'.homes
  /\ phone.ua # NoUA /\ "badAddr" \notin env => phone'.ua # NoUA

LEMMA WatchingKept ==
  ASSUME IInv, Watching
  PROVE  CallInv' /\ TableInv' /\ NeverStuck' /\ SentToRegistered'
<1>1. TableInv'
  BY DEF IInv, TableInv, Watching
<1>2. NeverStuck' /\ SentToRegistered'
  BY DEF IInv, NeverStuck, SentToRegistered, Watching
<1>3. CallInv'
  BY DEF IInv, CallInv, Watching
<1> QED BY <1>1, <1>2, <1>3

(***************************************************************************)
(* The address of a phone's user agent is that of an agent.                *)
(***************************************************************************)
LEMMA HomeContact ==
  ASSUME NEW agents \in Seq(Agent), NEW p, p.ua \in 0..Len(agents)
  PROVE  Home(p, agents) \subseteq Contact
<1>1. CASE p.ua = 0
  BY <1>1 DEF Home, NoUA
<1>2. CASE p.ua # 0
  <2>1. p.ua \in 1..Len(agents)
    BY <1>2
  <2>2. agents[p.ua] \in Agent
    BY <2>1
  <2> QED BY <2>2 DEF Home, Agent
<1> QED BY <1>1, <1>2

-----------------------------------------------------------------------------
LEMMA AddOrUpdateIInv ==
  ASSUME IInv, NEW t \in Contact, NEW keep \in BOOLEAN, AddOrUpdate(t, keep)
  PROVE  IInv'
<1> DEFINE same == phone.ua # NoUA /\ UA.addr = t
<1>1. /\ reg.pc = "idle" /\ nreg < MaxReg /\ nreg' = nreg + 1
      /\ t = "bad" => "badAddr" \in env
      /\ t = "b" => "rehome" \in env
      /\ reg' = [pc |-> IF same THEN "finish" ELSE "resolve", text |-> t, keep |-> keep]
      /\ phone' = [phone EXCEPT !.exists = TRUE, !.reachable = phone.reachable \/ ~same]
      /\ call' = Watch(call, phone', uas)
      /\ UNCHANGED <<env, SkipAS, uas, probe, db, file>>
  BY DEF AddOrUpdate
<1>2. /\ phone \in Phone /\ uas \in Seq(Agent) /\ call \in Invite /\ nreg \in 0..MaxReg
      /\ probe \in [pc : {"idle", "found"}, pending : SUBSET (1..Len(uas))]
  BY DEF IInv, Types
<1>3. /\ phone' \in Phone /\ phone'.ua = phone.ua /\ phone'.exists
      /\ phone'.registered = phone.registered
      /\ phone'.reachable <=> phone.reachable \/ ~same
  BY <1>1, <1>2 DEF Phone
<1>4. /\ reg' \in Reg /\ reg'.text = t
      /\ (same /\ reg'.pc = "finish") \/ (~same /\ reg'.pc = "resolve")
  BY <1>1 DEF Reg
<1>5. Home(phone', uas) \subseteq Contact
  BY <1>2, <1>3, HomeContact DEF IInv, AgentInv
<1>6. Watching
  BY <1>1, <1>2, <1>3, <1>5, WatchCall DEF Watching
<1>7. CallInv' /\ TableInv' /\ NeverStuck' /\ SentToRegistered'
  BY <1>6, WatchingKept
<1>8. Types'
  BY <1>1, <1>2, <1>3, <1>4, <1>6, RoutingAssumption DEF Types, Watching, IInv
<1>9. AgentInv'
  BY <1>1, <1>2, <1>3, <1>4 DEF AgentInv, IInv
<1>10. RegInv'
  <2>1. same => phone.ua # NoUA
    OBVIOUS
  <2> HIDE DEF same
  <2>2. phone.exists => (phone.reachable <=> phone.ua # NoUA)
    BY <1>1 DEF RegInv, IInv
  <2>3. ~phone.exists => phone.ua = NoUA
    BY DEF RegInv, IInv
  <2> QED BY <1>1, <1>3, <1>4, <2>1, <2>2, <2>3 DEF RegInv
<1> QED BY <1>7, <1>8, <1>9, <1>10 DEF IInv

LEMMA ResolveIInv ==
  ASSUME IInv, Resolve
  PROVE  IInv'
<1>1. /\ reg.pc = "resolve" /\ call' = Watch(call, phone', uas')
      /\ UNCHANGED <<env, SkipAS, nreg, probe, db, file>>
  BY DEF Resolve
<1>2. /\ phone \in Phone /\ uas \in Seq(Agent) /\ call \in Invite /\ nreg \in 0..MaxReg
      /\ reg \in Reg
      /\ probe \in [pc : {"idle", "found"}, pending : SUBSET (1..Len(uas))]
  BY DEF IInv, Types
<1>3. phone.reachable /\ phone.exists
  BY <1>1 DEF IInv, RegInv
<1>4. CASE BuildUdpAddr(reg.text) = NoAddr
  <2>1. /\ phone' = [phone EXCEPT !.reachable = FALSE]
        /\ reg' = [reg EXCEPT !.pc = "clear"]
        /\ uas' = uas
    BY <1>4 DEF Resolve
  <2>2. reg.text = "bad"
    BY <1>2, <1>4 DEF BuildUdpAddr, NoAddr, Reg, Contact
  <2>3. /\ phone' \in Phone /\ phone'.ua = phone.ua /\ phone'.exists /\ ~phone'.reachable
        /\ phone'.registered = phone.registered
        /\ reg' \in Reg /\ reg'.pc = "clear" /\ reg'.text = reg.text
    BY <1>2, <1>3, <2>1 DEF Phone, Reg
  <2>4. Home(phone', uas') \subseteq Contact
    BY <1>2, <2>1, <2>3, HomeContact DEF IInv, AgentInv
  <2>5. Watching
    BY <1>1, <1>2, <2>3, <2>4, WatchCall DEF Watching
  <2>6. CallInv' /\ TableInv' /\ NeverStuck' /\ SentToRegistered'
    BY <2>5, WatchingKept
  <2>7. Types'
    BY <1>1, <1>2, <2>1, <2>3, <2>5 DEF Types, Watching, IInv
  <2>8. AgentInv'
    BY <1>1, <2>1, <2>3 DEF AgentInv, IInv
  <2>9. RegInv'
    BY <1>1, <2>2, <2>3 DEF RegInv, IInv
  <2> QED BY <2>6, <2>7, <2>8, <2>9 DEF IInv
<1>5. CASE BuildUdpAddr(reg.text) # NoAddr
  <2> DEFINE a == BuildUdpAddr(reg.text)
  <2> DEFINE new == [addr |-> a, alive |-> FALSE, answered |-> FALSE]
  <2>1. /\ uas' = Append(uas, new)
        /\ phone' = [phone EXCEPT !.ua = Len(uas) + 1]
        /\ reg' = [reg EXCEPT !.pc = "finish"]
    BY <1>5 DEF Resolve
  <2>2. a \in Contact /\ (reg.text # "b" => a = "a")
    BY <1>2, <1>5 DEF BuildUdpAddr, NoAddr, Reg, Contact
  <2>3. new \in Agent /\ ~new.alive /\ new.addr = a
    BY <2>2 DEF Agent
  <2> HIDE DEF new, a
  <2>4. /\ phone' \in Phone /\ phone'.ua = Len(uas) + 1 /\ phone'.exists /\ phone'.reachable
        /\ phone'.registered = phone.registered
        /\ reg' \in Reg /\ reg'.pc = "finish" /\ reg'.text = reg.text
    BY <1>2, <1>3, <2>1, SMTT(30) DEF Phone, Reg
  <2>5. /\ uas' \in Seq(Agent) /\ Len(uas') = Len(uas) + 1 /\ uas'[Len(uas) + 1] = new
        /\ \A u \in 1..Len(uas) : uas'[u] = uas[u]
    BY <1>2, <2>1, <2>3
  <2>6. Home(phone', uas') \subseteq Contact
    BY <1>2, <2>4, <2>5, HomeContact
  <2>7. Watching
    BY <1>1, <1>2, <2>4, <2>6, WatchCall DEF Watching, NoUA
  <2>8. CallInv' /\ TableInv' /\ NeverStuck' /\ SentToRegistered'
    BY <2>7, WatchingKept
  <2>9. probe' \in [pc : {"idle", "found"}, pending : SUBSET (1..Len(uas'))]
    BY <1>1, <1>2, <2>5
  <2>10. Types'
    BY <1>1, <1>2, <2>4, <2>5, <2>7, <2>9 DEF Types, Watching, IInv
  <2>11. AgentInv'
    <3>1. \A u \in 1..Len(uas') : u \in 1..Len(uas) \/ u = Len(uas) + 1
      BY <1>2, <2>5
    <3>2. ASSUME NEW u \in 1..Len(uas')
          PROVE  (uas'[u].alive => uas'[u].answered) /\ ("rehome" \notin env => uas'[u].addr = "a")
      <4>1. CASE u \in 1..Len(uas)
        BY <4>1, <2>5 DEF AgentInv, IInv
      <4>2. CASE u = Len(uas) + 1
        BY <4>2, <2>2, <2>3, <2>5 DEF RegInv, IInv
      <4> QED BY <3>1, <4>1, <4>2
    <3>3. Len(uas) < nreg /\ Len(uas) \in Nat
      BY <1>1, <1>2 DEF AgentInv, IInv
    <3> QED BY <1>1, <1>2, <2>4, <2>5, <3>2, <3>3 DEF AgentInv
  <2>12. RegInv'
    BY <1>1, <1>2, <2>4 DEF RegInv, IInv, NoUA
  <2> QED BY <2>8, <2>10, <2>11, <2>12 DEF IInv
<1> QED BY <1>4, <1>5

LEMMA ClearUAIInv ==
  ASSUME IInv, ClearUA
  PROVE  IInv'
<1>1. /\ reg.pc = "clear" /\ phone' = [phone EXCEPT !.ua = NoUA]
      /\ reg' = [reg EXCEPT !.pc = "finish"]
      /\ UNCHANGED <<env, SkipAS, uas, nreg, probe, db, file, call>>
  BY DEF ClearUA
<1>2. phone \in Phone /\ uas \in Seq(Agent) /\ reg \in Reg /\ call \in Invite
  BY DEF IInv, Types
<1>3. ~phone.reachable /\ "badAddr" \in env /\ phone.exists
  BY <1>1 DEF IInv, RegInv
<1>4. /\ phone' \in Phone /\ phone'.ua = NoUA /\ phone'.exists /\ ~phone'.reachable
      /\ reg' \in Reg /\ reg'.pc = "finish" /\ reg'.text = reg.text
  BY <1>1, <1>2, <1>3 DEF Phone, Reg, NoUA
<1>5. Home(phone', uas') = {}
  BY <1>4 DEF Home
<1>6. CallInv' /\ TableInv' /\ NeverStuck' /\ SentToRegistered'
  BY <1>1, <1>2, <1>3, <1>5, WatchingKept DEF Watching
<1>7. Types'
  BY <1>1, <1>4 DEF Types, IInv
<1>8. AgentInv'
  BY <1>1, <1>2, <1>4 DEF AgentInv, IInv, NoUA
<1>9. RegInv'
  BY <1>1, <1>3, <1>4 DEF RegInv, IInv
<1> QED BY <1>6, <1>7, <1>8, <1>9 DEF IInv

LEMMA FinishUpdateIInv ==
  ASSUME IInv, FinishUpdate
  PROVE  IInv'
<1>1. /\ reg.pc = "finish" /\ phone' = [phone EXCEPT !.registered = reg.keep]
      /\ reg' = [reg EXCEPT !.pc = "idle"]
      /\ call' = Watch(call, phone', uas)
      /\ UNCHANGED <<env, SkipAS, uas, nreg, probe, db, file>>
  BY DEF FinishUpdate
<1>2. phone \in Phone /\ uas \in Seq(Agent) /\ reg \in Reg /\ call \in Invite
  BY DEF IInv, Types
<1>3. /\ phone' \in Phone /\ phone'.ua = phone.ua
      /\ phone'.exists = phone.exists /\ phone'.reachable = phone.reachable
      /\ reg' \in Reg /\ reg'.pc = "idle" /\ reg'.text = reg.text
  BY <1>1, <1>2 DEF Phone, Reg
<1>4. Home(phone', uas) \subseteq Contact
  BY <1>2, <1>3, HomeContact DEF IInv, AgentInv
<1>5. Watching
  BY <1>1, <1>2, <1>3, <1>4, WatchCall DEF Watching
<1>6. CallInv' /\ TableInv' /\ NeverStuck' /\ SentToRegistered'
  BY <1>5, WatchingKept
<1>7. Types'
  BY <1>1, <1>3, <1>5 DEF Types, Watching, IInv
<1>8. AgentInv'
  BY <1>1, <1>3 DEF AgentInv, IInv
<1>9. RegInv'
  BY <1>1, <1>3 DEF RegInv, IInv
<1> QED BY <1>6, <1>7, <1>8, <1>9 DEF IInv

-----------------------------------------------------------------------------
(***************************************************************************)
(* Probing changes no address and no phone, and an operator's reload       *)
(* leaves usable records.                                                  *)
(***************************************************************************)
LEMMA ProbeIInv ==
  ASSUME IInv,
         ScanPhone \/ ProbeUA \/ \E u \in DOMAIN uas : ProbeAnswered(u) \/ ProbeTimedOut(u)
  PROVE  IInv'
<1>1. UNCHANGED <<env, SkipAS, phone, reg, nreg, db, file, call>>
  BY DEF ScanPhone, ProbeUA, ProbeAnswered, ProbeTimedOut
<1>2. /\ phone \in Phone /\ uas \in Seq(Agent) /\ call \in Invite
      /\ probe \in [pc : {"idle", "found"}, pending : SUBSET (1..Len(uas))]
      /\ phone.ua \in 0..Len(uas)
  BY DEF IInv, Types, AgentInv
<1>3. /\ uas' \in Seq(Agent) /\ Len(uas') = Len(uas)
      /\ \A u \in 1..Len(uas) :
           uas'[u].addr = uas[u].addr /\ (uas'[u].alive => uas'[u].answered)
  <2>0. \A u \in 1..Len(uas) : uas[u] \in Agent /\ (uas[u].alive => uas[u].answered)
    BY <1>2 DEF IInv, AgentInv
  <2>1. CASE UNCHANGED uas
    BY <2>0, <2>1, <1>2
  <2>2. ASSUME NEW u \in DOMAIN uas, ProbeAnswered(u)
        PROVE  <1>3!1 /\ <1>3!2
    <3>1. u \in 1..Len(uas)
      BY <1>2, <2>2
    <3> DEFINE a == [uas[u] EXCEPT !.alive = TRUE, !.answered = TRUE]
    <3>2. uas' = [uas EXCEPT ![u] = a]
      BY <2>2, <1>2, <3>1 DEF ProbeAnswered
    <3>3. a \in Agent /\ a.addr = uas[u].addr /\ a.answered
      BY <2>0, <3>1 DEF Agent
    <3> HIDE DEF a
    <3> QED BY <1>2, <2>0, <3>1, <3>2, <3>3
  <2>3. UNCHANGED uas \/ \E u \in DOMAIN uas : ProbeAnswered(u)
    BY DEF ScanPhone, ProbeUA, ProbeTimedOut
  <2> QED BY <2>1, <2>2, <2>3
<1>4. probe' \in [pc : {"idle", "found"}, pending : SUBSET (1..Len(uas'))]
  <2>1. CASE ScanPhone
    BY <1>2, <1>3, <2>1 DEF ScanPhone
  <2>2. CASE ProbeUA
    <3>1. phone.ua # NoUA => phone.ua \in 1..Len(uas)
      BY <1>2 DEF NoUA
    <3> QED BY <1>2, <1>3, <2>2, <3>1 DEF ProbeUA
  <2>3. ASSUME NEW u \in DOMAIN uas, ProbeAnswered(u) \/ ProbeTimedOut(u)
        PROVE  <1>4
    <3>1. probe' = [probe EXCEPT !.pending = probe.pending \ {u}]
      BY <2>3 DEF ProbeAnswered, ProbeTimedOut
    <3> QED BY <1>2, <1>3, <3>1
  <2> QED BY <2>1, <2>2, <2>3
<1>5. Types'
  BY <1>1, <1>3, <1>4 DEF IInv, Types
<1>6. AgentInv' /\ RegInv'
  BY <1>1, <1>3 DEF IInv, AgentInv, RegInv
<1>7. Home(phone', uas') = Home(phone, uas)
  <2>1. phone.ua # NoUA => phone.ua \in 1..Len(uas)
    BY <1>2 DEF NoUA
  <2>2. phone.ua # NoUA => uas'[phone.ua].addr = uas[phone.ua].addr
    BY <1>3, <2>1
  <2> QED BY <1>1, <2>2 DEF Home
<1>8. Watching
  BY <1>1, <1>2, <1>7 DEF Watching, IInv, CallInv
<1> QED BY <1>5, <1>6, <1>8, WatchingKept DEF IInv

LEMMA OperatorIInv ==
  ASSUME IInv, (\E f \in Files : EditFile(f)) \/ RefreshConfig \/ UNCHANGED vars
  PROVE  IInv'
<1>1. UNCHANGED <<env, SkipAS, phone, uas, reg, nreg, probe, call>>
  BY DEF EditFile, RefreshConfig, vars
<1>2. file' \in Files
  BY DEF EditFile, RefreshConfig, vars, IInv, Types
<1>3. Types' /\ AgentInv' /\ RegInv'
  BY <1>1, <1>2 DEF IInv, Types, AgentInv, RegInv
<1>4. CallInv' /\ NeverStuck' /\ SentToRegistered'
  BY <1>1 DEF IInv, CallInv, NeverStuck, SentToRegistered, Home
<1>5. TableInv'
  <2>1. CASE RefreshConfig
    BY <2>1, ReadConfigUsable DEF IInv, Types, TableInv, RefreshConfig
  <2>2. CASE UNCHANGED db
    BY <2>2 DEF IInv, TableInv
  <2> QED BY <2>1, <2>2 DEF EditFile, vars
<1> QED BY <1>3, <1>4, <1>5 DEF IInv

-----------------------------------------------------------------------------
(***************************************************************************)
(* A step of the routing handler touches nothing but the call.             *)
(***************************************************************************)
Others == UNCHANGED <<env, SkipAS, phone, uas, reg, nreg, probe, db, file>>

LEMMA OthersKept ==
  ASSUME IInv, Others, call' \in Invite, CallInv', NeverStuck', SentToRegistered'
  PROVE  IInv'
BY DEF Others, IInv, Types, AgentInv, RegInv, TableInv

(***************************************************************************)
(* A decision, other than the two that need a reason.                      *)
(***************************************************************************)
LEMMA DecideIInv ==
  ASSUME IInv, Others, NEW r \in Result, Decide(r), r # "503",
         r = "stuck" => env \cap {"badAddr", "early", "noBody"} # {},
         r = "phone" /\ env \cap {"rehome", "badAddr"} = {} => call.sock \in call.homes
  PROVE  IInv'
<1>1. call \in Invite
  BY DEF IInv, Types
<1>2. /\ call' \in Invite /\ call'.pc = "done" /\ call'.result = r /\ call'.body = call.body
      /\ call'.sock = call.sock /\ call'.homes = call.homes
  BY <1>1 DEF Decide, Invite
<1>3. CallInv'
  BY <1>2 DEF CallInv, IInv, Others
<1>4. NeverStuck' /\ SentToRegistered'
  BY <1>2 DEF NeverStuck, SentToRegistered, Others
<1> QED BY <1>2, <1>3, <1>4, OthersKept

LEMMA LookupIInv ==
  ASSUME IInv, Lookup
  PROVE  IInv'
<1> DEFINE end == IF call.parts /\ call.body = NoBody THEN "stuck" ELSE "AS"
<1>1. /\ call.pc = "new" /\ Others
      /\ phone.exists /\ phone.ua = NoUA /\ reg.pc # "idle" => "early" \in env
  BY DEF Lookup, Others
<1>2. /\ call \in Invite /\ phone \in Phone /\ reg \in Reg
      /\ Home(phone, uas) \subseteq Contact
  BY HomeContact DEF IInv, Types, AgentInv
<1>3. PICK next \in {[pc |-> "found", result |-> "none"], [pc |-> "db", result |-> "none"],
                     [pc |-> "done", result |-> "404"], [pc |-> "done", result |-> end]} :
        /\ next.pc = "found" => phone.exists
        /\ call' = [call EXCEPT !.pc = next.pc, !.result = next.result, !.homes = Home(phone, uas)]
  <2>1. CASE RoutesToPhone /\ phone.exists
    BY <2>1 DEF Lookup
  <2>2. CASE SkipAS /\ ~phone.exists
    BY <2>2 DEF Lookup
  <2>3. CASE ~SkipAS /\ RoutesToPhone /\ ~phone.exists
    BY <2>3 DEF Lookup
  <2>4. CASE ~(RoutesToPhone /\ phone.exists) /\ ~(SkipAS /\ ~phone.exists)
             /\ ~(~SkipAS /\ RoutesToPhone /\ ~phone.exists)
    BY <2>4 DEF Lookup
  <2> QED BY <2>1, <2>2, <2>3, <2>4
<1>4. /\ next.pc \in {"found", "db", "done"}
      /\ next.result \in {"none", "stuck", "AS", "404"}
      /\ next.result = "stuck" => call.body = NoBody
      /\ next.pc # "done" => next.result = "none"
  BY <1>3
<1>5. /\ call' \in Invite /\ call'.pc = next.pc /\ call'.result = next.result
      /\ call'.body = call.body /\ call'.sock = call.sock /\ call'.homes = Home(phone, uas)
  BY <1>2, <1>3, <1>4 DEF Invite, Result
<1>6. phone.exists /\ env \cap {"badAddr", "early"} = {} => phone.ua # NoUA
  BY <1>1, <1>2 DEF IInv, RegInv
<1>7. CallInv'
  BY <1>1, <1>3, <1>4, <1>5, <1>6 DEF CallInv, IInv, Others
<1>8. NeverStuck' /\ SentToRegistered'
  BY <1>1, <1>4, <1>5 DEF NeverStuck, SentToRegistered, CallInv, IInv, Others
<1> QED BY <1>1, <1>5, <1>7, <1>8, OthersKept

LEMMA ReadUAIInv ==
  ASSUME IInv, ReadUA
  PROVE  IInv'
<1>1. call.pc = "found" /\ Others
  BY DEF ReadUA, Others
<1>2. call \in Invite /\ uas \in Seq(Agent) /\ phone.ua \in 0..Len(uas)
  BY DEF IInv, Types, AgentInv
<1>3. CASE phone.ua = NoUA
  <2>1. Decide("stuck")
    BY <1>3 DEF ReadUA
  <2>2. env \cap {"badAddr", "early"} # {}
    BY <1>1, <1>3 DEF IInv, CallInv
  <2> QED BY <1>1, <2>1, <2>2, DecideIInv DEF Result
<1>4. CASE phone.ua # NoUA
  <2>1. call' = [call EXCEPT !.pc = "ua", !.sock = uas[phone.ua].addr]
    BY <1>4 DEF ReadUA, UA
  <2>2. phone.ua \in 1..Len(uas)
    BY <1>2, <1>4 DEF NoUA
  <2>3. uas[phone.ua] \in Agent /\ ("rehome" \notin env => uas[phone.ua].addr = "a")
    BY <1>2, <2>2 DEF IInv, AgentInv
  <2>4. /\ call' \in Invite /\ call'.pc = "ua" /\ call'.result = call.result
        /\ call'.body = call.body /\ call'.sock = uas[phone.ua].addr /\ call'.homes = call.homes
    BY <1>2, <2>1, <2>3 DEF Invite, Agent
  <2>5. CallInv'
    BY <1>1, <1>4, <2>3, <2>4 DEF CallInv, IInv, Others
  <2>6. NeverStuck' /\ SentToRegistered'
    BY <1>1, <2>4 DEF NeverStuck, SentToRegistered, CallInv, IInv, Others
  <2> QED BY <1>1, <2>4, <2>5, <2>6, OthersKept
<1> QED BY <1>3, <1>4

LEMMA CheckRegisteredIInv ==
  ASSUME IInv, CheckRegistered
  PROVE  IInv'
<1>1. call.pc = "ua" /\ Others
  BY DEF CheckRegistered, Others
<1>2. call \in Invite /\ uas \in Seq(Agent) /\ phone.ua \in 0..Len(uas)
  BY DEF IInv, Types, AgentInv
<1>3. CASE ~phone.registered
  BY <1>1, <1>3, DecideIInv DEF CheckRegistered, Result
<1>4. CASE phone.registered
  <2>1. call' = [call EXCEPT !.pc = "reg"]
    BY <1>4 DEF CheckRegistered, Go
  <2>2. /\ call' \in Invite /\ call'.pc = "reg" /\ call'.result = call.result
        /\ call'.body = call.body /\ call'.sock = call.sock /\ call'.homes = call.homes
    BY <1>2, <2>1 DEF Invite
  <2>3. env \cap {"rehome", "badAddr"} = {} => call.sock \in call.homes
    <3> SUFFICES ASSUME env \cap {"rehome", "badAddr"} = {} PROVE call.sock \in call.homes
      OBVIOUS
    <3>1. call.sock = "a" /\ phone.ua # NoUA
      BY <1>1 DEF IInv, CallInv
    <3>2. phone.ua \in 1..Len(uas)
      BY <1>2, <3>1 DEF NoUA
    <3>3. uas[phone.ua].addr = "a"
      BY <3>2 DEF IInv, AgentInv
    <3>4. Home(phone, uas) = {"a"}
      BY <1>4, <3>1, <3>3 DEF Home
    <3> QED BY <1>1, <3>1, <3>4 DEF IInv, CallInv
  <2>4. CallInv'
    BY <1>1, <2>2, <2>3 DEF CallInv, IInv, Others
  <2>5. NeverStuck' /\ SentToRegistered'
    BY <1>1, <2>2 DEF NeverStuck, SentToRegistered, CallInv, IInv, Others
  <2> QED BY <1>1, <2>2, <2>4, <2>5, OthersKept
<1> QED BY <1>3, <1>4

LEMMA CheckReachableIInv ==
  ASSUME IInv, CheckReachable
  PROVE  IInv'
<1>1. call.pc = "reg" /\ Others
  BY DEF CheckReachable, Others
<1>2. call \in Invite
  BY DEF IInv, Types
<1>3. CASE ~phone.reachable
  BY <1>1, <1>3, DecideIInv DEF CheckReachable, Result
<1>4. CASE phone.reachable
  <2>1. call' = [call EXCEPT !.pc = "reach"]
    BY <1>4 DEF CheckReachable, Go
  <2>2. /\ call' \in Invite /\ call'.pc = "reach" /\ call'.result = call.result
        /\ call'.body = call.body /\ call'.sock = call.sock /\ call'.homes = call.homes
    BY <1>2, <2>1 DEF Invite
  <2>3. CallInv'
    BY <1>1, <2>2 DEF CallInv, IInv, Others
  <2>4. NeverStuck' /\ SentToRegistered'
    BY <1>1, <2>2 DEF NeverStuck, SentToRegistered, CallInv, IInv, Others
  <2> QED BY <1>1, <2>2, <2>3, <2>4, OthersKept
<1> QED BY <1>3, <1>4

LEMMA RoutePhoneIInv ==
  ASSUME IInv, RoutePhone
  PROVE  IInv'
<1>1. call.pc = "reach" /\ Others /\ Decide(KeepOnlyBodyPart(call.body))
  BY DEF RoutePhone, Others
<1>2. call \in Invite
  BY DEF IInv, Types
<1>3. PICK r \in {"stuck", "phone", "488"} :
        r = KeepOnlyBodyPart(call.body) /\ (r = "stuck" => call.body = NoBody)
  BY <1>2 DEF KeepOnlyBodyPart, Invite, Body, NoBody
<1>4. r = "stuck" => "noBody" \in env
  BY <1>3 DEF IInv, CallInv
<1>5. env \cap {"rehome", "badAddr"} = {} => call.sock \in call.homes
  BY <1>1 DEF IInv, CallInv
<1> QED BY <1>1, <1>3, <1>4, <1>5, DecideIInv DEF Result

LEMMA RouteDBIInv ==
  ASSUME IInv, RouteDB
  PROVE  IInv'
<1>1. call.pc = "db" /\ Others
  BY DEF RouteDB, Others
<1>2. CASE Matching = {}
  BY <1>1, <1>2, DecideIInv DEF RouteDB, Result
<1>3. CASE Matching # {}
  <2>1. First(Matching) \in DOMAIN db
    BY <1>3, FirstIn DEF IInv, TableInv, Matching
  <2>2. PICK rec : rec = db[First(Matching)]
    OBVIOUS
  <2>3. rec \in Record /\ (rec.flow = "EchoResponder" \/ rec.timers)
    BY <2>1, <2>2 DEF IInv, TableInv, Usable
  <2>4. ~(/\ rec.flow # "EchoResponder" /\ ~rec.timers
          /\ (rec.flow = "Transparent" \/ ~DelayedOffer))
    BY <2>3
  <2>5. PICK r \in {"488", "echo", "db"} : Decide(r)
    <3>1. Decide(CASE rec.flow # "Transparent" /\ DelayedOffer -> "488"
                   [] rec.flow = "EchoResponder" /\ ~DelayedOffer -> "echo"
                   [] rec.flow # "EchoResponder" /\ ~rec.timers
                      /\ (rec.flow = "Transparent" \/ ~DelayedOffer) -> "503"
                   [] OTHER -> "db")
      BY <1>3, <2>2 DEF RouteDB
    <3> QED BY <2>4, <3>1
  <2> QED BY <1>1, <2>5, DecideIInv DEF Result
<1> QED BY <1>2, <1>3

LEMMA NextIInv == IInv /\ [Next]_vars => IInv'
<1> SUFFICES ASSUME IInv, [Next]_vars PROVE IInv'
  OBVIOUS
<1>1. CASE \E t \in Contact, keep \in BOOLEAN : AddOrUpdate(t, keep)
  BY <1>1, AddOrUpdateIInv
<1>2. CASE Registration
  BY <1>2, ResolveIInv, ClearUAIInv, FinishUpdateIInv DEF Registration
<1>3. CASE ScanPhone \/ ProbeUA \/ \E u \in DOMAIN uas : ProbeAnswered(u) \/ ProbeTimedOut(u)
  BY <1>3, ProbeIInv
<1>4. CASE (\E f \in Files : EditFile(f)) \/ RefreshConfig \/ UNCHANGED vars
  BY <1>4, OperatorIInv
<1>5. CASE Routing
  BY <1>5, LookupIInv, ReadUAIInv, CheckRegisteredIInv, CheckReachableIInv, RoutePhoneIInv,
     RouteDBIInv DEF Routing
<1> QED BY <1>1, <1>2, <1>3, <1>4, <1>5 DEF Next

LEMMA SpecIInv == Spec => []IInv
BY InitIInv, NextIInv, PTL DEF Spec

-----------------------------------------------------------------------------
(***************************************************************************)
(* AddOrUpdate leaves a phone marked reachable exactly if it has a user    *)
(* agent, whichever Contacts it registers, and ProbeUA's answers make only *)
(* the agent alive that was asked.                                         *)
(***************************************************************************)
THEOREM RegistryTrueHolds == Spec => []RegistryTrue
<1>1. IInv => RegistryTrue
  BY DEF IInv, Types, AgentInv, RegInv, RegistryTrue
<1> QED BY <1>1, SpecIInv, PTL

(***************************************************************************)
(* RouteRequestInternal and RouteRequestExternal panic for the three known *)
(* reasons at most, and never meet a routing record without guard timer.   *)
(***************************************************************************)
THEOREM NeverStuckHolds == Spec => []NeverStuck
<1>1. IInv => NeverStuck
  BY DEF IInv
<1> QED BY <1>1, SpecIInv, PTL

(***************************************************************************)
(* The routing handler, which reads the phone's agent and its two flags    *)
(* one by one while REGISTERs change them, sends a call to an address the  *)
(* phone was registered at meanwhile.                                      *)
(***************************************************************************)
THEOREM SentToRegisteredHolds == Spec => []SentToRegistered
<1>1. IInv => SentToRegistered
  BY DEF IInv
<1> QED BY <1>1, SpecIInv, PTL
=============================================================================
