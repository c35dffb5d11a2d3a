----------------------------- MODULE CallRouting -----------------------------
(***************************************************************************)
(* Where a call goes: the registry of phones (phone/phone.go) that REGISTER *)
(* fills, the keepalive probes of the phones, the routing table loaded from *)
(* rdb.json, and the decision of RouteRequestInternal (SkipAS) or           *)
(* RouteRequestExternal about one INVITE.                                   *)
(*                                                                          *)
(* AddOrUpdate holds the registry's mutex from end to end, but what it      *)
(* changes is the IPPhone, whose fields the routing handler and the probing *)
(* goroutine read without that mutex: each access is a step.                *)
(***************************************************************************)
EXTENDS Naturals, Sequences

CONSTANTS
  Files,     \* contents of rdb.json: sequences of records, or BadJSON
  BadJSON,
  MaxReg,    \* bound: REGISTER requests
  Envs       \* sets of the behaviours below, one of which is chosen

EnvBehaviour ==
  {"badAddr",    \* a Contact whose address cannot be resolved
   "early",      \* the phone is called before its first REGISTER is answered
   "noBody",     \* an INVITE without body
   "rehome",     \* a phone registers from another address
   "addParts",   \* INVITEs ask for body parts with P-Add-BodyPart
   "edit"}       \* an operator edits rdb.json and reloads it

(***************************************************************************)
(* Addresses.  A Contact has a host with or without the port 5060; the     *)
(* name of a socket never shows that port (UdpSocket.String).              *)
(***************************************************************************)
Contact == {"a", "a:5060", "b", "bad"}
NoAddr == "none"
BuildUdpAddr(text) == CASE text = "bad" -> NoAddr [] text = "a:5060" -> "a" [] OTHER -> text

\* no body, a body with SDP among its parts, or one without
NoBody == "nil"
Body == {NoBody, "SDP", "other"}

Flow == {"Transparent", "TransformEarlyToFinal", "EchoResponder"}
\* a record matches the dialled number or not and enables a guard timer or not
Record == [flow : Flow, matches : BOOLEAN, timers : BOOLEAN, valid : BOOLEAN]

ASSUME RoutingAssumption ==
  /\ MaxReg \in Nat /\ Envs \subseteq SUBSET EnvBehaviour
  /\ \A f \in Files : f = BadJSON \/ f \in Seq(Record)

VARIABLES
  env,     \* what peers and operators do in this behaviour
  SkipAS,  \* no application server was configured
  phone,   \* the IPPhone of the extension that is called
  uas,     \* the SipUdpUserAgents created so far: address, isAlive, has answered
  reg,     \* the worker inside AddOrUpdate
  nreg,
  probe,   \* the probing goroutine, and the agents whose OPTIONS is pending
  db,      \* RoutingEngine.routings: the records kept, each at its place in the file
  file,    \* the content of rdb.json
  call     \* the INVITE

vars == <<env, SkipAS, phone, uas, reg, nreg, probe, db, file, call>>

NoUA == 0

Result == {"none", "stuck", "phone", "AS", "db", "echo", "404", "480", "488", "503", "604"}

TypeOK ==
  /\ SkipAS \in BOOLEAN
  /\ phone \in [exists : BOOLEAN, ua : 0..MaxReg, reachable : BOOLEAN, registered : BOOLEAN]
  /\ uas \in Seq([addr : Contact, alive : BOOLEAN, answered : BOOLEAN])
  /\ reg \in [pc : {"idle", "resolve", "clear", "finish"}, text : Contact, keep : BOOLEAN]
  /\ nreg \in 0..MaxReg
  /\ probe.pc \in {"idle", "found"} /\ probe.pending \subseteq 1..Len(uas)
  /\ DOMAIN db \subseteq Nat /\ \A i \in DOMAIN db : db[i] \in Record
  /\ file \in Files
  /\ call.pc \in {"new", "found", "ua", "reg", "reach", "db", "done"}
  /\ call.body \in Body
  /\ call.from \in {"AS", "phone", "trunk"}
  /\ call.sock \in Contact \cup {NoAddr}
  /\ call.result \in Result
  /\ call.homes \subseteq Contact

(***************************************************************************)
(* ReadConfig: a file that is not JSON leaves the table alone, otherwise   *)
(* the bad records are skipped: those without guard timer that are no echo *)
(* calls, and those whose pattern or host cannot be used.                  *)
(***************************************************************************)
Usable(r) == r.valid /\ (r.flow = "EchoResponder" \/ r.timers)

ReadConfig(f, old) ==
  IF f = BadJSON THEN old ELSE [i \in {j \in DOMAIN f : Usable(f[j])} |-> f[i]]

Init ==
  /\ env \in Envs
  /\ SkipAS \in BOOLEAN
  /\ phone = [exists |-> FALSE, ua |-> NoUA, reachable |-> FALSE, registered |-> FALSE]
  /\ uas = <<>>
  /\ reg = [pc |-> "idle", text |-> "a", keep |-> FALSE]
  /\ nreg = 0
  /\ probe = [pc |-> "idle", pending |-> {}]
  /\ file \in Files
  /\ db = ReadConfig(file, <<>>)
  /\ call \in
       [pc : {"new"}, body : IF "noBody" \in env THEN Body ELSE Body \ {NoBody},
        from : {"AS", "phone", "trunk"}, parts : IF "addParts" \in env THEN BOOLEAN ELSE {FALSE},
        sock : {NoAddr}, result : {"none"}, homes : {{}}]

(***************************************************************************)
(* What SentToRegistered compares the decision with: the addresses the     *)
(* phone was registered at from the look-up on.                            *)
(***************************************************************************)
Home(p, agents) == IF p.registered /\ p.ua # NoUA THEN {agents[p.ua].addr} ELSE {}
Watch(c, p, agents) ==
  IF c.pc \in {"new", "done"} THEN c
  ELSE [c EXCEPT !.homes = @ \cup Home(p, agents)]

-----------------------------------------------------------------------------
(***************************************************************************)
(* REGISTER.  A Contact that cannot be read is answered 400 before any of  *)
(* this.  AddOrUpdate compares the Contact's text with the name of the     *)
(* socket it has; keep: Expires is positive.                               *)
(***************************************************************************)
UA == uas[phone.ua]

AddOrUpdate(t, keep) ==
  /\ reg.pc = "idle" /\ nreg < MaxReg
  /\ t = "bad" => "badAddr" \in env
  /\ t = "b" => "rehome" \in env
  /\ nreg' = nreg + 1
  /\ LET same == phone.ua # NoUA /\ UA.addr = t IN
       /\ reg' = [pc |-> IF same THEN "finish" ELSE "resolve", text |-> t, keep |-> keep]
       /\ phone' = [phone EXCEPT !.exists = TRUE, !.reachable = @ \/ ~same]
  /\ call' = Watch(call, phone', uas)
  /\ UNCHANGED <<env, SkipAS, uas, probe, db, file>>

\* BuildUdpAddr, which may ask a name server, and SetUA
Resolve ==
  /\ reg.pc = "resolve"
  /\ LET a == BuildUdpAddr(reg.text) IN
       IF a = NoAddr
         THEN /\ phone' = [phone EXCEPT !.reachable = FALSE]
              /\ reg' = [reg EXCEPT !.pc = "clear"]
              /\ UNCHANGED uas
         ELSE /\ uas' = Append(uas, [addr |-> a, alive |-> FALSE, answered |-> FALSE])
              /\ phone' = [phone EXCEPT !.ua = Len(uas) + 1]
              /\ reg' = [reg EXCEPT !.pc = "finish"]
  /\ call' = Watch(call, phone', uas')
  /\ UNCHANGED <<env, SkipAS, nreg, probe, db, file>>

ClearUA ==
  /\ reg.pc = "clear"
  /\ phone' = [phone EXCEPT !.ua = NoUA]
  /\ reg' = [reg EXCEPT !.pc = "finish"]
  /\ UNCHANGED <<env, SkipAS, uas, nreg, probe, db, file, call>>

\* mutant: a phone that leaves loses its user agent
Bug_FinishUpdate ==
  /\ reg.pc = "finish"
  /\ phone' = [phone EXCEPT !.registered = reg.keep, !.ua = IF reg.keep THEN @ ELSE NoUA]
  /\ reg' = [reg EXCEPT !.pc = "idle"]
  /\ UNCHANGED <<env, SkipAS, uas, nreg, probe, db, file, call>>

FinishUpdate ==
  /\ reg.pc = "finish"
  /\ phone' = [phone EXCEPT !.registered = reg.keep]
  /\ reg' = [reg EXCEPT !.pc = "idle"]
  /\ call' = Watch(call, phone', uas)
  /\ UNCHANGED <<env, SkipAS, uas, nreg, probe, db, file>>

-----------------------------------------------------------------------------
(***************************************************************************)
(* periodicUAProbing reads the two flags, then the user agent; ProbeUA     *)
(* sends an OPTIONS in a session that keeps that agent.  Any final answer  *)
(* makes the agent alive; nothing ever makes it not alive.                 *)
(***************************************************************************)
ScanPhone ==
  /\ probe.pc = "idle"
  /\ phone.exists /\ phone.reachable /\ phone.registered
  /\ probe' = [probe EXCEPT !.pc = "found"]
  /\ UNCHANGED <<env, SkipAS, phone, uas, reg, nreg, db, file, call>>

ProbeUA ==
  /\ probe.pc = "found"
  /\ probe' = [pc |-> "idle",
               pending |-> probe.pending \cup (IF phone.ua = NoUA THEN {} ELSE {phone.ua})]
  /\ UNCHANGED <<env, SkipAS, phone, uas, reg, nreg, db, file, call>>

\* mutant: the answer counts for the user agent the phone has by now
Bug_ProbeAnswered(u) ==
  /\ u \in probe.pending /\ phone.ua # NoUA
  /\ uas' = [uas EXCEPT ![phone.ua].alive = TRUE, ![u].answered = TRUE]
  /\ probe' = [probe EXCEPT !.pending = @ \ {u}]
  /\ UNCHANGED <<env, SkipAS, phone, reg, nreg, db, file, call>>

ProbeAnswered(u) ==
  /\ u \in probe.pending
  /\ uas' = [uas EXCEPT ![u].alive = TRUE, ![u].answered = TRUE]
  /\ probe' = [probe EXCEPT !.pending = @ \ {u}]
  /\ UNCHANGED <<env, SkipAS, phone, reg, nreg, db, file, call>>

ProbeTimedOut(u) ==
  /\ u \in probe.pending
  /\ probe' = [probe EXCEPT !.pending = @ \ {u}]
  /\ UNCHANGED <<env, SkipAS, phone, uas, reg, nreg, db, file, call>>

-----------------------------------------------------------------------------
\* an operator edits rdb.json
EditFile(f) ==
  /\ "edit" \in env
  /\ file' = f
  /\ UNCHANGED <<env, SkipAS, phone, uas, reg, nreg, probe, db, call>>

\* refreshConfig: ReloadConfig
RefreshConfig ==
  /\ "edit" \in env
  /\ db' = ReadConfig(file, db)
  /\ UNCHANGED <<env, SkipAS, phone, uas, reg, nreg, probe, file, call>>

-----------------------------------------------------------------------------
(***************************************************************************)
(* Routing one INVITE.  A panic is recovered by the deferred LogCallStack: *)
(* the handler is over and the INVITE has had nothing but its 100.         *)
(***************************************************************************)
Decide(r) == call' = [call EXCEPT !.pc = "done", !.result = r]
Go(p) == call' = [call EXCEPT !.pc = p]

RoutesToPhone == SkipAS \/ call.from = "AS"

\* Phones.Get; without an application server an unknown number goes to the table
Lookup ==
  /\ call.pc = "new"
  /\ phone.exists /\ phone.ua = NoUA /\ reg.pc # "idle" => "early" \in env
  /\ LET next == CASE RoutesToPhone /\ phone.exists -> [pc |-> "found", result |-> "none"]
                   [] SkipAS /\ ~phone.exists       -> [pc |-> "db", result |-> "none"]
                   [] ~SkipAS /\ RoutesToPhone /\ ~phone.exists ->
                        [pc |-> "done", result |-> "404"]
                   [] OTHER ->
                        [pc |-> "done",
                         result |-> IF call.parts /\ call.body = NoBody THEN "stuck" ELSE "AS"]
     IN call' = [call EXCEPT !.pc = next.pc, !.result = next.result,
                             !.homes = Home(phone, uas)]
  /\ UNCHANGED <<env, SkipAS, phone, uas, reg, nreg, probe, db, file>>

\* ua := phone.GetUA() and ua.GetUDPSocket(), which locks the mutex of a nil
ReadUA ==
  /\ call.pc = "found"
  /\ IF phone.ua = NoUA THEN Decide("stuck")
     ELSE call' = [call EXCEPT !.pc = "ua", !.sock = UA.addr]
  /\ UNCHANGED <<env, SkipAS, phone, uas, reg, nreg, probe, db, file>>

\* mutant: IsRegistered is not read
Bug_CheckRegistered ==
  /\ call.pc = "ua"
  /\ Go("reg")
  /\ UNCHANGED <<env, SkipAS, phone, uas, reg, nreg, probe, db, file>>

CheckRegistered ==
  /\ call.pc = "ua"
  /\ IF phone.registered THEN Go("reg") ELSE Decide("480")
  /\ UNCHANGED <<env, SkipAS, phone, uas, reg, nreg, probe, db, file>>

CheckReachable ==
  /\ call.pc = "reg"
  /\ IF phone.reachable THEN Go("reach") ELSE Decide("604")
  /\ UNCHANGED <<env, SkipAS, phone, uas, reg, nreg, probe, db, file>>

\* KeepOnlyBodyPart(SDP)
KeepOnlyBodyPart(b) == CASE b = NoBody -> "stuck" [] b = "SDP" -> "phone" [] OTHER -> "488"

RoutePhone ==
  /\ call.pc = "reach"
  /\ Decide(KeepOnlyBodyPart(call.body))
  /\ UNCHANGED <<env, SkipAS, phone, uas, reg, nreg, probe, db, file>>

(***************************************************************************)
(* RoutingEngine.Get returns the first record whose pattern matches.       *)
(***************************************************************************)
Matching == {i \in DOMAIN db : db[i].matches}
First(S) == CHOOSE i \in S : \A j \in S : i <= j

DelayedOffer == call.body # "SDP"

RouteDB ==
  /\ call.pc = "db"
  /\ IF Matching = {} THEN Decide("404")
     ELSE LET r == db[First(Matching)] IN
          Decide(CASE r.flow # "Transparent" /\ DelayedOffer -> "488"
                   [] r.flow = "EchoResponder" /\ ~DelayedOffer -> "echo"
                   [] r.flow # "EchoResponder" /\ ~r.timers
                      /\ (r.flow = "Transparent" \/ ~DelayedOffer) -> "503"
                   [] OTHER -> "db")
  /\ UNCHANGED <<env, SkipAS, phone, uas, reg, nreg, probe, db, file>>

Registration == Resolve \/ ClearUA \/ FinishUpdate
Routing == Lookup \/ ReadUA \/ CheckRegistered \/ CheckReachable \/ RoutePhone \/ RouteDB

Next ==
  \/ \E t \in Contact, keep \in BOOLEAN : AddOrUpdate(t, keep)
  \/ Registration \/ ScanPhone \/ ProbeUA
  \/ \E u \in DOMAIN uas : ProbeAnswered(u) \/ ProbeTimedOut(u)
  \/ \E f \in Files : EditFile(f)
  \/ RefreshConfig
  \/ Routing

Spec == Init /\ [][Next]_vars

-----------------------------------------------------------------------------
(***************************************************************************)
(* The registry tells the truth: between two registrations a phone is      *)
(* marked reachable exactly if it has a user agent, however addresses      *)
(* change (phone.go:51), and a user agent is alive only if it answered     *)
(* itself: a late answer to a probe of the address the phone had before    *)
(* does not count for the new one (session.go:478).                        *)
(***************************************************************************)
RegistryTrue ==
  /\ reg.pc = "idle" /\ phone.exists => (phone.reachable <=> phone.ua # NoUA)
  /\ \A u \in DOMAIN uas : uas[u].alive => uas[u].answered

(***************************************************************************)
(* As long as Contacts can be resolved, INVITEs have a body and nobody     *)
(* calls a phone during its first REGISTER, no routing handler panics:     *)
(* every INVITE is sent on or rejected.  And never because "Answer and 18x *)
(* Timeouts cannot be both disabled" (routing.go:142): ReadConfig admits   *)
(* no such record, and a reload in between brings none.                    *)
(***************************************************************************)
NeverStuck ==
  /\ call.result = "stuck" => env \cap {"badAddr", "early", "noBody"} # {}
  /\ call.result # "503"

(***************************************************************************)
(* "SR Go routes calls to registered/reachable IP Phones" (README.md:23):  *)
(* a call is sent to an address the phone was registered at at some time   *)
(* during the routing, unless a Contact with another address, or with one  *)
(* that cannot be resolved, is registered meanwhile.                       *)
(***************************************************************************)
SentToRegistered ==
  call.result = "phone" /\ env \cap {"rehome", "badAddr"} = {} => call.sock \in call.homes
==============================================================================
