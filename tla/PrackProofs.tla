----------------------------- MODULE PrackProofs -----------------------------
EXTENDS Prack, TLAPS

-----------------------------------------------------------------------------
(***************************************************************************)
(* The inductive invariant.                                                *)
(*                                                                         *)
(* SentInv: the timer runs for a message that was sent, a 18x that was     *)
(* relayed or the final response, so nothing is acknowledged before there  *)
(* is a final response.  TimerInv: the timer is nil until something was    *)
(* sent and again only when the session is over, and it is stopped only    *)
(* after a PRACK or the ACK.  OneRel: a callee that does not send another  *)
(* 18x has one at most, whose PRACK stops the timer when nothing else has  *)
(* to be sent.  Linked is the part of PRACKsInStep about the pairs of      *)
(* PRACK transactions; Answered leads to the part about the crash: a 200   *)
(* that waited for the PRACKs found them all.                              *)
(***************************************************************************)
SentInv ==
  /\ timer # "nil" => sent.code # 0
  /\ sent.code = 180 => sent.rseq \in 1..Len(rel)
  /\ sent.code \in {200, 408} => final # 0
  /\ acked => final # 0

TimerInv ==
  /\ timer = "nil" => st1 = "Over" \/ (Len(rel) = 0 /\ final = 0)
  /\ Len(rel) = 0 /\ final = 0 => timer = "nil"
  /\ timer = "stopped" /\ ~acked => \E r \in DOMAIN rel : rel[r] = "Received"

OneRel ==
  "again18x" \notin env =>
    /\ Len(rel) <= 1
    /\ st1 = "BeingEstablished" /\ final = 0 /\ UnPRACKed # {} => timer = "armed"

Linked ==
  \A r \in DOMAIN rel :
    /\ out[r] # "created" => rel[r] = "Received"
    /\ rel[r] = "Received" /\ out[r] = "created" => st2 \in {"BeingCancelled", "Failed"}

Answered ==
  /\ final = 408 => st1 \in {"BeingRejected", "Over"}
  /\ st1 = "Established" => final = 200
  /\ env \cap {"earlyAnswer", "again18x"} = {} => /\ final = 200 => UnPRACKed = {}
                                                  /\ ~crashed

IInv == TypeOK /\ SentInv /\ TimerInv /\ OneRel /\ Linked /\ Answered

-----------------------------------------------------------------------------
(***************************************************************************)
(* The transactions are in sequences that grow at the end.                 *)
(***************************************************************************)
LEMMA AppendOne ==
  ASSUME NEW S, NEW q \in Seq(S), NEW e \in S
  PROVE  /\ Append(q, e) \in Seq(S) /\ Len(Append(q, e)) = Len(q) + 1
         /\ DOMAIN Append(q, e) = DOMAIN q \cup {Len(q) + 1}
         /\ Append(q, e)[Len(q) + 1] = e
         /\ \A i \in DOMAIN q : Append(q, e)[i] = q[i]
         /\ Len(q) \in Nat /\ DOMAIN q = 1..Len(q)
  OBVIOUS

LEMMA SetOne ==
  ASSUME NEW S, NEW q \in Seq(S), NEW e \in S, NEW r \in DOMAIN q
  PROVE  /\ [q EXCEPT ![r] = e] \in Seq(S) /\ Len([q EXCEPT ![r] = e]) = Len(q)
         /\ DOMAIN [q EXCEPT ![r] = e] = DOMAIN q
         /\ [q EXCEPT ![r] = e][r] = e
         /\ \A i \in DOMAIN q : i # r => [q EXCEPT ![r] = e][i] = q[i]
  OBVIOUS

LEMMA Types ==
  ASSUME TypeOK
  PROVE  /\ DOMAIN rel = 1..Len(rel) /\ DOMAIN out = DOMAIN rel /\ Len(rel) \in Nat
         /\ \A r \in DOMAIN rel : rel[r] \in {"Expected", "Received"}
         /\ \A r \in DOMAIN rel : out[r] \in {"created", "sent", "finalized"}
         /\ heard \subseteq DOMAIN rel
  BY DEF TypeOK

LEMMA Codes ==
  /\ \A r \in RSeq : Reliable(r) \in [code : {0, 180, 200, 408}, rseq : 0..Max18x]
  /\ \A r \in RSeq : Reliable(r).code = 180 /\ Reliable(r).rseq = r
  /\ \A sc \in {0, 200, 408} : Final(sc) \in [code : {0, 180, 200, 408}, rseq : 0..Max18x]
  /\ \A sc \in {0, 200, 408} : Final(sc).code = sc
  BY PrackAssumption DEF Reliable, Final, RSeq

(***************************************************************************)
(* A message reaches the caller or is lost: a 18x is heard, a final        *)
(* response acknowledged.                                                  *)
(***************************************************************************)
LEMMA DeliverDoes ==
  ASSUME TypeOK, NEW m, NEW L \in Nat, Len(rel) <= L, Deliver(m), m.code = 180 => m.rseq \in 1..L
  PROVE  /\ heard' \in SUBSET (1..L) /\ losses' \in 0..MaxLoss /\ acked' \in BOOLEAN
         /\ acked => acked'
         /\ acked' => acked \/ m.code # 180
<1>1. heard \in SUBSET (1..L)
  BY DEF TypeOK
<1>2. CASE /\ heard' = IF m.code = 180 THEN heard \cup {m.rseq} ELSE heard
           /\ acked' = (acked \/ m.code # 180) /\ UNCHANGED losses
  <2>1. heard' \in SUBSET (1..L) /\ losses' \in 0..MaxLoss
    <3>1. heard' = heard \/ (m.rseq \in 1..L /\ heard' = heard \cup {m.rseq})
      BY <1>2
    <3>2. heard' \in SUBSET (1..L)
      BY <1>1, <3>1
    <3>3. losses' \in 0..MaxLoss
      BY <1>2 DEF TypeOK
    <3> QED BY <3>2, <3>3
  <2>2. acked' \in BOOLEAN /\ (acked => acked') /\ (acked' => acked \/ m.code # 180)
    BY <1>2 DEF TypeOK
  <2> QED BY <2>1, <2>2
<1>3. CASE losses < MaxLoss /\ losses' = losses + 1 /\ UNCHANGED <<heard, acked>>
  BY <1>1, <1>3, PrackAssumption DEF TypeOK
<1> QED BY <1>2, <1>3 DEF Deliver

LEMMA InitIInv == Init => IInv
<1> SUFFICES ASSUME Init PROVE IInv
  OBVIOUS
<1>1. acked \in BOOLEAN /\ crashed \in BOOLEAN /\ ~acked /\ ~crashed
  BY Zenon DEF Init
<1>2. rel = <<>> /\ out = <<>> /\ Len(rel) = 0 /\ Len(out) = 0 /\ DOMAIN rel = {}
  BY DEF Init
<1>3. TypeOK
  BY <1>1, <1>2, Codes, PrackAssumption DEF Init, TypeOK
<1>4. SentInv
  BY <1>1, Codes DEF Init, SentInv
<1>5. TimerInv /\ OneRel /\ Linked /\ Answered
  BY <1>1, <1>2 DEF Init, TimerInv, OneRel, Linked, Answered, UnPRACKed
<1> QED BY <1>3, <1>4, <1>5 DEF IInv

-----------------------------------------------------------------------------
LEMMA Relay18xIInv == IInv /\ Relay18x => IInv'
<1> SUFFICES ASSUME IInv, Relay18x PROVE IInv'
  OBVIOUS
<1> DEFINE n == Len(rel) + 1
<1>1. /\ st2 = "BeingEstablished" /\ st1 = "BeingEstablished" /\ Len(rel) < Max18x
      /\ (Len(rel) > 0 \/ final # 0) => "again18x" \in env
      /\ rel' = Append(rel, "Expected") /\ out' = Append(out, "created")
      /\ sent' = Reliable(n) /\ timer' = Started(timer) /\ Deliver(Reliable(n))
      /\ UNCHANGED <<env, retx, final, st1, st2, crashed>>
  BY DEF Relay18x
<1>2. /\ rel \in Seq({"Expected", "Received"}) /\ out \in Seq({"created", "sent", "finalized"})
      /\ Len(out) = Len(rel)
  BY DEF IInv, TypeOK
<1>3. /\ rel' \in Seq({"Expected", "Received"}) /\ Len(rel') = n /\ n \in Nat
      /\ DOMAIN rel' = DOMAIN rel \cup {n} /\ rel'[n] = "Expected"
      /\ \A i \in DOMAIN rel : rel'[i] = rel[i]
  BY <1>1, <1>2, AppendOne
<1>4. /\ out' \in Seq({"created", "sent", "finalized"}) /\ Len(out') = n
      /\ out'[n] = "created" /\ \A i \in DOMAIN out : out'[i] = out[i]
  BY <1>1, <1>2, AppendOne
<1>5. n \in RSeq /\ n # 0
  BY <1>1, <1>3, PrackAssumption, Types DEF IInv, RSeq
<1>6. Reliable(n).code = 180 /\ Reliable(n).rseq = n /\ sent' \in [code : {0, 180, 200, 408}, rseq : 0..Max18x]
  BY <1>1, <1>5, Codes
<1>7. /\ heard' \in SUBSET (1..n) /\ losses' \in 0..MaxLoss /\ acked' \in BOOLEAN
      /\ acked => acked'
      /\ acked' => acked
  <2>1. n \in 1..n /\ Len(rel) <= n
    BY <1>3, <1>5, Types DEF IInv
  <2> HIDE DEF n
  <2> QED BY <1>1, <1>3, <1>6, <2>1, DeliverDoes DEF IInv
<1>8. timer' # "nil" /\ timer' \in {"armed", "stopped"} /\ (timer = "stopped" <=> timer' = "stopped")
  BY <1>1 DEF Started, IInv, TypeOK
<1>9. TypeOK'
  BY <1>1, <1>3, <1>4, <1>5, <1>6, <1>7, <1>8, PrackAssumption DEF IInv, TypeOK, RSeq
<1>10. SentInv'
  BY <1>1, <1>3, <1>5, <1>6, <1>7 DEF IInv, SentInv
<1>11. TimerInv'
  BY <1>1, <1>3, <1>5, <1>7, <1>8 DEF IInv, TimerInv
<1>12. OneRel'
  <2>1. ASSUME "again18x" \notin env PROVE Len(rel) = 0 /\ final = 0
    BY <1>1, <2>1, Types DEF IInv
  <2>2. ASSUME "again18x" \notin env PROVE timer' = "armed" /\ n <= 1
    BY <1>1, <2>1, <2>2 DEF IInv, TimerInv, Started
  <2> QED BY <1>1, <1>3, <2>2 DEF OneRel
<1>13. Linked'
  BY <1>1, <1>3, <1>4, Types DEF IInv, Linked
<1>14. Answered'
  <2>1. ASSUME env \cap {"earlyAnswer", "again18x"} = {} PROVE final = 0
    BY <1>1, <2>1
  <2> QED BY <1>1, <2>1 DEF IInv, Answered
<1> QED BY <1>9, <1>10, <1>11, <1>12, <1>13, <1>14 DEF IInv

(***************************************************************************)
(* The timer of the INVITE: a retransmission, and giving up                *)
(***************************************************************************)
LEMMA TransTimerIInv == IInv /\ TransTimer => IInv'
<1> SUFFICES ASSUME IInv, TransTimer PROVE IInv'
  OBVIOUS
<1>1. timer = "armed" /\ UNCHANGED <<env, rel, out, sent, final, crashed>>
  BY DEF TransTimer
<1>2. CASE /\ retx < ReTXCount /\ retx' = retx + 1 /\ Deliver(sent)
           /\ UNCHANGED <<timer, st1, st2>>
  <2>1. retx' \in 0..ReTXCount
    BY <1>2, PrackAssumption DEF IInv, TypeOK
  <2>2. /\ heard' \in SUBSET (1..Len(rel)) /\ losses' \in 0..MaxLoss /\ acked' \in BOOLEAN
        /\ acked => acked'
        /\ acked' => acked \/ sent.code # 180
    <3>1. TypeOK /\ Deliver(sent)
      BY <1>2, SMTT(30) DEF IInv
    <3>2. PICK L \in Nat : L = Len(rel)
      BY Types DEF IInv
    <3>3. Len(rel) <= L /\ (sent.code = 180 => sent.rseq \in 1..L)
      BY <3>2 DEF IInv, SentInv
    <3>4. /\ heard' \in SUBSET (1..L) /\ losses' \in 0..MaxLoss /\ acked' \in BOOLEAN
          /\ acked => acked'
          /\ acked' => acked \/ sent.code # 180
      BY ONLY <3>1, <3>3, DeliverDoes, ZenonT(60)
    <3> QED BY <3>2, <3>4
  <2>3. TypeOK'
    BY <1>1, <1>2, <2>1, <2>2 DEF IInv, TypeOK
  <2>4. SentInv'
    <3>1. sent.code \in {180, 200, 408}
      BY <1>1 DEF IInv, TypeOK, SentInv
    <3> QED BY <1>1, <1>2, <2>2, <3>1 DEF IInv, SentInv
  <2>5. TimerInv' /\ OneRel' /\ Linked' /\ Answered'
    BY <1>1, <1>2, <2>2 DEF IInv, TimerInv, OneRel, Linked, Answered, UnPRACKed
  <2> QED BY <2>3, <2>4, <2>5 DEF IInv
<1>3. CASE /\ retx = ReTXCount /\ timer' = "nil" /\ st1' = "Over"
           /\ st2' = IF st2 = "BeingEstablished" THEN "BeingCancelled" ELSE st2
           /\ UNCHANGED <<retx, heard, acked, losses>>
  <2>1. TypeOK'
    BY <1>1, <1>3 DEF IInv, TypeOK
  <2>2. SentInv' /\ TimerInv' /\ OneRel'
    BY <1>1, <1>3 DEF IInv, SentInv, TimerInv, OneRel, UnPRACKed
  <2>3. Linked' /\ Answered'
    BY <1>1, <1>3 DEF IInv, Linked, Answered, UnPRACKed
  <2> QED BY <2>1, <2>2, <2>3 DEF IInv
<1> QED BY <1>2, <1>3 DEF TransTimer

(***************************************************************************)
(* PRACK of the caller, and the answer of the callee to the one relayed    *)
(***************************************************************************)
LEMMA ReceivePRACKIInv ==
  ASSUME IInv, NEW r \in RSeq, ReceivePRACK(r)
  PROVE  IInv'
<1> DEFINE o == IF st2 \in {"BeingEstablished", "Established"} THEN "sent" ELSE out[r]
<1>1. /\ st1 # "Over" /\ r \in heard /\ rel[r] = "Expected"
      /\ rel' = [rel EXCEPT ![r] = "Received"]
      /\ timer' = IF StopsTimer THEN Stopped(timer) ELSE timer
      /\ UNCHANGED <<env, heard, retx, sent, final, acked, st1, st2, losses, crashed>>
  BY DEF ReceivePRACK
<1>2. /\ rel \in Seq({"Expected", "Received"}) /\ out \in Seq({"created", "sent", "finalized"})
      /\ Len(out) = Len(rel) /\ r \in DOMAIN rel /\ r \in DOMAIN out
      /\ DOMAIN out = DOMAIN rel /\ DOMAIN rel = 1..Len(rel) /\ Len(rel) \in Nat
  BY <1>1, Types DEF IInv, TypeOK
<1>3. o \in {"created", "sent", "finalized"} /\ out' = [out EXCEPT ![r] = o]
  BY <1>2, Types DEF ReceivePRACK, IInv
<1>4. /\ rel' \in Seq({"Expected", "Received"}) /\ Len(rel') = Len(rel)
      /\ DOMAIN rel' = DOMAIN rel /\ rel'[r] = "Received"
      /\ \A i \in DOMAIN rel : i # r => rel'[i] = rel[i]
  BY <1>1, <1>2, SetOne
<1>5. /\ out' \in Seq({"created", "sent", "finalized"}) /\ Len(out') = Len(out)
      /\ out'[r] = o /\ \A i \in DOMAIN out : i # r => out'[i] = out[i]
  <2> HIDE DEF o
  <2> QED BY <1>2, <1>3, SetOne
<1>6. out[r] = "created"
  BY <1>1, <1>2 DEF IInv, Linked
<1>7. timer' \in {"nil", "armed", "stopped"} /\ (timer' = "nil" <=> timer = "nil")
  BY <1>1 DEF IInv, TypeOK, Stopped
<1>8. TypeOK'
  BY <1>1, <1>4, <1>5, <1>7, <1>2 DEF IInv, TypeOK
<1>9. SentInv' /\ TimerInv'
  BY <1>1, <1>2, <1>4, <1>7 DEF IInv, SentInv, TimerInv
<1>10. OneRel'
  <2>1. ASSUME "again18x" \notin env PROVE Len(rel) <= 1 /\ \A i \in DOMAIN rel : i = r
    BY <1>2, <2>1 DEF IInv, OneRel
  <2> QED BY <1>1, <1>4, <2>1 DEF OneRel, UnPRACKed
<1>11. Linked'
  <2>1. o = "created" => st2 \in {"BeingCancelled", "Failed"}
    BY <1>6 DEF IInv, TypeOK
  <2>2. ASSUME NEW i \in DOMAIN rel
        PROVE  /\ out'[i] # "created" => rel'[i] = "Received"
               /\ rel'[i] = "Received" /\ out'[i] = "created" => st2 \in {"BeingCancelled", "Failed"}
    <3> HIDE DEF o
    <3> QED BY <1>1, <1>2, <1>4, <1>5, <2>1 DEF IInv, Linked
  <2> QED BY <1>1, <1>4, <2>2 DEF Linked
<1>12. Answered'
  <2>1. UnPRACKed' \subseteq UnPRACKed
    BY <1>4 DEF UnPRACKed
  <2> QED BY <1>1, <2>1 DEF IInv, Answered
<1> QED BY <1>8, <1>9, <1>10, <1>11, <1>12 DEF IInv

\* a PRACK to the callee that was sent is finalized
LEMMA Finalized ==
  ASSUME IInv, NEW r \in DOMAIN out, out[r] = "sent", out' = [out EXCEPT ![r] = "finalized"],
         UNCHANGED rel
  PROVE  /\ out' \in Seq({"created", "sent", "finalized"}) /\ Len(out') = Len(rel')
         /\ st2' = st2 \/ st2' \in {"BeingCancelled", "Failed"} => Linked'
<1>1. out \in Seq({"created", "sent", "finalized"}) /\ Len(out) = Len(rel) /\ DOMAIN out = DOMAIN rel
  BY Types DEF IInv, TypeOK
<1>2. /\ out' \in Seq({"created", "sent", "finalized"}) /\ Len(out') = Len(out)
      /\ out'[r] = "finalized" /\ \A i \in DOMAIN out : i # r => out'[i] = out[i]
  BY <1>1, SetOne
<1> QED BY <1>1, <1>2 DEF IInv, Linked

LEMMA AnswerPRACKIInv ==
  ASSUME IInv, NEW r \in RSeq, AnswerPRACK(r)
  PROVE  IInv'
<1>1. /\ r \in DOMAIN out /\ out[r] = "sent" /\ out' = [out EXCEPT ![r] = "finalized"]
      /\ UNCHANGED <<env, rel, heard, timer, retx, sent, final, acked, st1, st2, losses, crashed>>
  BY DEF AnswerPRACK
<1>2. out' \in Seq({"created", "sent", "finalized"}) /\ Len(out') = Len(rel') /\ Linked'
  BY <1>1, Finalized
<1>3. TypeOK'
  BY <1>1, <1>2 DEF IInv, TypeOK
<1>4. SentInv' /\ TimerInv' /\ OneRel' /\ Answered'
  BY <1>1 DEF IInv, SentInv, TimerInv, OneRel, Answered, UnPRACKed
<1> QED BY <1>2, <1>3, <1>4 DEF IInv

-----------------------------------------------------------------------------
(***************************************************************************)
(* The final response                                                      *)
(***************************************************************************)
LEMMA SendFinalDoes ==
  ASSUME IInv, NEW sc \in {200, 408}, SendFinal(sc), UNCHANGED rel
  PROVE  /\ final' = sc /\ sent' \in [code : {0, 180, 200, 408}, rseq : 0..Max18x]
         /\ heard' \in SUBSET (1..Len(rel)) /\ losses' \in 0..MaxLoss /\ acked' \in BOOLEAN
         /\ timer' \in {"armed", "stopped"}
         /\ SentInv' /\ TimerInv'
<1>1. final' = sc /\ sent' = Final(sc) /\ timer' = Started(timer) /\ Deliver(Final(sc))
  BY DEF SendFinal
<1>2. Final(sc).code = sc /\ Final(sc) \in [code : {0, 180, 200, 408}, rseq : 0..Max18x]
  BY Codes
<1>3. /\ heard' \in SUBSET (1..Len(rel)) /\ losses' \in 0..MaxLoss /\ acked' \in BOOLEAN
      /\ acked => acked'
  BY <1>1, <1>2, DeliverDoes, Types DEF IInv
<1>4. timer' \in {"armed", "stopped"} /\ (timer' = "stopped" <=> timer = "stopped")
  BY <1>1 DEF Started, IInv, TypeOK
<1>5. SentInv'
  BY <1>1, <1>2 DEF SentInv
<1>6. TimerInv'
  BY <1>1, <1>3, <1>4 DEF IInv, TimerInv
<1> QED BY <1>1, <1>2, <1>3, <1>4, <1>5, <1>6

LEMMA TimeoutPRACKIInv ==
  ASSUME IInv, NEW r \in RSeq, TimeoutPRACK(r)
  PROVE  IInv'
<1>1. /\ r \in DOMAIN out /\ out[r] = "sent" /\ out' = [out EXCEPT ![r] = "finalized"]
      /\ st2' = "Failed" /\ UNCHANGED <<env, rel, retx, crashed>>
  BY DEF TimeoutPRACK
<1>2. out' \in Seq({"created", "sent", "finalized"}) /\ Len(out') = Len(rel') /\ Linked'
  BY <1>1, Finalized
<1>3. CASE st1 = "BeingEstablished" /\ final = 0
  <2>1. st1' = "BeingRejected" /\ SendFinal(408)
    BY <1>3 DEF TimeoutPRACK
  <2>2. /\ final' = 408 /\ sent' \in [code : {0, 180, 200, 408}, rseq : 0..Max18x]
        /\ heard' \in SUBSET (1..Len(rel)) /\ losses' \in 0..MaxLoss /\ acked' \in BOOLEAN
        /\ timer' \in {"armed", "stopped"} /\ SentInv' /\ TimerInv'
    BY <1>1, <2>1, SendFinalDoes
  <2>3. TypeOK'
    BY <1>1, <1>2, <2>1, <2>2 DEF IInv, TypeOK
  <2>4. OneRel' /\ Answered'
    BY <1>1, <2>1, <2>2 DEF IInv, OneRel, Answered
  <2> QED BY <1>2, <2>2, <2>3, <2>4 DEF IInv
<1>4. CASE ~(st1 = "BeingEstablished" /\ final = 0)
  <2>1. UNCHANGED <<st1, final, sent, timer, heard, acked, losses>>
    BY <1>4 DEF TimeoutPRACK
  <2>2. TypeOK'
    BY <1>1, <1>2, <2>1 DEF IInv, TypeOK
  <2>3. SentInv' /\ TimerInv' /\ OneRel' /\ Answered'
    BY <1>1, <2>1 DEF IInv, SentInv, TimerInv, OneRel, Answered, UnPRACKed
  <2> QED BY <1>2, <2>2, <2>3 DEF IInv
<1> QED BY <1>3, <1>4

LEMMA Relay200IInv == IInv /\ Relay200 => IInv'
<1> SUFFICES ASSUME IInv, Relay200 PROVE IInv'
  OBVIOUS
<1>1. /\ st2 = "BeingEstablished" /\ st1 = "BeingEstablished" /\ final = 0
      /\ "earlyAnswer" \in env \/ \A r \in DOMAIN out : out[r] = "finalized"
      /\ SendFinal(200) /\ UNCHANGED <<env, rel, out, retx, st1, st2, crashed>>
  BY DEF Relay200
<1>2. /\ final' = 200 /\ sent' \in [code : {0, 180, 200, 408}, rseq : 0..Max18x]
      /\ heard' \in SUBSET (1..Len(rel)) /\ losses' \in 0..MaxLoss /\ acked' \in BOOLEAN
      /\ timer' \in {"armed", "stopped"} /\ SentInv' /\ TimerInv'
  BY <1>1, SendFinalDoes
<1>3. TypeOK'
  BY <1>1, <1>2 DEF IInv, TypeOK
<1>4. OneRel' /\ Linked'
  BY <1>1, <1>2 DEF IInv, OneRel, Linked
<1>5. "earlyAnswer" \notin env => UnPRACKed = {}
  BY <1>1, Types DEF IInv, Linked, UnPRACKed
<1>6. Answered'
  BY <1>1, <1>2, <1>5 DEF IInv, Answered, UnPRACKed
<1> QED BY <1>2, <1>3, <1>4, <1>6 DEF IInv

LEMMA ReceiveACKIInv == IInv /\ ReceiveACK => IInv'
<1> SUFFICES ASSUME IInv, ReceiveACK PROVE IInv'
  OBVIOUS
<1>1. /\ acked /\ timer' = Stopped(timer) /\ final # 0
      /\ UNCHANGED <<env, rel, out, heard, retx, sent, final, acked, losses, crashed>>
  BY DEF ReceiveACK, IInv, SentInv
<1>2. timer' \in {"nil", "armed", "stopped"} /\ (timer' = "nil" <=> timer = "nil")
  BY <1>1 DEF IInv, TypeOK, Stopped
<1>3. \/ st1 = "BeingRejected" /\ st1' = "Over" /\ st2' = st2
      \/ /\ st1 = "BeingEstablished" /\ st1' = "Established"
         /\ st2' = IF st2 = "BeingEstablished" THEN "Established" ELSE st2
  BY DEF ReceiveACK
<1>4. TypeOK'
  BY <1>1, <1>2, <1>3 DEF IInv, TypeOK
<1>5. SentInv' /\ TimerInv' /\ OneRel' /\ Linked'
  BY <1>1, <1>2, <1>3 DEF IInv, SentInv, TimerInv, OneRel, Linked, UnPRACKed
<1>6. Answered'
  BY <1>1, <1>3 DEF IInv, TypeOK, Answered, UnPRACKed
<1> QED BY <1>4, <1>5, <1>6 DEF IInv

LEMMA ReleaseMeIInv == IInv /\ ReleaseMe => IInv'
<1> SUFFICES ASSUME IInv, ReleaseMe PROVE IInv'
  OBVIOUS
<1>1. /\ st1 = "Established" /\ st1' = "Over" /\ crashed' = (UnPRACKed # {})
      /\ UNCHANGED <<env, rel, out, heard, timer, retx, sent, final, acked, st2, losses>>
  BY DEF ReleaseMe
<1>2. TypeOK'
  BY <1>1 DEF IInv, TypeOK
<1>3. SentInv' /\ TimerInv' /\ OneRel' /\ Linked'
  BY <1>1 DEF IInv, SentInv, TimerInv, OneRel, Linked, UnPRACKed
<1>4. Answered'
  <2>1. UnPRACKed' = UnPRACKed
    BY <1>1 DEF UnPRACKed
  <2>2. ASSUME env \cap {"earlyAnswer", "again18x"} = {} PROVE UnPRACKed = {} /\ ~crashed'
    BY <1>1, <2>2 DEF IInv, Answered
  <2> QED BY <1>1, <2>1, <2>2 DEF IInv, Answered
<1> QED BY <1>2, <1>3, <1>4 DEF IInv

LEMMA NextIInv == IInv /\ [Next]_vars => IInv'
<1> SUFFICES ASSUME IInv, [Next]_vars PROVE IInv'
  OBVIOUS
<1>1. CASE Relay18x \/ TransTimer \/ Relay200 \/ ReceiveACK \/ ReleaseMe
  BY <1>1, Relay18xIInv, TransTimerIInv, Relay200IInv, ReceiveACKIInv, ReleaseMeIInv
<1>2. ASSUME NEW r \in RSeq, ReceivePRACK(r) \/ AnswerPRACK(r) \/ TimeoutPRACK(r)
      PROVE  IInv'
  BY <1>2, ReceivePRACKIInv, AnswerPRACKIInv, TimeoutPRACKIInv
<1>3. CASE UNCHANGED vars
  BY <1>3 DEF vars, IInv, TypeOK, SentInv, TimerInv, OneRel, Linked, Answered, UnPRACKed
<1> QED BY <1>1, <1>2, <1>3 DEF Next

-----------------------------------------------------------------------------
(***************************************************************************)
(* For any number of 18x, retransmissions and losses: the 18x of a callee  *)
(* that sends one is retransmitted until its PRACK, and a final response   *)
(* that is not acknowledged is, unless a PRACK stopped the one timer that  *)
(* all responses to the INVITE share (session.go:430).                     *)
(***************************************************************************)
THEOREM RetransmittedHolds == Spec => []Retransmitted
<1>1. Spec => []IInv
  BY InitIInv, NextIInv, PTL DEF Spec
<1>2. IInv => Retransmitted
  BY DEF IInv, TypeOK, Retransmitted, OneRel, TimerInv
<1> QED BY <1>1, <1>2, PTL

(***************************************************************************)
(* Each PRACK the callee gets is for its own 18x and follows the PRACK of  *)
(* the caller; and unless the callee answers before its PRACK, or sends    *)
(* another 18x, clearing the call never meets a PRACK transaction without  *)
(* request (sessionHelper.go:132).                                         *)
(***************************************************************************)
THEOREM PRACKsInStepHolds == Spec => []PRACKsInStep
<1>1. Spec => []IInv
  BY InitIInv, NextIInv, PTL DEF Spec
<1>2. IInv => PRACKsInStep
  BY DEF IInv, PRACKsInStep, Linked, Answered
<1> QED BY <1>1, <1>2, PTL
=============================================================================
