----------------------------- MODULE MCB2BCall ------------------------------
(***************************************************************************)
(* Instances of B2BCall for TLC: the routing records a call may match and  *)
(* the ways peers and network may behave.                                  *)
(***************************************************************************)
EXTENDS B2BCall

Record(f) ==
  [flow |-> f, no18x |-> TRUE, noAns |-> TRUE, maxDur |-> TRUE, steer |-> TRUE]

\* a record that leaves out whatever can be left out
Bare == [flow |-> "Transparent", no18x |-> TRUE, noAns |-> FALSE,
         maxDur |-> FALSE, steer |-> FALSE]

AllFlows == {Record(f) : f \in CallFlow} \cup {Bare}
TransparentOnly == {Record("Transparent")}

Anything == EnvBehaviour

\* peers that neither cross nor contradict what was already sent
Orderly == {"cancel", "early", "redirect", "lateCalleeBye"}

OrderlyOrAny == {Orderly, Anything}
CancelLate == {Orderly \cup {"cancelLate"}}
=============================================================================
