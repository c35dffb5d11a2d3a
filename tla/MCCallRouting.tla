--------------------------- MODULE MCCallRouting ----------------------------
(***************************************************************************)
(* Routing tables for the instance of CallRouting.                        *)
(***************************************************************************)
EXTENDS CallRouting

Rec(f, m, t, v) == [flow |-> f, matches |-> m, timers |-> t, valid |-> v]

\* several records match; some are of no use; none is left; no JSON
MCFiles ==
  {<<Rec("Transparent", FALSE, TRUE, TRUE), Rec("Transparent", TRUE, FALSE, TRUE),
     Rec("TransformEarlyToFinal", TRUE, TRUE, TRUE)>>,
   <<Rec("Transparent", TRUE, TRUE, FALSE), Rec("EchoResponder", TRUE, FALSE, TRUE),
     Rec("Transparent", TRUE, TRUE, TRUE)>>,
   <<Rec("Transparent", TRUE, TRUE, TRUE)>>,
   BadJSON}
=============================================================================
