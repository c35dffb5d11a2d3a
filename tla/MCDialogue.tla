----------------------------- MODULE MCDialogue ------------------------------
(***************************************************************************)
(* Dialogue for TLC: calls go directly or through two proxies.             *)
(***************************************************************************)
EXTENDS Dialogue

MCPaths == {<<>>, <<"p1", "p2">>}
=============================================================================
