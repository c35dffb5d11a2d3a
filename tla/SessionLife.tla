---------------------------- MODULE SessionLife -----------------------------
(***************************************************************************)
(* What a SipSession promises, whoever drives it: it is set up at most     *)
(* once, it is answered at most once and only while it is set up, it never *)
(* comes back from being released, and it is disposed of only when no call *)
(* is up or being set up in it.                                            *)
(***************************************************************************)
VARIABLES phase, disposed

lifeVars == <<phase, disposed>>

Phase == {"idle", "setup", "up", "ending", "over"}

Init == phase = "idle" /\ ~disposed

\* the INVITE is received, or sent
SetUp ==
  /\ phase = "idle" /\ ~disposed
  /\ phase' = "setup"
  /\ UNCHANGED disposed

\* the 2xx is acknowledged
Answer ==
  /\ phase = "setup" /\ ~disposed
  /\ phase' = "up"
  /\ UNCHANGED disposed

\* A negative response, CANCEL or BYE is sent and awaits its answer; an
\* INVITE may be refused as it arrives.
Release ==
  /\ phase \in {"idle", "setup", "up"} /\ ~disposed
  /\ phase' = "ending"
  /\ UNCHANGED disposed

\* the end, with or without an ending; the session may be dropped at once
End ==
  /\ phase \in {"setup", "up", "ending"}
  /\ phase' = "over"
  /\ disposed' \in {disposed, TRUE}

Dispose ==
  /\ phase \notin {"setup", "up"}
  /\ disposed' = TRUE
  /\ UNCHANGED phase

Next == SetUp \/ Answer \/ Release \/ End \/ Dispose

Spec == Init /\ [][Next]_lifeVars
=============================================================================
