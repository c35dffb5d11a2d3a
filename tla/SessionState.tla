---------------------------- MODULE SessionState ----------------------------
(***************************************************************************)
(* The session states of sip/state/state.go.  A state is named by its      *)
(* entry in dicNames.  "Pending" states are those whose name starts with   *)
(* "Being"; FinalizeMe strips that prefix and looks the rest up again.     *)
(***************************************************************************)

PendingState ==
  {"BeingEstablished", "BeingCleared", "BeingRejected", "BeingCancelled",
   "BeingFailed", "BeingDenied", "BeingDropped", "BeingRedirected",
   "BeingReferred", "BeingNeglected", "BeingProbed", "BeingRestored",
   "BeingConnected", "BeingUpdated", "BeingReinvited"}

SettledState ==
  {"NotSet", "Established", "Cleared", "Rejected", "Cancelled", "Failed",
   "Denied", "Dropped", "Redirected", "Referred", "Neglected", "Probed",
   "TimedOut", "Registered", "Unregistered"}

State == PendingState \cup SettledState

\* strings.HasPrefix(ss.String(), "Being")
IsPending(s) == s \in PendingState

(***************************************************************************)
(* A pending state goes to its counterpart; the four that have none in     *)
(* dicNames fall through GetEnum's search to the zero value, NotSet; any   *)
(* other state is its own counterpart.                                     *)
(***************************************************************************)
FinalizeMe(s) ==
  CASE s = "BeingEstablished" -> "Established"
    [] s = "BeingCleared"     -> "Cleared"
    [] s = "BeingRejected"    -> "Rejected"
    [] s = "BeingCancelled"   -> "Cancelled"
    [] s = "BeingFailed"      -> "Failed"
    [] s = "BeingDenied"      -> "Denied"
    [] s = "BeingDropped"     -> "Dropped"
    [] s = "BeingRedirected"  -> "Redirected"
    [] s = "BeingReferred"    -> "Referred"
    [] s = "BeingNeglected"   -> "Neglected"
    [] s = "BeingProbed"      -> "Probed"
    [] s \in {"BeingRestored", "BeingConnected",
              "BeingUpdated", "BeingReinvited"} -> "NotSet"
    [] OTHER -> s
=============================================================================
