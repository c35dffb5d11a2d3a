CONSTANTS
  MaxRequests = 2
  Proxy = {"p1", "p2"}
  Paths <- MCPaths
  Contacts = {"c1", "c2"}
  FwdCSeqs = {0, 1}
  BwdCSeqs = {600}
  Envs = {{"rehome", "late"},
          {"rehome", "late", "zero", "fork", "noHops"}}
SPECIFICATION Spec
CHECK_DEADLOCK FALSE
INVARIANTS
  InDialogueRequest
  FollowsInvite
PROPERTY
  ReachesPeer
