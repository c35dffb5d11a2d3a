CONSTANTS
  Workers = {w1, w2}
  CallIDs = {a}
  EgressIDs = {x}
  NoCall = NoCall
  MaxSessions = 3
  Rate = 1
  MaxTicks = 1
  Envs = {{"noPort"},
          {"dupInvite", "earlyCancel", "strayAck", "atStart", "noPort"}}
SPECIFICATION Spec
CHECK_DEADLOCK FALSE
INVARIANTS
  GaugeBalanced
  StrandedOnlyAtStart
  Reachable
  CancelledAnswered
