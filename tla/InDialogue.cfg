CONSTANT
  Manners = {{"early", "info", "silent"},
             {"compete", "refuse", "noSDP", "early", "silent", "info"}}
SPECIFICATION ChangeSpec
CHECK_DEADLOCK FALSE
INVARIANT
  FlagsFree
PROPERTY
  ChangeEnds
