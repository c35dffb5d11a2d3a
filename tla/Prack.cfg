CONSTANTS
  Max18x = 3
  ReTXCount = 4
  MaxLoss = 5
  Envs = {{"loss", "silentCallee"},
          {"loss", "again18x"},
          {"loss", "earlyAnswer"},
          {"again18x", "earlyAnswer", "silentCallee"},
          {"loss", "again18x", "earlyAnswer", "silentCallee"}}
SPECIFICATION Spec
CHECK_DEADLOCK FALSE
INVARIANTS
  Retransmitted
  PRACKsInStep

  
