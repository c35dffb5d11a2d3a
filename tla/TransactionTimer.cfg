CONSTANTS
  ReTXCount = 3
  MaxLoss = 5
  Envs = {{"loss", "race"}, {"bye", "race"}, {"loss", "bye"}, {"loss", "bye", "race"}}
SPECIFICATION Spec
CHECK_DEADLOCK FALSE
PROPERTIES
  StoppedNoEffect
  
