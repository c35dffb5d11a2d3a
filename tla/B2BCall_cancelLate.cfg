CONSTANTS
  RoutingRecords <- TransparentOnly
  Probing = TRUE
  Envs <- CancelLate
SPECIFICATION Spec
CHECK_DEADLOCK FALSE
PROPERTY
  ClearedLocally
