CONSTANTS
  RoutingRecords <- AllFlows
  Probing = TRUE
  Envs <- OrderlyOrAny
SPECIFICATION Spec
CHECK_DEADLOCK FALSE
INVARIANTS
  TypeOK
  
  EstablishedPair
  NegativeAcked
  
  RetransmitsFinal
  PortsReturned

  
  
  
  
