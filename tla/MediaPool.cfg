CONSTANTS
  Ports = {p1, p2}
  Calls = {c1, c2}
  NoPort = NoPort
  Envs = {{}, {"stray"}}
SPECIFICATION Spec
CHECK_DEADLOCK FALSE
INVARIANTS
  PoolExact
  
PROPERTIES
  Allocates
  ReaderEnds
