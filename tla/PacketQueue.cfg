CONSTANTS
  Workers = {w1, w2}
  QueueSize = 1
  Buffers = {b1, b2, b3, b4}
  MaxPackets = 3
SPECIFICATION Spec
CHECK_DEADLOCK FALSE
INVARIANTS
  OneHolder
  SentIntact
PROPERTY
  ReadHandled
