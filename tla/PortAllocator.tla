---------------------------- MODULE PortAllocator ----------------------------
(***************************************************************************)
(* What the media port pool promises: a port that is taken has one owner,  *)
(* only a free port is taken, and only its owner gives it back.            *)
(***************************************************************************)
CONSTANTS
  Ports,     \* MediaStartPort .. MediaEndPort
  Owners,    \* those who may own a port
  NoOwner    \* the port is free

VARIABLE owner

Init == owner = [p \in Ports |-> NoOwner]

Take(p, o) ==
  /\ owner[p] = NoOwner
  /\ \A q \in Ports : owner[q] # o
  /\ owner' = [owner EXCEPT ![p] = o]

Give(p, o) ==
  /\ owner[p] = o
  /\ owner' = [owner EXCEPT ![p] = NoOwner]

Next == \E p \in Ports, o \in Owners : Take(p, o) \/ Give(p, o)

Spec == Init /\ [][Next]_owner
=============================================================================
