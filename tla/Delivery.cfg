\* Two producers of every kind and one connection of two deliveries, under the fairness
\* of the goroutines.
SPECIFICATION FairSpec
CONSTANTS
  None = None
  Conns = {k1}
  Producers = {p1, p2}
  Slots = {x1, x2}
  Kinds = {"apply", "keys", "post", "own", "takeover", "shutdown", "status"}
INVARIANTS
  DeliveryHasOneOwner
PROPERTIES
  StatusNeverRegresses
  DeliversInOrder
  PromiseIsKept
  SaturationEndsConnection
\* The connection may have come and gone.
CHECK_DEADLOCK FALSE
