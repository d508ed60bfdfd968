SPECIFICATION FairSpec
CONSTANTS
  None = None
  Replicas = {r1, r2}
  Lines = {l1, l2}
  Requests = {q1}
  QueueSize = 1
  MaxFaults = 1
INVARIANTS
  TypeOK
  PendingIsInHand
  KnownIsStored
  CostBounded
PROPERTIES
  EventuallyRecorded
