CONSTANTS
  p1 = p1
  p2 = p2
  Null = Null
  Replicas = {p1, p2}
  Peers = {p1, p2}
  Known <- MCKnown
  BusMode <- MCBusMode
  MaxElapsed = 3
  MaxBackoff = 2
  MaxStops = 2
SPECIFICATION FairSpec
INVARIANTS
  TypeOK
  SchemaReady
  WaitEnds
PROPERTIES EventuallyServes EventuallyPublishes
