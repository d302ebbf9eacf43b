CONSTANTS
  Null = Null
  Mints = {m1, m2}
  Backends = {b1}
  Servers = {s1, s2}
  TTLs = {0, 2}
  DefaultTTL = 1
  BatchSize = 1
  MaxTime = 3
  MaxCrashes = 2
  MaxFaults = 3
  MayGoDown = {}
  AdminActs = TRUE
SPECIFICATION Spec
SYMMETRY LeaseSymmetry
INVARIANTS
  TypeOK
  TrackedUntilGone
  SweptMeansGone
  SingleFailureUnwound
PROPERTY NoEarlyRevocation
