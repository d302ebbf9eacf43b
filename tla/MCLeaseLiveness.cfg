CONSTANTS
  Null = Null
  Mints = {m1, m2}
  Backends = {b1, b2}
  Servers = {s1, s2}
  TTLs = {0}
  DefaultTTL = 1
  BatchSize = 2
  MaxTime = 3
  MaxCrashes = 1
  MaxFaults = 0
  MayGoDown = {s1}
  AdminActs = FALSE
SPECIFICATION ApartSpec
PROPERTY LeasesAreSwept
