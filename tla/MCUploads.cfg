CONSTANTS
  Null = Null
  Apps = {"app"}
  Requests <- MCRequests
  Grants <- MCGrants
  Backends = {"b1", "b2"}
  Servers = {strict, lax, disk}
  S3Servers = {strict, lax}
  Enforcing = {strict, disk}
  UploadLimits = {0, 2}
  Writes = {w1, w2}
  MaxChanges = 2
  MaxTests = 1
SPECIFICATION MCSpec
CHECK_DEADLOCK FALSE
SYMMETRY WriteSymmetry
INVARIANTS
  TypeOK
  AppWritesWereGranted
  CreateOnlyReplacesNothing
  EventsAreTrue
