CONSTANTS
  Null = Null
  NoToken = NoToken
  Trusted = {"idp"}
  Slots = {r1}
  Requests <- MCRequests
  Kinds = {"s3", "gcs", "azure", "filesystem"}
  MaxSize = 3
  MaxChanges = 2
SPECIFICATION Spec
CHECK_DEADLOCK FALSE
INVARIANTS
  TypeOK
  ServedWithinToken
  RangeAnswered
  LengthsHonest
  AnswersWereTrue
