SPECIFICATION Spec
CONSTANTS
  e1 = e1
  e2 = e2
  None = None
  Emails = {e1, e2}
  Subjects = {"s1"}
  Registered <- MCRegistered
  MaxPersons = 4
  MaxCodes = 2
  CacheMax = 1
  OtpAttempts = 2
  OtpFailed = 1
  Roles = {"collaborator", "admin"}
  MaxGrants = 4
  MaxUpserts = 2
  MaxOps = 5
INVARIANTS OneSessionPerCode OneOperator ClaimsExact
PROPERTIES RevokedIsFinal
CHECK_DEADLOCK FALSE
