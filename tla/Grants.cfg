SPECIFICATION Spec
CONSTANTS
  Users = {p, a}
  Provider = p
  Applicant = a
  Admins = {p}
  MaxRevision = 5
  MaxTime = 3
  p = p
  a = a
INVARIANT ActiveByConsent
INVARIANT PolicyIsCurrent
CHECK_DEADLOCK FALSE
