SPECIFICATION Spec
CONSTANTS
  i1 = i1
  i2 = i2
  i3 = i3
  d1 = d1
  Instances = {i1, i2, i3}
  First = i1
  Disks = {d1}
  Original = d1
  Lease = 2
  LateRequests = FALSE
  MaxChallenges = 2
  MaxNonces = 3
  MaxDomain = 1
  MaxFaults = 1
INVARIANT ConflictMeansCopy
PROPERTY RenewalSucceeds
CHECK_DEADLOCK FALSE
