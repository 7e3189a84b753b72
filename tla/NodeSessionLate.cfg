SPECIFICATION SafetySpec
CONSTANTS
  Instances = {i1, i2}
  First = i1
  Disks = {d1}
  Original = d1
  i1 = i1
  i2 = i2
  d1 = d1
  Lease = 2
  LateRequests = TRUE
  MaxChallenges = 2
  MaxNonces = 3
  MaxDomain = 0
  MaxFaults = 0
INVARIANT ConflictMeansCopy
CHECK_DEADLOCK FALSE
