SPECIFICATION Spec
CONSTANTS
  a = a
  b = b
  k1 = k1
  k2 = k2
  Tailnets = {a, b}
  First = {a}
  Keys = {k1, k2}
  Devices <- MCDevices
  Workers = 1
  MaxRevision = 2
  MaxSeq = 1
  MaxCalls = 1
  MaxFaults = 1
INVARIANT
  KeysOfCredential
  AdmittedOnce
PROPERTY
  RefreshForward
  IdentitySettles
CHECK_DEADLOCK FALSE
