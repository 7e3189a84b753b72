SPECIFICATION Spec
CONSTANTS
  idA = idA
  idB = idB
  bodyX = bodyX
  bodyY = bodyY
  Ids <- MCIds
  Bodies <- MCBodies
  Issued <- MCIssued
  None = None
  MaxRevision = 2
  MaxTime = 2
  Skew = 1
PROPERTY LoadReturnsNewest
PROPERTY ClockNeverRunsBack
PROPERTY ImplementsRegister
