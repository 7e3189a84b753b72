SPECIFICATION Spec
CONSTANTS
  MaxRevision = 3
  MaxSessions = 2
  MaxInbox = 1
  MaxFaults = 2
INVARIANT AckSound
INVARIANT DrainedBeforeRemoval
PROPERTY DerperGoesForward
PROPERTY Settles
CHECK_DEADLOCK FALSE
