SPECIFICATION Spec
CONSTANTS
  MaxStreams = 2
  MaxSessions = 2
  MaxRevision = 2
  MaxPending = 1
  MaxHandlers = 1
INVARIANT NoLostWakeup
INVARIANT RegisteredUnlessStopped
INVARIANT StoppedWriteFails
INVARIANT EndedSessionGetsNoGrants
INVARIANT StreamGoesForward
PROPERTY Converges
PROPERTY StreamsEnd
CHECK_DEADLOCK FALSE
