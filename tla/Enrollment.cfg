SPECIFICATION Spec
CONSTANTS
  Clients = {c1, c2}
  None = None
  MaxChallenges = 2
  MaxCodes = 2
  MaxNonces = 3
  MaxFaults = 2
INVARIANT
  CodeOnce
  HolderIsNode
  AnswerInReach
PROPERTY
  KeyPinned
CHECK_DEADLOCK FALSE
