SPECIFICATION Spec
CONSTANTS
  Users = {u1, u2}
  Requests = {r1, r2}
  Passwords = {p1, p2}
  Nodes = {n1}
  Ips = {i1}
  None = None
  MaxAttempts = 1
  MaxEntries = 1
  MaxTokens = 2
  MaxVersion = 3
SYMMETRY Symmetry
INVARIANT NodeOwnersProvide
INVARIANT SessionsCurrent
INVARIANT OneAdmin
