SPECIFICATION Spec
CONSTANTS
  Conns = {c1, c2}
  c1 = c1
  c2 = c2
  k1 = k1
  k2 = k2
  g1 = g1
  g2 = g2
  t1 = t1
  t2 = t2
  None = None
  Keys = {k1, k2}
  Grants = {g1, g2}
  Tailnets = {t1, t2}
  KeyOf <- MCKeyOf
  TailnetOf <- MCTailnetOf
  Offers <- MCOffers
  Boot <- MCBoot
  QueueLen = 1
  TailnetBytes = 2
  GroupBytes = 3
  Sizes = {1}
  MaxRevision = 3
  MaxTime = 2
INVARIANT BudgetExact
INVARIANT NoPacketStranded
INVARIANT NoOvertime
PROPERTY ImplementsAdmission
PROPERTY ConnectionsEnd
CHECK_DEADLOCK FALSE
