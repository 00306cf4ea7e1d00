SPECIFICATION Spec
CONSTANTS
  k1 = k1
  k2 = k2
  op = op
  Tenant = {1, 2}
  Reserved = {1}
  Tick = {k1, k2}
  Shell = op
  MaxAsk = 2
  MaxDie = 1
  MaxCommand = 1
CHECK_DEADLOCK FALSE
INVARIANTS WorkersKeepApart StatusTellsTheWork LiveIsServed PurgedHasNoSite
PROPERTIES QueueDrains
