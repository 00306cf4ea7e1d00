SPECIFICATION FairSpec
CONSTANTS
  GAPerf = {g}
  ReservedPerf = {p1}
  Seat = {a}
  Session = {alice, bob}
  Request = {r1}
  MaxQty = 1
  MaxHold = 3
  MaxOrder = 2
  MaxCapacity = 2
  g = g
  p1 = p1
  a = a
  alice = alice
  bob = bob
  r1 = r1
PROPERTIES ImplementsLedger HoldsGoAway
