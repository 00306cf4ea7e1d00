SPECIFICATION Spec
CONSTANTS
  GAPerf = {g}
  ReservedPerf = {p1}
  Seat = {a, b}
  Session = {alice, bob}
  Request = {}
  MaxQty = 2
  MaxHold = 3
  MaxOrder = 2
  MaxCapacity = 3
  g = g
  p1 = p1
  a = a
  b = b
  alice = alice
  bob = bob
SYMMETRY BuyersAndSeats
INVARIANTS SoldMatchesTickets HeldSeatsUnsold
PROPERTIES OnlyStaffOvercommit
