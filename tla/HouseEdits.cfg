SPECIFICATION Spec
CONSTANTS
  Session = {alice, bob}
  Staff = {t1}
  Chart <- Charts
  Seat <- Seats
  SeatsOf <- SeatsOfTwo
  Amount = {five}
  None = None
  MaxQty = 1
  MaxCapacity = 1
  MaxOrder = 1
  stalls = stalls
  cabaret = cabaret
  a = a
  x = x
  five = five
  alice = alice
  bob = bob
  t1 = t1
SYMMETRY Buyers
INVARIANTS AllocationIsTrue HouseAddsUp
  
