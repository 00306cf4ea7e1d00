SPECIFICATION Spec
CONSTANTS
  p1 = p1
  p2 = p2
  NSection = 1
  Shape <- OneOrTwo
  Perf = {p1, p2}
  OnSale = {p1}
  Buyer = {b1}
  Form = {f1}
  Scheme = {"sequential", "even_asc_right"}
  NTemplate = 2
  Amount = {2}
  DefaultTier <- TierOne
  OverrideTier <- FirstDearer
  MaxGen = 1
  ZoneId = {z1, z2}
  z1 = z1
  z2 = z2
  b1 = b1
  f1 = f1
SYMMETRY Ids
INVARIANTS TypeOK ZonesDisjoint SavedSectionsMatch LiveSeatsStay PayersHoldTheirBill
