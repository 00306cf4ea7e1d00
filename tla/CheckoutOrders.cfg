SPECIFICATION Spec
CONSTANTS
  Session = {s1, s2}
  Editor = {}
  MaxCart = 2
  Price = {2}
  Off = {1}
  Gift = {1}
  MaxUses = 1
  Unit = {1}
  Quantity = {1}
  Present = {50}
  Percent = {}
  Fixed = {}
  s1 = s1
  s2 = s2
SYMMETRY Sessions
INVARIANTS UsesCountPaidCodes
PROPERTIES ImplementsPayments
