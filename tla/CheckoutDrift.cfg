SPECIFICATION Spec
CONSTANTS
  Session = {s1}
  Editor = {}
  MaxCart = 1
  Price = {2}
  Off = {1}
  Gift = {1}
  MaxUses = 1
  Unit = {1}
  Quantity = {1}
  Present = {50}
  Percent = {}
  Fixed = {}
  s1 = s1
INVARIANTS TotalIsCollected
