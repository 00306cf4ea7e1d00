SPECIFICATION FairSpec
CONSTANTS
  Session = {s1}
  Editor = {e1}
  MaxCart = 1
  Price = {0, 2}
  Off = {1, 2}
  Gift = {1}
  MaxUses = 1
  Unit = {1, 10, 11, 49, 50, 51, 149, 150, 333, 999}
  Quantity = {1, 3}
  Present = {50, 75, 150}
  Percent = {0, 1, 1500, 3333, 5000, 9950, 10000}
  Fixed = {1, 49, 50, 51, 150}
  s1 = s1
  e1 = e1
PROPERTIES EveryPaymentAnswered ChargesReconcile
