SPECIFICATION Spec
CONSTANTS
  b1 = b1
  b2 = b2
  b3 = b3
  w1 = w1
  w2 = w2
  Absent = Absent
  Bookings = {b1, b2}
  Workers = {w1, w2}
  Slots <- SlotSets
  Quantities = {0, 1, 2}
  Capacities = {1, 2}
  Spanning = {"reserve"}
  Direct = TRUE
SYMMETRY Symm
INVARIANTS NoDoubleUse
PROPERTIES PromiseIsKept GrantsAreFair
