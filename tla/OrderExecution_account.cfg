SPECIFICATION Spec
CONSTANTS
  o1 = o1
  o2 = o2
  w1 = w1
  w2 = w2
  Orders = {o1, o2}
  Workers = {w1, w2}
  Qty = 1
  MaxCancels = 0
  NoOne = NoOne
  NoOrder = NoOrder
SYMMETRY Symmetry
INVARIANTS
  SingleReservation
PROPERTIES
  SendFenced
  ImplementsAccountSlot
