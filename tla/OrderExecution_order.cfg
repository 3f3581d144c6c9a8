SPECIFICATION Spec
CONSTANTS
  o1 = o1
  o2 = o2
  w1 = w1
  w2 = w2
  Orders = {o1}
  Workers = {w1, w2}
  Qty = 2
  MaxCancels = 1
  NoOne = NoOne
  NoOrder = NoOrder
INVARIANTS
  TypeOK
  AtMostOnePost
  WorkingOrdersReserved
  TerminalAgrees
  BookedTradesReal
PROPERTIES
  Lifecycle
