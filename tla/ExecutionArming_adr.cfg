SPECIFICATION Spec
CONSTANTS
  c1 = c1
  c2 = c2
  o1 = o1
  o2 = o2
  Callers = {c1, c2}
  Readers = {c1}
  Orders = {o1}
  NoOrder = NoOrder
  MaxEpochs = 3
  MaxArms = 1
  MaxLogins = 1
  Lapses = FALSE
  Denials = FALSE
PROPERTIES HaltRetainsSubmitting
