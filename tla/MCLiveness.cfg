CONSTANTS
  t1 = t1
  t2 = t2
  o1 = o1
  q1 = q1
  NoOne = NoOne
  NoOrder = NoOrder
  NoRequest = NoRequest
SPECIFICATION Spec
PROPERTIES CallsReturn ClaimsEnd
CHECK_DEADLOCK FALSE
