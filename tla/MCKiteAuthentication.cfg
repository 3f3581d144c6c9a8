CONSTANTS
  a1 = a1
  a2 = a2
  r1 = r1
  w1 = w1
  w2 = w2
  q1 = q1
  q2 = q2
  NoOne = NoOne
  NoRequest = NoRequest
  Operators = {a1}
  Readers = {r1}
  Threads = {a1, r1}
  Sockets = {}
  RequestTokens = {q1, q2}
  MaxRemembered = 2
  MaxCalls = 2
  MaxTokens = 2
  MaxRequests = 2
  MaxCrashes = 0
  DatabaseFails = FALSE
SPECIFICATION KiteSpec
SYMMETRY Symmetry
INVARIANTS SessionsSound
PROPERTIES NeverVisibleAgain
