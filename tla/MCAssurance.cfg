CONSTANTS
  c1 = c1
  c2 = c2
  r1 = r1
  r2 = r2
  i1 = i1
  i2 = i2
  m1 = m1
  m2 = m2
  Callers = {c1, c2}
  Requests = {r1, r2}
  Identities = {i1, i2}
  Matters = {m1}
  Windows <- OneWindow
  Outcomes = {"resumed", "raised"}
  Limit = 5
  MaxTime = 0
  MaxIssues = 3
  MaxKills = 2
  MaxCopies = 0
  MaxRestores = 0
  MaxCalls = 4
  Symbols = {"A", "B"}
  Tokens = {1, 2, 3}
  Symbol = "A"
  Validity = 3
  Starts = 1
  Expires = 8
  BatchIds = {}
  Sessions <- OneSession
  Scopes <- SomeScopes
  DayLength = 3
  Records <- SomeRecords
  MaxNow = 8
  MaxMasters = 0
  MaxRecords = 3
  MaxBack = 0
SPECIFICATION AssuranceSpec
INVARIANTS RecoverySound  IngestionSound
PROPERTIES AmbiguityStays StudiedWasAccepted
SYMMETRY Sym
CHECK_DEADLOCK FALSE
