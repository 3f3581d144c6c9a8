CONSTANTS
  c1 = c1
  c2 = c2
  o1 = o1
  o2 = o2
  Callers = {c1, c2}
  Readers = {}
  Orders = {o1, o2}
  NoOrder = NoOrder
  MaxEpochs = 2
  MaxArms = 2
  MaxLogins = 1
  Lapses = FALSE
  Denials = FALSE
SPECIFICATION ArmingSpec
SYMMETRY Symmetry
INVARIANTS OwnPermit SingleAttempt NoAttemptSurvivesResume SendAuthorised
 
