CONSTANTS
  w1 = w1
  w2 = w2
  Workers <- Actors
  Decisions <- LedgerDecisions
  Revocations <- LedgerRevocations
  Validity = 2
  Horizon = 2
  MaxEvents = 3
  MaxDamage = 1
  MaxRestores = 1
  MaxAborts = 1
SPECIFICATION EvidenceSpec
INVARIANTS LedgerSound EvidenceSound
PROPERTIES DamageStops
SYMMETRY ActorSymmetry
CHECK_DEADLOCK FALSE
