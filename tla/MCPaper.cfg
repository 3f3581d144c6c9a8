SPECIFICATION Spec
CONSTANTS
  Capital = 100
  DailyLoss = 35
  CumulativeDrawdown = 45
  Calendar <- ThreeDates
  Plans <- SubmittedPlans
  MaxTries = 3
  Times = {1, 2}
INVARIANTS PaperSound 
PROPERTIES PaperStepsSound
CHECK_DEADLOCK FALSE
