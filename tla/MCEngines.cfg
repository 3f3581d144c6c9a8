SPECIFICATION Spec
CONSTANTS
  BrokerageRate = 2
  BrokerageCap = 5
  LevyRate = 1
  GstRate = 18
  SttRate = 1
  StampRate = 1
  Slip = 5
  Bars <- BacktestBars
  Days = 2
  DayBars = 4
  EntryStart = 0
  LastEntry = 2
  ForcedExit = 3
  InitialCash = 215
  LotSize = 2
  Quantities = {2, 4}
INVARIANTS EnginesSound 
