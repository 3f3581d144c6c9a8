CONSTANTS
  p1 = p1
  p2 = p2
  p3 = p3
  Pids = {p1, p2, p3}
  MaxProcs = 3
  MaxFaults = 1
  N = 2
  Packets <- AllPackets
  MetaFaults = {"yanked", "digest"}
  EndTime = 2
  Day = 2
  Timeout = 0
  MaxDecisions = 2
  MaxForgeries = 1
  MaxTransfers = 2
SPECIFICATION ProcessesSpec
INVARIANTS SupervisionSound 
 
SYMMETRY PidSymmetry
CHECK_DEADLOCK FALSE
