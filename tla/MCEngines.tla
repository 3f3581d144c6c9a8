------------------------------ MODULE MCEngines ------------------------------
(***************************************************************************)
(* Instances of the three engines that walk a series bar by bar and of the *)
(* research that judges and compares their results.  They never run        *)
(* together: part says which one this behaviour is about, and the          *)
(* variables of the others stay idle, those of the backtest as it begins.  *)
(***************************************************************************)
EXTENDS BacktestEngine

VARIABLES part, session, at, prev, signal, position, account, high, markedDrawdown, exposure,
          roundTrips, noFills, unresolved, decisions, phase,
          request, window, result, reports, compared, selections

executorVars == <<session, at, prev, signal, position, account, high, markedDrawdown, exposure,
                  roundTrips, noFills, unresolved, decisions, phase>>
evaluationVars == <<request, window, result>>
experimentVars == <<reports, compared, selections>>

B(o, h, l, c, v) == [open |-> o, high |-> h, low |-> l, close |-> c, volume |-> v]

\* A quiet bar, a thin one, one that falls through the stop, one that gaps below it, one that
\* reaches stop and target, and a rising one; two sessions of five.
ExecutorBars ==
  {B(100, 101, 99, 100, 500), B(100, 101, 99, 100, 50), B(100, 100, 85, 95, 500),
   B(80, 82, 78, 80, 500), B(100, 125, 85, 120, 500), B(105, 130, 104, 125, 500)}
Sessions == 2
SessionBars == 5
Capital == 225
Quantity == 2
OrderCeiling == 1000
PriceBuffer == 105
Participation == 1
Stop == 10
Target == 10
Boundaries == <<0, 3, 8, 12>>
MinTrades == 2
MinFoldTrades == 1
MinWinRate == <<7, 10>>
MinFoldWinRate == <<1, 2>>
MaxDrawdown == <<1, 10>>
WilsonZ2 == 1

Phase1415 == INSTANCE SessionExecutor WITH
               Causal <- TRUE, Bars <- ExecutorBars, pending <- signal, cash <- account,
               peak <- high, trades <- roundTrips, status <- phase
Phase14 == INSTANCE SessionExecutor WITH
             Causal <- FALSE, Bars <- ExecutorBars, pending <- signal, cash <- account,
             peak <- high, trades <- roundTrips, status <- phase

\* A bar that falls and one with no volume.
BacktestBars == {B(50, 55, 30, 35, 10), B(35, 38, 33, 35, 0)}

\* Every day of four years, among them a leap year; data is evaluated on two of them,
\* after a short month and after a long one.
D(y, m, d) == [year |-> y, month |-> m, day |-> d]
Evaluation == INSTANCE ResearchEvaluation WITH
                Years <- 2023..2026, Studied <- {D(2024, 2, 29), D(2024, 8, 31)},
                Nets <- {-1, 0, 1}, MaxSessions <- 3

\* Four sessions of two bars.  Partitions that fit, that fit with a longer validation, that
\* overlap, that cut a session and that leave the dataset.
P(a, b, c, d) == [train |-> [start |-> a, end |-> b], validation |-> [start |-> b, end |-> c],
                  test |-> [start |-> c, end |-> d]]
Overlapping == [P(0, 4, 6, 8) EXCEPT !.validation.start = 2]
OfferedSpecs ==
  [id : 1..2, dataset : {"this"}, partitions : {P(0, 2, 4, 6), P(0, 2, 6, 8), Overlapping},
   config : {"fixed", "calibrated"}, engine : {"v1", "v2-costs"}]
  \cup [id : {1}, dataset : {"other"}, partitions : {P(0, 2, 4, 6)}, config : {"fixed"}, engine : {"v1"}]
  \cup [id : {3}, dataset : {"this"}, partitions : {P(0, 3, 4, 6), P(0, 2, 4, 10)},
        config : {"calibrated"}, engine : {"v2-costs"}]
Experiments == INSTANCE ResearchExperiments WITH
                 Offered <- OfferedSpecs, DatasetBars <- 8, SessionLength <- 2, MaxTrials <- 2,
                 MaxReports <- 3

ASSUME EnginesAssumption ==
  Phase1415!ExecutorAssumption /\ Phase14!ExecutorAssumption /\ Experiments!ProtocolAssumption

ExecutorIdle ==
  /\ session = "idle" /\ at = "idle" /\ prev = "idle" /\ signal = "idle" /\ position = "idle"
  /\ account = "idle" /\ high = "idle" /\ markedDrawdown = "idle" /\ exposure = "idle"
  /\ roundTrips = "idle" /\ noFills = "idle" /\ unresolved = "idle" /\ decisions = "idle"
  /\ phase = "idle"

EvaluationIdle == request = "idle" /\ window = "idle" /\ result = "idle"
ExperimentsIdle == reports = "idle" /\ compared = "idle" /\ selections = "idle"

Init ==
  /\ BacktestInit
  /\ \/ /\ \/ part = "causal" /\ Phase1415!Init
           \/ part = "phase14" /\ Phase14!Init
           \/ part = "backtest" /\ ExecutorIdle
        /\ EvaluationIdle /\ ExperimentsIdle
     \/ /\ \/ part = "evaluation" /\ Evaluation!Init /\ ExperimentsIdle
           \/ part = "experiments" /\ Experiments!ProtocolInit /\ EvaluationIdle
        /\ ExecutorIdle

Next ==
  /\ UNCHANGED part
  /\ \/ part = "causal" /\ Phase1415!Next /\ UNCHANGED <<backtestVars, evaluationVars, experimentVars>>
     \/ part = "phase14" /\ Phase14!Next /\ UNCHANGED <<backtestVars, evaluationVars, experimentVars>>
     \/ part = "backtest" /\ BacktestNext /\ UNCHANGED <<executorVars, evaluationVars, experimentVars>>
     \/ part = "evaluation" /\ Evaluation!Next /\ UNCHANGED <<backtestVars, executorVars, experimentVars>>
     \/ part = "experiments" /\ Experiments!ProtocolNext /\ UNCHANGED <<backtestVars, executorVars, evaluationVars>>

Spec == Init /\ [][Next]_<<part, backtestVars, executorVars, evaluationVars, experimentVars>>

----------------------------------------------------------------------------
\* Both session executors keep a funded account that their trades explain, are flat between
\* sessions unless an exit could not be filled, and return round trips the paper run can
\* replay; the causal one reads nothing of a forming bar but its open, marks a drawdown that
\* covers the realised one, and its walk-forward folds partition the out-of-sample trades.
\* The standard research window is never refused by its own validator; every trade of a
\* judged result belongs to one part of it and no part holds longer than its sessions last;
\* and a test partition is read only for a selected specification whose trial, and every
\* experiment compared with it, has seen none of its bars.
EnginesSound ==
  /\ part = "causal" =>
       /\ Phase1415!TypeOK /\ Phase1415!CashExplained /\ Phase1415!CandidatesWellFormed
       /\ Phase1415!FlatAtSessionEnd /\ Phase1415!MarkedCoversRealised /\ Phase1415!EntriesAreCausal
       /\ Phase1415!FoldsPartition
  /\ part = "phase14" => Phase14!CashExplained /\ Phase14!FlatAtSessionEnd
  /\ part = "evaluation" => Evaluation!EvaluationSound
  /\ part = "experiments" => Experiments!ProtocolSound
=============================================================================
