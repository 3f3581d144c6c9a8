------------------------------- MODULE MCPaper -------------------------------
(***************************************************************************)
(* Instances of the three paper-trading programs.  part says which one     *)
(* this behaviour is about; the variables of the others stay as they are,  *)
(* and variables of the same name are shared.                              *)
(***************************************************************************)
EXTENDS MultiSession

VARIABLES part, phase, disk, attempts,
          input, control, todo, c,
          market, signals, evidence, e, journal, fresh, kills, faults

portfolioOnly == <<input, control, todo, c>>
sessionOnly == <<market, signals, evidence, e, journal, fresh, kills, faults>>

----------------------------------------------------------------------------
(* The account: two symbols of one sector.                                  *)
BrokerageRate == 2
BrokerageCap == 5
LevyRate == 1
GstRate == 18
SttRate == 1
StampRate == 1
Slip == 5
RiskPerTrade == 60
SymbolExposure == 400
PortfolioExposure == 600
MaxQuantity == 2
OrderCeiling == 500
PriceBuffer == 105
Participation == 1
Stop == 10
DayLength == 10
SignalLife == 1
AuditLimit == 40
Symbols == <<"A", "B">>
Sectors == [s \in {"A", "B"} |-> "bank"]
SimultaneousPositions == 2
CorrelationPositions == 3
StrategyExposure == 600
SectorExposure == 350
JournalLimit == 60

----------------------------------------------------------------------------
(* Portfolios of two strategies over two days of five bars.                 *)
T(kind, from, to, buy, sell) ==
  [kind |-> kind, from |-> from, to |-> to, entry |-> buy, exit |-> sell]

\* Candidate lists as the causal executor can return them: round trips that do
\* not overlap, at most one unresolved trade after them, then the refused entries.
Lists == {<<>>,
          <<T("trade", 1, 3, 100, 120), T("trade", 3, 5, 110, 95)>>,
          <<T("trade", 2, 3, 100, 60), T("trade", 12, 14, 100, 130), T("denied", 4, 4, 0, 0)>>,
          <<T("unresolved", 3, 4, 100, 0), T("denied", 1, 1, 0, 0)>>}

Admission == INSTANCE PaperRun WITH Capital <- 600, DailyLoss <- 50

Request(id, symbol, strategy, wanted, list, failures) ==
  [id |-> id, symbol |-> symbol, strategy |-> strategy, start |-> 0, halt |-> FALSE, quality |-> FALSE,
   evidence |-> [g \in DOMAIN Admission!AdmissionFailure |-> Admission!AdmissionFailure[g] \notin failures],
   candidates |-> [i \in DOMAIN list |->
     [kind |-> list[i].kind, signal |-> <<symbol, strategy, list[i].from>>,
      signal_at |-> list[i].from, at |-> list[i].from, exit_at |-> list[i].to,
      entry |-> list[i].entry, exit |-> list[i].exit, volume |-> 1000, exitVolume |-> 1000,
      reason |-> list[i].kind, wanted |-> wanted]]]

Closes(pa, pb) ==
  UNION {{[symbol |-> "A", at |-> t, price |-> pa[t]], [symbol |-> "B", at |-> t, price |-> pb[t]]} :
           t \in 2 .. 4}
  \cup {[symbol |-> "A", at |-> 13, price |-> 100]}

Input(requests, closes) ==
  [requests |-> requests, closes |-> closes, ends |-> {5, 15}, start |-> 0]

Steady == [t \in 2 .. 4 |-> 100]
Fall   == [t \in 2 .. 4 |-> IF t = 3 THEN 70 ELSE 100]

Third(l) == {Request(3, "B", "s1", 3, l, {}), Request(3, "A", "s1", 1, l, {}),
             Request(3, "B", "s2", 3, l, {"PAPER_DATA_QUALITY"})}

ManyInputs ==
  {Input(<<Request(1, "A", "s1", 3, l1, {}), Request(2, "A", "s2", 3, l2, {}), r3>>,
         Closes(pa, Steady)) :
     l1 \in Lists, l2 \in Lists, r3 \in UNION {Third(l) : l \in Lists}, pa \in {Steady, Fall}}

Control(gaps, halted, end, cancelled) ==
  [gaps |-> gaps, halt |-> halted, deliveryEnd |-> end, cancel |-> cancelled]

Controls == {Control(FALSE, FALSE, 20, {}), Control(FALSE, TRUE, 20, {}),
             Control(FALSE, FALSE, 3, {<<"A", "s1", 1>>})}

\* A single submission, to follow one directory through kills and restarts.
OneInput ==
  {Input(<<Request(1, "A", "s1", 3, <<T("trade", 1, 3, 100, 120)>>, {})>>, {})}

Portfolio == INSTANCE PaperPortfolio WITH Capital <- 600, DailyLoss <- 50,
                                          Inputs <- ManyInputs, MaxAttempts <- 1
Resume == INSTANCE PaperPortfolio WITH Capital <- 600, DailyLoss <- 50,
                                       Inputs <- OneInput, MaxAttempts <- 3

----------------------------------------------------------------------------
(* A session of five bars, three strategies.                                *)
SessionStart == 1
SessionEnd == 6
Cutoff == 5
Target == 10
Faults == {"none", "late", "missing", "stale", "foreign", "unopened", "price"}
MaxCommands == 8
MaxKills == 1
MaxFaults == 1

B(open, high, low, close, volume) ==
  [open |-> open, high |-> high, low |-> low, close |-> close, volume |-> volume]

Flat   == <<B(100, 102, 98, 100, 500), B(100, 102, 98, 100, 500), B(100, 102, 98, 100, 500),
            B(100, 102, 98, 101, 500), B(101, 102, 98, 100, 500)>>
Crash  == <<B(100, 102, 98, 100, 500), B(100, 101, 70, 75, 500), B(75, 80, 70, 78, 500),
            B(78, 99, 75, 95, 500), B(95, 99, 90, 98, 500)>>
Rally  == <<B(100, 102, 98, 100, 500), B(100, 130, 99, 125, 500), B(125, 150, 120, 140, 500),
            B(140, 142, 130, 135, 500), B(135, 140, 130, 138, 500)>>
Thin   == <<B(100, 102, 98, 100, 500), B(100, 102, 98, 100, 500), B(100, 102, 80, 85, 1),
            B(85, 99, 80, 90, 500), B(90, 99, 85, 95, 1)>>

Markets == {[A |-> a, B |-> b] : a \in {Flat, Crash, Rally, Thin}, b \in {Flat, Crash}}

Requests == <<[symbol |-> "A", strategy |-> "s1", quantity |-> 2],
              [symbol |-> "A", strategy |-> "s2", quantity |-> 1],
              [symbol |-> "B", strategy |-> "s1", quantity |-> 2]>>

SignalSets == {{<<1, 1>>, <<2, 1>>, <<3, 1>>}, {<<1, 1>>, <<1, 3>>, <<3, 2>>},
               {<<1, 2>>, <<2, 4>>, <<3, 4>>}, {<<3, 3>>, <<1, 3>>}}

Ready == [g \in {"policyComplete", "tradingDay", "cutoffInside", "priorResolved", "authorised",
                 "pinned", "admitted", "syntheticOnly", "calendarBound", "registered"} |-> TRUE]
Readinesses == {Ready, [Ready EXCEPT !.priorResolved = FALSE]}

Session == INSTANCE PaperSession WITH Capital <- 600, DailyLoss <- 50

----------------------------------------------------------------------------
(* Three trading dates; each day wins, loses, recovers, or breaks a limit.  *)
ThreeDates == <<"mon", "tue", "wed">>

Trade(marks, net) == [marks |-> marks, net |-> net]
TradingDays == {<<>>, <<Trade(<<5>>, 20)>>, <<Trade(<<-5>>, -25), Trade(<<10>>, 10)>>,
                <<Trade(<<10, -38>>, 5), Trade(<<1>>, 30)>>, <<Trade(<<40, -5>>, -8)>>}

SubmittedPlans == UNION {[dates -> TradingDays] : dates \in {ToSet(ThreeDates), {"mon", "wed"}}}

ASSUME PaperAssumption ==
  /\ Portfolio!RateAssumption /\ Portfolio!AccountAssumption /\ Portfolio!PortfolioAssumption
  /\ Resume!PortfolioAssumption /\ Session!SessionAssumption

----------------------------------------------------------------------------
PortfolioIdle == input = "idle" /\ control = "idle" /\ todo = "idle" /\ c = "idle"
SessionIdle ==
  /\ market = "idle" /\ signals = "idle" /\ evidence = "idle" /\ e = "idle" /\ journal = "idle"
  /\ fresh = "idle" /\ kills = "idle" /\ faults = "idle"
PaperIdle == PortfolioIdle /\ SessionIdle /\ phase = "idle" /\ disk = "idle" /\ attempts = "idle"

\* No run of several sessions has begun.
NoRun == RunInit /\ plan = CHOOSE p \in Plans : TRUE

Init ==
  \/ part = "portfolio" /\ Portfolio!Init /\ SessionIdle /\ NoRun
  \/ part = "resume" /\ Resume!Init /\ SessionIdle /\ NoRun
  \/ /\ part = "session" /\ Session!Init /\ PortfolioIdle /\ NoRun
     /\ disk = "idle" /\ attempts = "idle"
  \/ part = "multi" /\ RunInit /\ PaperIdle

Next ==
  /\ UNCHANGED part
  /\ \/ part = "portfolio" /\ Portfolio!Next /\ UNCHANGED <<sessionOnly, runVars>>
     \/ part = "resume" /\ Resume!Next /\ UNCHANGED <<sessionOnly, runVars>>
     \/ part = "session" /\ Session!Next /\ UNCHANGED <<portfolioOnly, runVars, disk, attempts>>
     \/ /\ part = "multi" /\ RunNext
        /\ UNCHANGED <<portfolioOnly, sessionOnly, phase, disk, attempts>>

vars == <<part, phase, disk, attempts, portfolioOnly, sessionOnly, runVars>>

Spec == Init /\ [][Next]_vars

----------------------------------------------------------------------------
\* The portfolio coordinator never raises and its reports add up; nothing is filled after a
\* halt or after the day's loss limit, exits of an instant come before its entries, and a
\* session end leaves no order in flight.  The journal on disk follows the plan on disk
\* through kills and restarts, and a restart is refused only for a reason on disk.  A paper
\* session survives every malformed command, stays halted once halted, completes only when
\* every candle of every symbol was processed and every order settled, fills only at the
\* opening after the signal, and journals after a kill what it would have journalled without.
PaperSound ==
  /\ part = "portfolio" =>
       /\ Portfolio!TypeOK /\ Portfolio!NoFault /\ Portfolio!TranscriptsReplay
       /\ Portfolio!NoEntryAfterHalt /\ Portfolio!DailyLossStopsEntries /\ Portfolio!ExitsComeFirst
       /\ Portfolio!SessionEndsSettled /\ Portfolio!ReportsReconcile
  /\ part = "resume" => Resume!JournalFollowsPlan /\ Resume!OnlyRealRefusals
  /\ part = "session" =>
       /\ Session!TypeOK /\ Session!SessionNeverFaults /\ Session!HaltIsFinal
       /\ Session!CompletedIsWhole /\ Session!EntriesAreCausal /\ Session!RecoveryIsTransparent

\* No step opens a position beyond its sector's limit, rewrites recorded sessions or a summary,
\* or continues a run for an operator who does not hold the head of its chain.
PaperStepsSound ==
  [][/\ part = "portfolio" => Portfolio!SectorWithinLimit
     /\ HistoryGrows /\ ResumeKnowsHead]_vars
=============================================================================
