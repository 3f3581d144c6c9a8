------------------------------ MODULE PaperRun ------------------------------
(***************************************************************************)
(* phase1417/paper.py: the paper run of one qualified strategy on one      *)
(* symbol, as the function of its inputs that the code is.  simulate turns *)
(* the causal executor's candidates into a chain of audit events; Audit    *)
(* accepts an event only as the next state of its signal, once, and in     *)
(* order of time.  A request is                                            *)
(*   [symbol, strategy, candidates, evidence, halt, quality]               *)
(* where evidence says which of admission()'s groups of checks hold, halt  *)
(* is the paper_halt flag and quality whether execute() raised; a          *)
(* candidate is                                                            *)
(*   [kind, signal, at, exit_at, entry, exit, volume, exitVolume, reason]  *)
(* with kind "trade", "unresolved" or "denied".                            *)
(***************************************************************************)
EXTENDS IntradayCosts

CONSTANTS
  Capital, RiskPerTrade, DailyLoss, SymbolExposure, PortfolioExposure,
  MaxQuantity, OrderCeiling, PriceBuffer, Participation, Slip, Stop,
  DayLength,           \* time units of one trading day
  SignalLife,          \* a signal expires this long after it is received
  AuditLimit           \* events an audit may hold

Day(at) == at \div DayLength

\* TRANSITIONS of phase1417: the states of one paper signal.
PaperTransitions ==
  [NONE |-> {"SIGNAL_RECEIVED"},
   SIGNAL_RECEIVED |-> {"ELIGIBILITY_CHECKED", "PAPER_HALTED"},
   ELIGIBILITY_CHECKED |-> {"RISK_APPROVED", "PAPER_ORDER_REJECTED", "PAPER_HALTED"},
   RISK_APPROVED |-> {"PAPER_ORDER_CREATED"},
   PAPER_ORDER_CREATED |->
     {"PAPER_ORDER_ACCEPTED", "PAPER_ORDER_REJECTED", "PAPER_CANCELLED"},
   PAPER_ORDER_ACCEPTED |-> {"PAPER_FILLED", "PAPER_CANCELLED", "PAPER_HALTED"},
   PAPER_FILLED |-> {"PAPER_POSITION_OPEN"},
   PAPER_POSITION_OPEN |-> {"PAPER_EXIT_PENDING", "PAPER_HALTED"},
   PAPER_EXIT_PENDING |-> {"PAPER_POSITION_CLOSED", "PAPER_HALTED"},
   PAPER_ORDER_REJECTED |-> {}, PAPER_CANCELLED |-> {},
   PAPER_HALTED |-> {}, PAPER_POSITION_CLOSED |-> {}]

\* The risk policy's refusal to size anything while a limit is missing (a zero
\* limit counts as missing).
RiskGaps ==
  {l \in {<<"capital", Capital>>, <<"risk_per_trade", RiskPerTrade>>,
          <<"daily_loss", DailyLoss>>, <<"symbol_exposure", SymbolExposure>>,
          <<"portfolio_exposure", PortfolioExposure>>, <<"max_quantity", MaxQuantity>>} :
     l[2] = 0}

\* admission(): one failure per group of checks that does not hold.
AdmissionFailure ==
  [authorised |-> "PAPER_AUTHORIZATION_REQUIRED", bound |-> "PAPER_BINDING_CONFLICT",
   qualified |-> "QUALIFIED_PAIR_REQUIRED", history |-> "STRATEGY_OR_HISTORY_BOUNDARY_CONFLICT",
   clean |-> "PAPER_DATA_QUALITY", capital |-> "SIMULATED_CAPITAL_CONFLICT",
   wholeFills |-> "PARTIAL_FILLS_UNSUPPORTED_FROZEN_EXECUTOR"]

admission(r) ==
  {AdmissionFailure[g] : g \in {h \in DOMAIN AdmissionFailure : ~r.evidence[h]}}
  \cup (IF RiskGaps # {} THEN {"RISK_POLICY_GAP"} ELSE {})

\* size(): the largest quantity within every limit whose purchase with fees fits
\* the cash and whose planned loss at the stop fits the risk per trade.
size(wanted, exposure, price, cash, volume) ==
  LET cap == Min({wanted, MaxQuantity, RiskPerTrade \div Pct(price, Stop),
                  Min({SymbolExposure, exposure, OrderCeiling}) \div Pct(price, PriceBuffer),
                  Pct(volume, Participation), cash \div price})
      fits(q) == LET buy  == price * q
                     stop == Pct(Pct(buy, 100 - Stop), 100 - Slip)
                     fee  == quote("BUY", buy, 0)
                 IN  /\ buy + fee <= cash
                     /\ buy - stop + fee + quote("SELL", stop, buy) <= RiskPerTrade
  IN  IF RiskGaps # {} \/ price <= 0 \/ cash <= 0 THEN 0
      ELSE Max({0} \cup {q \in 1 .. cap : fits(q)})

----------------------------------------------------------------------------
Event(signal, state, at, price, quantity, cash, why) ==
  [signal |-> signal, state |-> state, at |-> at, price |-> price,
   quantity |-> quantity, cash |-> cash, why |-> why, volume |-> 0]

\* Audit.emit, which Audit.replay repeats over a stored transcript: what makes
\* it refuse the i-th event.
PriorState(events, i) ==
  LET earlier == {j \in 1 .. i - 1 : events[j].signal = events[i].signal}
  IN  IF earlier = {} THEN "NONE" ELSE events[Max(earlier)].state

EmitAccepts(events, i) ==
  /\ events[i].state \in PaperTransitions[PriorState(events, i)]
  /\ \A j \in 1 .. i - 1 :
       <<events[j].signal, events[j].state>> # <<events[i].signal, events[i].state>>
  /\ i <= AuditLimit
  /\ i > 1 => events[i - 1].at <= events[i].at

ReplayAccepts(events) == \A i \in DOMAIN events : EmitAccepts(events, i)

\* The transcript of a run that is refused at admission, or whose data raised.
RefusedRun(r) ==
  LET s == <<"admission", r.symbol, r.id>>
  IN  IF admission(r) # {} \/ r.halt
      THEN <<Event(s, "SIGNAL_RECEIVED", r.start, 0, 0, Capital, ""),
             Event(s, "ELIGIBILITY_CHECKED", r.start, 0, 0, Capital, ""),
             Event(s, IF r.halt THEN "PAPER_HALTED" ELSE "PAPER_ORDER_REJECTED", r.start,
                   0, 0, Capital, IF r.halt THEN "PAPER_HALT" ELSE "ADMISSION")>>
      ELSE <<Event(s, "SIGNAL_RECEIVED", r.start, 0, 0, Capital, ""),
             Event(s, "PAPER_HALTED", r.start, 0, 0, Capital, "DATA_QUALITY")>>

\* Why a sized candidate is not entered, in the order the code asks.
EntryRefusal(t, acc, quantity) ==
  CASE t.at >= t.signal_at + SignalLife          -> "SIGNAL_EXPIRED"
    [] t.at < t.signal_at + SignalLife
       /\ acc.dayCash - acc.cash >= DailyLoss   -> "DAILY_LOSS_GUARD"
    [] OTHER -> IF quantity < 1 THEN "POSITION_SIZE_OR_EXPOSURE_OR_LIQUIDITY" ELSE "NONE"

\* One candidate of the loop; acc is [cash, day, dayCash, events, halted], q the
\* quantity it was sized at, paid the cash an entry leaves.
Outcome(acc, t, q, paid) ==
  LET why  == EntryRefusal(t, acc, q)
      back == paid + t.exit * q - quote("SELL", t.exit * q, t.entry * q)
      e(state, at, price, cash, reason) ==
        [Event(t.signal, state, at, price, q, cash, reason) EXCEPT !.volume = t.volume]
      opening == <<e("SIGNAL_RECEIVED", t.signal_at, 0, acc.cash, ""),
                   e("ELIGIBILITY_CHECKED", t.at, 0, acc.cash, "")>>
      entering == opening \o
                  <<e("RISK_APPROVED", t.at, 0, acc.cash, ""),
                    e("PAPER_ORDER_CREATED", t.at, 0, acc.cash, ""),
                    e("PAPER_ORDER_ACCEPTED", t.at, 0, acc.cash, ""),
                    e("PAPER_FILLED", t.at, t.entry, paid, ""),
                    e("PAPER_POSITION_OPEN", t.at, 0, paid, ""),
                    e("PAPER_EXIT_PENDING", t.exit_at, 0, paid, t.reason)>>
  IN  IF t.kind = "denied" \/ why # "NONE"
      THEN [acc EXCEPT !.events = @ \o opening \o
              <<e("PAPER_ORDER_REJECTED", t.at, 0, acc.cash,
                  IF t.kind = "denied" THEN t.reason ELSE why)>>]
      ELSE IF t.kind = "unresolved" \/ Pct(t.exitVolume, Participation) < q
      THEN [acc EXCEPT !.cash = paid, !.halted = TRUE,
              !.events = @ \o entering \o
                <<e("PAPER_HALTED", t.exit_at, 0, paid, "EXIT_LIQUIDITY_UNVALUED")>>]
      ELSE [acc EXCEPT !.cash = back,
              !.events = @ \o entering \o
                <<e("PAPER_POSITION_CLOSED", t.exit_at, t.exit, back, t.reason)>>]

Bought(acc, t, q) == Outcome(acc, t, q, acc.cash - t.entry * q - quote("BUY", t.entry * q, 0))

OnItsDay(acc, t) ==
  Bought(acc, t, size(t.wanted, PortfolioExposure, t.entry, acc.cash, t.volume))

Candidate(acc, t) ==
  IF acc.halted THEN acc
  ELSE OnItsDay(IF t.kind # "denied" /\ Day(t.at) # acc.day
                THEN [acc EXCEPT !.day = Day(t.at), !.dayCash = acc.cash] ELSE acc, t)

\* _simulate: candidates in order of their entry time.
simulate(r) ==
  IF admission(r) # {} \/ r.halt \/ r.quality
  THEN [cash |-> Capital, day |-> -1, dayCash |-> Capital, events |-> RefusedRun(r),
        halted |-> TRUE]
  ELSE FoldLeft(Candidate,
                [cash |-> Capital, day |-> -1, dayCash |-> Capital, events |-> <<>>,
                 halted |-> FALSE],
                SortSeq(r.candidates, LAMBDA x, y : x.at < y.at))

=============================================================================
