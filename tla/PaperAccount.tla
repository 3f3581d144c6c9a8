---------------------------- MODULE PaperAccount ----------------------------
(***************************************************************************)
(* The Coordinator of phase1418/portfolio.py: the single-writer portfolio  *)
(* that the portfolio runner, the session scheduler (phase1419) and the    *)
(* multi-session runner (phase1420) share.  It is the record k; emit,      *)
(* guard and enter are functions from Coordinator to Coordinator, and      *)
(* k.fault is the ValueError raised.                                       *)
(***************************************************************************)
EXTENDS PaperRun

CONSTANTS
  Symbols,             \* canonical order of the universe
  Sectors,             \* symbol -> sector
  SimultaneousPositions, CorrelationPositions,
  StrategyExposure, SectorExposure,
  JournalLimit

AccountAssumption ==
  /\ IsInjective(Symbols) /\ DOMAIN Sectors = Range(Symbols)
  /\ JournalLimit \in Nat

\* TRANSITIONS of phase1418: the states of one portfolio order.
OrderTransitions ==
  [NONE |-> {"PROPOSED"},
   PROPOSED |-> {"RISK_CHECKED", "REJECTED", "CANCELLED"},
   RISK_CHECKED |-> {"RESERVED", "REJECTED", "CANCELLED"},
   RESERVED |-> {"ACCEPTED", "CANCELLED"},
   ACCEPTED |-> {"FILLED", "CANCELLED"},
   FILLED |-> {"EXIT_PENDING"}, EXIT_PENDING |-> {"CLOSED"},
   CLOSED |-> {}, REJECTED |-> {}, CANCELLED |-> {}]

Drop(f, k) == [x \in DOMAIN f \ {k} |-> f[x]]
Put(f, k, v) == [x \in DOMAIN f \cup {k} |-> IF x = k THEN v ELSE f[x]]
Total(f) == FoldFunction(+, 0, f)

Coordinator ==
  [cash |-> Capital, fees |-> 0, realized |-> 0, orders |-> << >>, positions |-> << >>,
   reservations |-> << >>, marks |-> << >>, consumed |-> {}, events |-> <<>>,
   halted |-> FALSE, day |-> -1, dayEquity |-> Capital, fault |-> "none"]

----------------------------------------------------------------------------
\* account(): what is reserved, what the positions are worth, and the checks
\* that refuse an account that does not balance.
Reserved(k) == Total(k.reservations)
Mark(k, s) == IF s \in DOMAIN k.marks THEN k.marks[s] ELSE k.orders[k.positions[s]].entry
Marked(k) == Total([s \in DOMAIN k.positions |-> Mark(k, s) * k.orders[k.positions[s]].quantity])
Unrealized(k) ==
  Total([s \in DOMAIN k.positions |->
           LET o == k.orders[k.positions[s]]
           IN  (Mark(k, s) - o.entry) * o.quantity - o.fee])

Equity(k) == k.cash + Marked(k)

Balanced(k, reserved) ==
  IF ~(k.cash >= reserved /\ reserved >= 0) THEN "INVALID_ACCOUNTING"
  ELSE IF Equity(k) # Capital + k.realized + Unrealized(k) THEN "UNBALANCED_EQUITY"
  ELSE "none"

AccountFault(k) == Balanced(k, Reserved(k))

Fail(k, why) == [k EXCEPT !.fault = why]

\* The state change each emitted state makes, before the event is recorded.
Apply(k, key, state, at, v) ==
  CASE state = "PROPOSED" ->
         [k EXCEPT !.orders = Put(@, key,
            [state |-> state, symbol |-> v.symbol, strategy |-> v.strategy,
             signal |-> v.signal, signal_at |-> at, quantity |-> 0, entry |-> 0,
             fee |-> 0, net |-> 0, exit_at |-> -1])]
    [] state = "RESERVED" ->
         IF key \in DOMAIN k.reservations THEN Fail(k, "DOUBLE_RESERVATION")
         ELSE [k EXCEPT !.reservations = Put(@, key, v.amount), !.orders[key].state = state]
    [] state = "FILLED" ->
         LET debit == v.price * v.quantity + v.fees  s == k.orders[key].symbol
         IN  IF s \in DOMAIN k.positions THEN Fail(k, "SYMBOL_ALREADY_OWNED")
             ELSE IF key \notin DOMAIN k.reservations \/ k.reservations[key] # debit
             THEN Fail(k, "UNRECONCILED_RESERVATION")
             ELSE [k EXCEPT !.reservations = Drop(@, key), !.cash = @ - debit,
                            !.fees = @ + v.fees, !.positions = Put(@, s, key),
                            !.marks = Put(@, s, v.price),
                            !.orders[key] = [@ EXCEPT !.state = state, !.quantity = v.quantity,
                                                      !.entry = v.price, !.fee = v.fees]]
    [] state = "CLOSED" ->
         LET o == k.orders[key]  sell == v.price * o.quantity
             net == sell - o.entry * o.quantity - o.fee - v.fees
         IN  IF o.symbol \notin DOMAIN k.positions \/ k.positions[o.symbol] # key
             THEN Fail(k, "POSITION_OWNERSHIP_MISMATCH")
             ELSE [k EXCEPT !.positions = Drop(@, o.symbol), !.cash = @ + sell - v.fees,
                            !.fees = @ + v.fees, !.realized = @ + net,
                            !.orders[key] = [@ EXCEPT !.state = state, !.net = net, !.exit_at = at]]
    [] state = "CANCELLED" ->
         [k EXCEPT !.reservations = Drop(@, key), !.orders[key].state = state]
    [] state = "MARK" -> [k EXCEPT !.marks = Put(@, v.symbol, v.price)]
    [] state = "PAPER_HALTED" -> [k EXCEPT !.halted = TRUE]
    [] state = "SESSION_END" -> k
    [] OTHER -> [k EXCEPT !.orders[key].state = state]

\* The second half of emit(): the account the change leaves must balance, and the
\* chained event records it.
Recorded(after, fault, key, state, at, v) ==
  IF after.fault # "none" THEN after
  ELSE IF fault # "none" THEN Fail(after, fault)
  ELSE [after EXCEPT !.events = Append(@,
          [state |-> state, key |-> key, at |-> at, cash |-> after.cash, equity |-> Equity(after),
           halted |-> after.halted, open |-> Cardinality(DOMAIN after.positions), details |-> v])]

Changed(after, key, state, at, v) == Recorded(after, AccountFault(after), key, state, at, v)

\* emit(): limits, order of time, the account before and after, the transition,
\* and the chained event that records the account it leaves behind.
Emitted(k, fault, key, state, at, v) ==
  LET previous == IF key \in DOMAIN k.orders THEN k.orders[key].state ELSE "NONE"
  IN  IF k.fault # "none" THEN k
      ELSE IF Len(k.events) >= JournalLimit THEN Fail(k, "JOURNAL_LIMIT")
      ELSE IF k.events # <<>> /\ at < Last(k.events).at THEN Fail(k, "OUT_OF_ORDER_EVENT")
      ELSE IF fault # "none" THEN Fail(k, fault)
      ELSE IF /\ state \notin {"MARK", "SESSION_END", "PAPER_HALTED"}
              /\ state \notin OrderTransitions[previous]
      THEN Fail(k, "INVALID_OR_DUPLICATE_TRANSITION")
      ELSE Changed(Apply(k, key, state, at, v), key, state, at, v)

emit(k, key, state, at, v) == Emitted(k, AccountFault(k), key, state, at, v)

None == [why |-> ""]
Why(reason) == [why |-> reason]

halt(k, at, why) ==
  IF k.halted THEN k ELSE emit(k, "portfolio", "PAPER_HALTED", at, Why(why))

\* The loss since the day opened, with the day already set.
StopAtLoss(k, at) ==
  IF DailyLoss > 0 /\ k.dayEquity - Equity(k) >= DailyLoss
  THEN halt(k, at, "DAILY_LOSS_BREACH") ELSE k

\* guard(): the first action of a day fixes the day's opening equity; a loss
\* since then of the daily limit halts.
guard(k, at) ==
  StopAtLoss(IF Day(at) # k.day THEN [k EXCEPT !.day = Day(at), !.dayEquity = Equity(k)] ELSE k, at)

----------------------------------------------------------------------------
\* enter(): the refusals, what the exposure limits leave, the size, and either a
\* cancelled reservation or a filled order.  The bar of the entry always exists:
\* admission refuses a series with a gap, so MISSING_ENTRY_DATA cannot be met.
EnterRefusal(k, o, at) ==
  IF at >= o.signal_at + SignalLife THEN "EXPIRED_SIGNAL"
  ELSE IF k.halted THEN "PAPER_HALT"
  ELSE IF o.symbol \in DOMAIN k.positions THEN "ONE_POSITION_PER_SYMBOL"
  ELSE IF Cardinality(DOMAIN k.positions) + Cardinality(DOMAIN k.reservations)
            >= Min({SimultaneousPositions, CorrelationPositions})
  THEN "POSITION_OR_CORRELATION_LIMIT" ELSE "NONE"

\* What the positions in the given symbols are worth at their marks.
Exposure(k, symbols) ==
  Total([s \in DOMAIN k.positions \cap symbols |->
           k.marks[s] * k.orders[k.positions[s]].quantity])

SameStrategy(k, o) == {s \in DOMAIN k.positions : k.orders[k.positions[s]].strategy = o.strategy}
SameSector(symbol) == {s \in DOMAIN Sectors : Sectors[s] = Sectors[symbol]}

Remaining(k, o) ==
  Min({PortfolioExposure - Exposure(k, DOMAIN Sectors),
       StrategyExposure - Exposure(k, SameStrategy(k, o)),
       SectorExposure - Exposure(k, SameSector(o.symbol))})

\* A sized order is reserved, then cancelled or accepted and filled.
Order(k, key, e, at, cancel, q, fee) ==
  LET reserved == emit(k, key, "RESERVED", at, [amount |-> e.price * q + fee, quantity |-> q])
  IN  IF k.orders[key].signal \in cancel
      THEN emit(reserved, key, "CANCELLED", at, Why("EXPLICIT_PAPER_CANCEL"))
      ELSE emit(emit(reserved, key, "ACCEPTED", at, None), key, "FILLED", at,
                [price |-> e.price, quantity |-> q, fees |-> fee])

Sized(k, key, e, at, cancel, q) ==
  IF q <= 0 THEN emit(k, key, "REJECTED", at, Why("CASH_EXPOSURE_LIQUIDITY_OR_RISK"))
  ELSE Order(k, key, e, at, cancel, q, quote("BUY", e.price * q, 0))

RiskChecked(k, key, e, at, cancel) ==
  LET o   == k.orders[key]
      why == EnterRefusal(k, o, at)
      rem == Remaining(k, o)
  IN  IF why # "NONE" THEN emit(k, key, "REJECTED", at, Why(why))
      ELSE Sized(k, key, e, at, cancel,
                 IF rem <= 0 THEN 0
                 ELSE size(e.quantity, rem, e.price, k.cash - Reserved(k), e.volume))

enter(k, key, e, at, cancel) ==
  IF k.orders[key].state # "PROPOSED" THEN k
  ELSE RiskChecked(emit(k, key, "RISK_CHECKED", at, None), key, e, at, cancel)

\* A candidate's exit closes the order if this portfolio filled it.
exit(k, key, e, at) ==
  LET o == k.orders[key]
      fee == quote("SELL", e.price * o.quantity, o.entry * o.quantity)
  IN  IF key \notin DOMAIN k.orders \/ o.state # "FILLED" THEN k
      ELSE guard(emit(emit(k, key, "EXIT_PENDING", at, Why(e.why)), key, "CLOSED", at,
                      [price |-> e.price, fees |-> fee, why |-> e.why]), at)

\* The end of a session cancels every order still in flight, in the order they
\* were proposed, halts on an open position and records the session.
Ended(k, at) ==
  emit(k, "portfolio", "SESSION_END", at,
       [complete |-> DOMAIN k.positions = {} /\ DOMAIN k.reservations = {}])

HaltIfOpen(k, at) ==
  IF DOMAIN k.positions # {} THEN halt(k, at, "EOD_UNRESOLVED_POSITION") ELSE k

sessionEnd(k0, at) ==
  LET live(k, key) == k.orders[key].state \in {"PROPOSED", "RISK_CHECKED", "RESERVED", "ACCEPTED"}
      proposals == SelectSeq(k0.events, LAMBDA e : e.state = "PROPOSED")
  IN  Ended(HaltIfOpen(FoldLeft(LAMBDA k, v : IF live(k, v.key)
                                  THEN emit(k, v.key, "CANCELLED", at, Why("EOD_CANCEL")) ELSE k,
                                k0, proposals), at), at)

\* reports(): the net of the closed orders by day, by strategy and by symbol.
Bucket(o, table) ==
  CASE table = "daily" -> Day(o.exit_at)
    [] table = "strategies" -> o.strategy
    [] table = "symbols" -> o.symbol

PnlBy(k, table) ==
  LET closed == {key \in DOMAIN k.orders : k.orders[key].state = "CLOSED"}
  IN  [t \in {Bucket(k.orders[key], table) : key \in closed} |->
         Total([key \in {x \in closed : Bucket(k.orders[x], table) = t} |-> k.orders[key].net])]

reports(k) == [table \in {"daily", "strategies", "symbols"} |-> PnlBy(k, table)]

=============================================================================
