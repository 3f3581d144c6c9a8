---------------------------- MODULE IntradayCosts ----------------------------
(***************************************************************************)
(* The arithmetic the Python research engines share: the intraday tariff   *)
(* (backtest/costs.py), the trade metrics and the qualification of a       *)
(* strategy (phase14/engine.py).  Money is a whole number of paise; a rate *)
(* is a percentage and its product is rounded down to a paisa, the model's *)
(* unit of the code's forty-digit Decimals.  The three turnover levies     *)
(* (exchange, IPFT, SEBI) enter every formula only through their sum.      *)
(* Notionals are positive: Bar.valid admits positive prices only and every *)
(* order holds at least one share.                                         *)
(***************************************************************************)
EXTENDS Integers, Sequences, FiniteSets, SequencesExt, FiniteSetsExt

CONSTANTS
  BrokerageRate, BrokerageCap,   \* brokerage: a rate with a cap per fill
  LevyRate,                      \* exchange + IPFT + SEBI turnover charges
  GstRate, SttRate, StampRate

RateAssumption ==
  /\ {BrokerageRate, LevyRate, GstRate, SttRate, StampRate} \subseteq 0 .. 100
  /\ BrokerageCap \in Nat

Pct(v, rate) == (v * rate) \div 100

\* The total charges of one fill.  Securities tax falls on a SELL, on the
\* average of the round trip; stamp duty falls on a BUY.
quote(side, notional, entryNotional) ==
  LET brokerage == Min({BrokerageCap, Pct(notional, BrokerageRate)})
      levies    == Pct(notional, LevyRate)
  IN  brokerage + levies + Pct(brokerage + levies, GstRate)
      + (IF side = "SELL" THEN Pct((notional + entryNotional) \div 2, SttRate)
                          ELSE Pct(notional, StampRate))

\* A bar's prices and volume as Bar.valid admits them.
ValidBar(b) ==
  /\ 0 < b.low
  /\ b.low <= Min({b.open, b.close})
  /\ Max({b.open, b.close}) <= b.high
  /\ b.volume >= 0

\* AdverseBps.price and the engines' slip: a buyer pays more, a seller gets less.
SlippedPrice(side, reference, slip) ==
  Pct(reference, IF side = "BUY" THEN 100 + slip ELSE 100 - slip)

----------------------------------------------------------------------------
(* Fractions are pairs <<numerator, positive denominator>>. *)
FracLE(x, y)  == x[1] * y[2] <= y[1] * x[2]
FracMax(x, y) == IF FracLE(x, y) THEN y ELSE x
Zero          == <<0, 1>>

NetSum(trades) == FoldLeft(LAMBDA acc, t : acc + t.net, 0, trades)
Wins(trades)   == Len(SelectSeq(trades, LAMBDA t : t.net > 0))

\* The loop of metrics(): closed equity, its running peak and the largest
\* fraction of the peak ever given back.
Drawdown(trades, capital) ==
  FoldLeft(LAMBDA acc, t :
             LET equity == acc.equity + t.net
                 peak   == Max({acc.peak, equity})
             IN  [equity |-> equity, peak |-> peak,
                  drawdown |-> FracMax(acc.drawdown, <<peak - equity, peak>>)],
           [equity |-> capital, peak |-> capital, drawdown |-> Zero], trades)

\* metrics(): win_rate and expectancy are fractions, zero when nothing traded.
metrics(trades, capital) ==
  [trades     |-> Len(trades),
   wins       |-> Wins(trades),
   losses     |-> Len(SelectSeq(trades, LAMBDA t : t.net < 0)),
   breakeven  |-> Len(SelectSeq(trades, LAMBDA t : t.net = 0)),
   winRate    |-> IF trades = <<>> THEN Zero ELSE <<Wins(trades), Len(trades)>>,
   net        |-> NetSum(trades),
   costs      |-> FoldLeft(LAMBDA acc, t : acc + t.fees, 0, trades),
   drawdown   |-> Drawdown(trades, capital).drawdown]
=============================================================================
