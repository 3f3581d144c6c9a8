--------------------------- MODULE BacktestEngine ---------------------------
(***************************************************************************)
(* backtest/engine.py _simulate: the one-minute, next-open, flat/long/flat *)
(* engine.  A callback strategy proposes an intent when a bar completes;   *)
(* the engine resolves it at the next bar's open, forces the position out  *)
(* at the forced-exit minute and resolves what is left when the session    *)
(* ends.  One step is one bar.  The strategy's answer is any proposal or   *)
(* none, or a failure (STRATEGY_FAILURE); prices and volumes are any of    *)
(* Bars.  Sessions are separated by one unit of time.                      *)
(***************************************************************************)
EXTENDS IntradayCosts

CONSTANTS
  Bars, Days, DayBars,         \* bars per day, days in the calendar
  EntryStart, LastEntry, ForcedExit,
  InitialCash, LotSize, Slip,
  Quantities                   \* quantities a strategy may propose

\* Config.valid, AdverseBps.valid and the SESSION_POLICY_OUTSIDE_SESSION check of run().
ASSUME BacktestAssumption ==
  /\ RateAssumption /\ Slip \in 0 .. 99
  /\ Bars \subseteq [open : Nat, high : Nat, low : Nat, close : Nat, volume : Nat]
  /\ \A b \in Bars : ValidBar(b)
  /\ InitialCash \in Nat \ {0} /\ LotSize \in Nat \ {0}
  /\ Quantities \subseteq Nat \ {0} /\ Days \in Nat \ {0}
  /\ EntryStart \in Nat /\ EntryStart <= LastEntry /\ LastEntry < ForcedExit
  /\ ForcedExit < DayBars /\ LastEntry \in Nat /\ ForcedExit \in Nat /\ DayBars \in Nat

VARIABLES
  day, minute,
  cash, realized,
  entry,       \* the open position's fill, or NoFill
  pending,     \* the intent waiting for the next open, or NoIntent
  nextId,
  outcomes,    \* sequence of resolved intents
  trades, costs,
  peak, drawdown,
  status

backtestVars == <<day, minute, cash, realized, entry, pending, nextId, outcomes,
                  trades, costs, peak, drawdown, status>>

NoFill   == [quantity |-> 0, notional |-> 0, costs |-> 0, price |-> 0, time |-> -1]
NoIntent == [id |-> 0]
Now      == day * (DayBars + 1) + minute

BacktestInit ==
  /\ day = 0 /\ minute = 0 /\ cash = InitialCash /\ realized = 0
  /\ entry = NoFill /\ pending = NoIntent /\ nextId = 1
  /\ outcomes = <<>> /\ trades = <<>> /\ costs = 0
  /\ peak = InitialCash /\ drawdown = 0 /\ status = "running"

----------------------------------------------------------------------------
Long == entry # NoFill

IntentOf(id, created, side, quantity) ==
  [id |-> id, created |-> created, side |-> side, quantity |-> quantity]

outcome(intent, resolved, result) ==
  [id |-> intent.id, created |-> intent.created, resolved |-> resolved, result |-> result]

\* Why an intent is refused at this open, in the order the code asks.
Rejection(intent, bar) ==
  CASE intent.quantity % LotSize # 0 -> "LOT_SIZE_VIOLATION"
    [] intent.quantity % LotSize = 0 /\ bar.volume = 0 -> "NO_EXECUTABLE_VOLUME"
    [] OTHER ->
       IF intent.side = "BUY"
       THEN IF Long THEN "ALREADY_LONG"
            ELSE IF minute < EntryStart \/ LastEntry < minute THEN "OUTSIDE_ENTRY_WINDOW"
            ELSE "NONE"
       ELSE IF intent.quantity > entry.quantity THEN "OVERSELL"
            ELSE IF intent.quantity # entry.quantity THEN "PARTIAL_EXIT_UNSUPPORTED"
            ELSE "NONE"

\* The fill price and charges; an intent already refused is never quoted.
Notional(intent, bar) == SlippedPrice(intent.side, bar.open, Slip) * intent.quantity
Fee(intent, bar) == quote(intent.side, Notional(intent, bar), entry.notional)

Affordable(intent, bar) ==
  IF intent.side = "BUY" THEN cash >= Notional(intent, bar) + Fee(intent, bar)
  ELSE cash + Notional(intent, bar) >= Fee(intent, bar)

Verdict(intent, bar) ==
  IF Rejection(intent, bar) # "NONE" THEN Rejection(intent, bar)
  ELSE IF Affordable(intent, bar) THEN "FILLED" ELSE "INSUFFICIENT_CASH"

\* The ledger after a fill.  A BUY opens the position; a SELL closes all of it.
Filled(intent, bar) ==
  LET n == Notional(intent, bar)  f == Fee(intent, bar)
      net == n - entry.notional - entry.costs - f
  IN  IF intent.side = "BUY"
      THEN [cash |-> cash - n - f, realized |-> realized, trades |-> trades,
            entry |-> [quantity |-> intent.quantity, notional |-> n, costs |-> f,
                       price |-> SlippedPrice("BUY", bar.open, Slip), time |-> Now]]
      ELSE [cash |-> cash + n - f, realized |-> realized + net, entry |-> NoFill,
            trades |-> Append(trades, [from |-> entry.time, to |-> Now, net |-> net])]

\* The forced exit replaces whatever intent was waiting, and records that.
Forced == minute = ForcedExit /\ Long

\* Mutant of Superseded: the replaced intent leaves no outcome.
SupersededSilently == outcomes

Superseded ==
  IF Forced /\ pending # NoIntent
  THEN Append(outcomes, outcome(pending, Now, "SUPERSEDED_BY_FORCED_EXIT")) ELSE outcomes

\* A proposal made on the session's last bar is resolved there, unfilled.
Carried(intent, ends) == IF ends THEN NoIntent ELSE intent

\* The checks a step ends with: the mark-to-market ledger at every bar, the open
\* position at the session's end, the closed ledger at the end of the data.
EndChecks(after, equity, unrealized, ends, final) ==
  IF equity # InitialCash + after.realized + unrealized - after.entry.costs
  THEN "LEDGER_INCONSISTENT"
  ELSE IF ends /\ after.entry # NoFill THEN "OVERNIGHT_POSITION_FORBIDDEN"
  ELSE IF ends /\ final
  THEN IF after.cash = InitialCash + after.realized THEN "done" ELSE "FINAL_LEDGER_INCONSISTENT"
  ELSE "running"

\* One bar.  proposal is what the callback returns for the completed bar.
Bar(bar, proposal) ==
  LET intent == IF Forced THEN IntentOf(nextId, Now, "SELL", entry.quantity) ELSE pending
      id1    == IF Forced THEN nextId + 1 ELSE nextId
      acts   == intent # NoIntent
      verdict == IF acts THEN Verdict(intent, bar) ELSE "NONE"
      after  == IF verdict = "FILLED" THEN Filled(intent, bar)
                ELSE [cash |-> cash, realized |-> realized, entry |-> entry, trades |-> trades]
      out1   == IF acts THEN Append(Superseded, outcome(intent, Now, verdict)) ELSE outcomes
      equity == after.cash + bar.close * after.entry.quantity
      unrealized == (bar.close - after.entry.price) * after.entry.quantity
      pend1  == IF proposal = NoIntent THEN NoIntent
                ELSE IntentOf(id1, Now + 1, proposal.side, proposal.quantity)
      final  == day + 1 = Days
      ends   == minute + 1 = DayBars
  IN  /\ status = "running"
      /\ IF Forced /\ verdict # "FILLED" THEN
              status' = "FORCED_EXIT_UNAVAILABLE"
              /\ UNCHANGED <<day, minute, cash, realized, entry, pending, nextId, outcomes,
                             trades, costs, peak, drawdown>>
         ELSE /\ cash' = after.cash /\ realized' = after.realized
              /\ entry' = after.entry /\ trades' = after.trades
              /\ costs' = IF verdict = "FILLED" THEN costs + Fee(intent, bar) ELSE costs
              /\ nextId' = IF proposal = NoIntent THEN id1 ELSE id1 + 1
              /\ peak' = Max({peak, equity})
              /\ drawdown' = Max({drawdown, Max({peak, equity}) - equity})
              /\ pending' = Carried(pend1, ends)
              /\ outcomes' = IF Carried(pend1, ends) # pend1
                             THEN Append(out1, outcome(pend1, Now + 1,
                                    IF final THEN "UNFILLED_END_OF_DATA"
                                             ELSE "UNFILLED_SESSION_END"))
                             ELSE out1
              /\ minute' = IF ends THEN 0 ELSE minute + 1
              /\ day' = IF ends THEN day + 1 ELSE day
              /\ status' = EndChecks(after, equity, unrealized, ends, final)

Proposals == {NoIntent} \cup [side : {"BUY", "SELL"}, quantity : Quantities]

\* The callback raises: no result is produced.
StrategyFails ==
  /\ status = "running"
  /\ status' = "STRATEGY_FAILURE"
  /\ UNCHANGED <<day, minute, cash, realized, entry, pending, nextId, outcomes,
                 trades, costs, peak, drawdown>>

NoMoreBars == status # "running" /\ UNCHANGED backtestVars

BacktestNext == (\E bar \in Bars, p \in Proposals : Bar(bar, p)) \/ StrategyFails \/ NoMoreBars

BacktestSpec == BacktestInit /\ [][BacktestNext]_backtestVars

----------------------------------------------------------------------------
\* Full-cash engine: among the types, cash is never negative, whatever the fees.
BacktestTypeOK ==
  /\ cash \in Nat
  /\ day \in 0 .. Days /\ minute \in 0 .. DayBars - 1
  /\ realized \in Int /\ costs \in Nat /\ peak \in Nat /\ drawdown \in Nat
  /\ entry.quantity \in {0} \cup Quantities /\ nextId \in Nat \ {0}

\* The engine's own accounting checks are never what ends a run: with fees,
\* forced exits and rejected intents in any order, equity stays explained by
\* realised and unrealised results.
LedgerConsistent == status \notin {"LEDGER_INCONSISTENT", "FINAL_LEDGER_INCONSISTENT"}

\* The entry window and the forced exit together leave no position overnight:
\* OVERNIGHT_POSITION_FORBIDDEN is never raised, and every round trip stays in
\* the day it began.
NoOvernightPosition ==
  /\ status # "OVERNIGHT_POSITION_FORBIDDEN"
  /\ \A i \in DOMAIN trades : \E d \in 0 .. Days - 1 :
       d * (DayBars + 1) <= trades[i].from /\ trades[i].to < (d + 1) * (DayBars + 1)

\* Every intent ever numbered is accounted for exactly once: it is pending, or it
\* has one outcome; superseded and unfilled ones included.
EveryIntentResolvedOnce ==
  /\ \A i, j \in DOMAIN outcomes : outcomes[i].id = outcomes[j].id => i = j
  /\ {outcomes[i].id : i \in DOMAIN outcomes} = (1 .. nextId - 1) \ {pending.id}

\* A proposal is executed at the open that follows the bar it was made on, never
\* on that bar and never in a later session.
FilledAtNextOpen ==
  \A i \in DOMAIN outcomes :
    outcomes[i].result = "FILLED" => outcomes[i].created = outcomes[i].resolved

\* The backtest engine never trips its own ledger checks, holds nothing overnight, resolves
\* every numbered intent exactly once, and fills an intent only at the next open.
BacktestSound ==
  /\ BacktestTypeOK /\ LedgerConsistent /\ NoOvernightPosition /\ EveryIntentResolvedOnce
  /\ FilledAtNextOpen
=============================================================================
