--------------------------- MODULE SessionExecutor ---------------------------
(***************************************************************************)
(* The two five-minute executors of the strategy engine, one bar per step: *)
(* phase14/engine.py simulate (Causal = FALSE) and its causal successor    *)
(* phase1415/execution.py execute (Causal = TRUE).  They differ in which   *)
(* bar's volume decides an entry, and in what an exit that cannot be       *)
(* filled does: the first raises, the second keeps the position as         *)
(* unresolved and stops.                                                   *)
(*                                                                         *)
(* A bar is any member of Bars; whether the completed history signals is   *)
(* any Boolean, since the strategies read nothing but completed bars of    *)
(* the session (phase1415/strategies.py entry_signal needs two of them).   *)
(* Time counts bars; sessions are separated by one unit.                   *)
(***************************************************************************)
EXTENDS IntradayCosts

CONSTANTS
  Causal,          \* TRUE: phase1415 execute; FALSE: phase14 simulate
  Bars,            \* the bars the market may deliver
  Sessions,        \* number of sessions of the series
  SessionBars,     \* bars of one session
  Capital, Quantity, OrderCeiling, PriceBuffer, Slip, Participation,
  Stop, Target,    \* percentages of the entry price
  Boundaries,      \* fold boundaries of the out-of-sample period
  MinTrades, MinFoldTrades, MinWinRate, MinFoldWinRate, MaxDrawdown, WilsonZ2

ExecutorAssumption ==
  /\ Causal \in BOOLEAN
  /\ \A b \in Bars : ValidBar(b)
  /\ Sessions \in Nat \ {0} /\ SessionBars \in Nat \ {0}
  /\ Capital \in Nat \ {0} /\ Quantity \in Nat \ {0}
  /\ Stop \in 1 .. 99 /\ Target \in 1 .. 99 /\ Slip \in 0 .. 10
  /\ PriceBuffer >= 100 /\ Participation \in 1 .. 100

VARIABLES
  session, at,     \* the session and the bar within it, both from 0
  prev,            \* the session's previous bar, or NoBar
  pending,         \* the signal's time waiting for the next open, or -1
  position,        \* the open position, or Flat
  cash, peak, markedDrawdown, exposure,
  trades, noFills, unresolved, decisions,
  status           \* "running", "done", or the error raised

vars == <<session, at, prev, pending, position, cash, peak, markedDrawdown,
          exposure, trades, noFills, unresolved, decisions, status>>

NoBar == [open |-> 0, high |-> 0, low |-> 0, close |-> 0, volume |-> 0]
Flat  == [open |-> FALSE]
Now   == session * (SessionBars + 1) + at

Init ==
  /\ session = 0 /\ at = 0 /\ prev = NoBar /\ pending = -1 /\ position = Flat
  /\ cash = Capital /\ peak = Capital /\ markedDrawdown = Zero /\ exposure = 0
  /\ trades = <<>> /\ noFills = <<>> /\ unresolved = <<>> /\ decisions = <<>>
  /\ status = "running"

----------------------------------------------------------------------------
Liquid(bar) == Pct(bar.volume, Participation) >= Quantity

\* liquidity_bar: only the completed bar before the entry is known at its open.
\* Mutant of LiquidityBar: the volume of the bar still forming decides.
LiquidityLookahead(bar) == bar

LiquidityBar(bar) == IF Causal THEN prev ELSE bar

\* exit_reference: the stop is tested before the target, and a gap below the
\* stop sells at the open.
ExitReference(bar, entry, last) ==
  LET stop == Pct(entry, 100 - Stop)  target == Pct(entry, 100 + Target)
  IN  CASE bar.low <= stop    -> <<Min({stop, bar.open}), "STOP">>
        [] bar.low > stop /\ bar.high >= target -> <<target, "TARGET">>
        [] OTHER              -> <<bar.close, IF last THEN "EOD" ELSE "NONE">>

\* The entry of a pending signal at this bar's open: refused at the session's
\* last bar, without liquidity, without cash or above the order ceiling.
EntryPrice(bar) == SlippedPrice("BUY", bar.open, Slip)
EntryValue(bar) == EntryPrice(bar) * Quantity
EntryFee(bar)   == quote("BUY", EntryValue(bar), 0)

EntryFills(bar, last) ==
  /\ ~last
  /\ Liquid(LiquidityBar(bar))
  /\ cash >= EntryValue(bar) + EntryFee(bar)
  /\ Pct(EntryValue(bar), PriceBuffer) <= OrderCeiling

EnteredPosition(bar) ==
  [open |-> TRUE, decided |-> pending, entered |-> Now,
   entry |-> EntryPrice(bar), fee |-> EntryFee(bar)]

\* A round trip: what the sale returns, its fee, the net of both fills.
ClosedTrade(pos, ref, reason) ==
  LET sell == SlippedPrice("SELL", ref, Slip) * Quantity
      buy  == pos.entry * Quantity
      fees == pos.fee + quote("SELL", sell, buy)
  IN  [signal_at |-> pos.decided, entry_at |-> pos.entered, exit_at |-> Now + 1,
       entry |-> pos.entry, exit |-> SlippedPrice("SELL", ref, Slip),
       reason |-> reason, fees |-> fees, net |-> sell - buy - fees]

UnresolvedTrade(pos, reason) ==
  [signal_at |-> pos.decided, entry_at |-> pos.entered, exit_at |-> Now + 1,
   entry |-> pos.entry, reason |-> reason]

\* The drawdown if the open position were sold at the bar's low.
MarkedAt(pos, cash1, bar) ==
  LET mark == SlippedPrice("SELL", bar.low, Slip) * Quantity
  IN  FracMax(markedDrawdown,
              <<peak - cash1 - mark + quote("SELL", mark, pos.entry * Quantity), peak>>)

\* The first bar of the next session starts with an empty history.
Advance(bar, last) ==
  /\ IF last THEN session' = session + 1 /\ at' = 0 /\ prev' = NoBar
             ELSE at' = at + 1 /\ prev' = bar /\ UNCHANGED session
  /\ status' = IF last /\ session + 1 = Sessions THEN "done" ELSE "running"

\* One bar of the loop: the pending entry, then the open position, then the
\* signal of the completed bar.  A session leaves no pending entry behind: its
\* last bar is never asked for a signal.
Bar(bar, signalled) ==
  LET last    == at + 1 = SessionBars
      enters  == pending # -1 /\ ~position.open
      filled  == enters /\ EntryFills(bar, last)
      pos     == IF filled THEN EnteredPosition(bar) ELSE position
      cash1   == IF filled THEN cash - EntryValue(bar) - EntryFee(bar) ELSE cash
      ref     == IF pos.open THEN ExitReference(bar, pos.entry, last) ELSE <<0, "NONE">>
      exits   == pos.open /\ ref[2] # "NONE"
      trade   == ClosedTrade(pos, ref[1], ref[2])
      cash2   == IF exits
                 THEN cash1 + trade.exit * Quantity - (trade.fees - pos.fee)
                 ELSE cash1
      flat    == ~pos.open \/ exits
  IN  /\ status = "running"
      /\ decisions' = IF enters THEN Append(decisions, [at |-> Now, filled |-> filled])
                      ELSE decisions
      /\ noFills' = IF enters /\ ~filled THEN Append(noFills, Now) ELSE noFills
      /\ markedDrawdown' = IF pos.open THEN MarkedAt(pos, cash1, bar) ELSE markedDrawdown
      /\ IF exits /\ ~Liquid(bar)
         THEN /\ unresolved' = IF Causal THEN Append(unresolved, UnresolvedTrade(pos, ref[2]))
                               ELSE unresolved
              /\ status' = IF Causal THEN "done" ELSE "EXIT_NO_FILL_UNVALUED_POSITION"
              /\ cash' = cash1 /\ position' = pos /\ pending' = -1
              /\ UNCHANGED <<session, at, prev, peak, exposure, trades>>
         ELSE /\ cash' = cash2
              /\ trades' = IF exits THEN Append(trades, trade) ELSE trades
              /\ exposure' = IF exits THEN exposure + (Now + 1 - pos.entered) ELSE exposure
              /\ position' = IF flat THEN Flat ELSE pos
              /\ peak' = Max({peak, IF flat THEN cash2 ELSE cash2 + bar.close * Quantity})
              /\ signalled => flat /\ ~last /\ prev # NoBar
              /\ pending' = IF signalled THEN Now + 1 ELSE -1
              /\ Advance(bar, last)
              /\ UNCHANGED unresolved

Finished == status # "running" /\ UNCHANGED vars

Execute(bar, signalled)  == Causal /\ Bar(bar, signalled)
Simulate(bar, signalled) == ~Causal /\ Bar(bar, signalled)

Next ==
  \/ \E bar \in Bars, signalled \in BOOLEAN :
       Execute(bar, signalled) \/ Simulate(bar, signalled)
  \/ Finished

Spec == Init /\ [][Next]_vars

----------------------------------------------------------------------------
(* qualify(): the out-of-sample trades, fold by fold.  The Wilson lower     *)
(* bound exceeds one half exactly when 2w > n and (2w - n)^2 > z^2 n.       *)
InWindow(t, a, b) == a <= t.entry_at /\ t.entry_at < b

Fold(a, b) == SelectSeq(trades, LAMBDA t : InWindow(t, a, b))
OutOfSample == Fold(Head(Boundaries), Last(Boundaries))
Folds == [i \in 1 .. Len(Boundaries) - 1 |-> Fold(Boundaries[i], Boundaries[i + 1])]

Reasons ==
  LET m == metrics(OutOfSample, Capital)
      weak(f) == \/ f.trades < MinFoldTrades \/ f.net <= 0
                 \/ ~FracLE(MinFoldWinRate, f.winRate) \/ ~FracLE(f.drawdown, MaxDrawdown)
      n == m.trades  w == m.wins
  IN  (IF n < MinTrades THEN {"INSUFFICIENT_OOS_TRADES"} ELSE {})
      \cup (IF ~FracLE(MinWinRate, m.winRate) THEN {"OOS_WIN_RATE_BELOW_THRESHOLD"} ELSE {})
      \cup (IF m.net <= 0 THEN {"NON_POSITIVE_NET_EXPECTANCY"} ELSE {})
      \cup (IF ~FracLE(m.drawdown, MaxDrawdown) THEN {"DRAWDOWN_LIMIT"} ELSE {})
      \cup (IF \E i \in DOMAIN Folds : weak(metrics(Folds[i], Capital))
            THEN {"UNSTABLE_OR_INSUFFICIENT_WALK_FORWARD"} ELSE {})
      \cup (IF n = 0 \/ 2 * w <= n \/ (2 * w - n) * (2 * w - n) <= WilsonZ2 * n
            THEN {"MULTIPLE_TESTING_UNCERTAINTY"} ELSE {})

----------------------------------------------------------------------------
TypeOK ==
  /\ session \in 0 .. Sessions /\ at \in 0 .. SessionBars - 1
  /\ prev \in Bars \cup {NoBar} /\ pending \in {-1} \cup Nat
  /\ position.open \in BOOLEAN /\ cash \in Int /\ peak \in Nat
  /\ status \in {"running", "done", "EXIT_NO_FILL_UNVALUED_POSITION"}

\* The executor is fully funded and its cash is what its trades left: cash never
\* goes negative at an entry, and it equals the capital plus the net of the
\* closed trades less the cost of the open position.
CashExplained ==
  /\ cash >= 0
  /\ cash = Capital + NetSum(trades)
            - (IF position.open THEN position.entry * Quantity + position.fee ELSE 0)

\* Round trips never overlap and never run backwards: a trade is decided when a
\* bar completes, entered at that instant, left later in the same session, and
\* the next one starts no earlier than the last one ended.  The paper run replays
\* these lists and refuses a list out of order.
CandidatesWellFormed ==
  LET all == trades \o unresolved
      day(t) == t \div (SessionBars + 1)
  IN  /\ \A i \in DOMAIN all :
           /\ all[i].signal_at = all[i].entry_at /\ all[i].entry_at < all[i].exit_at
           /\ day(all[i].entry_at) = day(all[i].exit_at)
           /\ i > 1 => all[i - 1].exit_at <= all[i].signal_at
      /\ Len(unresolved) <= 1
      /\ \A d \in DOMAIN noFills, i \in DOMAIN all :
           noFills[d] <= all[i].entry_at \/ noFills[d] >= all[i].exit_at

\* No session ends holding a position unless the executor has stopped on an exit
\* it could not fill.
FlatAtSessionEnd ==
  at = 0 /\ status # "EXIT_NO_FILL_UNVALUED_POSITION" => ~position.open \/ unresolved # <<>>

\* The drawdown marked at each bar's low is never smaller than the drawdown the
\* closed trades realised: the report's worst case covers what really happened.
MarkedCoversRealised == FracLE(metrics(trades, Capital).drawdown, markedDrawdown)

\* Whether a pending order fills depends on nothing of the forming bar but its
\* open: two markets that agree until then fill or refuse it alike
\* (NEXT_OPEN_PREVIOUS_COMPLETED_VOLUME, the policy of the causal executor).
EntriesAreCausal ==
  Causal /\ pending # -1 =>
    \A b, c \in Bars : b.open = c.open =>
      (EntryFills(b, at + 1 = SessionBars) <=> EntryFills(c, at + 1 = SessionBars))

\* The walk-forward folds partition the out-of-sample trades: none is counted in
\* two folds, none is lost, so what qualify() asks of every fold it has of the
\* whole: stable folds leave no doubt about the total or the number of trades.
FoldsPartition ==
  /\ FoldLeft(LAMBDA n, i : n + Len(Folds[i]), 0, [i \in DOMAIN Folds |-> i]) = Len(OutOfSample)
  /\ "UNSTABLE_OR_INSUFFICIENT_WALK_FORWARD" \notin Reasons =>
       /\ "NON_POSITIVE_NET_EXPECTANCY" \notin Reasons
       /\ Len(OutOfSample) >= MinFoldTrades * Len(Folds)
=============================================================================
