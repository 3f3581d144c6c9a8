---------------------------- MODULE PaperSession ----------------------------
(***************************************************************************)
(* phase1419/scheduler.py: one trading session driven by explicit clock    *)
(* commands (preflight, open, step, close), each delivering the candles    *)
(* just completed and the openings just seen, over the portfolio of        *)
(* PaperAccount; and the directory that journals one row per command, from *)
(* which an interrupted session is replayed and explicitly recovered.      *)
(*                                                                         *)
(* Bar i of a symbol spans Start+i-1 .. Start+i.  A command is             *)
(*   [kind, at, bars, wrong, opens]                                        *)
(* bars: symbol -> number of the delivered candle; wrong: symbols whose    *)
(* candle is incomplete or not the dataset's; opens: symbol -> price.      *)
(* The engine is the record e; apply is a function of engine and command.  *)
(***************************************************************************)
EXTENDS PaperAccount

CONSTANTS
  SessionStart, SessionEnd, Cutoff,
  Target,              \* profit target, in percent
  Requests,            \* strategies on symbols, in canonical order
  Markets,             \* possible price paths: symbol -> bars
  SignalSets,          \* possible entry signals: sets of <<request, bar>>
  Readinesses,         \* evidence the preflight may find
  Faults,              \* ways a command may be malformed
  MaxCommands, MaxKills,
  MaxFaults            \* malformed commands in one session

SessionAssumption ==
  /\ SessionStart < Cutoff /\ Cutoff < SessionEnd
  /\ {MaxCommands, MaxKills, MaxFaults} \subseteq Nat
  /\ \A r \in Range(Requests) : r.symbol \in Range(Symbols)

VARIABLES
  market, signals, evidence,   \* fixed inputs of the session
  e,                           \* the Engine of the running attempt
  journal,                     \* rows on disk
  phase,                       \* "down", "running", "ended", "rejected"
  fresh,                       \* resume: the next new row is the recovered one
  kills, faults

vars == <<market, signals, evidence, e, journal, phase, fresh, kills, faults>>

Sources == {r.symbol : r \in Range(Requests)}
InOrder == SelectSeq(Symbols, LAMBDA s : s \in Sources)

\* TRANSITIONS of phase1419.
SessionTransitions ==
  [CREATED |-> {"PREMARKET_CHECK"}, PREMARKET_CHECK |-> {"READY"}, READY |-> {"SESSION_OPEN"},
   SESSION_OPEN |-> {"RUNNING", "ENTRY_CUTOFF", "EOD_LIQUIDATION"},
   RUNNING |-> {"ENTRY_CUTOFF", "EOD_LIQUIDATION"}, ENTRY_CUTOFF |-> {"EOD_LIQUIDATION"},
   EOD_LIQUIDATION |-> {"RECONCILING"}, RECONCILING |-> {"COMPLETED"},
   PAPER_HALTED |-> {"EOD_LIQUIDATION"}, FAILED |-> {}, COMPLETED |-> {},
   RECOVERY_PENDING |-> {"CREATED", "READY", "SESSION_OPEN", "RUNNING", "ENTRY_CUTOFF"}]

Terminal == {"COMPLETED", "FAILED"}

Raise(x, why) == [x EXCEPT !.raised = why]

transition(x, state) ==
  LET allowed == SessionTransitions[x.state] \cup {"PAPER_HALTED", "FAILED"}
                 \cup (IF x.state = "PAPER_HALTED" THEN {} ELSE {"RECOVERY_PENDING"})
  IN  IF x.raised # "none" THEN x
      ELSE IF x.state \in Terminal \/ state \notin allowed \ {x.state}
      THEN Raise(x, "INVALID_SESSION_TRANSITION")
      ELSE [x EXCEPT !.state = state]

Halted(x) == IF x.state = "PAPER_HALTED" THEN x ELSE transition(x, "PAPER_HALTED")

haltSession(x, why, at) == Halted([x EXCEPT !.p = halt(@, at, why)])

Engine == [state |-> "CREATED", clock |-> -1, p |-> Coordinator, history |-> [s \in Sources |-> 0],
           raised |-> "none", rejection |-> "none"]

\* readiness(): one failure per group of preflight checks that does not hold.
ReadinessFailure ==
  [policyComplete |-> "RISK_POLICY_GAP", tradingDay |-> "NON_TRADING_DAY",
   cutoffInside |-> "INVALID_CUTOFF", priorResolved |-> "UNRESOLVED_PRIOR_SESSION",
   authorised |-> "PAPER_AUTHORIZATION_OR_HALT", pinned |-> "POLICY_MISMATCH",
   admitted |-> "ADMISSION", syntheticOnly |-> "SYNTHETIC_ONLY_OR_AUTHORIZATION",
   calendarBound |-> "CALENDAR_BINDING", registered |-> "STRATEGY_MUTATION"]

readiness(ev) == {ReadinessFailure[g] : g \in {h \in DOMAIN ReadinessFailure : ~ev[h]}}

----------------------------------------------------------------------------
\* What a step or close is refused for once the state has advanced, in order.
Expected(x, s) == x.history[s] + 1

ObservationFault(x, c) ==
  CASE DOMAIN c.bars # Sources -> "MANDATORY_CANDLE_MISSING"
    [] DOMAIN c.bars = Sources
       /\ \E s \in Sources : c.bars[s] # Expected(x, s) \/ SessionStart + c.bars[s] # c.at ->
         "INCOMPLETE_OR_NONCONTIGUOUS_CANDLE"
    [] DOMAIN c.bars = Sources
       /\ \A s \in Sources : c.bars[s] = Expected(x, s) /\ SessionStart + c.bars[s] = c.at ->
         IF c.wrong # {} THEN "DATASET_OBSERVATION_MISMATCH"
         ELSE IF DOMAIN c.opens # {} /\ (~DOMAIN c.opens \subseteq Sources \/ c.at = SessionEnd)
         THEN "UNEXPECTED_OPENING"
         ELSE IF \E s \in DOMAIN c.opens : c.opens[s] # market[s][c.bars[s] + 1].open
         THEN "OPENING_IDENTITY_OR_PRICE" ELSE "none"

ExitReference(bar, entry, last) ==
  LET stop == Pct(entry, 100 - Stop)  target == Pct(entry, 100 + Target)
  IN  CASE bar.low <= stop -> <<Min({stop, bar.open}), "STOP">>
        [] bar.low > stop /\ bar.high >= target -> <<target, "TARGET">>
        [] OTHER -> <<bar.close, IF last THEN "EOD" ELSE "NONE">>

\* The exit is asked for once; a thin candle leaves it pending.
AskExit(p, key, at, why) ==
  IF p.orders[key].state = "FILLED" THEN emit(p, key, "EXIT_PENDING", at, Why(why)) ELSE p

\* One completed candle: an exit of the position it closes (or a halt when the
\* candle is too thin to fill it), the mark, the daily guard and the history.
Sell(x, key, at, bar, o, reference, why) ==
  LET price == SlippedPrice("SELL", reference, Slip)
  IN  IF Pct(bar.volume, Participation) < o.quantity
      THEN haltSession(x, "EXIT_LIQUIDITY_UNVALUED", at)
      ELSE [x EXCEPT !.p = emit(@, key, "CLOSED", at,
              [price |-> price, why |-> why,
               fees |-> quote("SELL", price * o.quantity, o.entry * o.quantity)])]

Leave(x, key, at, bar, ref) ==
  IF ref[2] = "NONE" THEN x
  ELSE Sell([x EXCEPT !.p = AskExit(@, key, at, ref[2])], key, at, bar, x.p.orders[key], ref[1], ref[2])

CompleteBar(x, s, c) ==
  LET bar == market[s][c.bars[s]]
      key == x.p.positions[s]
  IN  [(IF s \notin DOMAIN x.p.positions THEN x
        ELSE Leave(x, key, c.at, bar, ExitReference(bar, x.p.orders[key].entry, c.at = SessionEnd)))
         EXCEPT !.p = guard(emit(@, "portfolio", "MARK", c.at,
                                 [symbol |-> s, price |-> bar.close]), c.at),
                !.history[s] = c.bars[s]]

\* The signals of the completed candles, proposed in request order and rejected
\* after a halt or the cutoff; then each accepted one is entered at the opening
\* just seen, or cancelled, and a missing opening before the cutoff halts.
Propose(x, i, c) ==
  LET key == <<i, c.at>>
      p1  == emit(x.p, key, "PROPOSED", c.at,
                  [symbol |-> Requests[i].symbol, strategy |-> Requests[i].strategy, signal |-> key])
      why == IF x.p.halted THEN "PAPER_HALT" ELSE IF c.at >= Cutoff THEN "ENTRY_CUTOFF" ELSE "NONE"
  IN  IF <<i, c.bars[Requests[i].symbol]>> \notin signals THEN x
      ELSE IF why # "NONE" THEN [x EXCEPT !.p = emit(p1, key, "REJECTED", c.at, Why(why))]
      ELSE [x EXCEPT !.p = [p1 EXCEPT !.consumed = @ \cup {key}]]

CancelEntry(x, key, c, opened) ==
  LET cancelled == [x EXCEPT !.p = emit(@, key, "CANCELLED", c.at,
                                        Why("CUTOFF_HALT_OR_MISSING_OPENING"))]
  IN  IF c.at < Cutoff /\ ~opened THEN haltSession(cancelled, "MISSING_ENTRY_OPENING", c.at)
      ELSE cancelled

EnterPending(x, i, c) ==
  LET key == <<i, c.at>>  r == Requests[i]  opened == r.symbol \in DOMAIN c.opens
  IN  IF key \notin DOMAIN x.p.orders \/ x.p.orders[key].state # "PROPOSED" THEN x
      ELSE IF c.at >= Cutoff \/ x.p.halted \/ ~opened THEN CancelEntry(x, key, c, opened)
      ELSE [x EXCEPT !.p = enter(@, key,
              [quantity |-> r.quantity, price |-> SlippedPrice("BUY", c.opens[r.symbol], Slip),
               volume |-> market[r.symbol][c.bars[r.symbol]].volume], c.at, {})]

\* The reconciliation of a close: complete only without halt and flat.
Report(x, at) ==
  [x EXCEPT !.p = emit(@, "portfolio", "SESSION_END", at, [complete |-> x.state = "COMPLETED"])]

Settle(x, at) ==
  IF x.p.halted \/ DOMAIN x.p.positions # {} \/ DOMAIN x.p.reservations # {}
  THEN haltSession(x, "EOD_INCOMPLETE", at) ELSE transition(x, "COMPLETED")

Reconcile(x, at) ==
  Report(Settle(transition(IF x.state = "PAPER_HALTED" THEN transition(x, "EOD_LIQUIDATION") ELSE x,
                           "RECONCILING"), at), at)

\* The work of an accepted step: exits and marks, the halt they may cause, the
\* signals, the entries.
FollowHalt(x) ==
  IF x.p.halted /\ x.state # "PAPER_HALTED" THEN transition(x, "PAPER_HALTED") ELSE x

Process(x, c) ==
  LET indexes == [i \in DOMAIN Requests |-> i]
      marked == FollowHalt(FoldLeft(LAMBDA y, s : CompleteBar(y, s, c), x, InOrder))
  IN  FoldLeft(LAMBDA y, i : EnterPending(y, i, c),
               FoldLeft(LAMBDA y, i : Propose(y, i, c), marked, indexes), indexes)

Finish(x, c) == IF c.kind = "close" THEN Reconcile(x, c.at) ELSE x

Observe(x, c, fault) ==
  IF fault # "none" THEN Raise(x, fault)
  ELSE Finish(Process(IF c.kind = "close" THEN transition(x, "EOD_LIQUIDATION") ELSE x, c), c)

Advanced(x, c) == Observe(x, c, ObservationFault(x, c))

StepOrClose(x, c) ==
  IF x.state \notin {"SESSION_OPEN", "RUNNING", "ENTRY_CUTOFF", "PAPER_HALTED"}
  THEN Raise(x, "SESSION_NOT_OPEN")
  ELSE IF ~(SessionStart < c.at /\ c.at <= SessionEnd) THEN Raise(x, "OUT_OF_SESSION")
  ELSE IF (c.kind = "close") # (c.at = SessionEnd) THEN Raise(x, "CLOSE_BOUNDARY")
  ELSE Advanced(IF c.at >= Cutoff /\ x.state \in {"SESSION_OPEN", "RUNNING"}
               THEN transition(x, "ENTRY_CUTOFF")
               ELSE IF x.state = "SESSION_OPEN" THEN transition(x, "RUNNING") ELSE x, c)

Dispatch(x, c) ==
  IF c.at <= x.clock THEN Raise(x, "CLOCK_ROLLBACK_OR_DUPLICATE")
  ELSE CASE c.kind = "preflight" ->
              IF DOMAIN c.bars # {} \/ DOMAIN c.opens # {} \/ c.at >= SessionStart
              THEN Raise(x, "INVALID_PREFLIGHT_TIME")
              ELSE LET y == transition(x, "PREMARKET_CHECK")
                   IN  IF y.raised # "none" THEN y
                       ELSE IF readiness(evidence) # {} THEN Raise(y, "READINESS")
                       ELSE transition(y, "READY")
         [] c.kind = "open" ->
              IF c.at # SessionStart \/ DOMAIN c.bars # {} \/ DOMAIN c.opens # {}
              THEN Raise(x, "INVALID_OPEN") ELSE transition(x, "SESSION_OPEN")
         [] OTHER -> StepOrClose(x, c)

\* _apply: a recovered command passes through RECOVERY_PENDING and back; any
\* ValueError of the command halts the session; the clock never goes back.
Applied(x, now) ==
  [(IF x.raised = "none" THEN x
    ELSE haltSession([x EXCEPT !.raised = "none"], x.raised, now))
     EXCEPT !.rejection = x.raised, !.clock = now]

\* Mutant of apply: a recovered session resumes as running, whatever it was.
applyRecoversRunning(x, c, recovered) ==
  Applied(Dispatch(IF recovered THEN [x EXCEPT !.state = "RUNNING"] ELSE x, c), Max({c.at, x.clock}))

apply(x, c, recovered) ==
  Applied(Dispatch(IF recovered THEN transition(transition(x, "RECOVERY_PENDING"), x.state) ELSE x, c),
          Max({c.at, x.clock}))

----------------------------------------------------------------------------
(* run(): the attempt and its journal.                                       *)

Quiet(kind, at) == [kind |-> kind, at |-> at, bars |-> << >>, wrong |-> {}, opens |-> << >>]

Bars(n) == [s \in Sources |-> n]
Opens(n) == [s \in Sources |-> market[s][n].open]

\* The command a feed delivers for each instant, and what may be wrong with it.
Regular(at) ==
  IF at < SessionStart THEN Quiet("preflight", at)
  ELSE IF at = SessionStart THEN Quiet("open", at)
  ELSE [kind |-> IF at = SessionEnd THEN "close" ELSE "step", at |-> at,
        bars |-> Bars(at - SessionStart), wrong |-> {},
        opens |-> IF at = SessionEnd THEN << >> ELSE Opens(at - SessionStart + 1)]

Malformed(c, fault) ==
  CASE fault = "late" -> [c EXCEPT !.at = @ - 1]
    [] fault = "missing" -> [c EXCEPT !.bars = << >>]
    [] fault = "stale" -> [c EXCEPT !.bars = [s \in DOMAIN @ |-> @[s] - 1]]
    [] fault = "foreign" -> [c EXCEPT !.wrong = DOMAIN c.bars]
    [] fault = "unopened" -> [c EXCEPT !.opens = << >>]
    [] fault = "price" -> [c EXCEPT !.opens = [s \in DOMAIN @ |-> @[s] + 1]]
    [] fault = "none" -> c

Row(c, recovered, x) ==
  [command |-> c, recovered |-> recovered, state |-> x.state, rejection |-> x.rejection,
   cash |-> x.p.cash, halted |-> x.p.halted, events |-> Len(x.p.events)]

Init ==
  /\ market \in Markets /\ signals \in SignalSets /\ evidence \in Readinesses
  /\ e = Engine /\ journal = <<>> /\ phase = "running" /\ fresh = FALSE /\ kills = 0 /\ faults = 0

\* One command applied and its row published.  A recovered command finds a halted
\* session closed to recovery, and any command finds a completed one terminal:
\* both raise out of run().
Publish(c, x) ==
  e' = x /\ journal' = Append(journal, Row(c, fresh, x)) /\ fresh' = FALSE

Command(fault, at) ==
  LET c == Malformed(Regular(at), fault)
  IN  /\ phase = "running" /\ Len(journal) < MaxCommands
      /\ faults' = faults + (IF fault = "none" THEN 0 ELSE 1) /\ faults' <= MaxFaults
      /\ IF e.state \in Terminal \/ (fresh /\ e.state = "PAPER_HALTED")
         THEN phase' = "rejected" /\ UNCHANGED <<e, journal, fresh>>
         ELSE Publish(c, apply(e, c, fresh)) /\ UNCHANGED phase
      /\ UNCHANGED <<market, signals, evidence, kills>>

\* The process is killed after some command; the engine is gone, the journal stays.
Kill ==
  /\ phase = "running" /\ kills < MaxKills
  /\ phase' = "down" /\ kills' = kills + 1 /\ e' = Engine
  /\ UNCHANGED <<market, signals, evidence, journal, fresh, faults>>

\* An explicit resume replays every row on disk, compares it, and marks the next
\* command recovered.
Replayed == FoldLeft(LAMBDA x, r : apply(x, r.command, r.recovered), Engine, journal)

Resume ==
  /\ phase = "down"
  /\ phase' = "running" /\ e' = Replayed /\ fresh' = (journal # <<>>)
  /\ UNCHANGED <<market, signals, evidence, journal, kills, faults>>

\* The commands are used up: a terminal or halted session is reported and closed.
End ==
  /\ phase = "running" /\ e.state \in {"COMPLETED", "PAPER_HALTED", "FAILED"}
  /\ phase' = "ended"
  /\ UNCHANGED <<market, signals, evidence, e, journal, fresh, kills, faults>>

Next ==
  \/ \E fault \in Faults : \E at \in {IF e.clock < SessionStart - 1 THEN SessionStart - 1
                                      ELSE e.clock + 1} :
       at <= SessionEnd + 1 /\ Command(fault, Min({at, SessionEnd}))
  \/ Kill \/ Resume \/ End

Spec == Init /\ [][Next]_vars

----------------------------------------------------------------------------
TypeOK ==
  /\ e.state \in DOMAIN SessionTransitions /\ e.clock \in -1 .. SessionEnd
  /\ e.raised = "none" /\ e.p.cash \in Nat
  /\ \A s \in Sources : e.history[s] \in 0 .. SessionEnd - SessionStart
  /\ phase \in {"running", "down", "ended", "rejected"}

\* No command, whatever it delivers, makes the portfolio raise, nor the session
\* leave its transitions while it handles an error.
SessionNeverFaults == e.p.fault = "none"

\* A session that halted in some command never runs again: later rows are halted
\* too, and nothing is filled any more.
HaltIsFinal ==
  \A i, j \in DOMAIN journal : i <= j /\ journal[i].state = "PAPER_HALTED" =>
    /\ journal[j].state = "PAPER_HALTED"
    /\ \A k \in journal[i].events + 1 .. Len(e.p.events) : e.p.events[k].state # "FILLED"

\* A completed session processed every candle of every symbol, in order, holds
\* nothing, and settled every order.
CompletedIsWhole ==
  e.state = "COMPLETED" =>
    /\ \A s \in Sources : e.history[s] = SessionEnd - SessionStart
    /\ ~e.p.halted /\ DOMAIN e.p.positions = {} /\ e.p.cash = Capital + e.p.realized
    /\ \A key \in DOMAIN e.p.orders : e.p.orders[key].state \in {"CLOSED", "REJECTED", "CANCELLED"}

\* Entries happen before the cutoff, in a running session, at the opening that
\* follows the signal's candle, at a price no better than it.
EntriesAreCausal ==
  \A i \in {n \in DOMAIN e.p.events : e.p.events[n].state = "FILLED"} :
    LET v == e.p.events[i]
        o == e.p.orders[v.key]
    IN  /\ v.at < Cutoff /\ v.at = o.signal_at
        /\ v.at < SessionEnd
        /\ o.entry >= market[o.symbol][v.at - SessionStart + 1].open

\* What a killed and recovered session journals is what it would have journalled
\* had it not been killed.
RecoveryIsTransparent ==
  LET straight == FoldLeft(LAMBDA x, r : apply(x, r.command, FALSE), Engine, journal)
  IN  journal # <<>> =>
        Row(Last(journal).command, FALSE, straight) = [Last(journal) EXCEPT !.recovered = FALSE]

=============================================================================
