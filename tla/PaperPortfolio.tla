--------------------------- MODULE PaperPortfolio ---------------------------
(***************************************************************************)
(* phase1418/portfolio.py: the single-writer portfolio over the paper runs *)
(* of several strategies, and the directory it publishes to.               *)
(*                                                                         *)
(* An attempt binds its inputs in portfolio-plan.json, replays the merged  *)
(* candidate events through the Coordinator in memory, then publishes the  *)
(* journal event by event, the reports and the summary.  The process may   *)
(* be killed anywhere, also between the two halves of publish() (write a   *)
(* .pending file, rename it), and may be started again on the directory    *)
(* with the same control or another one.                                   *)
(***************************************************************************)
EXTENDS PaperAccount

CONSTANTS
  Inputs,              \* the request lists an operator may submit
  Controls,            \* the controls: [halt, deliveryEnd, cancel, gaps]
  MaxAttempts

PortfolioAssumption == MaxAttempts \in Nat \ {0}

VARIABLES
  input, control,      \* of the current attempt
  phase,               \* "down", "replaying", "publishing", "done", "refused"
  todo,                \* actions not yet replayed
  c,                   \* the Coordinator
  disk,                \* plan, journal, reports, summary, pending
  attempts

vars == <<input, control, phase, todo, c, disk, attempts>>

NoPlan == [control |-> "none"]

----------------------------------------------------------------------------
\* The merged action list: the requests' audit events, one mark per symbol and
\* bar, the session ends and the declared loss of the feed.
Kind == [SIGNAL_RECEIVED |-> "propose", PAPER_FILLED |-> "enter",
         PAPER_POSITION_CLOSED |-> "exit", PAPER_ORDER_REJECTED |-> "reject",
         PAPER_HALTED |-> "halt"]

Priority == [exit |-> 0, halt |-> 1, mark |-> 2, propose |-> 3, enter |-> 4, reject |-> 5, end |-> 6]

Rank(s) == CHOOSE i \in DOMAIN Symbols : Symbols[i] = s

Delivered(ctl, at) == at <= ctl.deliveryEnd

FromTranscript(run, i, r, ctl) ==
  {[at |-> run[j].at, kind |-> Kind[run[j].state], rank |-> Rank(r.symbol), strategy |-> r.strategy,
    signal |-> run[j].signal, index |-> i, seq |-> j, price |-> run[j].price,
    quantity |-> run[j].quantity, why |-> run[j].why, volume |-> run[j].volume] :
     j \in {n \in DOMAIN run : run[n].state \in DOMAIN Kind /\ Delivered(ctl, run[n].at)}}

Actions(in, ctl) ==
  LET fromRequest(i) == FromTranscript(simulate(in.requests[i]).events, i, in.requests[i], ctl)
      base(at, kind) ==
        [at |-> at, kind |-> kind, rank |-> 0, strategy |-> "", signal |-> <<"", "", 0>>, index |-> 1,
         seq |-> 0, price |-> 0, quantity |-> 0, why |-> "", volume |-> 0]
      closes == {[base(m.at, "mark") EXCEPT !.rank = Rank(m.symbol), !.price = m.price] :
                   m \in {x \in in.closes : Delivered(ctl, x.at)}}
      ends == {base(at, "end") : at \in in.ends}
      lost == {[base(Max({in.start, Min({ctl.deliveryEnd + SignalLife, Max(in.ends)})}), "halt")
                  EXCEPT !.why = "MANDATORY_DELIVERY_MISSING"] :
                 x \in {y \in {1} : ctl.deliveryEnd < Max(in.ends)}}
  IN  UNION {fromRequest(i) : i \in DOMAIN in.requests} \cup closes \cup ends \cup lost

\* sorted(actions): time, priority, canonical symbol, strategy, signal, request.
Before(x, y) ==
  \/ x.at < y.at
  \/ x.at = y.at /\ Priority[x.kind] < Priority[y.kind]
  \/ x.at = y.at /\ Priority[x.kind] = Priority[y.kind]
     /\ x.rank * 100 + x.index * 10 + x.seq < y.rank * 100 + y.index * 10 + y.seq

\* One action of the loop: guard, then the handler of its kind.
RejectAgain(k, key, a) ==
  IF k.orders[key].state = "PROPOSED" THEN emit(k, key, "REJECTED", a.at, Why(a.why)) ELSE k

Guarded(k, a, in, ctl) ==
  LET key == <<a.index, a.signal>>
      r   == in.requests[a.index]
      proposed == emit(k, key, "PROPOSED", a.at,
                       [symbol |-> r.symbol, strategy |-> r.strategy, signal |-> a.signal])
  IN  CASE a.kind = "propose" ->
             IF a.signal \in k.consumed
             THEN emit(proposed, key, "REJECTED", a.at, Why("DUPLICATE_SIGNAL"))
             ELSE [proposed EXCEPT !.consumed = @ \cup {a.signal}]
        [] a.kind = "enter" -> enter(k, key, a, a.at, ctl.cancel)
        [] a.kind = "reject" ->
             RejectAgain(IF a.why = "ADMISSION" /\ admission(r) \cap
                              {"PAPER_DATA_QUALITY", "PAPER_BINDING_CONFLICT"} # {}
                         THEN halt(k, a.at, a.why) ELSE k, key, a)
        [] a.kind = "halt" -> halt(k, a.at, a.why)
        [] a.kind = "mark" ->
             guard(emit(k, "portfolio", "MARK", a.at,
                        [symbol |-> Symbols[a.rank], price |-> a.price]), a.at)
        [] a.kind = "exit" -> exit(k, key, a, a.at)
        [] a.kind = "end" -> sessionEnd(k, a.at)

Handle(k, a, in, ctl) == Guarded(guard(k, a.at), a, in, ctl)

----------------------------------------------------------------------------
(* The attempt and its directory.                                           *)

Empty == [plan |-> NoPlan, journal |-> <<>>, reports |-> FALSE, summary |-> FALSE,
          pending |-> FALSE]

Init ==
  /\ input \in Inputs /\ control \in Controls
  /\ phase = "down" /\ todo = {} /\ c = Coordinator /\ disk = Empty /\ attempts = 0

\* _run up to the plan: an existing plan must be this binding.  A run with policy
\* gaps, or with paper_halt set, halts at its start and replays nothing.
PlanAccepted(ctl) == ~disk.pending /\ disk.plan \in {NoPlan, ctl}

Start ==
  /\ phase = "down" /\ attempts < MaxAttempts
  /\ attempts' = attempts + 1
  /\ \E ctl \in Controls :
       /\ control' = ctl
       /\ IF ~PlanAccepted(ctl)
          THEN phase' = "refused" /\ UNCHANGED <<todo, c, disk>>
          ELSE /\ disk' = IF disk.plan = NoPlan THEN [disk EXCEPT !.plan = ctl] ELSE disk
               /\ phase' = "replaying"
               /\ IF ctl.gaps \/ ctl.halt
                  THEN /\ c' = halt(Coordinator, input.start, "POLICY_OR_EXPLICIT_HALT")
                       /\ todo' = {}
                  ELSE c' = Coordinator /\ todo' = Actions(input, ctl)
  /\ UNCHANGED input

Replay ==
  /\ phase = "replaying" /\ todo # {} /\ c.fault = "none"
  /\ \E a \in todo :
       /\ \A b \in todo \ {a} : Before(a, b)
       /\ c' = Handle(c, a, input, control)
       /\ todo' = todo \ {a}
  /\ UNCHANGED <<input, control, phase, disk, attempts>>

\* The journal on disk must be a prefix of the replay, and complete if the run
\* was completed.
JournalAccepted ==
  /\ Len(disk.journal) <= Len(c.events)
  /\ \A i \in DOMAIN disk.journal : disk.journal[i] = c.events[i]
  /\ disk.summary => Len(disk.journal) = Len(c.events) /\ disk.reports

Verify ==
  /\ phase = "replaying" /\ (todo = {} \/ c.fault # "none")
  /\ phase' = IF c.fault = "none" /\ JournalAccepted THEN "publishing" ELSE "refused"
  /\ UNCHANGED <<input, control, todo, c, disk, attempts>>

\* publish() of the next artifact: written aside first, visible by the rename.
WritePending ==
  /\ phase = "publishing" /\ ~disk.summary /\ ~disk.pending
  /\ disk' = [disk EXCEPT !.pending = TRUE]
  /\ UNCHANGED <<input, control, phase, todo, c, attempts>>

Rename ==
  /\ phase = "publishing" /\ disk.pending
  /\ disk' = CASE Len(disk.journal) < Len(c.events) ->
                    [disk EXCEPT !.pending = FALSE,
                       !.journal = Append(@, c.events[Len(disk.journal) + 1])]
               [] Len(disk.journal) = Len(c.events) /\ ~disk.reports ->
                    [disk EXCEPT !.pending = FALSE, !.reports = TRUE]
               [] OTHER -> [disk EXCEPT !.pending = FALSE, !.summary = TRUE]
  /\ UNCHANGED <<input, control, phase, todo, c, attempts>>

Complete ==
  /\ phase = "publishing" /\ disk.summary
  /\ phase' = "done"
  /\ UNCHANGED <<input, control, todo, c, disk, attempts>>

\* The process ends, by a kill at any point or because it is done; memory is gone.
Crash ==
  /\ phase # "down" /\ attempts < MaxAttempts
  /\ phase' = "down" /\ c' = Coordinator /\ todo' = {}
  /\ UNCHANGED <<input, control, disk, attempts>>

Idle == phase \in {"done", "refused"} /\ attempts = MaxAttempts /\ UNCHANGED vars

Next == Start \/ Replay \/ Verify \/ WritePending \/ Rename \/ Complete \/ Crash \/ Idle

Spec == Init /\ [][Next]_vars

----------------------------------------------------------------------------
Filled(k) == {i \in DOMAIN k.events : k.events[i].state = "FILLED"}

TypeOK ==
  /\ phase \in {"down", "replaying", "publishing", "done", "refused"}
  /\ c.cash \in Nat /\ c.halted \in BOOLEAN /\ attempts \in 0 .. MaxAttempts
  /\ DOMAIN c.positions \subseteq Range(Symbols)
  /\ \A key \in DOMAIN c.orders : c.orders[key].quantity \in 0 .. MaxQuantity
  /\ disk.summary \in BOOLEAN /\ disk.plan \in Controls \cup {NoPlan}

\* The Coordinator never raises: with several strategies on one symbol, marks,
\* cancellations, halts and ends of session interleaved, every reservation is
\* released or spent in full, the account balances after every event and no
\* order leaves its state machine.
NoFault == c.fault = "none"

\* Each request's transcript is one Audit.replay accepts.
TranscriptsReplay ==
  attempts = 0 => \A i \in DOMAIN input.requests : ReplayAccepts(simulate(input.requests[i]).events)

\* After the portfolio halted, for whatever reason, no order is filled; and it
\* halts once.
NoEntryAfterHalt ==
  /\ \A i \in Filled(c) : \A j \in 1 .. i - 1 : ~c.events[j].halted
  /\ Cardinality({i \in DOMAIN c.events : c.events[i].state = "PAPER_HALTED"}) <= 1

\* Once the day's equity has fallen by the daily limit, nothing is filled for
\* the rest of that day, even if the prices recover.
DailyLossStopsEntries ==
  LET dayOpen(i) == LET before == {j \in 1 .. i : Day(c.events[j].at) < Day(c.events[i].at)}
                    IN  IF before = {} THEN Capital ELSE c.events[Max(before)].equity
  IN  \A i \in Filled(c) : \A j \in 1 .. i - 1 :
        Day(c.events[j].at) = Day(c.events[i].at) =>
          dayOpen(j) - c.events[j].equity < DailyLoss

\* At the moment of each entry the holdings of the new position's sector, marked
\* to market and the entry included, respect the sector limit.
SectorWithinLimit ==
  \A s \in DOMAIN c'.positions \ DOMAIN c.positions :
    phase = "replaying" => Exposure(c', SameSector(s)) <= SectorExposure

\* A slot freed by an exit is available to the entry of the same instant: no
\* entry is refused for the position limit while an exit of that instant waits.
ExitsComeFirst ==
  \A i \in DOMAIN c.events :
    c.events[i].state = "REJECTED" /\ c.events[i].details.why = "ONE_POSITION_PER_SYMBOL" =>
      ~\E a \in todo : a.kind = "exit" /\ a.at = c.events[i].at

\* Each of the published profit tables adds up to the account's realised result.
ReportsReconcile ==
  \A table \in DOMAIN reports(c) : Total(reports(c)[table]) = c.realized

\* The journal on disk is the replay of the plan on disk, whichever attempts
\* wrote it; a summary stands only over a complete journal and its reports.
JournalFollowsPlan ==
  /\ disk.journal # <<>> => disk.plan # NoPlan
  /\ phase \in {"publishing", "done"} =>
       /\ disk.plan = control
       /\ IsPrefix(disk.journal, c.events)
       /\ disk.summary => disk.reports /\ Len(disk.journal) = Len(c.events)

\* A session end marked complete holds no position and no reservation, and a
\* session never ends with an order still in flight.
SessionEndsSettled ==
  /\ \A i \in DOMAIN c.events :
       c.events[i].state = "SESSION_END" /\ c.events[i].details.complete => c.events[i].open = 0
  /\ c.events # <<>> /\ Last(c.events).state = "SESSION_END" =>
       \A key \in DOMAIN c.orders :
         c.orders[key].state \in {"FILLED", "CLOSED", "REJECTED", "CANCELLED"}

\* A restart is refused only for a reason on disk: a publish was cut in half
\* (its .pending file fails closed), or the directory was bound to another
\* control.  Otherwise a killed run can always be resumed.
OnlyRealRefusals == phase = "refused" => disk.pending \/ disk.plan # control
=============================================================================
