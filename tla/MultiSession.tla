---------------------------- MODULE MultiSession ----------------------------
(***************************************************************************)
(* phase1420/multi.py: consecutive paper sessions of one calendar.  Each   *)
(* session starts from the closing state of the one before, its outcome    *)
(* and then its chained record are published, and a halted or missing      *)
(* session ends the run.  An interrupted run is resumed explicitly with    *)
(* the head the operator holds; alerts of a finished run are acknowledged  *)
(* in a journal of their own.                                              *)
(*                                                                         *)
(* A day is the sequence of its trades; a trade is [marks, net]: the       *)
(* unrealised results at which the portfolio is marked while it is open,   *)
(* and the result it closes with.  The trades themselves are those of      *)
(* PaperSession; here they are the inputs of the cumulative guard.         *)
(***************************************************************************)
EXTENDS Integers, Sequences, FiniteSets, FiniteSetsExt, SequencesExt

CONSTANTS
  Capital, DailyLoss,
  CumulativeDrawdown,  \* Limits.cumulative_drawdown
  Plans,               \* possible inputs: a function from trading date to a day
  Calendar,            \* the expected trading dates, in order
  MaxTries, Times

Trades == [marks : Seq(Int), net : Int]

ASSUME MultiAssumption ==
  /\ Capital \in Nat \ {0} /\ DailyLoss \in Nat \ {0} /\ CumulativeDrawdown \in Nat \ {0}
  /\ Calendar \in Seq(Range(Calendar))
  /\ \A p \in Plans : DOMAIN p \subseteq Range(Calendar) /\ \A d \in DOMAIN p : p[d] \in Seq(Trades)

VARIABLES
  plan,                \* the days submitted
  run_dir,             \* plan.json, outcomes, records, summary, pending, lock, acks
  stage,               \* "down", "session", "record", "done", "refused"
  carried,             \* closing state of the last accepted session
  accepted,            \* sessions this attempt has accepted
  tries

runVars == <<plan, run_dir, stage, carried, accepted, tries>>

Opening == [equity |-> Capital, net |-> 0, high |-> Capital, drawdown |-> 0, halted |-> FALSE]

\* GuardedPortfolio.guard: after the daily guard, the running peak and the
\* deepest fall from it across sessions; the limit halts.
guard(a, equity) ==
  LET high == Max({a.high, equity})
  IN  [a EXCEPT !.equity = equity, !.high = high,
                !.drawdown = Max({a.drawdown, high - equity}),
                !.halted = \/ a.halted
                           \/ a.dayOpen - equity >= DailyLoss
                           \/ high - equity >= CumulativeDrawdown]

\* The account after each mark of an open trade.
AfterMarks(a, marks) ==
  LET after[n \in 0 .. Len(marks)] ==
        IF n = 0 THEN a ELSE guard(after[n - 1], a.cash + marks[n])
  IN  after

\* A trade is entered only while the portfolio is not halted, and then runs to
\* its close, marked on the way.
Traded(a, t) ==
  IF a.halted THEN a
  ELSE LET closed == guard(AfterMarks(a, t.marks)[Len(t.marks)], a.cash + t.net)
       IN  [closed EXCEPT !.cash = a.cash + t.net, !.trades = @ + 1]

\* The account after each trade of a day.
AfterTrades(a, day) ==
  LET after[n \in 0 .. Len(day)] == IF n = 0 THEN a ELSE Traded(after[n - 1], day[n])
  IN  after

DayStart(start) ==
  [equity |-> start.equity, cash |-> start.equity, trades |-> 0, dayOpen |-> start.equity,
   high |-> start.high, drawdown |-> start.drawdown, halted |-> FALSE]

\* execute(): the session of one day from the carried state.
execute(day, start) ==
  LET a == AfterTrades(DayStart(start), day)[Len(day)]
  IN  [equity |-> a.cash, net |-> start.net + (a.cash - start.equity), high |-> a.high,
       drawdown |-> a.drawdown, halted |-> a.halted]

\* The outcome of the i-th expected date: a date without a day is a missing
\* session, which halts without touching the account.
Outcome(i, start) ==
  LET d == Calendar[i]
  IN  [start |-> start, date |-> d,
       end |-> IF d \in DOMAIN plan THEN execute(plan[d], start)
               ELSE [start EXCEPT !.halted = TRUE]]

SessionComplete(o) == o.date \in DOMAIN plan /\ ~o.end.halted

\* The alerts of a session: its start if it had a day, and how it ended.
Alerts(o) ==
  (IF o.date \in DOMAIN plan THEN {<<o.date, "SESSION_STARTED">>} ELSE {})
  \cup {<<o.date, IF SessionComplete(o) THEN "SESSION_COMPLETED"
                  ELSE IF o.date \notin DOMAIN plan THEN "SESSION_MISSING"
                  ELSE "PAPER_HALT_TRIGGERED">>}

\* A record binds the outcome to the record before it: previous stands for its
\* hash, the length of the chain.
Record(i, o) == [sequence |-> i, previous |-> i - 1, outcome |-> o, alerts |-> Alerts(o)]

Empty == [bound |-> FALSE, outcomes |-> <<>>, records |-> <<>>, summary |-> <<>>,
          pending |-> FALSE, lock |-> FALSE, acks |-> <<>>]

RunInit ==
  /\ plan \in Plans /\ run_dir = Empty /\ stage = "down"
  /\ carried = Opening /\ accepted = <<>> /\ tries = 0

\* records(): the chain read back from disk.
Chained(rows) == \A i \in DOMAIN rows : rows[i].sequence = i /\ rows[i].previous = i - 1

\* _run up to the lock: what refuses the attempt before it reads anything.
AttemptFault(resume, head) ==
  CASE run_dir.summary # <<>> -> "TERMINAL_RUN_NO_AUTOMATIC_RESUME"
    [] run_dir.summary = <<>> /\ run_dir.bound /\ ~resume -> "EXPLICIT_RECOVERY_REQUIRED"
    [] run_dir.summary = <<>> /\ resume /\ head # Len(run_dir.records) -> "EXTERNAL_HEAD_MISMATCH"
    [] OTHER -> IF run_dir.lock \/ run_dir.pending THEN "AMBIGUOUS_OWNER" ELSE "none"

BeginRun(resume, head) ==
  /\ stage = "down" /\ tries < MaxTries
  /\ tries' = tries + 1
  /\ IF AttemptFault(resume, head) # "none"
     THEN stage' = "refused" /\ UNCHANGED <<run_dir, carried, accepted>>
     ELSE /\ run_dir' = [run_dir EXCEPT !.bound = TRUE, !.lock = TRUE]
          /\ stage' = "session" /\ carried' = Opening /\ accepted' = <<>>
  /\ UNCHANGED plan

Next1 == Len(accepted) + 1

\* The loop ends with the calendar or with a halt.
RunOver == Next1 > Len(Calendar) \/ carried.halted

\* Mutant of NextSession: an outcome without its record is thrown away and redone.
SessionRedone ==
  /\ stage = "session" /\ Next1 <= Len(Calendar) /\ ~carried.halted
  /\ IF Next1 <= Len(run_dir.outcomes) /\ Next1 > Len(run_dir.records)
     THEN run_dir' = [run_dir EXCEPT !.outcomes = SubSeq(@, 1, Next1 - 1)] /\ UNCHANGED stage
     ELSE /\ stage' = "record"
          /\ run_dir' = IF Next1 <= Len(run_dir.outcomes) THEN run_dir
                        ELSE [run_dir EXCEPT !.outcomes = Append(@, Outcome(Next1, carried))]
  /\ UNCHANGED <<plan, carried, accepted, tries>>

\* The next session: an outcome on disk must carry this state forward and is not
\* executed again; otherwise it is executed and published.
NextSession ==
  /\ stage = "session" /\ ~RunOver
  /\ IF Next1 <= Len(run_dir.outcomes)
     THEN IF run_dir.outcomes[Next1].start = carried
          THEN stage' = "record" /\ UNCHANGED run_dir
          ELSE stage' = "refused" /\ run_dir' = [run_dir EXCEPT !.lock = FALSE]
     ELSE /\ run_dir' = [run_dir EXCEPT !.outcomes = Append(@, Outcome(Next1, carried))]
          /\ stage' = "record"
  /\ UNCHANGED <<plan, carried, accepted, tries>>

\* Mutant of PublishRecord: the next session starts with the initial capital.
PublishRecordFresh ==
  /\ stage = "record"
  /\ run_dir' = IF Next1 <= Len(run_dir.records) THEN run_dir
                ELSE [run_dir EXCEPT !.records = Append(@, Record(Next1, run_dir.outcomes[Next1]))]
  /\ carried' = Opening /\ accepted' = Append(accepted, run_dir.outcomes[Next1])
  /\ stage' = "session" /\ UNCHANGED <<plan, tries>>

\* Its record: compared with the one on disk, or published; then the state is
\* carried forward.
PublishRecord ==
  LET o == run_dir.outcomes[Next1]
  IN  /\ stage = "record"
      /\ IF Next1 <= Len(run_dir.records)
         THEN /\ Chained(run_dir.records) /\ run_dir.records[Next1] = Record(Next1, o)
              /\ UNCHANGED run_dir
         ELSE run_dir' = [run_dir EXCEPT !.records = Append(@, Record(Next1, o))]
      /\ carried' = o.end /\ accepted' = Append(accepted, o) /\ stage' = "session"
      /\ UNCHANGED <<plan, tries>>

\* The reports and the summary are published and the lock is released.
report_views(sessions, alerts) ==
  [equity |-> [i \in DOMAIN sessions |-> sessions[i].end.equity],
   drawdown |-> [i \in DOMAIN sessions |-> sessions[i].end.drawdown],
   halts |-> {s.date : s \in {x \in Range(sessions) : x.end.halted}},
   missing |-> {a \in alerts : a[2] = "SESSION_MISSING"}]

Summary ==
  LET alerts == UNION {Alerts(accepted[i]) : i \in DOMAIN accepted}
  IN  [complete |-> ~carried.halted /\ Len(accepted) = Len(Calendar), state |-> carried,
       sessions |-> accepted, alerts |-> alerts, views |-> report_views(accepted, alerts)]

Report ==
  /\ stage = "session" /\ RunOver
  /\ run_dir' = [run_dir EXCEPT !.summary = Summary, !.lock = FALSE]
  /\ stage' = "done"
  /\ UNCHANGED <<plan, carried, accepted, tries>>

\* A kill leaves the lock, and may leave a half-written file; the operator
\* removes the lock of a dead process.
KillRun ==
  /\ stage \in {"session", "record"}
  /\ \E half \in BOOLEAN : run_dir' = [run_dir EXCEPT !.pending = half]
  /\ stage' = "down" /\ carried' = Opening /\ accepted' = <<>>
  /\ UNCHANGED <<plan, tries>>

RemoveLock ==
  /\ stage = "down" /\ run_dir.lock
  /\ run_dir' = [run_dir EXCEPT !.lock = FALSE]
  /\ UNCHANGED <<plan, stage, carried, accepted, tries>>

Retry ==
  /\ stage \in {"refused", "done"} /\ tries < MaxTries /\ stage' = "down"
  /\ UNCHANGED <<plan, run_dir, carried, accepted, tries>>

\* acknowledge(): one acknowledgement per alert; the same one again is returned,
\* a different one is a conflict, and neither changes anything.
AcknowledgeFault(alert, at) ==
  \/ alert \notin run_dir.summary.alerts
  \/ \E i \in DOMAIN run_dir.acks : run_dir.acks[i].alert = alert

\* acknowledgments(): the journal read back, chained, of known alerts.
acknowledgments ==
  \A i \in DOMAIN run_dir.acks :
    run_dir.acks[i].previous = i - 1 /\ run_dir.acks[i].alert \in run_dir.summary.alerts

acknowledge(alert, at) ==
  /\ run_dir.summary # <<>> /\ acknowledgments /\ ~AcknowledgeFault(alert, at)
  /\ run_dir' = [run_dir EXCEPT !.acks =
                                Append(@, [alert |-> alert, at |-> at, previous |-> Len(@)])]
  /\ UNCHANGED <<plan, stage, carried, accepted, tries>>

\* alert_view(): the acknowledgement each alert shows.
alert_view == [a \in run_dir.summary.alerts |->
                 Cardinality({i \in DOMAIN run_dir.acks : run_dir.acks[i].alert = a})]

RunNext ==
  \/ \E resume \in BOOLEAN, head \in 0 .. Len(Calendar) : BeginRun(resume, head)
  \/ NextSession \/ PublishRecord \/ Report \/ KillRun \/ RemoveLock \/ Retry
  \/ \E d \in Range(Calendar), code \in {"SESSION_COMPLETED", "PAPER_HALT_TRIGGERED"} :
       \E at \in Times : acknowledge(<<d, code>>, at)

RunSpec == RunInit /\ [][RunNext]_runVars

----------------------------------------------------------------------------
RunTypeOK ==
  /\ stage \in {"down", "session", "record", "done", "refused"}
  /\ carried.drawdown \in Nat /\ carried.high >= carried.equity
  /\ Len(run_dir.records) \in {Len(run_dir.outcomes), Len(run_dir.outcomes) - 1}
  /\ Len(accepted) <= Len(run_dir.records)

\* The chain on disk is one account: every session opens with the state the one
\* before closed with, whichever attempts executed them, and its total result is
\* the change of the equity.
OneAccount ==
  /\ \A i \in DOMAIN run_dir.outcomes :
       run_dir.outcomes[i] = Outcome(i, IF i = 1 THEN Opening ELSE run_dir.outcomes[i - 1].end)
  /\ \A i \in DOMAIN run_dir.outcomes :
       run_dir.outcomes[i].end.equity = Capital + run_dir.outcomes[i].end.net

\* No session follows one that halted or was missing.
HaltEndsRun ==
  \A i \in DOMAIN run_dir.outcomes : i < Len(run_dir.outcomes) => ~run_dir.outcomes[i].end.halted

\* The cumulative limit spans the sessions: a fall of that size from any
\* equity of the days so far halts, so the next session never starts in it.
CumulativeLimitHolds ==
  \A i \in DOMAIN run_dir.outcomes :
    \A e \in {Capital} \cup {run_dir.outcomes[j].end.equity : j \in 1 .. i} :
      e - run_dir.outcomes[i].end.equity >= CumulativeDrawdown => run_dir.outcomes[i].end.halted

\* A recorded session is never recorded again in another way: what is on disk
\* only grows, and the summary is written once, over all of it.
HistoryGrows ==
  /\ IsPrefix(run_dir.outcomes, run_dir'.outcomes) /\ IsPrefix(run_dir.records, run_dir'.records)
  /\ run_dir.summary # <<>> => run_dir'.summary = run_dir.summary

\* A run continues past an interruption only for an operator who asked to resume
\* and holds the head of the chain as it is: no attempt writes behind a record he
\* does not know of.
ResumeKnowsHead ==
  \A resume \in BOOLEAN, head \in 0 .. Len(Calendar) :
    BeginRun(resume, head) /\ stage' = "session" /\ run_dir.bound =>
      resume /\ head = Len(run_dir.records)

\* Each alert of the summary is acknowledged at most once.
AcknowledgedOnce == run_dir.summary # <<>> => \A a \in DOMAIN alert_view : alert_view[a] <= 1

\* A finished run is told the same way by its parts: it is complete exactly when
\* no session halted and none is missing, and every date of the calendar is
\* either reported or comes after the session that ended the run.
SummaryAgrees ==
  run_dir.summary # <<>> =>
    LET v == run_dir.summary.views
    IN  /\ run_dir.summary.complete <=> v.halts = {} /\ Len(v.equity) = Len(Calendar)
        /\ v.missing # {} => Cardinality(v.halts) = 1 /\ ~run_dir.summary.complete
        /\ Len(v.equity) < Len(Calendar) => Last(run_dir.summary.sessions).end.halted
        /\ \A i \in DOMAIN v.drawdown : i > 1 => v.drawdown[i] >= v.drawdown[i - 1]

\* The sessions of a run are one account whichever attempts executed them: none follows a halt,
\* the cumulative limit spans them, alerts are acknowledged once and the summary agrees with
\* its parts.
RunSound ==
  /\ RunTypeOK /\ OneAccount /\ HaltEndsRun /\ CumulativeLimitHolds /\ AcknowledgedOnce
  /\ SummaryAgrees

=============================================================================
