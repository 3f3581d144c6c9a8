--------------------------- MODULE ResearchEvaluation ---------------------------
(***************************************************************************)
(* The evaluation of one strategy on one instrument                        *)
(* (phase1415/research.py): the window of six or twelve months before a    *)
(* midnight, its split into training, validation and a holdout of three    *)
(* folds, the gates on the data, and the summaries of each part.           *)
(*                                                                         *)
(* Dates are civil dates; instants count quarters of a day since the epoch *)
(* of Ordinal, in the exchange's time zone, which has no daylight saving.  *)
(* The executor is the component SessionExecutor: of its outcome this      *)
(* module keeps the trades, at most one per session, and whether it failed *)
(* or left a position unresolved.  The gates of qualify() are modelled     *)
(* there too; here they pass or they do not.                               *)
(***************************************************************************)
EXTENDS Integers, Sequences, FiniteSets, SequencesExt, FiniteSetsExt

CONSTANTS
  Years,        \* windows end at a midnight of these years
  Studied,      \* the dates on which a dataset is evaluated
  Nets,         \* net results of a trade
  MaxSessions   \* bound: sessions in a dataset

VARIABLES
  request,      \* what standard_window is asked for
  window,       \* the ResearchWindow
  result        \* the Result of evaluate

vars == <<request, window, result>>

----------------------------------------------------------------------------
(* Dates *)

Leap(y) == y % 4 = 0 /\ (y % 100 # 0 \/ y % 400 = 0)

\* calendar.monthrange.
MonthDays(y, m) ==
  IF m = 2 THEN IF Leap(y) THEN 29 ELSE 28 ELSE IF m \in {4, 6, 9, 11} THEN 30 ELSE 31

Dates ==
  {date \in [year : Years, month : 1..12, day : 1..31] : date.day <= MonthDays(date.year, date.month)}

\* The number of the day, as datetime subtracts.
Ordinal(date) ==
  LET y == date.year - 1
      before == <<0, 31, 59, 90, 120, 151, 181, 212, 243, 273, 304, 334>>[date.month]
  IN  365 * y + y \div 4 - y \div 100 + y \div 400 + before + date.day
      + (IF date.month > 2 /\ Leap(date.year) THEN 1 ELSE 0)

Quarters(days) == 4 * days

\* The same day of an earlier month, or the last day of it.
months_before(date, months) ==
  LET number == date.year * 12 + date.month - 1 - months
      y == number \div 12
      m == (number % 12) + 1
  IN  [year |-> y, month |-> m, day |-> Min({date.day, MonthDays(y, m)})]

----------------------------------------------------------------------------
(* Windows *)

NoWindow == [start |-> 0, validation |-> 0, holdout |-> 0, end |-> 0, folds |-> <<>>, frozen |-> 0]

\* ResearchWindow.valid, for boundaries that are midnights.
ValidWindow(w) ==
  /\ w.start < w.validation /\ w.validation < w.holdout /\ w.holdout < w.end
  /\ w.frozen <= w.validation
  /\ Len(w.folds) = 4 /\ w.folds[1] = w.holdout /\ w.folds[4] = w.end
  /\ \A i \in 1..3 : w.folds[i] < w.folds[i + 1]

Split(date, months) ==
  LET start == Ordinal(months_before(date, months))
      end == Ordinal(date)
      days == end - start
      holdout == start + (days * 7) \div 10
      remaining == end - holdout
  IN  [start |-> Quarters(start), end |-> Quarters(end), frozen |-> Quarters(start),
       validation |-> Quarters(start + (days * 5) \div 10), holdout |-> Quarters(holdout),
       folds |-> <<Quarters(holdout), Quarters(holdout + remaining \div 3),
                   Quarters(holdout + (2 * remaining) \div 3), Quarters(end)>>]

Boundaries(w) == {w.validation} \cup Range(w.folds)

----------------------------------------------------------------------------
(* Datasets: sessions with at most one trade each, and one defect at most *)

\* What evaluate quarantines before execution, and what only keeps a strategy from
\* qualifying; "execution" is an executor that raises or leaves a position unresolved.
Quarantined == {"identity", "calendar", "mapping", "actions", "quarantined", "incomplete"}
Disqualified == {"gates", "marked drawdown", "synthetic"}
Defects == {"none", "absent", "execution"} \cup Quarantined \cup Disqualified

\* Around each boundary: the session of the day before, that of the day after, and one
\* that a wrong calendar puts across midnight.
OfferedSessions(w) ==
  {s \in UNION {{<<b - 3, b - 1>>, <<b + 1, b + 3>>, <<b - 2, b + 2>>} : b \in Boundaries(w)} :
     s[2] <= w.end}

NoTrade == [entry |-> 0, exit |-> 0, net |-> 0]

\* A trade is signalled by a bar of its session, entered at the next open and closed in it.
TradesIn(s) ==
  {NoTrade} \cup {t \in [entry : s[1] + 1 .. s[2] - 1, exit : s[1] + 2 .. s[2], net : Nets] :
                    t.entry < t.exit}

Disjoint(ss) == \A s, u \in ss : s # u => s[2] <= u[1] \/ u[2] <= s[1]

Trades(book) ==
  SetToSortSeq({book[s] : s \in DOMAIN book} \ {NoTrade}, LAMBDA t, u : t.entry < u.entry)

----------------------------------------------------------------------------
(* Summaries *)

\* The longest run of trades won (sign 1) or lost (sign -1).
Longest(trades, sign) ==
  FoldLeft(LAMBDA acc, t : LET run == IF sign * t.net > 0 THEN acc.run + 1 ELSE 0
                           IN  [run |-> run, longest |-> Max({acc.longest, run})],
           [run |-> 0, longest |-> 0], trades).longest

\* The figures the parts are compared by; ratios keep their numerator.
summarize(trades, seconds) ==
  [trades |-> trades, seconds |-> seconds,
   net |-> FoldLeft(LAMBDA acc, t : acc + t.net, 0, trades),
   holding |-> FoldLeft(LAMBDA acc, t : acc + (t.exit - t.entry), 0, trades),
   maxWins |-> Longest(trades, 1),
   maxLosses |-> Longest(trades, -1)]

InPart(at, a, b) == a <= at /\ at < b

\* part(): trades by their entry, session time by the session's start.
Part(book, a, b) ==
  summarize(SelectSeq(Trades(book), LAMBDA t : InPart(t.entry, a, b)),
            MapThenSumSet(LAMBDA s : s[2] - s[1], {s \in DOMAIN book : InPart(s[1], a, b)}))

----------------------------------------------------------------------------
(* evaluate *)

CutsSession(w, book) == \E s \in DOMAIN book, b \in Boundaries(w) : s[1] < b /\ b < s[2]

\* A trade is signalled at the instant of its entry.
LeaksTrade(w, book) ==
  \E i \in DOMAIN Trades(book), b \in Boundaries(w) :
    Trades(book)[i].entry < b /\ b < Trades(book)[i].exit

DataStatus(w, dataset) ==
  IF dataset.defect = "absent" THEN "UNAVAILABLE"
  ELSE IF \/ dataset.defect \in Quarantined \cup {"execution"}
          \/ DOMAIN dataset.book = {} \/ CutsSession(w, dataset.book) 
          \/ LeaksTrade(w, dataset.book)
       THEN "QUARANTINED"
  ELSE IF dataset.defect = "synthetic" THEN "SYNTHETIC" ELSE "LOCAL_VERIFIED"

NoResult == [status |-> "NONE", qualified |-> FALSE, parts |-> <<>>]

Evaluated(w, dataset) ==
  LET status == DataStatus(w, dataset) IN
  IF status \in {"UNAVAILABLE", "QUARANTINED"} THEN [NoResult EXCEPT !.status = status]
  ELSE [status |-> status, qualified |-> dataset.defect \notin Disqualified,
        parts |-> <<Part(dataset.book, w.start, w.validation),
                    Part(dataset.book, w.validation, w.holdout),
                    Part(dataset.book, w.holdout, w.end), Part(dataset.book, w.start, w.end)>>]

----------------------------------------------------------------------------
Init ==
  /\ request \in [end : Dates, months : {6, 12}]
  /\ window = NoWindow /\ result = NoResult

\* The window stands, or its validator refuses it.
standard_window ==
  /\ window = NoWindow /\ result = NoResult
  /\ LET w == Split(request.end, request.months) IN
     IF ValidWindow(w) THEN window' = w /\ UNCHANGED result
     ELSE result' = [NoResult EXCEPT !.status = "REFUSED"] /\ UNCHANGED window
  /\ UNCHANGED request

\* A dataset that Dataset.valid accepts is judged.
evaluate ==
  /\ window # NoWindow /\ result = NoResult /\ request.end \in Studied
  /\ \E n \in 0..MaxSessions : \E ss \in kSubset(n, OfferedSessions(window)) :
       /\ Disjoint(ss)
       /\ \E defect \in IF n < 2 THEN Defects ELSE {"none"} :
          \E book \in [ss -> UNION {TradesIn(s) : s \in ss}] :
            /\ \A s \in ss : book[s] \in TradesIn(s)
            /\ result' = Evaluated(window, [book |-> book, defect |-> defect])
  /\ UNCHANGED <<request, window>>

\* Dataset.valid raises: a wrong fingerprint, or data acquired before the window ended.
refuseDataset ==
  /\ window # NoWindow /\ result = NoResult /\ request.end \in Studied
  /\ result' = [NoResult EXCEPT !.status = "DATASET_REFUSED"]
  /\ UNCHANGED <<request, window>>

\* The call has returned.
Done ==
  /\ result # NoResult \/ (window # NoWindow /\ request.end \notin Studied)
  /\ UNCHANGED vars

Next == standard_window \/ evaluate \/ refuseDataset \/ Done

----------------------------------------------------------------------------
(* Properties *)

\* The standard split of six or twelve months is one that ResearchWindow accepts, whatever
\* the day it ends on: no end of February and no short month empties a part or a fold.
WindowStands == result.status # "REFUSED"

Verified == Len(result.parts) = 4

\* Every trade of a judged result lies, from signal to exit, in exactly one of training,
\* validation and the folds of the holdout, so the parts add up to the total.
TradesInOnePart ==
  Verified =>
    /\ result.parts[1].trades \o result.parts[2].trades \o result.parts[3].trades
         = result.parts[4].trades
    /\ result.parts[1].net + result.parts[2].net + result.parts[3].net = result.parts[4].net
    /\ \A i \in DOMAIN result.parts[4].trades, b \in Boundaries(window) :
         LET t == result.parts[4].trades[i] IN t.exit <= b \/ b <= t.entry

\* A part never holds longer than its sessions last, although trades are assigned to it by
\* their entry and session time by the session's start.
ExposureBounded ==
  Verified => \A i \in 1..4 : result.parts[i].holding <= result.parts[i].seconds

\* The longest streaks are the longest runs of consecutive wins and losses.
Runs(trades, Counts(_)) ==
  {p[2] - p[1] + 1 : p \in {q \in (1..Len(trades)) \X (1..Len(trades)) :
                              q[1] <= q[2] /\ \A k \in q[1]..q[2] : Counts(trades[k])}}
StreaksAreRuns ==
  Verified => \A i \in 1..4 :
    LET p == result.parts[i] IN
    /\ p.maxWins = Max({0} \cup Runs(p.trades, LAMBDA t : t.net > 0))
    /\ p.maxLosses = Max({0} \cup Runs(p.trades, LAMBDA t : t.net < 0))

EvaluationSound == WindowStands /\ TradesInOnePart /\ ExposureBounded /\ StreaksAreRuns
=============================================================================
