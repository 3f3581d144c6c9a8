--------------------------- MODULE AlertAssurance ---------------------------
(***************************************************************************)
(* phase1426/alerts.py and the matcher of phase1424/analytics.py it uses:  *)
(* monitored processes accept incidents into a ledger, each record with    *)
(* its critical alert and a halt; an evaluator holding an independent      *)
(* account of what happened (the truth) decides whether every critical     *)
(* incident was alerted in time.                                           *)
(*                                                                         *)
(* incident: [id, category, severity, start, deadline, window]             *)
(* event:    [id, category, occurred, accepted, evidence]                  *)
(* alert:    [n, id, event, reason, at]; n stands for its hash and orders  *)
(* alerts of one instant.                                                  *)
(***************************************************************************)
EXTENDS WitnessLedger, Integers, FiniteSets, SequencesExt

CONSTANTS
  Callers,
  Truths,             \* possible sets of incidents
  StrayAlerts,        \* alerts that did not come through the ledger
  MaxIncidents,       \* 64 in the code
  MaxTime, MaxCalls, MaxKills

AssuranceAssumption ==
  /\ {MaxIncidents, MaxTime, MaxCalls, MaxKills} \subseteq Nat
  /\ {Nobody, Orphan} \cap Callers = {}
  /\ \A t \in Truths : \A i \in t : i.start <= i.deadline /\ i.deadline <= i.window

VARIABLES
  truth,       \* the incidents that happen in this run
  ledger,      \* directory of the AlertLedger
  call,        \* per monitored process: the accept() in progress
  returned,    \* events whose accept() returned a head
  report,      \* what the evaluator found last
  instant, calls, kills

alertVars == <<truth, ledger, call, returned, report, instant, calls, kills>>

Idle == [at |-> "idle"]
NoReport == [kind |-> "none"]

Event(i, at, evidence) ==
  [id |-> i.id, category |-> i.category, occurred |-> i.start, accepted |-> at, evidence |-> evidence]

\* emitted(): the alert carries the time of acceptance, not that of the incident.
emitted(event, n) == [n |-> n, id |-> event.id, event |-> event, reason |-> event.category,
                      at |-> event.accepted]

(***************************************************************************)
(* AlertLedger.accept.                                                     *)
(***************************************************************************)
snapshot(d, expected) ==
  /\ chain(d, expected)
  /\ Len(d.rows) <= MaxIncidents
  /\ \A i, j \in DOMAIN d.rows : i # j => d.rows[i].event.id # d.rows[j].event.id
  /\ \A i \in DOMAIN d.rows : d.rows[i].halt /\ d.rows[i].alert = emitted(d.rows[i].event, i)

Recorded(d, id) == {d.rows[i].event : i \in {j \in DOMAIN d.rows : d.rows[j].event.id = id}}

At(c, place) == call[c].at = place
Goto(c, place) == call' = [call EXCEPT ![c].at = place]
Leave(c) == call' = [call EXCEPT ![c] = Idle] /\ ledger' = Disown(ledger)

\* A process notices an incident, now or some time after it began, or repeats an accept
\* that did not return; it uses the head it has last seen.
Notice(c) ==
  /\ At(c, "idle") /\ calls < MaxCalls
  /\ \E i \in truth, evidence \in {"right", "wrong"}, head \in 0..HeadOf(ledger),
       at \in 0..instant :
       /\ i.start <= at
       /\ call' = [call EXCEPT ![c] = [at |-> "called", event |-> Event(i, at, evidence), head |-> head]]
  /\ calls' = calls + 1
  /\ UNCHANGED <<truth, ledger, returned, report, instant, kills>>

Lock(c) ==
  /\ At(c, "called")
  /\ IF CanOwn(ledger) THEN ledger' = OwnedBy(ledger, c) /\ Goto(c, "locked")
                       ELSE call' = [call EXCEPT ![c] = Idle] /\ UNCHANGED ledger
  /\ UNCHANGED <<truth, returned, report, instant, calls, kills>>

\* snapshot, the search for the incident, the budget.
Look(c) ==
  LET k == call[c]
      known == Recorded(ledger, k.event.id)
  IN  /\ At(c, "locked")
      /\ IF snapshot(ledger, k.head) /\ known = {} /\ Len(ledger.rows) < MaxIncidents
         THEN Goto(c, "new") /\ UNCHANGED <<ledger, returned>>
         ELSE /\ Leave(c)
              /\ returned' = IF snapshot(ledger, k.head) /\ known = {k.event}
                             THEN returned \cup {k.event} ELSE returned
      /\ UNCHANGED <<truth, report, instant, calls, kills>>

AppendPending(c) ==
  /\ At(c, "new")
  /\ ledger' = WritePending(ledger)
  /\ Goto(c, "renaming")
  /\ UNCHANGED <<truth, returned, report, instant, calls, kills>>

AppendRecord(c) ==
  LET event == call[c].event IN
  /\ At(c, "renaming")
  /\ ledger' = RenamePending(ledger, [event |-> event, halt |-> TRUE,
                                      alert |-> emitted(event, Len(ledger.rows) + 1)])
  /\ Goto(c, "recorded")
  /\ UNCHANGED <<truth, returned, report, instant, calls, kills>>

Return(c) ==
  /\ At(c, "recorded")
  /\ returned' = returned \cup {call[c].event}
  /\ Leave(c)
  /\ UNCHANGED <<truth, report, instant, calls, kills>>

\* before_record and after_record.
Interrupt(c) ==
  /\ call[c].at \in {"new", "recorded"} /\ kills < MaxKills
  /\ kills' = kills + 1
  /\ Leave(c)
  /\ UNCHANGED <<truth, returned, report, instant, calls>>

Kill(c) ==
  /\ ledger.owner = c /\ kills < MaxKills
  /\ kills' = kills + 1
  /\ call' = [call EXCEPT ![c] = Idle]
  /\ ledger' = OwnedBy(ledger, Orphan)
  /\ UNCHANGED <<truth, returned, report, instant, calls>>

RemoveLock ==
  /\ ledger.owner = Orphan
  /\ ledger' = Disown(ledger)
  /\ UNCHANGED <<truth, call, returned, report, instant, calls, kills>>

(***************************************************************************)
(* _monitoring: incidents in the order of their start, each given the      *)
(* first unused alert of its kind between its start and its deadline.      *)
(***************************************************************************)
ByStart(incidents) ==
  SetToSortSeq(incidents, LAMBDA a, b : a.start < b.start \/ (a.start = b.start /\ a.id < b.id))

ByTime(alerts) ==
  SetToSortSeq(alerts, LAMBDA a, b : a.at < b.at \/ (a.at = b.at /\ a.n < b.n))

Timely(a, i) == a.reason = i.category /\ i.start <= a.at /\ a.at <= i.deadline

Assign(i, sofar, alerts) ==
  LET eligible == SelectSeq(ByTime(alerts \ sofar.used), LAMBDA a : Timely(a, i))
  IN  IF eligible = <<>> THEN [sofar EXCEPT !.missed = @ \cup {i}]
      ELSE [sofar EXCEPT !.used = @ \cup {eligible[1]},
                         !.matches = @ \cup {[incident |-> i, alert |-> eligible[1]]}]

monitoring(incidents, alerts) ==
  LET done == FoldLeft(LAMBDA sofar, i : Assign(i, sofar, alerts),
                       [used |-> {}, matches |-> {}, missed |-> {}], ByStart(incidents))
      within(a) == {i \in incidents : a.reason = i.category /\ i.start <= a.at /\ a.at <= i.window}
      spare == alerts \ done.used
      duplicates == {a \in spare : \E i \in within(a) : a.at <= i.deadline}
  IN  [matches |-> done.matches, missed |-> done.missed, duplicates |-> duplicates,
       late |-> {a \in spare \ duplicates : within(a) # {}}]

\* Mutant of Bound: an alert of the incident, whatever event it was emitted for.
BoundById(i, event, alerts) == {a \in alerts : a.id = i.id}

\* The alerts of assure() that carry the incident and the very event that was accepted.
Bound(i, event, alerts) == {a \in alerts : a.id = i.id /\ a.event = event}

Critical(t) == {i \in t : i.severity = "CRITICAL"}

\* assure(): refused on two events of one incident, on an event that does not agree with
\* the truth, and when nothing critical happened.
assure(t, events, alerts) ==
  LET accepted(i) == {x \in events : x.id = i.id}
      one(i) == CHOOSE x \in accepted(i) : TRUE
      sound == /\ \A x, y \in events : x.id = y.id => x = y
               /\ \A i \in Critical(t) : \A x \in accepted(i) :
                    x.evidence = "right" /\ x.category = i.category /\ x.occurred = i.start
               /\ Critical(t) # {}
      measured(i) == monitoring({i}, IF accepted(i) = {} THEN {} ELSE Bound(i, one(i), alerts))
      missed == {i \in Critical(t) : measured(i).missed # {}}
  IN  IF ~sound THEN [kind |-> "refused"]
      ELSE [kind |-> "assured", events |-> events, alerts |-> alerts, missed |-> missed,
            matches |-> UNION {measured(i).matches : i \in Critical(t)},
            late |-> UNION {measured(i).late : i \in Critical(t)},
            eligible |-> missed = {}]

Emitted == {ledger.rows[i].alert : i \in DOMAIN ledger.rows}
Accepted == {ledger.rows[i].event : i \in DOMAIN ledger.rows}

\* The evaluator is given events and alerts by others: some may be missing, some alerts
\* may never have gone through the ledger.
Assure ==
  /\ ~ledger.pending
  /\ \E lost \in SUBSET Accepted, alerts \in SUBSET (Emitted \cup StrayAlerts) :
       report' = assure(truth, Accepted \ lost, alerts)
  /\ UNCHANGED <<truth, ledger, call, returned, instant, calls, kills>>

Monitor ==
  /\ ~ledger.pending
  /\ \E alerts \in SUBSET (Emitted \cup StrayAlerts) :
       report' = [kind |-> "monitored", alerts |-> alerts, found |-> monitoring(truth, alerts)]
  /\ UNCHANGED <<truth, ledger, call, returned, instant, calls, kills>>

InstantPasses ==
  /\ instant < MaxTime
  /\ instant' = instant + 1
  /\ UNCHANGED <<truth, ledger, call, returned, report, calls, kills>>

AlertInit ==
  /\ truth \in Truths
  /\ ledger = Empty
  /\ call = [c \in Callers |-> Idle]
  /\ returned = {} /\ report = NoReport
  /\ instant = 0 /\ calls = 0 /\ kills = 0

\* Any step other than an evaluation puts the last report away.
Work ==
  \/ \E c \in Callers : \/ Notice(c) \/ Lock(c) \/ Look(c) \/ AppendPending(c)
                        \/ AppendRecord(c) \/ Return(c) \/ Interrupt(c) \/ Kill(c)
  \/ RemoveLock \/ InstantPasses

AlertNext ==
  \/ report = NoReport /\ (Work \/ Assure \/ Monitor)
  \/ report # NoReport /\ report' = NoReport
     /\ UNCHANGED <<truth, ledger, call, returned, instant, calls, kills>>

AlertSpec == AlertInit /\ [][AlertNext]_alertVars

-----------------------------------------------------------------------------
\* Types; the ledger stays within its budget.
AlertTypeOK ==
  /\ Len(ledger.rows) <= MaxIncidents
  /\ ledger.owner \in Callers \cup {Nobody, Orphan}
  /\ \A i \in DOMAIN ledger.rows : ledger.rows[i].halt
  /\ instant \in 0..MaxTime

\* What accept() returned for is on record, whatever else fails afterwards: an event is
\* never acknowledged and then missing, nor acknowledged in place of a different one.
AcknowledgedIsRecorded == returned \subseteq Accepted

\* An incident has one record, whoever noticed it and however often accept() was retried.
OneRecordEach ==
  \A i, j \in DOMAIN ledger.rows : i # j => ledger.rows[i].event.id # ledger.rows[j].event.id

\* The ledger of phase1426/alerts.py: nothing acknowledged is missing, nothing is on record
\* twice, and the budget is kept.
RecordingSound == AlertTypeOK /\ AcknowledgedIsRecorded /\ OneRecordEach

\* Certification needs, for every critical incident, an event accepted into the ledger
\* between the start and the deadline: a stray alert, an alert of another incident or a
\* late acceptance cannot stand for it.
CompleteMeansTimely ==
  report.kind = "assured" /\ report.eligible =>
    \A i \in Critical(truth) : \E e \in Accepted :
      /\ e.id = i.id
      /\ i.start <= e.accepted /\ e.accepted <= i.deadline

\* An obligation is reported missing exactly when no timely alert of its accepted event
\* was presented, and no alert satisfies two obligations.
MissedExactly ==
  report.kind = "assured" =>
    /\ \A i \in Critical(truth) :
         i \in report.missed <=> ~\E a \in report.alerts : a.id = i.id /\ a.event \in report.events
                                                          /\ Timely(a, i)
    /\ \A m, n \in report.matches : m.alert = n.alert => m = n

\* The matcher gives no alert to two incidents, misses no incident while one of its timely
\* alerts is left over, and never calls an alert late that some deadline still allowed.
MatchingSound ==
  report.kind = "monitored" =>
    LET f == report.found
        used == {m.alert : m \in f.matches}
    IN  /\ \A m, n \in f.matches : m.alert = n.alert => m = n
        /\ \A i \in f.missed : \A a \in report.alerts \ used : ~Timely(a, i)
        /\ \A a \in f.late : \A i \in truth : ~Timely(a, i)
        /\ f.late \cap used = {} /\ f.duplicates \cap used = {}

\* All assignments of alerts to incidents, one to one and in time.
Matchings(incidents, alerts) ==
  {m \in SUBSET {[incident |-> i, alert |-> a] : i \in incidents, a \in alerts} :
     /\ \A x \in m : Timely(x.alert, x.incident)
     /\ \A x, y \in m : x # y => x.alert # y.alert /\ x.incident # y.incident}

\* When all incidents of a category are allowed the same delay, taking the first alert for
\* the first incident finds as many matches as any assignment could: no incident is
\* reported as a false negative because of the order of matching alone.
GreedyIsMaximum ==
  (report.kind = "monitored" /\ \A i, j \in truth : i.deadline - i.start = j.deadline - j.start) =>
    \A m \in Matchings(truth, report.alerts) : Cardinality(m) <= Cardinality(report.found.matches)

=============================================================================
