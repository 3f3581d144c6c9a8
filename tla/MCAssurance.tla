----------------------------- MODULE MCAssurance -----------------------------
(***************************************************************************)
(* Instances of the recovery authority, of the assurance of its alerts and *)
(* of the ingestion of data.  part says which one this behaviour is about; *)
(* the variables of the others keep initial values or are "idle".          *)
(***************************************************************************)
EXTENDS RecoveryAuthority, DatasetIngestion, TLC

CONSTANTS c1, c2, r1, r2, i1, i2, m1, m2

Sym == Permutations({c1, c2}) \cup Permutations({r1, r2}) \cup Permutations({i1, i2})

VARIABLES part, finding, truth, ledger, accepting, returned

recoveryOnly == <<witness, local, copies, approvals, trusted, call, ran, restores>>
recoveryVars == <<recoveryOnly, clock, kills, calls>>
alertsOnly == <<truth, ledger, accepting, returned, finding>>

----------------------------------------------------------------------------
(* The authority: two processes that are killed (the module itself); one     *)
(* whose local directory is put back; one whose recoveries do what they      *)
(* should not.                                                               *)
OneWindow == {<<0, 2>>}
AllOutcomes == {"resumed", "halted", "cleared", "rolledback", "forked", "unbound", "raised"}

Rollback == INSTANCE RecoveryAuthority WITH
              Callers <- {c1}, MaxIssues <- 2, MaxKills <- 1, MaxCopies <- 2, MaxRestores <- 2
Results == INSTANCE RecoveryAuthority WITH
             Callers <- {c1}, Matters <- {m1, m2}, Windows <- {<<0, 1>>, <<1, 2>>},
             Outcomes <- AllOutcomes, MaxTime <- 2, MaxIssues <- 2, MaxKills <- 0, MaxCalls <- 3

----------------------------------------------------------------------------
(* The alerts: two incidents for a ledger of one record; and overlapping     *)
(* incidents of one category, with equal and with unequal delays, one of     *)
(* them not critical, with alerts that bypassed the ledger.                  *)
Incident(id, severity, start, deadline, window) ==
  [id |-> id, category |-> "DATA_GAP", severity |-> severity, start |-> start,
   deadline |-> deadline, window |-> window]
Overlapping ==
  {{Incident(1, "CRITICAL", 0, 1, 2), Incident(2, "CRITICAL", 1, 2, 2)},
   {Incident(1, "CRITICAL", 0, 2, 2), Incident(2, "CRITICAL", 1, 1, 2)},
   {Incident(1, "WARNING", 0, 0, 1), Incident(2, "CRITICAL", 0, 0, 2)},
   {Incident(1, "WARNING", 0, 0, 1)}}
Unrecorded(id, at) == [id |-> id, category |-> "DATA_GAP", occurred |-> 0, accepted |-> at,
                       evidence |-> "wrong"]
Stray(n, id, at) == [n |-> n, id |-> id, event |-> Unrecorded(id, at), reason |-> "DATA_GAP", at |-> at]

Recording == INSTANCE AlertAssurance WITH call <- accepting, report <- finding, instant <- clock,
             Callers <- {c1, c2}, Truths <- {{Incident(i, "CRITICAL", 0, 1, 1) : i \in 1..2}},
             StrayAlerts <- {}, MaxIncidents <- 1, MaxTime <- 1, MaxCalls <- 3, MaxKills <- 1
Matching == INSTANCE AlertAssurance WITH call <- accepting, report <- finding, instant <- clock,
              Callers <- {c1}, Truths <- Overlapping,
              StrayAlerts <- {Stray(11, 1, 1), Stray(12, 2, 2)},
              MaxIncidents <- 2, MaxTime <- 2, MaxCalls <- 2, MaxKills <- 1

----------------------------------------------------------------------------
(* Ingestion: two days of three candles, a regular session fills the first   *)
(* two of its day; certifiable scopes and one for each way a scope is        *)
(* refused; the candles of both days and records a source may get wrong.     *)
Span(s, e) == [start |-> s, end |-> e]
OneSession == {Span(0, 2)}
Held(sym, token, s, e) == [symbol |-> sym, token |-> token, observed |-> s, start |-> s, end |-> e]
Base ==
  [length |-> 2, days |-> 0 :> "VERIFIED_SESSION" @@ 1 :> "VERIFIED_NON_TRADING_DAY",
   holidays |-> {1}, sessions |-> {Span(0, 2)}, listed |-> Span(0, 6), pauses |-> <<>>, known |-> 0,
   periods |-> <<Held("A", 1, 0, 6)>>, complete |-> TRUE, events |-> {}, adjustment |-> "RAW_UNADJUSTED"]
TwoDays == [Base EXCEPT !.days = 0 :> "VERIFIED_SESSION" @@ 1 :> "SPECIAL_SESSION_VERIFIED",
                        !.holidays = {}, !.sessions = {Span(0, 2), Span(4, 5)}]
Split(eff, avail, valued) == [effective |-> eff, available |-> avail, valued |-> valued]
SomeScopes ==
  {Base, TwoDays,
   [TwoDays EXCEPT !.listed = Span(1, 6)], [TwoDays EXCEPT !.pauses = <<Span(1, 4)>>],
   [TwoDays EXCEPT !.pauses = <<Span(0, 2), Span(3, 5)>>],
   [TwoDays EXCEPT !.periods = <<Held("A", 1, 0, 3), Held("A", 2, 3, 6)>>],
   [TwoDays EXCEPT !.periods = <<Held("A", 1, 0, 3), Held("A", 1, 3, 6)>>],
   [Base EXCEPT !.listed = Span(3, 6)],
   [TwoDays EXCEPT !.periods = <<Held("A", 1, 0, 4), Held("A", 2, 3, 6)>>],
   [Base EXCEPT !.periods = <<Held("A", 1, 0, 3), Held("B", 1, 3, 6)>>],
   [Base EXCEPT !.periods = <<Held("A", 1, 1, 6)>>],
   [Base EXCEPT !.sessions = {Span(0, 3)}], [Base EXCEPT !.holidays = {}],
   [TwoDays EXCEPT !.pauses = <<Span(3, 5), Span(0, 2)>>], [Base EXCEPT !.known = 1],
   [Base EXCEPT !.complete = FALSE], [Base EXCEPT !.adjustment = "ADJUSTED_VERIFIED"],
   [Base EXCEPT !.events = {Split(1, 0, TRUE)}], [Base EXCEPT !.events = {Split(1, 2, TRUE)}],
   [Base EXCEPT !.events = {Split(1, 0, FALSE)}]}
Bar(t, avail, token, ok) == [start |-> t, available |-> avail, token |-> token, sound |-> ok]
SomeRecords ==
  {Bar(t, t + 1, 1, TRUE) : t \in {0, 1, 2, 4}}
  \cup {Bar(4, 5, 2, TRUE), Bar(0, 0, 1, TRUE), Bar(1, 7, 1, TRUE), Bar(0, 1, 1, FALSE)}

\* Masters and batches; the module itself is about the dataset.
Transient == INSTANCE DatasetIngestion WITH
               Validity <- 2, Expires <- 4, BatchIds <- {"b1"}, Scopes <- {Base}, Records <- {},
               MaxNow <- 4, MaxMasters <- 2, MaxRecords <- 0, MaxBack <- 1

ASSUME AssuranceAssumptions ==
  /\ Rollback!AuthorityAssumption /\ Results!AuthorityAssumption
  /\ Recording!AssuranceAssumption /\ Matching!AssuranceAssumption
  /\ Transient!IngestionAssumption

----------------------------------------------------------------------------
RecoveryIdle ==
  /\ witness = Empty /\ local = NoLocal /\ copies = {}
  /\ approvals = {} /\ trusted = [r \in Requests |-> NoApproval]
  /\ call = [c \in Callers |-> Idle] /\ ran = <<>> /\ restores = 0
AlertsIdle ==
  truth = "idle" /\ ledger = "idle" /\ accepting = "idle" /\ returned = "idle" /\ finding = "idle"
IngestionIdle == Transient!IngestionInit

AssuranceInit ==
  \/ /\ \/ part = "competing" /\ Init
        \/ part = "rollback" /\ Rollback!Init
        \/ part = "results" /\ Results!Init
     /\ AlertsIdle /\ IngestionIdle
  \/ /\ \/ part = "records" /\ Recording!AlertInit
        \/ part = "matching" /\ Matching!AlertInit
     /\ RecoveryIdle /\ IngestionIdle
  \/ /\ \/ part = "transient" /\ Transient!IngestionInit
        \/ part = "certified" /\ IngestionInit
     /\ RecoveryIdle /\ AlertsIdle /\ clock = 0 /\ kills = "idle" /\ calls = "idle"

AssuranceNext ==
  /\ UNCHANGED part
  /\ \/ part = "competing" /\ Next /\ UNCHANGED <<alertsOnly, ingestionVars>>
     \/ part = "rollback" /\ Rollback!Next /\ UNCHANGED <<alertsOnly, ingestionVars>>
     \/ part = "results" /\ Results!Next /\ UNCHANGED <<alertsOnly, ingestionVars>>
     \/ part = "records" /\ Recording!AlertNext /\ UNCHANGED <<recoveryOnly, ingestionVars>>
     \/ part = "matching" /\ Matching!AlertNext /\ UNCHANGED <<recoveryOnly, ingestionVars>>
     \/ part = "transient" /\ Transient!IngestionNext /\ UNCHANGED <<recoveryVars, alertsOnly>>
     \/ part = "certified" /\ IngestionNext /\ UNCHANGED <<recoveryVars, alertsOnly>>

AssuranceSpec == AssuranceInit /\ [][AssuranceNext]_<<part, recoveryVars, alertsOnly, ingestionVars>>

----------------------------------------------------------------------------
\* An acknowledged alert is on record, once, and critical incidents are certified only on
\* timely records of their own (phase1426/alerts.py); the diagnosis of an assessed dataset
\* adds up (phase1440/datasets.py).
RecordsSound ==
  /\ part = "records" => Recording!RecordingSound
  /\ part = "matching" =>
       /\ Matching!CompleteMeansTimely /\ Matching!MissedExactly /\ Matching!MatchingSound
       /\ Matching!GreedyIsMaximum
  /\ DiagnosisAddsUp

=============================================================================
