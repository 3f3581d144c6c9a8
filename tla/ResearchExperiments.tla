-------------------------- MODULE ResearchExperiments --------------------------
(***************************************************************************)
(* The experiment protocol (research/experiments.py): specifications are   *)
(* compared on their training and validation partitions, one of them is    *)
(* frozen as the selection, and only a frozen selection is evaluated on    *)
(* its test partition.  A fingerprint stands for the value it digests.  Of *)
(* an evaluation the bars it reads are kept; the engine that reads them is *)
(* the component BacktestEngine.                                           *)
(***************************************************************************)
EXTENDS Integers, Sequences, FiniteSets, SequencesExt, FiniteSetsExt

CONSTANTS
  Offered,       \* specifications a researcher may write
  DatasetBars,   \* the dataset: bars 0 .. DatasetBars - 1
  SessionLength, \* bars of a session
  MaxTrials,     \* 16 in the code
  MaxReports     \* bound: reports in a researcher's hands

VARIABLES
  reports,       \* the ExperimentReports returned so far
  compared,      \* what the last compare_development returned
  selections     \* the FrozenSelections returned so far

protocolVars == <<reports, compared, selections>>

\* Windows are counted in bars of the dataset.
ProtocolAssumption ==
  \A spec \in Offered :
    LET p == spec.partitions
    IN  /\ p.train.start \in Int /\ p.train.end \in Int /\ p.validation.start \in Int
        /\ p.validation.end \in Int /\ p.test.start \in Int /\ p.test.end \in Int

----------------------------------------------------------------------------
(* Specifications *)

ValidWindow(w) == w.start < w.end

ValidPartitions(p) ==
  /\ ValidWindow(p.train) /\ ValidWindow(p.validation) /\ ValidWindow(p.test)
  /\ p.train.end <= p.validation.start /\ p.validation.end <= p.test.start

\* The engine version follows the cost model of the configuration.
ValidSpec(spec) ==
  /\ ValidPartitions(spec.partitions)
  /\ spec.engine = (IF spec.config = "calibrated" THEN "v2-costs" ELSE "v1")

Specs == {spec \in Offered : ValidSpec(spec)}

\* _validate against the one dataset there is.
Validated(spec) ==
  /\ spec.dataset = "this"
  /\ \A w \in Range(<<spec.partitions.train, spec.partitions.validation, spec.partitions.test>>) :
       0 <= w.start /\ w.end <= DatasetBars

\* partition_dataset; the dataset validator refuses a partial session.
BarsOf(w) == w.start .. w.end - 1
WholeSessions(w) == w.start % SessionLength = 0 /\ w.end % SessionLength = 0

----------------------------------------------------------------------------
(* Reports *)

Development(spec) ==
  [spec |-> spec, selection |-> <<>>,
   evaluations |-> <<[partition |-> "TRAIN", bars |-> BarsOf(spec.partitions.train)],
                     [partition |-> "VALIDATION", bars |-> BarsOf(spec.partitions.validation)]>>]

Developed(spec) ==
  /\ Validated(spec)
  /\ WholeSessions(spec.partitions.train) /\ WholeSessions(spec.partitions.validation)

FinalTest(spec, selection) ==
  [spec |-> spec, selection |-> <<selection>>,
   evaluations |-> <<[partition |-> "TEST", bars |-> BarsOf(spec.partitions.test)]>>]

Ids(specs) == {spec.id : spec \in specs}

Comparable(specs) ==
  /\ Cardinality(specs) \in 1..MaxTrials /\ Cardinality(Ids(specs)) = Cardinality(specs)
  /\ \A s, t \in specs :
       s.dataset = t.dataset /\ s.partitions = t.partitions /\ s.config = t.config

Trials(rs) ==
  /\ Cardinality(rs) \in 1..MaxTrials
  /\ Cardinality(Ids({r.spec : r \in rs})) = Cardinality(rs)
  /\ \A r \in rs : Len(r.evaluations) = 2
                   /\ r.evaluations[1].partition = "TRAIN"
                   /\ r.evaluations[2].partition = "VALIDATION"

----------------------------------------------------------------------------
ProtocolInit == reports = {} /\ compared = {} /\ selections = {}

\* Any specification that fails makes the whole comparison raise.
compare_development ==
  /\ \E n \in 1..MaxTrials + 1 : \E specs \in kSubset(n, Specs) :
       /\ Comparable(specs) /\ \A spec \in specs : Developed(spec)
       /\ compared' = {Development(spec) : spec \in specs}
       /\ reports' = reports \cup compared'
       /\ Cardinality(reports') <= MaxReports
  /\ UNCHANGED selections

\* One specification on its own.
evaluate_development ==
  /\ \E spec \in Specs :
       /\ Developed(spec)
       /\ reports' = reports \cup {Development(spec)}
       /\ Cardinality(reports') <= MaxReports
  /\ UNCHANGED <<compared, selections>>

freeze_selection ==
  /\ \E rs \in SUBSET reports : \E id \in Ids({r.spec : r \in rs}) :
       /\ Trials(rs)
       /\ LET selected == CHOOSE r \in rs : r.spec.id = id IN
          selections' = selections \cup {[selected |-> selected.spec, trials |-> rs]}
  /\ Cardinality(selections') <= MaxReports
  /\ UNCHANGED <<reports, compared>>

\* The selection was frozen for exactly this specification.
Fits(spec, selection) == selection.selected = spec

evaluate_final_test ==
  /\ \E spec \in Specs, selection \in selections :
       /\ Validated(spec) /\ Fits(spec, selection) /\ WholeSessions(spec.partitions.test)
       /\ reports' = reports \cup {FinalTest(spec, selection)}
       /\ Cardinality(reports') <= MaxReports
  /\ UNCHANGED <<compared, selections>>

ProtocolNext ==
  compare_development \/ evaluate_development \/ freeze_selection \/ evaluate_final_test

ProtocolSpec == ProtocolInit /\ [][ProtocolNext]_protocolVars

----------------------------------------------------------------------------
(* Properties *)

Read(report) == UNION {report.evaluations[i].bars : i \in DOMAIN report.evaluations}

\* A test partition is read only for a specification whose own training and validation is
\* among the trials of a frozen selection; none of those trials is itself a test, and the
\* selected trial has read no bar of the test.
TestedWasSelected ==
  \A t \in reports : t.evaluations[1].partition = "TEST" =>
    /\ t.selection[1] \in selections
    /\ \E d \in t.selection[1].trials : d.spec = t.spec /\ Read(d) \cap Read(t) = {}
    /\ \A d \in t.selection[1].trials : d \in reports /\ d.selection = <<>>

\* Nothing in a comparison has seen a bar on which any of its specifications may be tested.
ComparedApart ==
  \A r, s \in compared : Read(r) \cap BarsOf(s.spec.partitions.test) = {}

ProtocolSound == TestedWasSelected /\ ComparedApart
=============================================================================
