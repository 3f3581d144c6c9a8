----------------------------- MODULE MCProcesses -----------------------------
(***************************************************************************)
(* Instances of the process supervisors and of the acquisition of          *)
(* artifacts: programs that judge what others do meanwhile, processes here *)
(* and files there.  part says which one this behaviour is about; the      *)
(* variables of the other keep an initial value.                           *)
(***************************************************************************)
EXTENDS ProcessSupervisor, ArtifactAcquisition, TLC

CONSTANTS p1, p2, p3   \* process identifiers

PidSymmetry == Permutations({p1, p2, p3})

VARIABLE part

\* Both supervisors with one failing call over three processes (the module itself), and the
\* strict one without failing calls over four, so that a parent's identifier can be used again.
Reuse == INSTANCE ProcessSupervisor WITH MaxProcs <- 4, MaxFaults <- 0

ASSUME ReuseAssumption == Reuse!PidsAssumption

\* The packets, the observations of the index, the time, the decisions and the downloads of a
\* behaviour: the lock file's own packet; the index and its ledger; the downloads under either
\* packet; the installer.
Case(ps, as, wrong, time, made, loads) ==
  [packets |-> ps, evidence |-> [artifact : as, faults : {{}} \cup {{f} : f \in wrong}],
   time |-> time, decisions |-> made, downloads |-> loads]

Cases == [lock    |-> Case({"lock"}, {1, 2}, {"yanked"}, 1, 1, FALSE),
          index   |-> Case({"attested"}, {1, 2}, {"yanked"}, 1, 1, FALSE),
          custody |-> Case({"acquire"}, {1, 2}, {}, 2, 1, TRUE),
          retry   |-> Case({"retry"}, {}, {}, 2, 1, TRUE),
          install |-> Case({"retry", "install"}, {1}, {"digest"}, 2, 2, FALSE)]

Within(c) ==
  /\ \A p \in Packets \ c.packets : packets'[p] = packets[p]
  /\ evidence' \subseteq c.evidence
  /\ clock' <= c.time
  /\ Cardinality(trusted') <= c.decisions
  /\ \A d \in decisions' : d.of \in c.packets
  /\ ~c.downloads => transfer' = {}

ProcessesInit ==
  \/ /\ \/ part = "failing" /\ Init
        \/ part = "reuse" /\ Reuse!Init /\ strict
     /\ AcquisitionInit
  \/ part \in DOMAIN Cases /\ AcquisitionInit /\ Init /\ strict

ProcessesNext ==
  /\ UNCHANGED part
  /\ \/ part = "failing" /\ Next /\ UNCHANGED acquisitionVars
     \/ part = "reuse" /\ Reuse!Next /\ UNCHANGED acquisitionVars
     \/ part \in DOMAIN Cases /\ AcquisitionNext /\ Within(Cases[part]) /\ UNCHANGED vars

ProcessesSpec == ProcessesInit /\ [][ProcessesNext]_<<part, vars, acquisitionVars>>

=============================================================================
