------------------------------ MODULE MCEvidence ------------------------------
(***************************************************************************)
(* What is kept as evidence: the durable replay ledger, and histories of   *)
(* consecutive research phases and their verifiers.  part says which one   *)
(* this behaviour is about.  Every history has one undeclared change and   *)
(* one manifest that is sealed again; the ledger's variables keep their    *)
(* initial values in it, and the histories' are "idle" in the ledger's.    *)
(***************************************************************************)
EXTENDS ReplayLedger, TLC

CONSTANTS w1, w2   \* two processes that open the ledger

VARIABLES part, work, index, tree, origin, branch, ext, man, script, running, passed, edits,
          reseals

ledgerOnly == vars
historyOnly == <<work, index, tree, origin, branch, ext, man, script, running, passed, edits,
                 reseals>>
evidence == <<part, ledgerOnly, historyOnly>>

----------------------------------------------------------------------------
(* The ledger: two decisions share a nonce, two an identity, and one is not  *)
(* enrolled.                                                                 *)
Actors == {w1, w2}
ActorSymmetry == Permutations(Actors)

OfLedger(i, n, o, s) ==
  [id |-> i, nonce |-> n, owner |-> o, key |-> "k1", root |-> "r1", bound |-> TRUE,
   enrolled |-> TRUE, timed |-> TRUE, start |-> s, end |-> s + 2]
LedgerDecisions == {OfLedger("d1", "n1", "o1", 0), OfLedger("d2", "n1", "o2", 0),
                    OfLedger("d1", "n2", "o2", 1),
                    [OfLedger("d3", "n3", "o2", 0) EXCEPT !.enrolled = FALSE]}
LedgerRevocations == {<<"owner", "o1">>, <<"key", "k1">>}

\* Two processes, a death and a removed row, without a checkpoint; and one process whose file
\* is anchored and put back.
Durable == UNCHANGED <<restores, checkpoint>>
Anchored ==
  /\ UNCHANGED <<damage, aborts>>
  /\ clock' <= 1
  /\ Cardinality({w \in Workers : txn'[w] # Closed \/ answer'[w] # "none"}) <= 1

----------------------------------------------------------------------------
MaxEdits == 1
MaxReseals == 1

Certification == INSTANCE PhaseEvidence WITH
                   Chain <- <<"1415b", "1415d", "1416">>, AutoCrlf <- FALSE
Paper == INSTANCE PhaseEvidence WITH Chain <- <<"1416", "1417", "1418">>, AutoCrlf <- FALSE
Corrections == INSTANCE PhaseEvidence WITH
                 Chain <- <<"1418a", "1418b", "1419">>, AutoCrlf <- FALSE
Sessions == INSTANCE PhaseEvidence WITH Chain <- <<"1420", "1421", "1423">>, AutoCrlf <- TRUE
Assurance == INSTANCE PhaseEvidence WITH
               Chain <- <<"1424", "1425", "1426", "1427">>, AutoCrlf <- TRUE
Packages == INSTANCE PhaseEvidence WITH
              Chain <- <<"1428", "1429", "1430">>, AutoCrlf <- TRUE
Artifacts == INSTANCE PhaseEvidence WITH Chain <- <<"1430", "1431", "1432">>, AutoCrlf <- TRUE

HistoryIdle ==
  /\ work = "idle" /\ index = "idle" /\ tree = "idle" /\ origin = "idle" /\ branch = "idle"
  /\ ext = "idle" /\ man = "idle" /\ script = "idle" /\ running = "idle" /\ passed = "idle"
  /\ edits = "idle" /\ reseals = "idle"

HistoryInit ==
  \/ part = "certification" /\ Certification!Init
  \/ part = "paper" /\ Paper!Init
  \/ part = "corrections" /\ Corrections!Init
  \/ part = "sessions" /\ Sessions!Init
  \/ part = "assurance" /\ Assurance!Init
  \/ part = "packages" /\ Packages!Init
  \/ part = "artifacts" /\ Artifacts!Init

HistoryNext ==
  \/ part = "certification" /\ Certification!Next
  \/ part = "paper" /\ Paper!Next
  \/ part = "corrections" /\ Corrections!Next
  \/ part = "sessions" /\ Sessions!Next
  \/ part = "assurance" /\ Assurance!Next
  \/ part = "packages" /\ Packages!Next
  \/ part = "artifacts" /\ Artifacts!Next

EvidenceInit ==
  /\ Init
  /\ \/ part \in {"durable", "anchored"} /\ HistoryIdle
     \/ HistoryInit

EvidenceNext ==
  /\ UNCHANGED part
  /\ \/ part = "durable" /\ Next /\ Durable /\ UNCHANGED historyOnly
     \/ part = "anchored" /\ Next /\ Anchored /\ UNCHANGED historyOnly
     \/ HistoryNext /\ UNCHANGED ledgerOnly

EvidenceSpec == EvidenceInit /\ [][EvidenceNext]_evidence

----------------------------------------------------------------------------
\* A verifier accepts only a tree whose committed files, old evidence and receipts are what
\* was certified, in which every file is accounted for and no report claims performance; it
\* is of use only before its phase is committed, and a PASS still describes the repository
\* when it is printed.
EvidenceSound ==
  /\ part = "certification" => Certification!TypeOK /\ Certification!OldEvidenceStands
  /\ part = "paper" => Paper!NoClaimPasses /\ Paper!ReceiptsStand
  /\ part = "corrections" => Corrections!CommittedIntact /\ Corrections!ReceiptsStand
  /\ part = "sessions" =>
       Sessions!AllAccounted /\ Sessions!ReceiptsStand /\ Sessions!VerifiedBeforeCommit
  /\ part = "assurance" =>
       Assurance!AllAccounted /\ Assurance!OldEvidenceStands /\ Assurance!PassIsCurrent
  /\ part = "packages" => Packages!CommittedIntact /\ Packages!NoClaimPasses
  /\ part = "artifacts" => Artifacts!CommittedIntact /\ Artifacts!NoClaimPasses

=============================================================================
