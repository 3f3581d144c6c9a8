---------------------------- MODULE PhaseEvidence ----------------------------
(***************************************************************************)
(* The evidence of the research phases 14.15D to 14.32                     *)
(* (scripts/research/verify_phase14NN.py).  A phase adds source files,     *)
(* reports and one evidence manifest to the working tree; its verifier is  *)
(* run before they are staged; then they are committed and pushed and the  *)
(* next phase begins.  Between any two of these steps files, receipts and  *)
(* manifests may change, and a manifest may be sealed again over what the  *)
(* working tree holds by then.  Each verifier is one operator, the         *)
(* conjunction of its assertions, in the terms of what it reads: the       *)
(* working tree, the index, the commits, the two refs, the manifests and   *)
(* the receipts kept outside the repository.                               *)
(*                                                                         *)
(* The bytes of a file are abstracted to what the verifiers tell apart.    *)
(* A replay of recorded examples is compared with the recorded report, so  *)
(* a report that is not what the code produces is seen and one that is     *)
(* passes; the code that is replayed is modelled in the modules of the     *)
(* engines.                                                                *)
(***************************************************************************)
EXTENDS Integers, Sequences, FiniteSets, SequencesExt

CONSTANTS Chain,        \* the phases of this history, in order
          AutoCrlf,     \* git hides differences of line ends only
          MaxEdits,     \* bound on changes nobody declared
          MaxReseals    \* bound on manifests sealed again

VARIABLES work,     \* path -> content in the working tree
          index,    \* path -> content in the git index
          tree,     \* the commits of develop, oldest first
          origin,   \* the commit origin/develop is at
          branch,   \* the branch checked out
          ext,      \* phase -> its receipts outside the repository
          man,      \* phase -> what its evidence manifest says
          script,   \* phase -> the constants written into its verifier
          running,  \* the verifier that is between its checks and its result
          passed,   \* the verifier that has just printed PASS
          edits, reseals

vars == <<work, index, tree, origin, branch, ext, man, script, running, passed, edits, reseals>>
repository == <<work, index, tree, origin, branch, ext, man, script>>

---------------------------------------------------------------------------
(* Contents: nothing, the original, another text, one that claims market   *)
(* performance or authority, one that ends its lines with CRLF, one that   *)
(* holds a secret.  A manifest counts its writings.                        *)

Absent == 0
Original == 1
Other == 2
Claims == 3
Crlf == 4
Secret == 5

Phases == Range(Chain)

None == "none"

Src(p) == <<p, "src">>
Rep(p) == <<p, "rep">>
Man(p) == <<p, "man">>
Plan == <<"base", "plan">>      \* the frozen plans of phases 14.0, 14.1, 14.2 and 14.5
Recon == <<"base", "recon">>    \* the files the 14.0A reconciliation lists
Old == <<"base", "old">>        \* the evidence of phases 13.20 to 14.14
Pairs == <<"base", "rep">>      \* the pair results of phase 14.15
Plan22 == <<"base", "plan22">>  \* the plan of phase 14.22, never committed
Stray == <<"base", "stray">>    \* a file no phase declares

Texts == {Plan, Recon, Old, Pairs, Plan22, Stray} \cup UNION {{Src(p), Rep(p)} : p \in Phases}

Files == Texts \cup {Man(p) : p \in Phases}

HEAD == tree[Len(tree)]

Tracked == {f \in Files : index[f] # Absent}
Untracked == {f \in Files : index[f] = Absent /\ work[f] # Absent}

\* The content with its line ends normalised.
LF(c) == IF c = Crlf THEN Original ELSE c

Nothing == [f \in Files |-> Absent]

\* git diff --name-only: the working tree against the index.
Modified == {f \in Tracked : IF AutoCrlf THEN LF(work[f]) # LF(index[f]) ELSE work[f] # index[f]}

\* Phases whose verifier lets the untracked plan of phase 14.22 be.
After22 == {"1423", "1424", "1425", "1426", "1427", "1428", "1429", "1430", "1431", "1432"}

\* Phases that declare changes of tracked files.
Amending == {"1418a", "1418b", "1419", "1430"}

Exceptions(p) == IF p \in After22 THEN {Plan22} ELSE {}

Before(p) == SelectInSeq(Chain, LAMBDA q : q = p) - 1

\* The file of an earlier phase that this one edits: the source of the phase before it,
\* committed by then, except that 14.15D corrects 14.15B before that is committed.
Amended(p) == IF p \in Amending \cup {"1415d"} /\ Before(p) > 0
              THEN {Src(Chain[Before(p)])} ELSE {}

\* What the generator of phase p writes into its manifest: the commit it starts from,
\* the hashes of every tracked file (as committed, where the phase declares it modified),
\* of the artifacts, and of the receipts of this and of the earlier phases.
Seal(p) ==
    [sealed   |-> TRUE,
     baseline |-> Len(tree),
     base     |-> [f \in Files |-> IF p \in Amending /\ f \in Modified THEN HEAD[f]
                                   ELSE IF f \in Tracked THEN work[f] ELSE Absent],
     modified |-> Modified,
     new      |-> Untracked \ Exceptions(p),
     art      |-> [f \in Files |-> IF f \in ((Untracked \ Exceptions(p)) \cup Modified) \ {Man(p)}
                                   THEN work[f] ELSE Absent],
     except   |-> work[Plan22],
     ext      |-> ext[p],
     hist     |-> [q \in Phases |-> ext[q]]]

Unwritten ==
    [sealed |-> FALSE, baseline |-> 0, base |-> Nothing, modified |-> {}, new |-> {},
     art |-> Nothing, except |-> Absent, ext |-> Absent, hist |-> [q \in Phases |-> Absent]]

\* The manifests of the phases before this history, taken together: they list the old
\* evidence as it is and the reconciled files as they were before their line ends changed.
\* Those phases are closed and their generators are not run again.
OldManifest == [old |-> Original, recon |-> Crlf]

---------------------------------------------------------------------------
(* The parts the verifiers share.                                          *)

\* The manifest file is there and its fingerprint is that of what it says.
Sealed(p) == work[Man(p)] # Absent /\ man[p].sealed

\* HEAD and origin/develop are commit b.
AtBaseline(b) == Len(tree) = b /\ origin = b

OnDevelop == branch = "develop"

Unstaged == index = HEAD

\* The tracked files are those the manifest lists, and unless declared modified they have
\* the listed bytes.
Listed(p) == {f \in Files : man[p].base[f] # Absent}

BaselineBytes(p, declared) == \A f \in Listed(p) \ declared : work[f] = man[p].base[f]

\* The number of baseline files, a constant of the script.
Counted(p) == Cardinality(Listed(p)) = script[p].count

\* The artifacts have the bytes the manifest lists.
ArtifactBytes(p) == \A f \in Files : man[p].art[f] # Absent => work[f] = man[p].art[f]

\* No carriage return, no trailing blank, and git stores the bytes as they are.
Tidy(fs) == \A f \in fs : work[f] # Crlf

\* Mutant of verify_receipts: that a receipt is of a passing run is not looked at.
verify_receiptsListed(p) == ext[p] # Absent /\ ext[p] = man[p].ext

\* verify_receipts: the recorded receipts are there, hash as recorded, and count only
\* passing tests; the commands they came from ended with exit code 0.
verify_receipts(p) == ext[p] \in {Original, Other} /\ ext[p] = man[p].ext

\* Receipts of the phases before p, as p's manifest recorded them.
HistoricalEvidence(p) == \A q \in Phases : man[p].hist[q] # Absent => ext[q] = man[p].hist[q]

\* The recorded examples are what the code produces when it is run on their inputs.
Replayed(p) == work[Rep(p)] \in {Original, Crlf}

\* Every row or summary of the report says that no performance is known.
Unclaiming(f) == work[f] \in {Original, Other, Crlf, Secret}

\* scan(): no pattern of the repository's secret scanner in the files given.
scan(fs) == \A f \in fs : work[f] # Secret

\* reports(): both families of pair results are complete and unavailable.
reports == Unclaiming(Pairs)

verify_140(b) ==
    /\ AtBaseline(b)
    /\ OnDevelop
    /\ work[Plan] = Original
    /\ work[Old] = OldManifest.old

\* universe(): the resolution ledger claims no instrument.
universe == Unclaiming(Old)

verify_141(b) ==
    /\ OnDevelop
    /\ AtBaseline(b)
    /\ Unstaged
    /\ work[Plan] = Original
    /\ tree[b][Recon] = LF(OldManifest.recon)
    /\ LF(work[Recon]) = tree[b][Recon]
    /\ verify_140(b)
    /\ universe

verify_142(b) ==
    /\ verify_141(b)
    /\ work[Plan] = Original
    /\ work[Old] = tree[b][Old]
    /\ work[Old] = OldManifest.old

verify_145(b) ==
    /\ work[Plan] = Original
    /\ verify_142(b)
    /\ work[Old] = tree[b][Old]
    /\ work[Old] = OldManifest.old
    /\ Tidy({Old})

\* protected(baseline): the chain of verifiers of phases 14.0 to 14.5 with their obsolete
\* baseline bound to this one, and the envelopes of phases 14.6 to 14.14.
protected(b) ==
    /\ verify_145(b)
    /\ work[Old] = OldManifest.old

---------------------------------------------------------------------------
(* The verifiers.                                                          *)

\* 14.15D keeps the originals of the sources it corrected in an archive beside its receipts.
verify_1415d ==
    LET p == "1415d" IN
    /\ Sealed(p)
    /\ AtBaseline(man[p].baseline) /\ OnDevelop
    /\ Modified = {} /\ Unstaged
    /\ BaselineBytes(p, {}) /\ Tracked = Listed(p)
    /\ ArtifactBytes(p)
    /\ Untracked = man[p].new
    /\ Tidy(Untracked)
    /\ verify_receipts(p)
    /\ protected(man[p].baseline)
    /\ reports
    /\ scan(Untracked \cup Listed(p))

\* The verifier of 14.15B hands over to that of 14.15D once the latter has a manifest.
verify_1415b ==
    LET p == "1415b" IN
    IF "1415d" \in Phases /\ work[Man("1415d")] # Absent THEN verify_1415d
    ELSE /\ Sealed(p) /\ ArtifactBytes(p)
         /\ AtBaseline(man[p].baseline) /\ OnDevelop
         /\ Modified = {} /\ Unstaged
         /\ Tracked = Listed(p) /\ BaselineBytes(p, {})
         /\ Untracked = man[p].new
         /\ Tidy(Untracked)
         /\ protected(man[p].baseline)
         /\ reports
         /\ verify_receipts(p)
         /\ scan(Tracked \cup Untracked)

verify_1416 ==
    LET p == "1416" IN
    /\ Sealed(p)
    /\ AtBaseline(script[p].baseline) /\ OnDevelop
    /\ Modified = {} /\ Unstaged
    /\ BaselineBytes(p, {}) /\ Tracked = Listed(p)
    /\ Untracked = {f \in Files : man[p].art[f] # Absent} \cup {Man(p)}
    /\ ArtifactBytes(p) /\ Tidy(Untracked)
    /\ verify_receipts(p)
    /\ Unclaiming(Rep(p))
    /\ protected(script[p].baseline)
    /\ scan(Tracked \cup Untracked)

verify_1417 ==
    LET p == "1417" IN
    /\ Sealed(p)
    /\ AtBaseline(script[p].baseline) /\ OnDevelop
    /\ Modified = {} /\ Unstaged
    /\ Counted(p) /\ Tracked = Listed(p) /\ BaselineBytes(p, {})
    /\ Untracked = {f \in Files : man[p].art[f] # Absent} \cup {Man(p)}
    /\ ArtifactBytes(p) /\ Tidy(Untracked)
    /\ verify_receipts(p)
    /\ Unclaiming(Rep(p)) /\ Replayed(p)
    /\ \A q \in {"1415d", "1416"} \cap Phases : Sealed(q)
    /\ protected(script[p].baseline)
    /\ scan(Listed(p) \cup Untracked)

verify_1418 ==
    LET p == "1418" IN
    /\ Sealed(p)
    /\ AtBaseline(script[p].baseline) /\ OnDevelop
    /\ Modified = {} /\ Unstaged
    /\ Counted(p) /\ Tracked = Listed(p) /\ BaselineBytes(p, {})
    /\ Untracked = {f \in Files : man[p].art[f] # Absent} \cup {Man(p)}
    /\ ArtifactBytes(p) /\ Tidy(Untracked)
    /\ verify_receipts(p)
    /\ "1417" \in Phases =>
          Sealed("1417") /\ verify_receipts("1417") /\ Unclaiming(Rep("1417"))
    /\ \A q \in {"1415d", "1416"} \cap Phases : Sealed(q)
    /\ Unclaiming(Rep(p)) /\ Replayed(p)
    /\ protected(script[p].baseline)
    /\ scan(Listed(p) \cup Untracked)

\* ALLOWED: the files the correction may modify are constants of the script.
ALLOWED == Amended("1418a")

verify_1418a ==
    LET p == "1418a" IN
    /\ Sealed(p)
    /\ AtBaseline(script[p].baseline) /\ OnDevelop
    /\ Unstaged /\ Modified = ALLOWED
    /\ Counted(p) /\ Tracked = Listed(p)
    /\ man[p].modified = ALLOWED
    /\ \A f \in Listed(p) : (IF f \in ALLOWED THEN HEAD[f] ELSE work[f]) = man[p].base[f]
    /\ Untracked = man[p].new
    /\ {f \in Files : man[p].art[f] # Absent} = (Untracked \cup ALLOWED) \ {Man(p)}
    /\ ArtifactBytes(p) /\ Tidy(Untracked \cup ALLOWED)
    /\ verify_receipts(p)
    /\ "1418" \in Phases =>
          /\ Sealed("1418") /\ verify_receipts("1418")
          /\ BaselineBytes("1418", {})
    /\ Replayed(p)
    /\ protected(script[p].baseline)
    /\ scan(Listed(p) \cup Untracked)

\* The declared modifications of 14.18B and 14.19: before is the committed content, after
\* the present one.
DeclaredChanges(p) ==
    /\ Modified = man[p].modified
    /\ \A f \in Listed(p) : IF f \in man[p].modified
                            THEN /\ HEAD[f] = man[p].base[f]
                                 /\ work[f] = man[p].art[f]
                            ELSE work[f] = man[p].base[f]
    /\ {f \in Files : man[p].art[f] # Absent} = (Untracked \cup man[p].modified) \ {Man(p)}

verify_1418b ==
    LET p == "1418b" IN
    /\ Sealed(p)
    /\ AtBaseline(man[p].baseline) /\ OnDevelop
    /\ Unstaged
    /\ Untracked = man[p].new
    /\ Counted(p) /\ DeclaredChanges(p)
    /\ ArtifactBytes(p) /\ Tidy((Untracked \cup Modified) \ {Man(p)})
    /\ verify_receipts(p)
    /\ Unclaiming(Rep(p)) /\ Replayed(p)
    /\ protected(man[p].baseline)
    /\ scan(Listed(p) \cup Untracked)

\* The session examples of 14.19, run again command by command.
examples_1419 == Replayed("1419")

verify_1419 ==
    LET p == "1419" IN
    /\ Sealed(p)
    /\ AtBaseline(man[p].baseline) /\ OnDevelop
    /\ Unstaged
    /\ Untracked = man[p].new
    /\ Counted(p) /\ DeclaredChanges(p)
    /\ Cardinality(man[p].modified) = Cardinality(Amended(p))
    /\ ArtifactBytes(p) /\ Tidy(Untracked \cup Modified)
    /\ verify_receipts(p)
    /\ "1418b" \in Phases => Sealed("1418b") /\ verify_receipts("1418b")
    /\ protected(man[p].baseline)
    /\ scan(Listed(p) \cup Untracked)
    /\ examples_1419

\* The multi-session examples of 14.20, executed again day by day.
examples_1420 == Replayed("1420")

\* 14.20 and 14.21 do not compare the set of tracked files with the manifest, only its size.
verify_1420 ==
    LET p == "1420" IN
    /\ Sealed(p)
    /\ OnDevelop /\ AtBaseline(man[p].baseline)
    /\ Modified = {} /\ Unstaged
    /\ Untracked = man[p].new
    /\ {f \in Files : man[p].art[f] # Absent} = Untracked \ {Man(p)}
    /\ Counted(p) /\ BaselineBytes(p, {}) /\ ArtifactBytes(p)
    /\ Tidy(Untracked)
    /\ verify_receipts(p)
    /\ "1419" \in Phases => examples_1419
    /\ protected(man[p].baseline)
    /\ reports
    /\ scan(Listed(p) \cup Untracked)
    /\ examples_1420

verify_1421 ==
    LET p == "1421" IN
    /\ Sealed(p)
    /\ OnDevelop /\ AtBaseline(man[p].baseline)
    /\ Modified = {} /\ Unstaged
    /\ Untracked = man[p].new
    /\ {f \in Files : man[p].art[f] # Absent} = Untracked \ {Man(p)}
    /\ Counted(p) /\ BaselineBytes(p, {}) /\ ArtifactBytes(p)
    /\ Tidy(Untracked)
    /\ HistoricalEvidence(p) /\ verify_receipts(p)
    /\ Replayed(p)
    /\ protected(man[p].baseline)
    /\ reports
    /\ scan(Listed(p) \cup Untracked)

\* What 14.23 and its successors assert of the repository: nothing modified or staged, the
\* tracked files exactly those listed and counted, and nothing untracked but the declared
\* files and the exception.
Preserved(p) ==
    /\ Sealed(p)
    /\ OnDevelop /\ AtBaseline(man[p].baseline)
    /\ Unstaged
    /\ Tracked = Listed(p) /\ Counted(p)
    /\ Untracked = man[p].new \cup {f \in Exceptions(p) : man[p].except # Absent}
    /\ ArtifactBytes(p) /\ work[Plan22] = man[p].except
    /\ Tidy(man[p].new)

\* 14.23 writes the hash of the exception into the script.
verify_1423 ==
    LET p == "1423" IN
    /\ Preserved(p) /\ Modified = {} /\ BaselineBytes(p, {})
    /\ man[p].except = Original /\ Plan22 \notin man[p].new
    /\ HistoricalEvidence(p) /\ verify_receipts(p)
    /\ Replayed(p)
    /\ protected(man[p].baseline)
    /\ reports
    /\ scan(Tracked \cup Untracked)

verify_1424 ==
    LET p == "1424" IN
    /\ Preserved(p) /\ Modified = {} /\ BaselineBytes(p, {})
    /\ HistoricalEvidence(p) /\ verify_receipts(p)
    /\ Replayed(p)
    /\ protected(man[p].baseline)
    /\ reports
    /\ scan(Tracked \cup Untracked)

\* 14.25 neither runs the old chain nor reads the pair results again.
verify_1425 ==
    LET p == "1425" IN
    /\ Preserved(p) /\ Modified = {} /\ BaselineBytes(p, {})
    /\ verify_receipts(p)
    /\ Replayed(p)
    /\ scan(Tracked \cup Untracked)

verify_1426 ==
    LET p == "1426" IN
    /\ Preserved(p) /\ Modified = {} /\ BaselineBytes(p, {})
    /\ verify_receipts(p)
    /\ Unclaiming(Rep(p)) /\ Replayed(p)
    /\ protected(man[p].baseline)
    /\ reports
    /\ scan(Tracked \cup Untracked)

verify_1427 ==
    LET p == "1427" IN
    /\ Preserved(p) /\ Modified = {} /\ BaselineBytes(p, {})
    /\ verify_receipts(p)
    /\ Unclaiming(Rep(p)) /\ Replayed(p)
    /\ protected(man[p].baseline)
    /\ reports
    /\ scan(Tracked \cup Untracked)

verify_1428 ==
    LET p == "1428" IN
    /\ Preserved(p) /\ Modified = {} /\ BaselineBytes(p, {})
    /\ verify_receipts(p)
    /\ Unclaiming(Rep(p)) /\ Replayed(p)
    /\ protected(man[p].baseline)
    /\ reports
    /\ scan(Tracked \cup Untracked)

verify_1429 ==
    LET p == "1429" IN
    /\ Preserved(p) /\ Modified = {} /\ BaselineBytes(p, {})
    /\ verify_receipts(p)
    /\ Unclaiming(Rep(p)) /\ Replayed(p)
    /\ protected(man[p].baseline)
    /\ reports
    /\ scan(Tracked \cup Untracked)

\* 14.30 declares changed files; their earlier bytes are not looked at.  From here on the
\* old chain is not run and the exception is not scanned.
verify_1430 ==
    LET p == "1430" IN
    /\ Preserved(p)
    /\ Modified = man[p].modified /\ BaselineBytes(p, man[p].modified)
    /\ Tidy(man[p].modified)
    /\ verify_receipts(p)
    /\ Unclaiming(Rep(p)) /\ Replayed(p)
    /\ reports
    /\ scan(Listed(p) \cup man[p].new)

\* 14.31 and 14.32 prepare their packets again and compare.
verify_1431 ==
    LET p == "1431" IN
    /\ Preserved(p) /\ Modified = {} /\ BaselineBytes(p, {})
    /\ Unclaiming(Rep(p)) /\ Replayed(p)
    /\ verify_receipts(p)
    /\ reports
    /\ scan(Tracked \cup man[p].new)

verify_1432 ==
    LET p == "1432" IN
    /\ Preserved(p) /\ Modified = {} /\ BaselineBytes(p, {})
    /\ Unclaiming(Rep(p)) /\ Replayed(p)
    /\ verify_receipts(p)
    /\ reports
    /\ scan(Tracked \cup man[p].new)

\* The assertions of the verifier of phase p hold.
Holds(p) ==
    CASE p = "1415b" -> verify_1415b [] p = "1415d" -> verify_1415d [] p = "1416" -> verify_1416 [] p = "1417" -> verify_1417
      [] p = "1418" -> verify_1418 [] p = "1418a" -> verify_1418a [] p = "1418b" -> verify_1418b
      [] p = "1419" -> verify_1419 [] p = "1420" -> verify_1420 [] p = "1421" -> verify_1421
      [] p = "1423" -> verify_1423 [] p = "1424" -> verify_1424 [] p = "1425" -> verify_1425
      [] p = "1426" -> verify_1426 [] p = "1427" -> verify_1427 [] p = "1428" -> verify_1428
      [] p = "1429" -> verify_1429 [] p = "1430" -> verify_1430 [] p = "1431" -> verify_1431
      [] p = "1432" -> verify_1432

---------------------------------------------------------------------------
(* Steps.  Whoever runs a verifier waits for it; files may change meanwhile. *)

Init ==
    /\ work = [f \in Files |-> IF f \in {Plan, Recon, Old, Pairs} THEN Original ELSE Absent]
    /\ index = work
    /\ tree = <<work>>
    /\ origin = 1
    /\ branch = "develop"
    /\ ext = [p \in Phases |-> Absent]
    /\ man = [p \in Phases |-> Unwritten]
    /\ script = [p \in Phases |-> [baseline |-> 0, count |-> 0]]
    /\ running = None /\ passed = None
    /\ edits = 0 /\ reseals = 0

Built(p) == script[p].baseline # 0

\* The files of phase p, and the change of tracked ones it declares, are written.  The
\* verifier is written with the present commit and the number of tracked files in it.
Develop(p) ==
    /\ ~Built(p) /\ work[Man(p)] = Absent
    /\ \A i \in 1..Before(p) : IF p = "1415d" THEN work[Man(Chain[i])] # Absent
                                               ELSE index[Man(Chain[i])] # Absent
    /\ Unstaged /\ origin = Len(tree)
    /\ work' = [f \in Files |->
                  CASE f \in {Src(p), Rep(p)} -> Original
                    [] f \in Amended(p) -> Other
                    [] f = Plan22 /\ p \in After22 /\ work[f] = Absent -> Original
                    [] OTHER -> work[f]]
    /\ ext' = [ext EXCEPT ![p] = Original]
    /\ script' = [script EXCEPT ![p] = [baseline |-> Len(tree), count |-> Cardinality(Tracked)]]
    /\ running = None /\ passed' = None
    /\ UNCHANGED <<index, tree, origin, branch, man, running, edits, reseals>>

\* The manifest is sealed over what the working tree holds.
SealManifest(p) ==
    /\ Built(p)
    /\ IF work[Man(p)] = Absent THEN UNCHANGED reseals
       ELSE reseals < MaxReseals /\ reseals' = reseals + 1
    /\ man' = [man EXCEPT ![p] = Seal(p)]
    /\ work' = [work EXCEPT ![Man(p)] = @ + 1]
    /\ running = None /\ passed' = None
    /\ UNCHANGED <<index, tree, origin, branch, ext, script, running, edits>>

\* git add of everything but the exception.
Stage ==
    /\ index' = [f \in Files |-> IF f = Plan22 THEN index[f] ELSE work[f]]
    /\ index' # index
    /\ \A p \in Phases : Built(p) => work[Man(p)] # Absent
    /\ running = None /\ passed' = None
    /\ UNCHANGED <<work, tree, origin, branch, ext, man, script, running, edits, reseals>>

Unstage ==
    /\ ~Unstaged
    /\ index' = HEAD
    /\ edits < MaxEdits /\ edits' = edits + 1
    /\ running = None /\ passed' = None
    /\ UNCHANGED <<work, tree, origin, branch, ext, man, script, running, reseals>>

Commit ==
    /\ ~Unstaged
    /\ Len(tree) <= Len(Chain)
    /\ tree' = Append(tree, index)
    /\ running = None /\ passed' = None
    /\ UNCHANGED <<work, index, origin, branch, ext, man, script, running, edits, reseals>>

Push ==
    /\ origin < Len(tree)
    /\ origin' = Len(tree)
    /\ running = None /\ passed' = None
    /\ UNCHANGED <<work, index, tree, branch, ext, man, script, running, edits, reseals>>

\* A change nobody declared: of a text, of a manifest by hand, of the receipts, of the branch.
AlterText(f, c) ==
    /\ f \in Texts /\ work[f] # c
    /\ (work[f] = Absent) = (f = Stray /\ index[f] = Absent)
    /\ c = Claims => f \in {Old, Pairs} \cup {Rep(p) : p \in Phases}
    /\ work' = [work EXCEPT ![f] = c]
    /\ UNCHANGED <<ext, man, branch>>

AlterManifest(p) ==
    /\ work[Man(p)] # Absent
    /\ work' = [work EXCEPT ![Man(p)] = @ + 1]
    /\ man' = [man EXCEPT ![p].sealed = FALSE]
    /\ UNCHANGED <<ext, branch>>

\* The receipts are lost, those of another passing run, or those of a failing one.
AlterReceipts(p, c) ==
    /\ ext[p] # Absent /\ ext[p] # c
    /\ ext' = [ext EXCEPT ![p] = c]
    /\ UNCHANGED <<work, man, branch>>

Switch ==
    /\ branch' = IF branch = "develop" THEN "topic" ELSE "develop"
    /\ UNCHANGED <<work, ext, man>>

Alter ==
    /\ edits < MaxEdits
    /\ edits' = edits + 1
    /\ \/ \E f \in Texts, c \in {Absent, Original, Other, Claims, Crlf, Secret} : AlterText(f, c)
       \/ \E p \in Phases : AlterManifest(p)
       \/ \E p \in Phases, c \in {Absent, Original, Other, Claims} : AlterReceipts(p, c)
       \/ Switch
    /\ passed' = None
    /\ UNCHANGED <<index, tree, origin, script, running, reseals>>

\* A verifier runs its assertions, and raises at the first that fails; those of 14.26 to
\* 14.29 look at the working tree and the index once more before they return.
Check(p) ==
    /\ running = None /\ Built(p)
    /\ Holds(p)
    /\ running' = p
    /\ passed' = None
    /\ UNCHANGED <<repository, edits, reseals>>

CheckedAgain(p) == p \in {"1426", "1427", "1428", "1429"} => Modified = {} /\ Unstaged

Return ==
    /\ running # None
    /\ passed' = IF CheckedAgain(running) THEN running ELSE None
    /\ running' = None
    /\ UNCHANGED <<repository, edits, reseals>>

Next ==
    \/ \E p \in Phases : Develop(p) \/ SealManifest(p) \/ Check(p)
    \/ Stage \/ Unstage \/ Commit \/ Push \/ Alter \/ Return

Spec == Init /\ [][Next]_vars

---------------------------------------------------------------------------
(* Properties.                                                             *)

TypeOK ==
    /\ work \in [Files -> 0..(2 + MaxEdits + MaxReseals + Secret)]
    /\ index \in [Files -> 0..(2 + MaxEdits + MaxReseals + Secret)]
    /\ Len(tree) \in 1..(Len(Chain) + 1) /\ origin \in 1..Len(tree)
    /\ \A p \in Phases : man[p].new \cup man[p].modified \subseteq Files
    /\ ext \in [Phases -> {Absent, Original, Other, Claims}]
    /\ running \in Phases \cup {None} /\ passed \in Phases \cup {None}

HandedOver(p) == p = "1415b" /\ "1415d" \in Phases /\ work[Man("1415d")] # Absent

Accepted == {p \in Phases : Built(p) /\ Holds(p) /\ ~HandedOver(p)}

\* Whatever was sealed again and whatever the manifest lists, a verifier passes only while
\* every committed file is in the working tree as it was committed, its line ends apart,
\* except the changes its phase may make: the constant ones of 14.18A, one file in 14.19,
\* the declared ones of 14.18B and 14.30.
CommittedIntact ==
    \A p \in Accepted :
        LET differing == {f \in Files : HEAD[f] # Absent /\ LF(work[f]) # LF(HEAD[f])}
        IN  /\ p \notin Amending => differing = {}
            /\ p = "1418a" => differing = Amended(p)
            /\ p = "1419" => Cardinality(differing) = Cardinality(Amended(p))
            /\ differing \subseteq man[p].modified

\* A verifier that passes has accounted for every file that is not committed, and none
\* of the files it accounts for, new or old, holds a secret.
AllAccounted ==
    \A p \in Accepted :
        /\ \A f \in Files : HEAD[f] = Absent /\ work[f] # Absent =>
              \/ f = Man(p)
              \/ man[p].art[f] = work[f]
              \/ f = Plan22 /\ p \in After22
        /\ \A f \in Files \ {Plan22} : work[f] = Secret => FALSE
        /\ work[Plan22] = Secret => p \in {"1430", "1431", "1432"}

\* No verifier passes over a report of its phase that claims performance, nor, where it
\* reads them again, over such a claim in the pair results, in the old evidence or in the
\* ledger of 14.17, even when the claim has been committed.
NoClaimPasses ==
    \A p \in Accepted :
        /\ p \notin {"1415b", "1415d"} => work[Rep(p)] # Claims
        /\ p \notin {"1416", "1417", "1418", "1418a", "1418b", "1419", "1425"} => work[Pairs] # Claims
        /\ p \notin {"1425", "1430", "1431", "1432"} => work[Old] # Claims
        /\ p = "1418" /\ "1417" \in Phases => work[Rep("1417")] # Claims

\* The verifiers that run the old chain pass only over the plans as they were frozen and
\* the old evidence as it was, also after something else was committed in its place.
OldEvidenceStands ==
    \A p \in Accepted \ {"1425", "1430", "1431", "1432"} :
        /\ work[Plan] = Original /\ HEAD[Plan] = Original
        /\ work[Old] = Original /\ HEAD[Recon] = Original

\* Receipts: those of the phase are of a passing run, and the receipts of the parent are
\* still those it was sealed with.
ReceiptsStand ==
    \A p \in Accepted :
        /\ ext[p] \in {Original, Other}
        /\ \A q \in Phases :
              <<p, q>> \in {<<"1418", "1417">>, <<"1418a", "1418">>, <<"1419", "1418b">>} =>
                  ext[q] = man[q].ext /\ ext[q] # Absent
        /\ p \in {"1421", "1423", "1424"} =>
              \A q \in Phases : man[p].hist[q] # Absent => ext[q] = man[p].hist[q]

\* A phase is verified before it is committed: once its manifest is in a commit the
\* verifier never passes again, so at most one verifier passes at a time.
VerifiedBeforeCommit ==
    /\ \A p \in Accepted : HEAD[Man(p)] = Absent
    /\ Cardinality(Accepted) <= 1

\* The verifiers that look twice report PASS only while nothing is modified or staged,
\* although files may change while they run.
PassIsCurrent ==
    passed \in {"1426", "1427", "1428", "1429"} =>
        /\ index = HEAD
        /\ \A f \in Files : HEAD[f] # Absent => LF(work[f]) = LF(HEAD[f])

=============================================================================
