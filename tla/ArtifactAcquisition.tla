------------------------ MODULE ArtifactAcquisition ------------------------
(***************************************************************************)
(* The road from the frozen lock file to verified wheels, phases 14.31 to  *)
(* 14.34A.  A manifest names the artifacts; metadata of the index, kept in *)
(* reviewed custody, attests their digests; an owner decides on a packet;  *)
(* somebody outside this code downloads; the verifiers certify what lies   *)
(* in quarantine.  None of the functions keeps state: all of them judge    *)
(* files that others write and may change at any time.                     *)
(*                                                                         *)
(* A fingerprint is the value it was computed from.  Verification reads a  *)
(* quarantine under exclusive custody, as verify_quarantine demands, so    *)
(* one verification is one step.                                           *)
(***************************************************************************)
EXTENDS Naturals, Sequences, FiniteSets, SequencesExt

CONSTANTS
    N,              \* number of artifacts (8)
    Packets,        \* the approval packets in use, a subset of AllPackets
    MetaFaults,     \* what may be wrong with an observation of the index
    EndTime,        \* bound on the clock
    Day,            \* the longest validity of a decision
    Timeout,        \* request_timeout_seconds
    MaxDecisions,   \* bound on owner decisions
    MaxForgeries,   \* bound on altered decisions, receipts, packets and files
    MaxTransfers    \* bound on downloads

VARIABLES
    clock,
    evidence,       \* observations of the index handed to evaluate
    custody,        \* the observations whose custody was reviewed
    packets,        \* the packet files: what each asks the owner for
    decisions,      \* decisions presented as the owner's
    trusted,        \* those authenticated as the owner's, as issued
    granted,        \* a successful authorize, with the state it judged
    transfer,       \* the download in progress
    files,          \* the quarantine: its files, and under 0 the directory itself
    receipts,       \* receipts presented to the verifier
    trusted_receipts,
    certified,      \* a successful certification
    forgeries

acquisitionVars == <<clock, evidence, custody, packets, decisions, trusted, granted, transfer,
          files, receipts, trusted_receipts, certified, forgeries>>

Artifacts == 1..N

\* 14.31 artifacts.packet, 14.32 attestation.decision, 14.33 acquisition.packet, the
\* retry packet of 14.33B and the installation packet of 14.34A.
AllPackets == {"lock", "attested", "acquire", "retry", "install"}

Times == 0..EndTime

MATCH == "INDEPENDENT_METADATA_HASH_MATCH"

(***************************************************************************)
(* phase1432 attestation.                                                  *)
(***************************************************************************)

\* compare: the checks in their order; the first that fails names the class.  An
\* observation that fails a schema check makes evaluate raise.
Comparison == << <<"endpoint", "SOURCE_UNTRUSTED">>, <<"custody", "SOURCE_UNTRUSTED">>,
                 <<"schema", "RAISES">>, <<"name", "ARTIFACT_IDENTITY_AMBIGUOUS">>,
                 <<"absent", "ARTIFACT_NOT_FOUND">>,
                 <<"duplicate", "ARTIFACT_IDENTITY_AMBIGUOUS">>,
                 <<"record", "RAISES">>, <<"upload", "RAISES">>,
                 <<"identity", "ARTIFACT_IDENTITY_AMBIGUOUS">>,
                 <<"yanked", "ARTIFACT_YANKED">>,
                 <<"digest", "INDEPENDENT_METADATA_HASH_MISMATCH">>,
                 <<"size", "INDEPENDENT_METADATA_HASH_MISMATCH">> >>

ASSUME AcquisitionAssumption ==
    /\ N \in Nat \ {0} /\ Packets \subseteq AllPackets
    /\ MetaFaults \subseteq {Comparison[i][1] : i \in DOMAIN Comparison}
    /\ {EndTime, Day, Timeout, MaxDecisions, MaxForgeries, MaxTransfers} \subseteq Nat

FirstFailing(order, faults) ==
    LET failing == {i \in DOMAIN order : order[i][1] \in faults}
    IN  IF failing = {} THEN MATCH ELSE order[Min(failing)][2]

compare(e, reviewed) ==
    FirstFailing(Comparison, e.faults \cup (IF e \in reviewed THEN {} ELSE {"custody"}))

Supplied(a) == {e \in evidence : e.artifact = a}

\* evaluate: at most one observation per artifact, none of which makes compare raise.
Evaluable == \A a \in Artifacts :
    /\ Cardinality(Supplied(a)) <= 1
    /\ \A e \in Supplied(a) : compare(e, custody) # "RAISES"

evaluate == [a \in Artifacts |->
    IF Supplied(a) = {} THEN "METADATA_UNAVAILABLE"
    ELSE compare(CHOOSE e \in Supplied(a) : TRUE, custody)]

Eligible(ledger) == \A a \in Artifacts : ledger[a] = MATCH

(***************************************************************************)
(* The packets.  "exact" is what the builder derives from manifest and     *)
(* ledger, "edited" any other content, "absent" no file.                   *)
(***************************************************************************)
Blank == [a \in Artifacts |-> "METADATA_UNAVAILABLE"]
Pinned == [a \in Artifacts |-> MATCH]

Packet(ledger, content) == [ledger |-> ledger, content |-> content]

\* 14.31 knows no ledger; 14.32 binds the ledger it evaluates; 14.33 and the retry bind
\* the sealed ATTESTATION; the packet of 14.34A carries the installer's digest.
Built(p) == CASE p = "lock" -> Packet(Blank, "exact")
              [] p = "attested" -> Packet(evaluate, "exact")
              [] OTHER -> Packet(Pinned, "exact")

\* prepare: 14.33's custody() raises unless the evidence attests every artifact again.  A packet
\* may be prepared anew.
Prepare(p) ==
    /\ packets[p].content # "edited"
    /\ p = "attested" => Evaluable
    /\ p = "acquire" => Evaluable /\ Eligible(evaluate)
    /\ packets' = [packets EXCEPT ![p] = Built(p)]
    /\ UNCHANGED <<clock, evidence, custody, decisions, trusted, transfer, files,
                   receipts, trusted_receipts, forgeries>>

(***************************************************************************)
(* authorize, validate and approval: what each packet's check requires of  *)
(* a decision at the time it runs.                                         *)
(***************************************************************************)
InWindow(d) == d.issued <= clock /\ clock < d.expires /\ d.expires - d.issued <= Day

\* The version string separates the packets; scope and fingerprint bind the content.
Approves(d, p) ==
    /\ d \in trusted
    /\ d.status = "APPROVED"
    /\ d.of = p /\ d.scope = packets[p]
    /\ InWindow(d)

\* artifacts.authorize: the packet is the one built from the manifest, and independent
\* review trusts every expected digest.
LockAuthorized(d) ==
    /\ packets["lock"] = Built("lock")
    /\ Approves(d, "lock")
    /\ Evaluable /\ Eligible(evaluate)

\* attestation.authorize: the ledger is evaluated again and must still be the packet's.
AttestedAuthorized(d) ==
    /\ Evaluable
    /\ packets["attested"] = Built("attested")
    /\ Approves(d, "attested")
    /\ Eligible(evaluate)

\* acquisition.bindings and acquisition.authorize: the sealed ledger is the pinned one.
AcquireAuthorized(d) ==
    /\ packets["acquire"] = Packet(Pinned, "exact")
    /\ Approves(d, "acquire")

\* 14.33B validate: the packet's fingerprint is the constant RETRY.
RetryAuthorized(d) ==
    /\ packets["retry"] = Packet(Pinned, "exact")
    /\ Approves(d, "retry")

\* 14.34A attest: an installer observation in trusted custody whose every check passes.
\* The installer is described by the index like the first artifact.
InstallerAttested == \E e \in evidence : e.artifact = 1 /\ e \in custody /\ e.faults = {}

\* 14.34A approval: a packet, a decision of its own type and a trusted attestation.
InstallAuthorized(d) ==
    /\ packets["install"] = Packet(Pinned, "exact")
    /\ Approves(d, "install")
    /\ InstallerAttested

Authorized(p, d) == CASE p = "lock" -> LockAuthorized(d)
                      [] p = "attested" -> AttestedAuthorized(d)
                      [] p = "acquire" -> AcquireAuthorized(d)
                      [] p = "retry" -> RetryAuthorized(d)
                      [] p = "install" -> InstallAuthorized(d)

Authorize(p, d) ==
    /\ d \in decisions
    /\ Authorized(p, d)
    /\ granted' = {[packet |-> p, decision |-> d, at |-> clock, scope |-> packets[p],
                    evidence |-> evidence, custody |-> custody]}
    /\ certified' = {}
    /\ UNCHANGED <<clock, evidence, custody, packets, decisions, trusted, transfer,
                   files, receipts, trusted_receipts, forgeries>>

(***************************************************************************)
(* verify_quarantine of 14.33 and certify of 14.33B.                       *)
(***************************************************************************)
ReceiptFor(a) == CHOOSE r \in receipts : r.artifact = a

\* The receipt check with the start of the transfer left out.
ReceiptHoldsByEnd(r, p, d) ==
    /\ r \in trusted_receipts
    /\ r.packet = p /\ r.decision = d
    /\ r.complete
    /\ r.end <= clock /\ r.end < d.expires

\* One receipt per artifact, all of them trusted, issued under this packet and decision,
\* for one complete request in the decision's window, and one file per artifact.
ReceiptHolds(r, p, d) ==
    /\ r \in trusted_receipts
    /\ r.packet = p /\ r.decision = d
    /\ r.complete
    /\ d.issued <= r.start /\ r.start <= r.end /\ r.end <= clock /\ r.end < d.expires
    /\ r.end - r.start <= Timeout

\* 14.33 wants the sequence numbers to be a permutation, 14.33B each artifact's index.
Sequenced(p) ==
    IF p = "retry" THEN \A r \in receipts : r.sequence = r.artifact
    ELSE {r.sequence : r \in receipts} = Artifacts

verify_quarantine(p, d) ==
    /\ Authorized(p, d)
    /\ Cardinality(receipts) = N /\ {r.artifact : r \in receipts} = Artifacts
    /\ Sequenced(p)
    /\ files[0] = "expected"
    /\ \A a \in Artifacts : /\ ReceiptHolds(ReceiptFor(a), p, d)
                            /\ files[a] = "expected"
                            /\ ReceiptFor(a).bytes = files[a]

Certify(p, d) ==
    /\ p \in {"acquire", "retry"}
    /\ d \in decisions
    /\ verify_quarantine(p, d)
    /\ certified' = {[packet |-> p, decision |-> d, at |-> clock, receipts |-> receipts,
                      files |-> files]}
    /\ granted' = {}
    /\ UNCHANGED <<clock, evidence, custody, packets, decisions, trusted, transfer,
                   files, receipts, trusted_receipts, forgeries>>

(***************************************************************************)
(* The surroundings: the index, the owner, the downloader, and changes to  *)
(* any of the files.                                                       *)
(***************************************************************************)
Observe(a, faults) ==
    /\ Cardinality(evidence) <= N
    /\ evidence' = evidence \cup {[artifact |-> a, faults |-> faults]}
    /\ evidence' # evidence
    /\ UNCHANGED <<clock, custody, packets, decisions, trusted, transfer, files,
                   receipts, trusted_receipts, forgeries>>

Review(e) ==
    /\ custody' = custody \cup {e}
    /\ UNCHANGED <<clock, evidence, packets, decisions, trusted, transfer, files,
                   receipts, trusted_receipts, forgeries>>

\* A bad review is withdrawn.
Withdraw(e) ==
    /\ custody' = custody \ {e}
    /\ UNCHANGED <<clock, evidence, packets, decisions, trusted, transfer, files,
                   receipts, trusted_receipts, forgeries>>

Decide(p, status, length) ==
    LET d == [of |-> p, scope |-> packets[p], status |-> status, issued |-> clock,
              expires |-> clock + length]
    IN  /\ packets[p].content # "absent"
        /\ Cardinality(trusted) < MaxDecisions
        /\ decisions' = decisions \cup {d}
        /\ trusted' = trusted \cup {d}
        /\ UNCHANGED <<clock, evidence, custody, packets, transfer, files, receipts,
                       trusted_receipts, forgeries>>

\* Someone presents an altered decision: approved, prolonged, or for another packet.
ForgeDecision(d) ==
    /\ forgeries < MaxForgeries
    /\ \E p \in Packets :
         decisions' = decisions \cup
             {[d EXCEPT !.status = "APPROVED"], [d EXCEPT !.expires = @ + 1],
              [d EXCEPT !.of = p, !.scope = packets[p]]}
    /\ forgeries' = forgeries + 1
    /\ UNCHANGED <<clock, evidence, custody, packets, trusted, transfer, files,
                   receipts, trusted_receipts>>

EditPacket(p) ==
    /\ forgeries < MaxForgeries
    /\ packets[p].content = "exact"
    /\ packets' = [packets EXCEPT ![p].content = "edited"]
    /\ forgeries' = forgeries + 1
    /\ UNCHANGED <<clock, evidence, custody, decisions, trusted, transfer, files,
                   receipts, trusted_receipts>>

\* The download under an approval; nothing here stops one that starts too early or
\* runs too long, the receipt says when it ran.
StartTransfer(a, d) ==
    /\ d.status = "APPROVED"
    /\ transfer = {} /\ Cardinality(trusted_receipts) < MaxTransfers
    /\ transfer' = {[artifact |-> a, packet |-> d.of, decision |-> d, start |-> clock]}
    /\ UNCHANGED <<clock, evidence, custody, packets, decisions, trusted, files,
                   receipts, trusted_receipts, forgeries>>

FinishTransfer(bytes, complete) == \E t \in transfer :
    LET r == [artifact |-> t.artifact, packet |-> t.packet, decision |-> t.decision,
              start |-> t.start, end |-> clock, bytes |-> bytes, complete |-> complete,
              sequence |-> Cardinality(trusted_receipts) + 1]
    IN  /\ files' = [files EXCEPT ![t.artifact] = bytes]
        /\ receipts' = {q \in receipts : q.artifact # t.artifact} \cup {r}
        /\ trusted_receipts' = trusted_receipts \cup {r}
        /\ transfer' = {}
        /\ UNCHANGED <<clock, evidence, custody, packets, decisions, trusted,
                       forgeries>>

\* A receipt is presented with other times or another decision.
ForgeReceipt(r, d) ==
    /\ forgeries < MaxForgeries
    /\ receipts' = (receipts \ {r}) \cup
           {[r EXCEPT !.decision = d, !.packet = d.of, !.start = d.issued,
                      !.end = d.issued, !.bytes = "expected"]}
    /\ forgeries' = forgeries + 1
    /\ UNCHANGED <<clock, evidence, custody, packets, decisions, trusted, transfer,
                   files, trusted_receipts>>

\* Other bytes, a link in a file's place, or a directory that is no longer the approved
\* one with its links and access rules checked.
AlterFile(a) ==
    /\ forgeries < MaxForgeries
    /\ files[a] = "expected"
    /\ files' = [files EXCEPT ![a] = "other"]
    /\ forgeries' = forgeries + 1
    /\ UNCHANGED <<clock, evidence, custody, packets, decisions, trusted, transfer,
                   receipts, trusted_receipts>>

Tick ==
    /\ clock < EndTime
    /\ clock' = clock + 1
    /\ UNCHANGED <<evidence, custody, packets, decisions, trusted, transfer, files,
                   receipts, trusted_receipts, forgeries>>

AcquisitionInit ==
    /\ clock = 0
    /\ evidence = {} /\ custody = {}
    /\ packets = [p \in Packets |-> Packet(Blank, "absent")]
    /\ decisions = {} /\ trusted = {} /\ granted = {}
    /\ transfer = {}
    /\ files = [a \in 0..N |-> IF a = 0 THEN "expected" ELSE "absent"]
    /\ receipts = {} /\ trusted_receipts = {}
    /\ certified = {}
    /\ forgeries = 0

\* What changes the files; the result of the last call is forgotten.
Change ==
    \/ \E a \in Artifacts, f \in MetaFaults : Observe(a, {f})
    \/ \E a \in Artifacts : Observe(a, {})
    \/ \E e \in evidence \ custody : Review(e)
    \/ \E e \in custody : Withdraw(e)
    \/ \E p \in Packets : Prepare(p)
    \/ \E p \in Packets, s \in {"APPROVED", "REJECTED"}, n \in 1..(Day + 1) : Decide(p, s, n)
    \/ \E d \in decisions : ForgeDecision(d)
    \/ \E p \in Packets : EditPacket(p)
    \/ \E a \in Artifacts, d \in trusted : StartTransfer(a, d)
    \/ \E b \in {"expected", "other"} : FinishTransfer(b, TRUE)
    \/ FinishTransfer("other", FALSE)
    \/ \E r \in receipts, d \in decisions : ForgeReceipt(r, d)
    \/ \E a \in 0..N : AlterFile(a)
    \/ Tick

AcquisitionNext ==
    \/ Change /\ granted' = {} /\ certified' = {}
    \/ \E p \in Packets, d \in decisions : Authorize(p, d)
    \/ \E p \in Packets, d \in decisions : Certify(p, d)

AcquisitionSpec == AcquisitionInit /\ [][AcquisitionNext]_acquisitionVars

-----------------------------------------------------------------------------
Observations == [artifact : Artifacts, faults : SUBSET MetaFaults]

\* Every file holds what its writers put there.
AcquisitionTypeOK ==
    /\ clock \in Times
    /\ evidence \subseteq Observations /\ custody \subseteq evidence
    /\ \A p \in Packets : packets[p].content \in {"absent", "exact", "edited"}
    /\ trusted \subseteq decisions
    /\ files \in [0..N -> {"absent", "expected", "other"}]
    /\ \A r \in receipts \cup trusted_receipts : r.artifact \in Artifacts
    /\ Cardinality(granted) <= 1 /\ Cardinality(certified) <= 1

\* Whatever authorize accepts, the owner approved that very packet with that very content,
\* not longer ago than a day and not past the decision's end (artifacts.authorize,
\* attestation.authorize, acquisition.authorize, validate, approval).
GrantIsOwners ==
    \A g \in granted :
        /\ g.decision \in trusted
        /\ g.decision.status = "APPROVED"
        /\ g.decision.of = g.packet /\ g.decision.scope = g.scope
        /\ g.scope.content = "exact"
        /\ g.at \in g.decision.issued..(g.decision.expires - 1)
        /\ g.at - g.decision.issued < Day

\* Digests are taken from the index only: when the lock or the attested packet is
\* authorized, every artifact has exactly one observation, it is in reviewed custody and
\* nothing is wrong with it, also when it was reviewed and withdrawn after the packet was
\* prepared (attestation.evaluate, compare).
GrantIsAttested ==
    \A g \in granted : g.packet \in {"lock", "attested"} =>
        \A a \in Artifacts :
            \E e \in g.custody : /\ e = [artifact |-> a, faults |-> {}]
                                 /\ {x \in g.evidence : x.artifact = a} = {e}

\* A certificate covers bytes that a real download of every artifact brought in, in one
\* attempt each, inside the window of the one decision that approved it and within the
\* timeout, and nobody changed them (verify_quarantine, certify).
CertifiedBytesAreDownloads ==
    \A c \in certified : \A a \in Artifacts : \E r \in trusted_receipts :
        /\ r.artifact = a /\ r.decision = c.decision /\ r.packet = c.packet
        /\ r.complete /\ r.bytes = "expected" /\ c.files[a] = "expected"
        /\ r.start >= c.decision.issued /\ r.end < c.decision.expires
        /\ r.end - r.start <= Timeout
        /\ r.sequence <= N
        /\ c.files[0] = "expected"

\* Installing takes its own approval: a decision to acquire, however valid, with every
\* wheel certified, never authorizes the installation packet (14.34A approval).
InstallNeedsItsOwn ==
    \A g \in granted : g.packet = "install" =>
        /\ g.decision.of = "install"
        /\ \E e \in g.custody : e.artifact = 1 /\ e.faults = {}

\* What is authorized or certified rests on what the files say at that moment, whatever
\* anyone writes into them before or after.
AcquisitionSound ==
    /\ AcquisitionTypeOK /\ GrantIsOwners /\ GrantIsAttested /\ InstallNeedsItsOwn
    /\ CertifiedBytesAreDownloads

=============================================================================
