---------------------------- MODULE FixtureTrust ----------------------------
(***************************************************************************)
(* The synthetic trust policy of phase 14.44B: threads verify serialised   *)
(* governance decisions against an authority and a clock and consume them  *)
(* in a ledger that lives in one process.  Everything but the consumption  *)
(* works on values the caller passed, so authority and clock may have      *)
(* changed by the time the ledger's lock is taken.                         *)
(*                                                                         *)
(* A hash or a MAC is the value it was computed from.  A binding (trust    *)
(* root, owner, role, key fingerprint, governance, type, scope, baseline,  *)
(* amendment, certificate, revocation reference) is TRUE when the          *)
(* decision's field carries the value the verifier compares it with.       *)
(***************************************************************************)
EXTENDS Integers, Sequences, FiniteSets

CONSTANTS
    Threads,        \* threads of the verifying process
    Raw,            \* the serialised decisions that reach the verifier
    OwnerKey,       \* the key the authority enrolled
    Keys,           \* every key somebody may sign with
    Bindings,       \* the names of the compared fields
    RevocableIds,   \* the decision identities that may be revoked
    Validity,       \* the 168 hours, in ticks
    Uncertainty,    \* uncertainty_seconds, in ticks
    Horizon,        \* bound on the clocks
    MaxFaults,      \* bound on clock faults
    MaxRestarts     \* bound on restarts of the process

VARIABLES
    time,           \* the true time
    caller_clock,   \* FixtureClock: what the caller reads
    authority,      \* FixtureAuthority: what the caller passes
    ids, nonces,    \* VolatileFixtureLedger
    call,           \* per thread: idle, or the decision that passed the checks
    accepted,       \* every consumption of this process, in order (history)
    revocations,    \* what was revoked, and when (history)
    faults, restarts

trustVars == <<time, caller_clock, authority, ids, nonces, call, accepted, revocations,
          faults, restarts>>

Instants == 0..Horizon

\* SignedDecision, the fields the policy tells apart.
SignedDecisions ==
    [canonical : BOOLEAN, synthetic : BOOLEAN, bindings : SUBSET Bindings,
     id : STRING, nonce : STRING, start : Int, end : Int,
     fingerprint : {<<r.synthetic, r.bindings, r.id, r.nonce, r.start, r.end>> : r \in Raw},
     signature : [key : Keys, payload : {r.signature.payload : r \in Raw}]]

\* A serialised decision has the fields and types of SignedDecision.
ASSUME TrustAssumption ==
    /\ Raw \subseteq SignedDecisions
    /\ RevocableIds \subseteq {r.id : r \in Raw}
    /\ Horizon \in Nat \ {0} /\ {Validity, Uncertainty, MaxFaults, MaxRestarts} \subseteq Nat

FixtureAuthorities ==
    [available : BOOLEAN, revoked_key : BOOLEAN, revoked_owner : BOOLEAN,
     revoked_decisions : SUBSET {r.id : r \in Raw}, conflicting : BOOLEAN,
     effective_from : Instants, expires_at : Nat]

FixtureClocks == [now : Instants, prior_checkpoint : Instants, evidence : BOOLEAN]

\* payload and signature_input: everything but the signature and the fingerprint.
payload(d) == <<d.synthetic, d.bindings, d.id, d.nonce, d.start, d.end>>

\* sign_fixture refuses anything but a synthetic decision.
sign_fixture(d, key) ==
    [canonical |-> TRUE, synthetic |-> d.synthetic, bindings |-> d.bindings, id |-> d.id,
     nonce |-> d.nonce, start |-> d.start, end |-> d.end, fingerprint |-> payload(d),
     signature |-> [key |-> key, payload |-> payload(d)]]

parse(raw) == raw.canonical /\ raw.fingerprint = payload(raw)

SignatureValid(raw) == raw.signature = [key |-> OwnerKey, payload |-> payload(raw)]

\* Mutant of TimeVerified: the clock is taken at its word.
TimeVerifiedExactly(raw, c) ==
    /\ c.evidence
    /\ c.now >= c.prior_checkpoint
    /\ raw.end - raw.start = Validity
    /\ raw.start <= c.now /\ c.now < raw.end

TimeVerified(raw, c) ==
    /\ c.evidence
    /\ c.now >= c.prior_checkpoint
    /\ raw.end - raw.start = Validity
    /\ raw.start <= c.now - Uncertainty
    /\ c.now + Uncertainty < raw.end

NotRevoked(raw, a) ==
    /\ ~a.revoked_key /\ ~a.revoked_owner /\ ~a.conflicting
    /\ raw.id \notin a.revoked_decisions

\* verify_fixture up to ledger.consume.
verify_fixture_checks(raw, a, c) ==
    /\ parse(raw)
    /\ raw.synthetic
    /\ a.available
    /\ raw.bindings = Bindings
    /\ SignatureValid(raw)
    /\ NotRevoked(raw, a)
    /\ TimeVerified(raw, c)
    /\ a.effective_from <= raw.start /\ raw.end <= a.expires_at

NoCall == [idle |-> TRUE]

TrustInit ==
    /\ time = 0
    /\ caller_clock = [now |-> 0, prior_checkpoint |-> 0, evidence |-> TRUE]
    /\ authority = [available |-> TRUE, revoked_key |-> FALSE, revoked_owner |-> FALSE,
                    revoked_decisions |-> {}, conflicting |-> FALSE,
                    effective_from |-> 1, expires_at |-> Horizon]
    /\ ids = {} /\ nonces = {}
    /\ call = [t \in Threads |-> NoCall]
    /\ accepted = <<>>
    /\ revocations = {}
    /\ faults = 0 /\ restarts = 0

\* A thread verifies a decision; a refusal raises and leaves nothing behind.
Submit(t, raw) ==
    /\ call[t] = NoCall
    /\ verify_fixture_checks(raw, authority, caller_clock)
    /\ call' = [call EXCEPT ![t] = [idle |-> FALSE, raw |-> raw, time |-> time,
                                    exact |-> caller_clock.now - time \in -Uncertainty..Uncertainty,
                                    revoked |-> revocations]]
    /\ UNCHANGED <<time, caller_clock, authority, ids, nonces, accepted, revocations, faults, restarts>>

\* VolatileFixtureLedger.consume, whole under its lock: REPLAYED_DECISION,
\* DUPLICATE_NONCE, or both sets grow and the decision is accepted.
consume(t) ==
    /\ ~call[t].idle
    /\ IF call[t].raw.id \in ids \/ call[t].raw.nonce \in nonces
         THEN UNCHANGED <<ids, nonces, accepted>>
         ELSE /\ ids' = ids \cup {call[t].raw.id}
              /\ nonces' = nonces \cup {call[t].raw.nonce}
              /\ accepted' = Append(accepted, call[t])
    /\ call' = [call EXCEPT ![t] = NoCall]
    /\ UNCHANGED <<time, caller_clock, authority, revocations, faults, restarts>>

\* Time passes; the caller's clock stays within the stated uncertainty and its
\* checkpoint within what the clock has shown.
Tick ==
    /\ time < Horizon
    /\ time' = time + 1
    /\ \E n \in Instants :
         /\ n - time' \in -Uncertainty..Uncertainty
         /\ caller_clock' = [caller_clock EXCEPT !.now = n, !.prior_checkpoint = caller_clock.now]
    /\ UNCHANGED <<authority, ids, nonces, call, accepted, revocations, faults, restarts>>

\* The clock is set wrongly, or its evidence is lost.
ClockFault ==
    /\ faults < MaxFaults
    /\ faults' = faults + 1
    /\ \E n \in Instants, e \in BOOLEAN :
         caller_clock' = [caller_clock EXCEPT !.now = n, !.evidence = e]
    /\ UNCHANGED <<time, authority, ids, nonces, call, accepted, revocations, restarts>>

\* The caller passes a stricter authority from now on.
RevokeDecision ==
    /\ \/ \E id \in RevocableIds \ authority.revoked_decisions :
            /\ authority' = [authority EXCEPT !.revoked_decisions = @ \cup {id}]
            /\ revocations' = revocations \cup {id}
       \/ /\ ~authority.revoked_key
          /\ authority' = [authority EXCEPT !.revoked_key = TRUE]
          /\ revocations' = revocations \cup {raw.id : raw \in Raw}
    /\ UNCHANGED <<time, caller_clock, ids, nonces, call, accepted, faults, restarts>>

\* The ledger is volatile: a new process starts with an empty one.
Restart ==
    /\ restarts < MaxRestarts
    /\ restarts' = restarts + 1
    /\ ids' = {} /\ nonces' = {} /\ accepted' = <<>>
    /\ call' = [t \in Threads |-> NoCall]
    /\ UNCHANGED <<time, caller_clock, authority, revocations, faults>>

TrustNext ==
    \/ \E t \in Threads, raw \in Raw : Submit(t, raw)
    \/ \E t \in Threads : consume(t)
    \/ Tick \/ ClockFault \/ RevokeDecision \/ Restart

TrustSpec == TrustInit /\ [][TrustNext]_trustVars

-----------------------------------------------------------------------------

\* The state stays within the code's types; the ledger holds only decisions that
\* reached the verifier.
TrustTypeOK ==
    /\ time \in Instants /\ caller_clock \in FixtureClocks /\ authority \in FixtureAuthorities
    /\ ids \subseteq {r.id : r \in Raw} /\ nonces \subseteq {r.nonce : r \in Raw}
    /\ ids = {accepted[i].raw.id : i \in DOMAIN accepted}
    /\ nonces = {accepted[i].raw.nonce : i \in DOMAIN accepted}
    /\ \A t \in Threads : ~call[t].idle => call[t].raw \in SignedDecisions

\* However the threads interleave, no decision identity and no nonce is consumed twice
\* by one process.
ConsumedOnce ==
    \A i, j \in DOMAIN accepted :
        i # j => /\ accepted[i].raw.id # accepted[j].raw.id
                 /\ accepted[i].raw.nonce # accepted[j].raw.nonce

\* What was consumed carries the signature of the enrolled key over exactly these
\* contents: neither a decision altered after it was signed nor one signed by another
\* key gets through.
OnlySignedContents ==
    \A i \in DOMAIN accepted :
        accepted[i].raw = sign_fixture(accepted[i].raw, OwnerKey)

\* Whenever the clock was within its stated uncertainty, the decision was verified at a
\* true time inside its approval window.
VerifiedInWindow ==
    \A i \in DOMAIN accepted :
        accepted[i].exact =>
            /\ accepted[i].raw.start <= accepted[i].time
            /\ accepted[i].time < accepted[i].raw.end

\* A decision that was revoked, itself or through its key, when it was verified is never
\* consumed.
RevokedNotConsumed ==
    \A i \in DOMAIN accepted : accepted[i].raw.id \notin accepted[i].revoked

\* A decision is consumed once, as it was signed, inside its window and unrevoked.
TrustSound ==
    TrustTypeOK /\ ConsumedOnce /\ OnlySignedContents /\ VerifiedInWindow /\ RevokedNotConsumed

=============================================================================
