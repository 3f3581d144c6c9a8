---------------------------- MODULE ReplayLedger ----------------------------
(***************************************************************************)
(* The durable replay ledger of phase 14.44C: a SQLite file in which       *)
(* several processes consume and revoke synthetic decisions, each in one   *)
(* BEGIN IMMEDIATE transaction that first validates the whole file against *)
(* its audit chain.  The clock is read twice, before the insert and before *)
(* the commit; a process may die at any point and the file may be damaged, *)
(* lost or put back to an earlier copy.  inspect_checkpoint_fixture of     *)
(* phase 14.44D compares the file with a checkpoint kept elsewhere.        *)
(*                                                                         *)
(* The digest of an audit event is the chain up to that event.             *)
(***************************************************************************)
EXTENDS Integers, Sequences, FiniteSets

CONSTANTS
    Workers,        \* processes that open the ledger
    Decisions,      \* the decisions they try to consume
    Revocations,    \* <<kind, reference>> pairs that may be revoked
    Validity,       \* the 168 hours, in ticks
    Horizon,        \* bound on the clock
    MaxEvents,      \* bound on the audit chain
    MaxDamage,      \* how often a row is removed from the file
    MaxRestores,    \* how often the file is lost or an earlier copy put back
    MaxAborts       \* how often a process dies

VARIABLES
    file,           \* "absent", "empty" (created, nothing committed) or "ledger"
    events,         \* table events
    consumed,       \* table consumed
    revoked,        \* table revoked
    lock,           \* the process that holds SQLite's write lock, or NoOne
    txn,            \* per process: what its open transaction has done
    answer,         \* per process: what its last call returned
    told,           \* the decisions some caller was told are consumed (history)
    clock,          \* what clock() returns
    checkpoint,     \* the independent checkpoint
    history,        \* every event ever committed (history)
    damage, restores, aborts

tables == <<file, events, consumed, revoked>>
vars == <<file, events, consumed, revoked, lock, txn, answer, told, clock, checkpoint, history,
          damage, restores, aborts>>

NoOne == "no one"
Closed == [step |-> "closed"]

\* SyntheticDecision; bound says that the baseline, amendment and certificate match.
SyntheticDecisions ==
    [id : STRING, nonce : STRING, owner : STRING, key : STRING, root : STRING,
     bound : BOOLEAN, enrolled : BOOLEAN, timed : BOOLEAN, start : Int, end : Int]

ASSUME LedgerAssumption ==
    /\ NoOne \notin Workers
    /\ Decisions \subseteq SyntheticDecisions
    /\ Horizon \in Nat /\ MaxEvents \in Nat

\* A row of the table events.
AuditEvents ==
    [kind : {"consume"}, at : 0..Horizon, decision : Decisions]
        \cup [kind : {"revoke"}, at : 0..Horizon, target : Revocations]

\* CheckpointFixture: what was recorded elsewhere about the file.
CheckpointFixtures ==
    [sequence : 0..MaxEvents, head : Seq(AuditEvents),
     revocations : 0..MaxEvents, reservations : 0..MaxEvents]

check_fixture(d, now) ==
    /\ d.bound
    /\ d.enrolled
    /\ d.timed
    /\ d.end - d.start = Validity
    /\ d.start <= now /\ now < d.end

\* The rows the audit chain accounts for.
ConsumedIn(chain) ==
    {chain[i].decision : i \in {j \in DOMAIN chain : chain[j].kind = "consume"}}

RevokedIn(chain) ==
    {chain[i].target : i \in {j \in DOMAIN chain : chain[j].kind = "revoke"}}

\* Mutant of Validate: the table of consumed decisions is not compared with the chain.
ValidateChain ==
    /\ file = "ledger"
    /\ \A i \in DOMAIN events : \A j \in 1..(i - 1) : events[j].at <= events[i].at
    /\ revoked = RevokedIn(events)

\* Ledger._validate: schema and identity, the chain in order with no identity twice, and
\* both tables exactly what the chain accounts for.
Validate ==
    /\ file = "ledger"
    /\ \A i \in DOMAIN events : \A j \in 1..(i - 1) :
         /\ events[j].at <= events[i].at
         /\ events[i].kind = "consume" /\ events[j].kind = "consume"
              => events[i].decision.id # events[j].decision.id
    /\ consumed = ConsumedIn(events)
    /\ revoked = RevokedIn(events)

LastAt == IF events = <<>> THEN 0 ELSE events[Len(events)].at

IsRevoked(d) ==
    {<<"owner", d.owner>>, <<"key", d.key>>, <<"root", d.root>>, <<"decision", d.id>>}
        \cap revoked # {}

ReplayedIdentity(d) == \E c \in consumed : c.id = d.id

Replayed(d) == \E c \in consumed : c.id = d.id \/ c.nonce = d.nonce

MayConsume(d) ==
    /\ Validate
    /\ check_fixture(d, clock)
    /\ clock >= LastAt
    /\ ~IsRevoked(d)
    /\ ~Replayed(d)

\* inspect_checkpoint_fixture over the current file and a fresh, authentic checkpoint.
inspect_checkpoint_fixture ==
    /\ Validate
    /\ Len(events) = checkpoint.sequence
    /\ events = checkpoint.head
    /\ Cardinality(revoked) = checkpoint.revocations
    /\ Cardinality(consumed) = checkpoint.reservations

Init ==
    /\ file = "absent" /\ events = <<>> /\ consumed = {} /\ revoked = {}
    /\ lock = NoOne
    /\ txn = [w \in Workers |-> Closed]
    /\ answer = [w \in Workers |-> "none"]
    /\ told = {}
    /\ clock = 0
    /\ checkpoint = [sequence |-> 0, head |-> <<>>, revocations |-> 0, reservations |-> 0]
    /\ history = <<>>
    /\ damage = 0 /\ restores = 0 /\ aborts = 0

\* Ledger.create: the file is created exclusively, the tables in one transaction.
create(w) ==
    /\ file = "absent"
    /\ lock = NoOne
    /\ txn[w] = Closed
    /\ file' = "empty"
    /\ events' = <<>> /\ consumed' = {} /\ revoked' = {}
    /\ txn' = [txn EXCEPT ![w] = [step |-> "creating"]]
    /\ lock' = w
    /\ UNCHANGED <<answer, told, clock, checkpoint, history, damage, restores, aborts>>

Created(w) ==
    /\ txn[w].step = "creating"
    /\ file' = "ledger"
    /\ txn' = [txn EXCEPT ![w] = Closed]
    /\ lock' = NoOne
    /\ UNCHANGED <<events, consumed, revoked, answer, told, clock, checkpoint, history,
                   damage, restores, aborts>>

\* A call that ends in an exception rolls back; nothing of it stays.
Refuse(w) ==
    /\ txn' = [txn EXCEPT ![w] = Closed]
    /\ answer' = [answer EXCEPT ![w] = "refused"]
    /\ lock' = IF lock = w THEN NoOne ELSE lock
    /\ UNCHANGED <<tables, told, clock, checkpoint, history, damage, restores, aborts>>

\* consume_test up to before_commit: the write lock is taken, the file is validated, the
\* row and the event are inserted.
BeginConsume(w, d) ==
    /\ txn[w] = Closed
    /\ lock = NoOne
    /\ IF MayConsume(d) /\ Len(events) < MaxEvents
         THEN /\ lock' = w
              /\ txn' = [txn EXCEPT ![w] = [step |-> "inserted", decision |-> d, now |-> clock]]
              /\ answer' = [answer EXCEPT ![w] = "none"]
              /\ UNCHANGED <<tables, told, clock, checkpoint, history, damage, restores, aborts>>
         ELSE Refuse(w)

\* The clock is read again just before the commit; a decision that expired meanwhile, or
\* a clock set back, undoes the insert.
CommitConsume(w) ==
    /\ txn[w].step = "inserted"
    /\ LET d == txn[w].decision
           e == [kind |-> "consume", at |-> txn[w].now, decision |-> d]
       IN  IF check_fixture(d, clock) /\ clock >= txn[w].now
             THEN /\ events' = Append(events, e)
                  /\ consumed' = consumed \cup {d}
                  /\ history' = Append(history, [e EXCEPT !.at = clock])
                  /\ txn' = [txn EXCEPT ![w] = [step |-> "committed", decision |-> d]]
                  /\ lock' = NoOne
                  /\ UNCHANGED <<file, revoked, answer, told, clock, checkpoint, damage, restores, aborts>>
             ELSE Refuse(w)

\* after_commit and the return.
Return(w) ==
    /\ txn[w].step = "committed"
    /\ txn' = [txn EXCEPT ![w] = Closed]
    /\ answer' = [answer EXCEPT ![w] = "consumed"]
    /\ told' = told \cup {txn[w].decision}
    /\ UNCHANGED <<tables, lock, clock, checkpoint, history, damage, restores, aborts>>

\* revoke_test, whole: a pair that is already revoked violates the primary key.
revoke_test(w, target) ==
    /\ txn[w] = Closed
    /\ lock = NoOne
    /\ IF Validate /\ clock >= LastAt /\ target \notin revoked /\ Len(events) < MaxEvents
         THEN LET e == [kind |-> "revoke", at |-> clock, target |-> target]
              IN  /\ events' = Append(events, e)
                  /\ revoked' = revoked \cup {target}
                  /\ history' = Append(history, e)
                  /\ answer' = [answer EXCEPT ![w] = "revoked"]
                  /\ UNCHANGED <<file, consumed, lock, txn, told, clock, checkpoint,
                                 damage, restores, aborts>>
         ELSE Refuse(w)

\* A process dies: an open transaction is rolled back by the next one to open the file, a
\* committed one stays though nobody was told.
Abort(w) ==
    /\ aborts < MaxAborts
    /\ txn[w] # Closed
    /\ aborts' = aborts + 1
    /\ txn' = [txn EXCEPT ![w] = Closed]
    /\ lock' = IF lock = w THEN NoOne ELSE lock
    /\ answer' = [answer EXCEPT ![w] = "none"]
    /\ UNCHANGED <<tables, told, clock, checkpoint, history, damage, restores>>

\* External: a row disappears from one table.
Damage ==
    /\ damage < MaxDamage
    /\ lock = NoOne
    /\ damage' = damage + 1
    /\ \/ \E d \in consumed : consumed' = consumed \ {d} /\ UNCHANGED <<revoked, events>>
       \/ \E r \in revoked : revoked' = revoked \ {r} /\ UNCHANGED <<consumed, events>>
       \/ /\ events # <<>>
          /\ events' = SubSeq(events, 1, Len(events) - 1)
          /\ UNCHANGED <<consumed, revoked>>
    /\ UNCHANGED <<file, lock, txn, answer, told, clock, checkpoint, history, restores, aborts>>

\* External: the file is lost, or replaced by an earlier copy of itself.
Restore ==
    /\ restores < MaxRestores
    /\ file = "ledger" /\ lock = NoOne
    /\ restores' = restores + 1
    /\ \/ /\ file' = "absent"
          /\ events' = <<>> /\ consumed' = {} /\ revoked' = {}
       \/ \E n \in 0..(Len(events) - 1) :
            /\ events' = SubSeq(events, 1, n)
            /\ consumed' = ConsumedIn(events')
            /\ revoked' = RevokedIn(events')
            /\ file' = file
    /\ UNCHANGED <<lock, txn, answer, told, clock, checkpoint, history, damage, aborts>>

\* External: the wall clock moves, forwards or back.
MoveClock ==
    /\ clock' \in (0..Horizon) \ {clock}
    /\ UNCHANGED <<tables, lock, txn, answer, told, checkpoint, history, damage, restores, aborts>>

\* External: whoever keeps the checkpoint records every committed event.
Anchor ==
    /\ checkpoint' = [sequence |-> Len(history), head |-> events,
                      revocations |-> Cardinality(RevokedIn(history)),
                      reservations |-> Cardinality(ConsumedIn(history))]
    /\ restores = 0 /\ damage = 0
    /\ checkpoint'.sequence # checkpoint.sequence
    /\ UNCHANGED <<tables, lock, txn, answer, told, clock, history, damage, restores, aborts>>

Next ==
    \/ \E w \in Workers :
         \/ create(w) \/ Created(w) \/ CommitConsume(w) \/ Return(w) \/ Abort(w)
         \/ \E d \in Decisions : BeginConsume(w, d)
         \/ \E r \in Revocations : revoke_test(w, r)
    \/ Damage \/ Restore \/ MoveClock \/ Anchor

Spec == Init /\ [][Next]_vars

-----------------------------------------------------------------------------

Consumptions == {i \in DOMAIN history : history[i].kind = "consume"}

\* One writer at a time: whoever is between insert and commit holds the file's lock.
TypeOK ==
    /\ file \in {"absent", "empty", "ledger"}
    /\ lock \in Workers \cup {NoOne}
    /\ consumed \subseteq SyntheticDecisions
    /\ checkpoint \in CheckpointFixtures
    /\ \A w \in Workers : txn[w].step \in {"creating", "inserted"} <=> lock = w

\* The file is the one the processes wrote, and at most one row was taken out of it.  Two
\* rows can be an event and what it accounts for: that is an earlier copy of the file, which
\* only the checkpoint notices.
Original == restores = 0 /\ damage <= 1

\* As long as the file is not replaced, no decision identity and no nonce is ever
\* committed twice, whatever the processes interleave, whoever dies where, and although
\* a row may have been removed from the tables.
ConsumedOnce ==
    Original =>
        \A i, j \in Consumptions :
            i # j => /\ history[i].decision.id # history[j].decision.id
                     /\ history[i].decision.nonce # history[j].decision.nonce

\* Nothing is consumed after its owner, key, root or decision was revoked.
RevocationHolds ==
    Original =>
        \A i \in Consumptions : \A j \in 1..(i - 1) :
            history[j].kind = "revoke" =>
                LET d == history[i].decision
                IN  history[j].target \notin {<<"owner", d.owner>>, <<"key", d.key>>,
                                              <<"root", d.root>>, <<"decision", d.id>>}

\* A decision is inside its validity when its consumption commits, not only when it was
\* first looked at.
ValidAtCommit ==
    \A i \in Consumptions :
        /\ history[i].decision.start <= history[i].at
        /\ history[i].at < history[i].decision.end

\* Every decision some caller was told is consumed is in the ledger, and stays there
\* through crashes and later transactions.
ToldIsDurable == (restores = 0 /\ damage = 0) => told \subseteq consumed

\* A file whose tables and chain disagree is never written to again, not even by the
\* process that validated it before: consume_test and revoke_test validate under the lock.
DamageStops ==
    [][(consumed # ConsumedIn(events) \/ revoked # RevokedIn(events)) => history' = history]_vars

\* A file that passes the checkpoint holds every consumption and every revocation that
\* was committed before the checkpoint was taken: an earlier copy, or a new file with as
\* many events, is noticed.
CheckpointNoticesRollback ==
    inspect_checkpoint_fixture =>
        LET before == SubSeq(history, 1, checkpoint.sequence)
        IN  ConsumedIn(before) \subseteq consumed /\ RevokedIn(before) \subseteq revoked

\* However the processes interleave and die, the ledger commits no decision and no nonce
\* twice, nothing revoked and nothing outside its validity, and keeps what it told a caller;
\* a file put back to an earlier copy does not pass the checkpoint.
LedgerSound ==
    /\ TypeOK /\ ConsumedOnce /\ RevocationHolds /\ ValidAtCommit /\ ToldIsDurable
    /\ CheckpointNoticesRollback

=============================================================================
