-------------------------- MODULE ReplayLedgerProofs --------------------------
(***************************************************************************)
(* Proofs about what is kept on disk across attempts: the durable replay   *)
(* ledger, for any number of processes, decisions and revocations, and the *)
(* runs of consecutive paper sessions, for any calendar, plan and limits;  *)
(* and about the one-minute backtest engine, for any bars, tariff and      *)
(* proposals.                                                              *)
(***************************************************************************)
EXTENDS ReplayLedger, MultiSession, BacktestEngine, FiniteSetTheorems, SequenceTheorems,
        WellFoundedInduction, TLAPS

Transactions ==
    {Closed} \cup [step : {"creating"}]
        \cup [step : {"inserted"}, decision : Decisions, now : 0..Horizon]
        \cup [step : {"committed"}, decision : Decisions]

TypeInv ==
    /\ file \in {"absent", "empty", "ledger"}
    /\ events \in Seq(AuditEvents) /\ Len(events) <= MaxEvents
    /\ consumed \subseteq Decisions /\ revoked \subseteq Revocations
    /\ lock \in Workers \cup {NoOne}
    /\ txn \in [Workers -> Transactions]
    /\ told \subseteq Decisions
    /\ clock \in 0..Horizon
    /\ checkpoint \in CheckpointFixtures
    /\ history \in Seq(AuditEvents)
    /\ damage \in Nat /\ restores \in Nat

\* The lock belongs to the process that is creating the file or has inserted a row.
LockInv == \A w \in Workers : txn[w].step \in {"creating", "inserted"} <=> lock = w

\* Tables and chain agree.
Agreed == consumed = ConsumedIn(events) /\ revoked = RevokedIn(events)

\* What consume_test checked before the insert still holds: nobody writes meanwhile.
InsertedInv ==
    \A w \in Workers : txn[w].step = "inserted" =>
        /\ file # "absent" /\ Agreed
        /\ ~IsRevoked(txn[w].decision) /\ ~Replayed(txn[w].decision)
        /\ Len(events) < MaxEvents

AbsentInv ==
    file = "absent" => events = <<>> /\ consumed = {} /\ revoked = {} /\ (restores = 0 => history = <<>>)

\* The same event, but for the time: the row carries the first reading of the clock.
SameEvent(e, h) ==
    /\ e.kind = h.kind
    /\ e.kind = "consume" => e.decision = h.decision
    /\ e.kind = "revoke" => e.target = h.target

\* An undamaged file holds exactly what was ever committed.
MirrorInv ==
    restores = 0 /\ damage = 0 =>
        /\ Len(events) = Len(history)
        /\ \A i \in 1..Len(history) : SameEvent(events[i], history[i])
        /\ Agreed

\* No pair is revoked twice: each row of revoked has one event.
RevokedOnce ==
    \A i, j \in 1..Len(history) :
        i # j /\ history[i].kind = "revoke" /\ history[j].kind = "revoke"
            => history[i].target # history[j].target

\* After one removed row tables and chain disagree, and go on doing so.
StoppedInv == restores = 0 /\ damage = 1 => ~Agreed

ToldInv ==
    restores = 0 /\ damage = 0 =>
        /\ told \subseteq consumed
        /\ \A w \in Workers : txn[w].step = "committed" => txn[w].decision \in consumed

\* The checkpoint's head accounts for what had been committed when it was taken.
CheckpointInv ==
    /\ checkpoint.sequence <= Len(history)
    /\ ConsumedIn(SubSeq(history, 1, checkpoint.sequence)) = ConsumedIn(checkpoint.head)
    /\ RevokedIn(SubSeq(history, 1, checkpoint.sequence)) = RevokedIn(checkpoint.head)

IInv ==
    /\ TypeInv /\ LockInv /\ InsertedInv /\ AbsentInv
    /\ MirrorInv /\ (Original => RevokedOnce) /\ StoppedInv /\ ToldInv /\ CheckpointInv
    /\ ConsumedOnce /\ RevocationHolds /\ ValidAtCommit

-----------------------------------------------------------------------------
(* The rows a chain accounts for.                                            *)

LEMMA EventFields ==
  ASSUME NEW e \in AuditEvents
  PROVE  /\ e.kind \in {"consume", "revoke"} /\ e.at \in 0..Horizon
         /\ e.kind = "consume" => e.decision \in Decisions
         /\ e.kind = "revoke" => e.target \in Revocations
BY DEF AuditEvents

LEMMA ConsumedInDef ==
  ASSUME NEW S, NEW chain \in Seq(S), NEW d
  PROVE  d \in ConsumedIn(chain) <=>
           \E i \in 1..Len(chain) : chain[i].kind = "consume" /\ chain[i].decision = d
BY DEF ConsumedIn

LEMMA RevokedInDef ==
  ASSUME NEW S, NEW chain \in Seq(S), NEW r
  PROVE  r \in RevokedIn(chain) <=>
           \E i \in 1..Len(chain) : chain[i].kind = "revoke" /\ chain[i].target = r
BY DEF RevokedIn

LEMMA AppendFacts ==
  ASSUME NEW S, NEW chain \in Seq(S), NEW e \in S
  PROVE  /\ Append(chain, e) \in Seq(S)
         /\ Len(Append(chain, e)) = Len(chain) + 1
         /\ \A i \in 1..Len(chain) : Append(chain, e)[i] = chain[i]
         /\ Append(chain, e)[Len(chain) + 1] = e
OBVIOUS

LEMMA PrefixFacts ==
  ASSUME NEW S, NEW chain \in Seq(S), NEW n \in 0..Len(chain)
  PROVE  /\ SubSeq(chain, 1, n) \in Seq(S) /\ Len(SubSeq(chain, 1, n)) = n
         /\ \A i \in 1..n : SubSeq(chain, 1, n)[i] = chain[i]
OBVIOUS

LEMMA AppendConsume ==
  ASSUME NEW S, NEW chain \in Seq(S), NEW e \in S, e.kind = "consume"
  PROVE  /\ ConsumedIn(Append(chain, e)) = ConsumedIn(chain) \cup {e.decision}
         /\ RevokedIn(Append(chain, e)) = RevokedIn(chain)
<1> DEFINE c == Append(chain, e)
<1>1. c \in Seq(S) /\ Len(c) = Len(chain) + 1 /\ c[Len(chain) + 1] = e
      /\ \A i \in 1..Len(chain) : c[i] = chain[i]
  BY AppendFacts
<1> HIDE DEF c
<1>2. ASSUME NEW d PROVE d \in ConsumedIn(c) <=> d \in ConsumedIn(chain) \cup {e.decision}
  <2>1. d \in ConsumedIn(c) <=> \E i \in 1..Len(c) : c[i].kind = "consume" /\ c[i].decision = d
    BY <1>1, ConsumedInDef
  <2>2. d \in ConsumedIn(chain) <=>
          \E i \in 1..Len(chain) : chain[i].kind = "consume" /\ chain[i].decision = d
    BY ConsumedInDef
  <2> QED BY <1>1, <2>1, <2>2, Len(chain) \in Nat
<1>3. ASSUME NEW r PROVE r \in RevokedIn(c) <=> r \in RevokedIn(chain)
  <2>1. r \in RevokedIn(c) <=> \E i \in 1..Len(c) : c[i].kind = "revoke" /\ c[i].target = r
    BY <1>1, RevokedInDef
  <2>2. r \in RevokedIn(chain) <=>
          \E i \in 1..Len(chain) : chain[i].kind = "revoke" /\ chain[i].target = r
    BY RevokedInDef
  <2> QED BY <1>1, <2>1, <2>2, Len(chain) \in Nat
<1> QED BY <1>2, <1>3 DEF c

LEMMA AppendRevoke ==
  ASSUME NEW S, NEW chain \in Seq(S), NEW e \in S, e.kind = "revoke"
  PROVE  /\ RevokedIn(Append(chain, e)) = RevokedIn(chain) \cup {e.target}
         /\ ConsumedIn(Append(chain, e)) = ConsumedIn(chain)
<1> DEFINE c == Append(chain, e)
<1>1. c \in Seq(S) /\ Len(c) = Len(chain) + 1 /\ c[Len(chain) + 1] = e
      /\ \A i \in 1..Len(chain) : c[i] = chain[i]
  BY AppendFacts
<1> HIDE DEF c
<1>2. ASSUME NEW r PROVE r \in RevokedIn(c) <=> r \in RevokedIn(chain) \cup {e.target}
  <2>1. r \in RevokedIn(c) <=> \E i \in 1..Len(c) : c[i].kind = "revoke" /\ c[i].target = r
    BY <1>1, RevokedInDef
  <2>2. r \in RevokedIn(chain) <=>
          \E i \in 1..Len(chain) : chain[i].kind = "revoke" /\ chain[i].target = r
    BY RevokedInDef
  <2> QED BY <1>1, <2>1, <2>2, Len(chain) \in Nat
<1>3. ASSUME NEW d PROVE d \in ConsumedIn(c) <=> d \in ConsumedIn(chain)
  <2>1. d \in ConsumedIn(c) <=> \E i \in 1..Len(c) : c[i].kind = "consume" /\ c[i].decision = d
    BY <1>1, ConsumedInDef
  <2>2. d \in ConsumedIn(chain) <=>
          \E i \in 1..Len(chain) : chain[i].kind = "consume" /\ chain[i].decision = d
    BY ConsumedInDef
  <2> QED BY <1>1, <2>1, <2>2, Len(chain) \in Nat
<1> QED BY <1>2, <1>3 DEF c

\* Chains of the same events account for the same rows.
LEMMA SameRows ==
  ASSUME NEW a \in Seq(AuditEvents), NEW b \in Seq(AuditEvents), Len(a) = Len(b),
         \A i \in 1..Len(b) : SameEvent(a[i], b[i])
  PROVE  ConsumedIn(a) = ConsumedIn(b) /\ RevokedIn(a) = RevokedIn(b)
<1>1. ASSUME NEW d PROVE d \in ConsumedIn(a) <=> d \in ConsumedIn(b)
  <2>1. d \in ConsumedIn(a) <=> \E i \in 1..Len(a) : a[i].kind = "consume" /\ a[i].decision = d
    BY ConsumedInDef
  <2>2. d \in ConsumedIn(b) <=> \E i \in 1..Len(b) : b[i].kind = "consume" /\ b[i].decision = d
    BY ConsumedInDef
  <2> QED BY <2>1, <2>2 DEF SameEvent
<1>2. ASSUME NEW r PROVE r \in RevokedIn(a) <=> r \in RevokedIn(b)
  <2>1. r \in RevokedIn(a) <=> \E i \in 1..Len(a) : a[i].kind = "revoke" /\ a[i].target = r
    BY RevokedInDef
  <2>2. r \in RevokedIn(b) <=> \E i \in 1..Len(b) : b[i].kind = "revoke" /\ b[i].target = r
    BY RevokedInDef
  <2> QED BY <2>1, <2>2 DEF SameEvent
<1> QED BY <1>1, <1>2

\* A chain accounts for at most as many rows as it has events.
LEMMA RowsBounded ==
  ASSUME NEW chain \in Seq(AuditEvents)
  PROVE  /\ Cardinality(ConsumedIn(chain)) \in 0..Len(chain)
         /\ Cardinality(RevokedIn(chain)) \in 0..Len(chain)
<1> DEFINE D == 1..Len(chain)
           C == {i \in D : chain[i].kind = "consume"}
           R == {i \in D : chain[i].kind = "revoke"}
<1>1. IsFiniteSet(D) /\ Cardinality(D) = Len(chain)
  BY FS_Interval, Len(chain) \in Nat
<1>2. /\ IsFiniteSet(C) /\ Cardinality(C) <= Len(chain)
      /\ IsFiniteSet(R) /\ Cardinality(R) <= Len(chain)
  <2>1. C \subseteq D /\ R \subseteq D
    OBVIOUS
  <2> QED BY <1>1, <2>1, FS_Subset
<1>3. ConsumedIn(chain) = {chain[i].decision : i \in C}
  BY DEF ConsumedIn
<1>4. RevokedIn(chain) = {chain[i].target : i \in R}
  BY DEF RevokedIn
<1>5. /\ IsFiniteSet({chain[i].decision : i \in C})
      /\ Cardinality({chain[i].decision : i \in C}) <= Cardinality(C)
  <2> DEFINE f == [i \in C |-> chain[i].decision]
  <2>1. f \in Surjection(C, {chain[i].decision : i \in C})
    BY DEF Surjection
  <2> HIDE DEF f
  <2> QED BY <1>2, <2>1, FS_Surjection
<1>6. /\ IsFiniteSet({chain[i].target : i \in R})
      /\ Cardinality({chain[i].target : i \in R}) <= Cardinality(R)
  <2> DEFINE f == [i \in R |-> chain[i].target]
  <2>1. f \in Surjection(R, {chain[i].target : i \in R})
    BY DEF Surjection
  <2> HIDE DEF f
  <2> QED BY <1>2, <2>1, FS_Surjection
<1>7. ASSUME NEW T, IsFiniteSet(T) PROVE Cardinality(T) \in Nat
  BY <1>7, FS_CardinalityType
<1> HIDE DEF C, R
<1> QED BY <1>2, <1>3, <1>4, <1>5, <1>6, <1>7, Len(chain) \in Nat

-----------------------------------------------------------------------------
(* What a step does to the tables.                                           *)

Quiet == UNCHANGED <<events, consumed, revoked, history, damage, restores>>

\* consume_test commits.
Consumes(w) ==
    LET d == txn[w].decision
        e == [kind |-> "consume", at |-> txn[w].now, decision |-> d]
    IN  /\ txn[w].step = "inserted"
        /\ check_fixture(d, clock)
        /\ events' = Append(events, e) /\ history' = Append(history, [e EXCEPT !.at = clock])
        /\ consumed' = consumed \cup {d} /\ lock' = NoOne
        /\ txn' = [txn EXCEPT ![w] = [step |-> "committed", decision |-> d]]
        /\ UNCHANGED <<file, revoked, damage, restores, checkpoint, told>>

\* revoke_test commits.
Revokes(r) ==
    LET e == [kind |-> "revoke", at |-> clock, target |-> r]
    IN  /\ Agreed /\ file = "ledger" /\ lock = NoOne
        /\ r \notin revoked /\ Len(events) < MaxEvents
        /\ events' = Append(events, e) /\ history' = Append(history, e)
        /\ revoked' = revoked \cup {r}
        /\ UNCHANGED <<file, consumed, damage, restores, checkpoint, txn, lock, told>>

LEMMA StepCases ==
  ASSUME IInv, [Next]_vars
  PROVE  \/ Quiet /\ (file' = file \/ file' # "absent")
         \/ \E w \in Workers : Consumes(w)
         \/ \E r \in Revocations : Revokes(r)
         \/ Damage
         \/ Restore
<1> USE DEF Quiet, tables
<1>1. CASE UNCHANGED vars
  BY <1>1 DEF vars
<1>2. ASSUME NEW w \in Workers, create(w) PROVE Quiet /\ file' # "absent"
  BY <1>2 DEF create, IInv, AbsentInv
<1>3. ASSUME NEW w \in Workers, Created(w) PROVE Quiet /\ file' # "absent"
  BY <1>3 DEF Created
<1>4. ASSUME NEW w \in Workers, CommitConsume(w)
      PROVE  Consumes(w) \/ (Quiet /\ file' = file)
  BY <1>4 DEF CommitConsume, Consumes, Refuse
<1>5. ASSUME NEW w \in Workers, Return(w) PROVE Quiet /\ file' = file
  BY <1>5 DEF Return
<1>6. ASSUME NEW w \in Workers, Abort(w) PROVE Quiet /\ file' = file
  BY <1>6 DEF Abort
<1>7. ASSUME NEW w \in Workers, NEW d \in Decisions, BeginConsume(w, d)
      PROVE  Quiet /\ file' = file
  BY <1>7 DEF BeginConsume, Refuse
<1>8. ASSUME NEW w \in Workers, NEW r \in Revocations, revoke_test(w, r)
      PROVE  Revokes(r) \/ (Quiet /\ file' = file)
  BY <1>8 DEF revoke_test, Revokes, Refuse, Validate, Agreed
<1>9. CASE MoveClock
  BY <1>9 DEF MoveClock
<1>10. CASE Anchor
  BY <1>10 DEF Anchor
<1> QED BY <1>1, <1>2, <1>3, <1>4, <1>5, <1>6, <1>7, <1>8, <1>9, <1>10 DEF Next

LEMMA TxnFields ==
  ASSUME TypeInv, NEW w \in Workers
  PROVE  /\ txn[w].step \in {"closed", "creating", "inserted", "committed"}
         /\ txn[w].step = "inserted" => txn[w].decision \in Decisions /\ txn[w].now \in 0..Horizon
         /\ txn[w].step = "committed" => txn[w].decision \in Decisions
BY DEF TypeInv, Transactions, Closed

\* The two events a commit appends, and that nothing was inserted into a file that disagrees.
LEMMA ConsumesFacts ==
  ASSUME IInv, NEW w \in Workers, Consumes(w),
         NEW d, d = txn[w].decision
  PROVE  /\ d \in Decisions /\ Agreed /\ ~IsRevoked(d) /\ ~Replayed(d) /\ Len(events) < MaxEvents
         /\ \E e \in AuditEvents, h \in AuditEvents :
              /\ e.kind = "consume" /\ e.decision = d /\ events' = Append(events, e)
              /\ h.kind = "consume" /\ h.decision = d /\ history' = Append(history, h)
              /\ h.at = clock /\ SameEvent(e, h)
<1>1. d \in Decisions /\ txn[w].now \in 0..Horizon
  BY TxnFields DEF IInv, Consumes
<1>2. Agreed /\ ~IsRevoked(d) /\ ~Replayed(d) /\ Len(events) < MaxEvents
  BY DEF IInv, InsertedInv, Consumes
<1> DEFINE e == [kind |-> "consume", at |-> txn[w].now, decision |-> d]
           h == [kind |-> "consume", at |-> clock, decision |-> d]
<1>3. e \in AuditEvents /\ h \in AuditEvents
  BY <1>1 DEF AuditEvents, IInv, TypeInv
<1>4. [e EXCEPT !.at = clock] = h
  OBVIOUS
<1>5. events' = Append(events, e) /\ history' = Append(history, h)
  BY <1>4 DEF Consumes
<1>6. SameEvent(e, h) /\ e.kind = "consume" /\ h.kind = "consume" /\ e.decision = d
      /\ h.decision = d /\ h.at = clock
  BY DEF SameEvent
<1> HIDE DEF e, h
<1> QED BY <1>1, <1>2, <1>3, <1>5, <1>6

LEMMA RevokesFacts ==
  ASSUME IInv, NEW r \in Revocations, Revokes(r)
  PROVE  \E e \in AuditEvents :
            /\ e.kind = "revoke" /\ e.target = r /\ e.at = clock
            /\ events' = Append(events, e) /\ history' = Append(history, e)
<1> DEFINE e == [kind |-> "revoke", at |-> clock, target |-> r]
<1>1. e \in AuditEvents
  BY DEF AuditEvents, IInv, TypeInv
<1>2. e.kind = "revoke" /\ e.target = r /\ e.at = clock
  OBVIOUS
<1>3. events' = Append(events, e) /\ history' = Append(history, e)
  BY DEF Revokes
<1> HIDE DEF e
<1> QED BY <1>1, <1>2, <1>3

-----------------------------------------------------------------------------
(* The initial state and the steps.                                          *)

LEMMA InitInv ==
  ASSUME Init
  PROVE  IInv
<1> USE DEF Init
<1>1. <<>> \in Seq(AuditEvents) /\ Len(<<>>) = 0
  OBVIOUS
<1>2. ConsumedIn(<<>>) = {} /\ RevokedIn(<<>>) = {}
  BY <1>1 DEF ConsumedIn, RevokedIn
<1>3. TypeInv
  BY <1>1, LedgerAssumption DEF TypeInv, Transactions, CheckpointFixtures
<1>4. LockInv /\ InsertedInv /\ ToldInv
  BY LedgerAssumption DEF LockInv, InsertedInv, ToldInv, Closed
<1>5. AbsentInv /\ MirrorInv /\ StoppedInv
  BY <1>1, <1>2 DEF AbsentInv, MirrorInv, StoppedInv, Agreed
<1>6. RevokedOnce /\ ConsumedOnce /\ RevocationHolds /\ ValidAtCommit
  BY <1>1 DEF RevokedOnce, ConsumedOnce, RevocationHolds, ValidAtCommit, Consumptions
<1>7. CheckpointInv
  <2>1. SubSeq(<<>>, 1, 0) = <<>>
    OBVIOUS
  <2>2. checkpoint.sequence = 0 /\ checkpoint.head = <<>> /\ history = <<>>
    OBVIOUS
  <2>3. SubSeq(history, 1, checkpoint.sequence) = checkpoint.head
    BY <2>1, <2>2
  <2>4. checkpoint.sequence <= Len(history)
    BY <1>1, <2>2
  <2> HIDE DEF Init
  <2> QED BY <2>3, <2>4 DEF CheckpointInv
<1> QED BY <1>3, <1>4, <1>5, <1>6, <1>7 DEF IInv

\* Types are kept; the bound on the checkpoint needs that it is taken of an undamaged file.
LEMMA TypeStep ==
  ASSUME IInv, [Next]_vars
  PROVE  TypeInv'
<1> USE DEF tables
<1>0. TypeInv /\ LedgerAssumption
  BY LedgerAssumption DEF IInv, LedgerAssumption
<1>1. CASE UNCHANGED vars
  BY <1>0, <1>1 DEF vars, TypeInv
<1>r. ASSUME NEW w \in Workers, Refuse(w) PROVE TypeInv'
  BY <1>0, <1>r DEF Refuse, TypeInv, Transactions
<1>2. ASSUME NEW w \in Workers, create(w) PROVE TypeInv'
  <2>1. events' \in Seq(AuditEvents) /\ Len(events') = 0
    BY <1>2 DEF create
  <2>2. txn' \in [Workers -> Transactions]
    BY <1>0, <1>2 DEF create, TypeInv, Transactions
  <2> QED BY <1>0, <1>2, <2>1, <2>2, LedgerAssumption DEF create, TypeInv
<1>3. ASSUME NEW w \in Workers, Created(w) PROVE TypeInv'
  BY <1>0, <1>3 DEF Created, TypeInv, Transactions
<1>4. ASSUME NEW w \in Workers, CommitConsume(w), ~Refuse(w) PROVE TypeInv'
  <2> DEFINE d == txn[w].decision
  <2>1. Consumes(w) /\ txn' = [txn EXCEPT ![w] = [step |-> "committed", decision |-> d]]
        /\ lock' = NoOne /\ UNCHANGED <<told, clock>>
    BY <1>4 DEF CommitConsume, Consumes
  <2>2. d \in Decisions /\ Len(events) < MaxEvents
    BY <2>1, ConsumesFacts
  <2>3. PICK e \in AuditEvents, h \in AuditEvents :
          events' = Append(events, e) /\ history' = Append(history, h)
    BY <2>1, ConsumesFacts
  <2>4. events' \in Seq(AuditEvents) /\ history' \in Seq(AuditEvents)
        /\ Len(events') <= MaxEvents
    BY <1>0, <2>2, <2>3, LedgerAssumption DEF TypeInv
  <2>5. txn' \in [Workers -> Transactions]
    BY <1>0, <2>1, <2>2 DEF TypeInv, Transactions
  <2> QED BY <1>0, <2>1, <2>2, <2>4, <2>5 DEF TypeInv, Consumes
<1>5. ASSUME NEW w \in Workers, Return(w) PROVE TypeInv'
  <2>1. txn[w].decision \in Decisions
    BY <1>0, <1>5, TxnFields DEF Return
  <2>2. txn' \in [Workers -> Transactions]
    BY <1>0, <1>5 DEF Return, TypeInv, Transactions
  <2> QED BY <1>0, <1>5, <2>1, <2>2 DEF Return, TypeInv
<1>6. ASSUME NEW w \in Workers, Abort(w) PROVE TypeInv'
  BY <1>0, <1>6 DEF Abort, TypeInv, Transactions
<1>7. ASSUME NEW w \in Workers, NEW d \in Decisions, BeginConsume(w, d), ~Refuse(w) PROVE TypeInv'
  <2>1. txn' \in [Workers -> Transactions]
    BY <1>0, <1>7 DEF BeginConsume, TypeInv, Transactions
  <2> QED BY <1>0, <1>7, <2>1 DEF BeginConsume, TypeInv
<1>8. ASSUME NEW w \in Workers, NEW r \in Revocations, revoke_test(w, r), ~Refuse(w) PROVE TypeInv'
  <2>1. Revokes(r) /\ UNCHANGED clock
    BY <1>8 DEF revoke_test, Revokes, Validate, Agreed
  <2>2. PICK e \in AuditEvents : events' = Append(events, e) /\ history' = Append(history, e)
    BY <2>1, RevokesFacts
  <2>3. events' \in Seq(AuditEvents) /\ history' \in Seq(AuditEvents)
        /\ Len(events') <= MaxEvents
    BY <1>0, <2>1, <2>2, LedgerAssumption DEF TypeInv, Revokes
  <2> QED BY <1>0, <2>1, <2>3 DEF TypeInv, Revokes
<1>9. CASE Damage
  <2>1. events' \in Seq(AuditEvents) /\ Len(events') <= MaxEvents
    <3>1. CASE events' = events
      BY <1>0, <3>1 DEF TypeInv
    <3>2. CASE events # <<>> /\ events' = SubSeq(events, 1, Len(events) - 1)
      <4>1. Len(events) \in Nat \ {0}
        BY <1>0, <3>2 DEF TypeInv
      <4> QED BY <1>0, <3>2, <4>1, LedgerAssumption DEF TypeInv
    <3> QED BY <1>9, <3>1, <3>2 DEF Damage
  <2>2. consumed' \subseteq Decisions /\ revoked' \subseteq Revocations
    BY <1>0, <1>9 DEF Damage, TypeInv
  <2> QED BY <1>0, <1>9, <2>1, <2>2 DEF Damage, TypeInv
<1>10. CASE Restore
  <2>1. CASE file' = "absent" /\ events' = <<>> /\ consumed' = {} /\ revoked' = {}
    <3>1. events' \in Seq(AuditEvents) /\ Len(events') = 0
      BY <2>1
    <3> QED BY <1>0, <1>10, <2>1, <3>1, LedgerAssumption DEF Restore, TypeInv
  <2>2. ASSUME NEW n \in 0..(Len(events) - 1), events' = SubSeq(events, 1, n),
               consumed' = ConsumedIn(events'), revoked' = RevokedIn(events'), file' = file
        PROVE  TypeInv'
    <3>1. events' \in Seq(AuditEvents) /\ Len(events') <= MaxEvents
      BY <1>0, <2>2, LedgerAssumption DEF TypeInv
    <3>2. \A i \in 1..Len(events') : events'[i] \in AuditEvents
      BY <3>1
    <3>3. consumed' \subseteq Decisions /\ revoked' \subseteq Revocations
      <4>1. \A d : d \in ConsumedIn(events') => d \in Decisions
        BY <3>1, <3>2, EventFields, ConsumedInDef
      <4>2. \A r : r \in RevokedIn(events') => r \in Revocations
        BY <3>1, <3>2, EventFields, RevokedInDef
      <4> QED BY <2>2, <4>1, <4>2
    <3> QED BY <1>0, <1>10, <2>2, <3>1, <3>3 DEF Restore, TypeInv
  <2> QED BY <1>10, <2>1, <2>2 DEF Restore
<1>11. CASE MoveClock
  BY <1>0, <1>11 DEF MoveClock, TypeInv
<1>12. CASE Anchor
  <2>1. Len(history) = Len(events)
    BY <1>12 DEF Anchor, IInv, MirrorInv
  <2>2. /\ Cardinality(ConsumedIn(history)) \in 0..MaxEvents
        /\ Cardinality(RevokedIn(history)) \in 0..MaxEvents
        /\ Len(history) \in 0..MaxEvents
    BY <1>0, <2>1, RowsBounded, LedgerAssumption DEF TypeInv
  <2>3. checkpoint' \in CheckpointFixtures
    BY <1>0, <1>12, <2>2 DEF Anchor, CheckpointFixtures, TypeInv
  <2> QED BY <1>0, <1>12, <2>3 DEF Anchor, TypeInv
<1> QED BY <1>1, <1>r, <1>2, <1>3, <1>4, <1>5, <1>6, <1>7, <1>8, <1>9, <1>10, <1>11, <1>12
        DEF Next

\* The lock and the open transactions.
LEMMA LockStep ==
  ASSUME IInv, [Next]_vars
  PROVE  LockInv'
<1> USE DEF tables, Closed
<1>0. TypeInv /\ LockInv /\ NoOne \notin Workers
  BY LedgerAssumption DEF IInv
<1>1. CASE UNCHANGED vars
  BY <1>0, <1>1 DEF vars, LockInv
<1>r. ASSUME NEW w \in Workers, Refuse(w) PROVE LockInv'
  BY <1>0, <1>r DEF Refuse, LockInv, TypeInv
<1>2. ASSUME NEW w \in Workers, create(w) PROVE LockInv'
  BY <1>0, <1>2 DEF create, LockInv, TypeInv
<1>3. ASSUME NEW w \in Workers, Created(w) PROVE LockInv'
  BY <1>0, <1>3 DEF Created, LockInv, TypeInv
<1>4. ASSUME NEW w \in Workers, CommitConsume(w), ~Refuse(w) PROVE LockInv'
  <2>1. /\ txn' = [txn EXCEPT ![w] = [step |-> "committed", decision |-> txn[w].decision]]
        /\ txn[w].step = "inserted" /\ lock' = NoOne
    BY <1>4 DEF CommitConsume
  <2>2. txn'[w].step = "committed" /\ \A v \in Workers \ {w} : txn'[v] = txn[v]
    BY <1>0, <2>1 DEF TypeInv
  <2>3. lock = w
    BY <1>0, <2>1 DEF LockInv
  <2> QED BY <1>0, <2>1, <2>2, <2>3 DEF LockInv
<1>5. ASSUME NEW w \in Workers, Return(w) PROVE LockInv'
  BY <1>0, <1>5 DEF Return, LockInv, TypeInv
<1>6. ASSUME NEW w \in Workers, Abort(w) PROVE LockInv'
  BY <1>0, <1>6 DEF Abort, LockInv, TypeInv
<1>7. ASSUME NEW w \in Workers, NEW d \in Decisions, BeginConsume(w, d), ~Refuse(w) PROVE LockInv'
  BY <1>0, <1>7 DEF BeginConsume, LockInv, TypeInv
<1>8. ASSUME NEW w \in Workers, NEW r \in Revocations, revoke_test(w, r), ~Refuse(w) PROVE LockInv'
  BY <1>0, <1>8 DEF revoke_test, LockInv
<1>9. CASE Damage
  BY <1>0, <1>9 DEF Damage, LockInv
<1>10. CASE Restore
  BY <1>0, <1>10 DEF Restore, LockInv
<1>11. CASE MoveClock
  BY <1>0, <1>11 DEF MoveClock, LockInv
<1>12. CASE Anchor
  BY <1>0, <1>12 DEF Anchor, LockInv
<1> QED BY <1>1, <1>r, <1>2, <1>3, <1>4, <1>5, <1>6, <1>7, <1>8, <1>9, <1>10, <1>11, <1>12
        DEF Next

\* While a transaction is open nobody else writes, and nothing is removed.
LEMMA HeldIsQuiet ==
  ASSUME IInv, [Next]_vars, lock' \in Workers
  PROVE  Quiet /\ (file # "absent" => file' # "absent")
<1>0. NoOne \notin Workers
  BY LedgerAssumption
<1> QED BY <1>0, StepCases DEF Consumes, Revokes, Damage, Restore

LEMMA InsertedStep ==
  ASSUME IInv, [Next]_vars
  PROVE  InsertedInv'
<1> SUFFICES ASSUME NEW w \in Workers, txn'[w].step = "inserted"
             PROVE  /\ file' # "absent" /\ Agreed'
                    /\ ~IsRevoked(txn[w].decision)' /\ ~Replayed(txn[w].decision)'
                    /\ Len(events') < MaxEvents
  BY DEF InsertedInv
<1>0. TypeInv /\ InsertedInv
  BY DEF IInv
<1>1. Quiet /\ (file # "absent" => file' # "absent")
  BY LockStep, HeldIsQuiet DEF LockInv
<1>2. \/ txn'[w] = txn[w]
      \/ \E d \in Decisions : /\ MayConsume(d) /\ Len(events) < MaxEvents
                              /\ txn'[w].decision = d
  <2> USE <1>0 DEF tables, Closed, TypeInv
  <2>r. ASSUME NEW v \in Workers, Refuse(v) PROVE txn'[w] = txn[w]
    BY <2>r DEF Refuse
  <2>1. CASE UNCHANGED vars
    BY <2>1 DEF vars
  <2>2. ASSUME NEW v \in Workers, create(v) PROVE txn'[w] = txn[w]
    BY <2>2 DEF create
  <2>3. ASSUME NEW v \in Workers, Created(v) PROVE txn'[w] = txn[w]
    BY <2>3 DEF Created
  <2>4. ASSUME NEW v \in Workers, CommitConsume(v), ~Refuse(v) PROVE txn'[w] = txn[w]
    <3>1. txn' = [txn EXCEPT ![v] = [step |-> "committed", decision |-> txn[v].decision]]
      BY <2>4 DEF CommitConsume
    <3> QED BY <3>1
  <2>5. ASSUME NEW v \in Workers, Return(v) PROVE txn'[w] = txn[w]
    BY <2>5 DEF Return
  <2>6. ASSUME NEW v \in Workers, Abort(v) PROVE txn'[w] = txn[w]
    BY <2>6 DEF Abort
  <2>7. ASSUME NEW v \in Workers, NEW d \in Decisions, BeginConsume(v, d), ~Refuse(v)
        PROVE  \/ txn'[w] = txn[w]
               \/ MayConsume(d) /\ Len(events) < MaxEvents /\ txn'[w].decision = d
    BY <2>7 DEF BeginConsume
  <2>8. ASSUME NEW v \in Workers, NEW r \in Revocations, revoke_test(v, r), ~Refuse(v)
        PROVE  txn'[w] = txn[w]
    BY <2>8 DEF revoke_test
  <2>9. CASE Damage \/ Restore \/ MoveClock \/ Anchor
    BY <2>9 DEF Damage, Restore, MoveClock, Anchor
  <2> QED BY <2>r, <2>1, <2>2, <2>3, <2>4, <2>5, <2>6, <2>7, <2>8, <2>9 DEF Next
<1>3. CASE txn'[w] = txn[w]
  BY <1>0, <1>1, <1>3 DEF InsertedInv, Quiet, Agreed, IsRevoked, Replayed
<1>4. ASSUME NEW d \in Decisions, MayConsume(d), Len(events) < MaxEvents, txn'[w].decision = d
      PROVE  /\ file' # "absent" /\ Agreed'
             /\ ~IsRevoked(txn[w].decision)' /\ ~Replayed(txn[w].decision)'
             /\ Len(events') < MaxEvents
  BY <1>1, <1>4 DEF MayConsume, Validate, Quiet, Agreed, IsRevoked, Replayed
<1> QED BY <1>2, <1>3, <1>4

LEMMA AbsentStep ==
  ASSUME IInv, [Next]_vars
  PROVE  AbsentInv'
<1>0. TypeInv /\ AbsentInv /\ InsertedInv
  BY DEF IInv
<1>1. CASE Quiet /\ (file' = file \/ file' # "absent")
  BY <1>0, <1>1 DEF AbsentInv, Quiet
<1>2. ASSUME NEW w \in Workers, Consumes(w) PROVE AbsentInv'
  BY <1>0, <1>2 DEF AbsentInv, Consumes, InsertedInv
<1>3. ASSUME NEW r \in Revocations, Revokes(r) PROVE AbsentInv'
  BY <1>3 DEF AbsentInv, Revokes
<1>4. CASE Damage
  BY <1>0, <1>4 DEF AbsentInv, Damage
<1>5. CASE Restore
  BY <1>0, <1>5 DEF AbsentInv, Restore, TypeInv
<1> QED BY <1>1, <1>2, <1>3, <1>4, <1>5, StepCases

\* An undamaged file and the history grow together.
LEMMA MirrorStep ==
  ASSUME IInv, [Next]_vars
  PROVE  MirrorInv'
<1>0. TypeInv /\ MirrorInv /\ events \in Seq(AuditEvents) /\ history \in Seq(AuditEvents)
  BY DEF IInv, TypeInv
<1>1. CASE Quiet
  BY <1>0, <1>1 DEF MirrorInv, Quiet, Agreed
<1>2. ASSUME NEW w \in Workers, Consumes(w), restores = 0, damage = 0 PROVE MirrorInv'
  <2>1. PICK e \in AuditEvents, h \in AuditEvents :
          /\ e.kind = "consume" /\ e.decision = txn[w].decision /\ events' = Append(events, e)
          /\ history' = Append(history, h) /\ SameEvent(e, h)
    BY <1>2, ConsumesFacts
  <2>2. Len(events') = Len(history') /\ \A i \in 1..Len(history') : SameEvent(events'[i], history'[i])
    BY <1>0, <1>2, <2>1, AppendFacts DEF MirrorInv
  <2>3. ConsumedIn(events') = ConsumedIn(events) \cup {e.decision}
        /\ RevokedIn(events') = RevokedIn(events)
    BY <1>0, <2>1, AppendConsume
  <2>4. Agreed'
    BY <1>0, <1>2, <2>1, <2>3 DEF Agreed, Consumes, MirrorInv
  <2> QED BY <2>2, <2>4 DEF MirrorInv
<1>3. ASSUME NEW r \in Revocations, Revokes(r), restores = 0, damage = 0 PROVE MirrorInv'
  <2>1. PICK e \in AuditEvents :
          /\ e.kind = "revoke" /\ e.target = r
          /\ events' = Append(events, e) /\ history' = Append(history, e)
    BY <1>3, RevokesFacts
  <2>2. Len(events') = Len(history') /\ \A i \in 1..Len(history') : SameEvent(events'[i], history'[i])
    BY <1>0, <1>3, <2>1, AppendFacts DEF MirrorInv, SameEvent
  <2>3. RevokedIn(events') = RevokedIn(events) \cup {e.target}
        /\ ConsumedIn(events') = ConsumedIn(events)
    BY <1>0, <2>1, AppendRevoke
  <2>4. Agreed'
    BY <1>0, <1>3, <2>1, <2>3 DEF Agreed, Revokes, MirrorInv
  <2> QED BY <2>2, <2>4 DEF MirrorInv
<1>4. CASE Damage \/ Restore
  BY <1>0, <1>4 DEF MirrorInv, Damage, Restore, TypeInv
<1>5. ASSUME ~(restores = 0 /\ damage = 0), (\E w \in Workers : Consumes(w)) \/ (\E r \in Revocations : Revokes(r))
      PROVE  MirrorInv'
  BY <1>5 DEF MirrorInv, Consumes, Revokes
<1> QED BY <1>1, <1>2, <1>3, <1>4, <1>5, StepCases

LEMMA RevokedOnceStep ==
  ASSUME IInv, [Next]_vars
  PROVE  (Original => RevokedOnce)'
<1>0. TypeInv /\ (Original => RevokedOnce) /\ history \in Seq(AuditEvents) /\ events \in Seq(AuditEvents)
  BY DEF IInv, TypeInv
<1>1. CASE Quiet
  BY <1>0, <1>1 DEF Original, RevokedOnce, Quiet
<1>2. ASSUME NEW w \in Workers, Consumes(w) PROVE (Original => RevokedOnce)'
  <2>1. PICK h \in AuditEvents : h.kind = "consume" /\ history' = Append(history, h)
    BY <1>2, ConsumesFacts
  <2>2. UNCHANGED <<restores, damage>>
    BY <1>2 DEF Consumes
  <2> QED BY <1>0, <2>1, <2>2, AppendFacts DEF Original, RevokedOnce
<1>3. ASSUME NEW r \in Revocations, Revokes(r), Original PROVE RevokedOnce'
  <2>1. PICK e \in AuditEvents :
          e.kind = "revoke" /\ e.target = r /\ history' = Append(history, e)
    BY <1>3, RevokesFacts
  <2>2. damage = 0 /\ restores = 0
    BY <1>0, <1>3 DEF IInv, StoppedInv, Revokes, Original, TypeInv
  <2>3. revoked = RevokedIn(history)
    BY <1>0, <2>2, SameRows DEF IInv, MirrorInv, Agreed
  <2>4. \A i \in 1..Len(history) : history[i].kind = "revoke" => history[i].target # r
    BY <1>0, <1>3, <2>3, RevokedInDef DEF Revokes
  <2>5. RevokedOnce
    BY <1>0, <1>3
  <2> QED BY <1>0, <2>1, <2>4, <2>5, AppendFacts DEF RevokedOnce
<1>4. CASE Damage
  <2>1. history' = history /\ restores' = restores /\ damage' = damage + 1
    BY <1>4 DEF Damage
  <2>2. damage \in Nat
    BY <1>0 DEF TypeInv
  <2>3. Original' => Original
    BY <2>1, <2>2 DEF Original
  <2>4. RevokedOnce => RevokedOnce'
    BY <2>1 DEF RevokedOnce
  <2> QED BY <1>0, <2>3, <2>4
<1>5. CASE Restore
  <2>1. restores' = restores + 1
    BY <1>5 DEF Restore
  <2>2. restores \in Nat
    BY <1>0 DEF TypeInv
  <2> QED BY <2>1, <2>2 DEF Original
<1> QED BY <1>1, <1>2, <1>3, <1>4, <1>5, StepCases DEF Original, Revokes

\* A removed row leaves a disagreement: every event accounts for a row of its own.
LEMMA StoppedStep ==
  ASSUME IInv, [Next]_vars
  PROVE  StoppedInv'
<1>0. TypeInv /\ StoppedInv /\ history \in Seq(AuditEvents) /\ events \in Seq(AuditEvents)
  BY DEF IInv, TypeInv
<1>1. CASE Quiet
  BY <1>0, <1>1 DEF StoppedInv, Quiet, Agreed
<1>2. ASSUME NEW w \in Workers, Consumes(w) PROVE StoppedInv'
  BY <1>0, <1>2, ConsumesFacts DEF StoppedInv, Consumes
<1>3. ASSUME NEW r \in Revocations, Revokes(r) PROVE StoppedInv'
  BY <1>0, <1>3 DEF StoppedInv, Revokes
<1>4. CASE Damage
  <2> SUFFICES ASSUME restores = 0, damage = 0 PROVE ~Agreed'
    BY <1>0, <1>4 DEF StoppedInv, Damage, TypeInv
  <2>1. /\ Agreed /\ Len(events) = Len(history)
        /\ \A i \in 1..Len(history) : SameEvent(events[i], history[i])
        /\ ConsumedOnce /\ RevokedOnce /\ Original
    BY DEF IInv, MirrorInv, Original
  <2>2. CASE \E d \in consumed : consumed' = consumed \ {d} /\ UNCHANGED events
    BY <2>1, <2>2 DEF Agreed
  <2>3. CASE \E r \in revoked : revoked' = revoked \ {r} /\ UNCHANGED events
    BY <2>1, <2>3 DEF Agreed
  <2>4. CASE events # <<>> /\ events' = SubSeq(events, 1, Len(events) - 1)
             /\ UNCHANGED <<consumed, revoked>>
    <3> DEFINE n == Len(events)
    <3>1. n \in Nat \ {0} /\ n \in 1..Len(history)
      BY <1>0, <2>1, <2>4
    <3>2. /\ events' \in Seq(AuditEvents) /\ Len(events') = n - 1
          /\ \A i \in 1..(n - 1) : events'[i] = events[i]
      BY <1>0, <2>4, <3>1, n - 1 \in 0..n, PrefixFacts
    <3>3. events[n] \in AuditEvents
      BY <1>0, <3>1
    <3>4. ASSUME events[n].kind = "consume" PROVE ~Agreed'
      <4>1. events[n].decision \in consumed
        BY <1>0, <2>1, <3>1, <3>4, ConsumedInDef DEF Agreed
      <4>2. events[n].decision \notin ConsumedIn(events')
        <5>1. SUFFICES ASSUME NEW i \in 1..(n - 1), events[i].kind = "consume",
                              events[i].decision = events[n].decision
                       PROVE  FALSE
          BY <3>2, ConsumedInDef
        <5>2. /\ i \in 1..Len(history) /\ i # n
              /\ history[i].kind = "consume" /\ history[n].kind = "consume"
              /\ history[i].decision = history[n].decision
          BY <2>1, <3>1, <3>4, <5>1 DEF SameEvent
        <5> QED BY <1>0, <2>1, <3>1, <5>2 DEF ConsumedOnce, Consumptions
      <4> QED BY <2>4, <4>1, <4>2 DEF Agreed
    <3>5. ASSUME events[n].kind = "revoke" PROVE ~Agreed'
      <4>1. events[n].target \in revoked
        BY <1>0, <2>1, <3>1, <3>5, RevokedInDef DEF Agreed
      <4>2. events[n].target \notin RevokedIn(events')
        <5>1. SUFFICES ASSUME NEW i \in 1..(n - 1), events[i].kind = "revoke",
                              events[i].target = events[n].target
                       PROVE  FALSE
          BY <3>2, RevokedInDef
        <5>2. /\ i \in 1..Len(history) /\ i # n
              /\ history[i].kind = "revoke" /\ history[n].kind = "revoke"
              /\ history[i].target = history[n].target
          BY <2>1, <3>1, <3>5, <5>1 DEF SameEvent
        <5> QED BY <2>1, <3>1, <5>2 DEF RevokedOnce
      <4> QED BY <2>4, <4>1, <4>2 DEF Agreed
    <3> QED BY <3>3, <3>4, <3>5, EventFields
  <2> QED BY <1>4, <2>2, <2>3, <2>4 DEF Damage
<1>5. CASE Restore
  BY <1>0, <1>5 DEF Restore, StoppedInv, TypeInv
<1> QED BY <1>1, <1>2, <1>3, <1>4, <1>5, StepCases

\* What a caller was told, or is about to be told, stays in the table.
LEMMA ToldStep ==
  ASSUME IInv, [Next]_vars
  PROVE  ToldInv'
<1> USE DEF tables, Closed
<1>0. TypeInv /\ ToldInv
  BY DEF IInv
<1>r. ASSUME NEW w \in Workers, Refuse(w) PROVE ToldInv'
  BY <1>0, <1>r DEF Refuse, ToldInv, TypeInv
<1>1. CASE UNCHANGED vars
  BY <1>0, <1>1 DEF vars, ToldInv
<1>2. ASSUME NEW w \in Workers, create(w) PROVE ToldInv'
  BY <1>0, <1>2 DEF create, ToldInv, TypeInv, IInv, AbsentInv
<1>3. ASSUME NEW w \in Workers, Created(w) PROVE ToldInv'
  BY <1>0, <1>3 DEF Created, ToldInv, TypeInv
<1>4. ASSUME NEW w \in Workers, CommitConsume(w), ~Refuse(w) PROVE ToldInv'
  <2>1. Consumes(w)
    BY <1>4 DEF CommitConsume, Consumes
  <2>2. txn'[w].decision = txn[w].decision /\ \A v \in Workers \ {w} : txn'[v] = txn[v]
    BY <1>0, <2>1 DEF Consumes, TypeInv
  <2> QED BY <1>0, <2>1, <2>2 DEF ToldInv, Consumes
<1>5. ASSUME NEW w \in Workers, Return(w) PROVE ToldInv'
  BY <1>0, <1>5 DEF Return, ToldInv, TypeInv
<1>6. ASSUME NEW w \in Workers, Abort(w) PROVE ToldInv'
  BY <1>0, <1>6 DEF Abort, ToldInv, TypeInv
<1>7. ASSUME NEW w \in Workers, NEW d \in Decisions, BeginConsume(w, d), ~Refuse(w) PROVE ToldInv'
  BY <1>0, <1>7 DEF BeginConsume, ToldInv, TypeInv
<1>8. ASSUME NEW w \in Workers, NEW r \in Revocations, revoke_test(w, r), ~Refuse(w) PROVE ToldInv'
  BY <1>0, <1>8 DEF revoke_test, ToldInv
<1>9. CASE Damage \/ Restore
  BY <1>0, <1>9 DEF Damage, Restore, ToldInv, TypeInv
<1>10. CASE MoveClock \/ Anchor
  BY <1>0, <1>10 DEF MoveClock, Anchor, ToldInv
<1> QED BY <1>r, <1>1, <1>2, <1>3, <1>4, <1>5, <1>6, <1>7, <1>8, <1>9, <1>10 DEF Next

\* The history only grows, so what a checkpoint was taken of stays its prefix.
LEMMA ChainGrows ==
  ASSUME IInv, [Next]_vars
  PROVE  history' = history \/ \E e \in AuditEvents : history' = Append(history, e)
<1>1. ASSUME NEW w \in Workers, Consumes(w) PROVE \E e \in AuditEvents : history' = Append(history, e)
  BY <1>1, ConsumesFacts
<1>2. ASSUME NEW r \in Revocations, Revokes(r)
      PROVE  \E e \in AuditEvents : history' = Append(history, e)
  BY <1>2, RevokesFacts
<1> QED BY <1>1, <1>2, StepCases DEF Quiet, Damage, Restore

LEMMA CheckpointStep ==
  ASSUME IInv, [Next]_vars
  PROVE  CheckpointInv'
<1>0. TypeInv /\ CheckpointInv /\ history \in Seq(AuditEvents) /\ events \in Seq(AuditEvents)
  BY DEF IInv, TypeInv
<1>1. CASE Anchor
  <2>1. ConsumedIn(history) = ConsumedIn(events) /\ RevokedIn(history) = RevokedIn(events)
    BY <1>0, <1>1, SameRows DEF Anchor, IInv, MirrorInv
  <2>2. SubSeq(history, 1, Len(history)) = history
    BY <1>0
  <2>3. /\ checkpoint'.sequence = Len(history) /\ checkpoint'.head = events
        /\ history' = history
    BY <1>1 DEF Anchor
  <2>4. SubSeq(history', 1, checkpoint'.sequence) = history
    BY <2>2, <2>3
  <2>5. checkpoint'.sequence <= Len(history')
    BY <1>0, <2>3
  <2> QED BY <2>1, <2>3, <2>4, <2>5 DEF CheckpointInv
<1>2. CASE checkpoint' = checkpoint
  <2> DEFINE n == checkpoint.sequence
  <2>1. n \in Nat /\ n <= Len(history)
    BY <1>0, LedgerAssumption DEF CheckpointInv, TypeInv, CheckpointFixtures
  <2>2. ASSUME NEW e \in AuditEvents, history' = Append(history, e)
        PROVE  Len(history) <= Len(history') /\ SubSeq(history', 1, n) = SubSeq(history, 1, n)
    BY <1>0, <2>1, <2>2
  <2>3. SubSeq(history', 1, n) = SubSeq(history, 1, n) /\ n <= Len(history')
    BY <1>0, <2>1, <2>2, ChainGrows
  <2>4. checkpoint'.sequence = n /\ checkpoint'.head = checkpoint.head
    BY <1>2
  <2>5. /\ ConsumedIn(SubSeq(history', 1, n)) = ConsumedIn(checkpoint.head)
        /\ RevokedIn(SubSeq(history', 1, n)) = RevokedIn(checkpoint.head)
    BY <1>0, <2>3 DEF CheckpointInv
  <2> HIDE DEF n
  <2> QED BY <2>3, <2>4, <2>5 DEF CheckpointInv
<1>3. CASE ~Anchor
  <2>1. checkpoint' = checkpoint
    BY <1>3 DEF Next, vars, create, Created, CommitConsume, Refuse, Return, Abort, BeginConsume,
                revoke_test, Damage, Restore, MoveClock
  <2> QED BY <1>2, <2>1
<1> QED BY <1>1, <1>3

LEMMA ConsumedOnceStep ==
  ASSUME IInv, [Next]_vars
  PROVE  ConsumedOnce'
<1>0. TypeInv /\ ConsumedOnce /\ history \in Seq(AuditEvents) /\ events \in Seq(AuditEvents)
  BY DEF IInv, TypeInv
<1>1. CASE Quiet
  BY <1>0, <1>1 DEF ConsumedOnce, Original, Consumptions, Quiet
<1>2. ASSUME NEW w \in Workers, Consumes(w), Original PROVE ConsumedOnce'
  <2> DEFINE d == txn[w].decision
  <2>1. PICK h \in AuditEvents :
          h.kind = "consume" /\ h.decision = d /\ history' = Append(history, h)
    BY <1>2, ConsumesFacts
  <2>2. Agreed /\ ~Replayed(d)
    BY <1>2, ConsumesFacts
  <2>3. damage = 0 /\ restores = 0
    BY <1>0, <1>2, <2>2 DEF IInv, StoppedInv, Original, TypeInv
  <2>4. consumed = ConsumedIn(history)
    BY <1>0, <2>3, SameRows DEF IInv, MirrorInv, Agreed
  <2>5. \A i \in 1..Len(history) : history[i].kind = "consume" =>
          history[i].decision.id # d.id /\ history[i].decision.nonce # d.nonce
    BY <1>0, <2>2, <2>4, ConsumedInDef DEF Replayed
  <2>6. \A i, j \in 1..Len(history) :
          i # j /\ history[i].kind = "consume" /\ history[j].kind = "consume" =>
            /\ history[i].decision.id # history[j].decision.id
            /\ history[i].decision.nonce # history[j].decision.nonce
    BY <1>0, <1>2 DEF ConsumedOnce, Consumptions
  <2>7. Len(history') = Len(history) + 1 /\ history'[Len(history) + 1] = h
        /\ (\A i \in 1..Len(history) : history'[i] = history[i]) /\ DOMAIN history' = 1..Len(history')
    BY <1>0, <2>1, AppendFacts
  <2> QED BY <1>0, <2>1, <2>5, <2>6, <2>7, Len(history) \in Nat DEF ConsumedOnce, Consumptions
<1>3. ASSUME NEW r \in Revocations, Revokes(r) PROVE ConsumedOnce'
  <2>1. PICK e \in AuditEvents : e.kind = "revoke" /\ history' = Append(history, e)
    BY <1>3, RevokesFacts
  <2>2. UNCHANGED <<restores, damage>>
    BY <1>3 DEF Revokes
  <2> QED BY <1>0, <2>1, <2>2, AppendFacts DEF ConsumedOnce, Original, Consumptions
<1>4. CASE Damage
  BY <1>0, <1>4 DEF Damage, Original, ConsumedOnce, Consumptions, TypeInv
<1>5. CASE Restore
  BY <1>0, <1>5 DEF Restore, Original, ConsumedOnce, TypeInv
<1>6. ASSUME ~Original, NEW w \in Workers, Consumes(w) PROVE ConsumedOnce'
  BY <1>6 DEF ConsumedOnce, Original, Consumes
<1> QED BY <1>1, <1>2, <1>3, <1>4, <1>5, <1>6, StepCases

LEMMA RevocationHoldsStep ==
  ASSUME IInv, [Next]_vars
  PROVE  RevocationHolds'
<1> DEFINE Named(d) == {<<"owner", d.owner>>, <<"key", d.key>>, <<"root", d.root>>,
                        <<"decision", d.id>>}
<1>0. TypeInv /\ RevocationHolds /\ history \in Seq(AuditEvents) /\ events \in Seq(AuditEvents)
  BY DEF IInv, TypeInv
<1>1. CASE Quiet
  BY <1>0, <1>1 DEF RevocationHolds, Original, Consumptions, Quiet
<1>2. ASSUME NEW w \in Workers, Consumes(w), Original PROVE RevocationHolds'
  <2> DEFINE d == txn[w].decision
  <2>1. PICK h \in AuditEvents :
          h.kind = "consume" /\ h.decision = d /\ history' = Append(history, h)
    BY <1>2, ConsumesFacts
  <2>2. Agreed /\ ~IsRevoked(d)
    BY <1>2, ConsumesFacts
  <2>3. damage = 0 /\ restores = 0
    BY <1>0, <1>2, <2>2 DEF IInv, StoppedInv, Original, TypeInv
  <2>4. revoked = RevokedIn(history)
    BY <1>0, <2>3, SameRows DEF IInv, MirrorInv, Agreed
  <2>5. \A j \in 1..Len(history) : history[j].kind = "revoke" => history[j].target \notin Named(d)
    BY <1>0, <2>2, <2>4, RevokedInDef DEF IsRevoked
  <2>6. \A i \in 1..Len(history) : history[i].kind = "consume" =>
          \A j \in 1..(i - 1) : history[j].kind = "revoke" =>
              history[j].target \notin Named(history[i].decision)
    BY <1>0, <1>2 DEF RevocationHolds, Consumptions
  <2>7. Len(history') = Len(history) + 1 /\ history'[Len(history) + 1] = h
        /\ (\A i \in 1..Len(history) : history'[i] = history[i]) /\ DOMAIN history' = 1..Len(history')
    BY <1>0, <2>1, AppendFacts
  <2>8. ASSUME NEW i \in 1..Len(history'), history'[i].kind = "consume",
               NEW j \in 1..(i - 1), history'[j].kind = "revoke"
        PROVE  history'[j].target \notin Named(history'[i].decision)
    <3> HIDE DEF Named
    <3> QED BY <1>0, <2>1, <2>5, <2>6, <2>7, <2>8, Len(history) \in Nat
  <2> QED BY <2>7, <2>8 DEF RevocationHolds, Consumptions
<1>3. ASSUME NEW r \in Revocations, Revokes(r) PROVE RevocationHolds'
  <2>1. PICK e \in AuditEvents : e.kind = "revoke" /\ history' = Append(history, e)
    BY <1>3, RevokesFacts
  <2>2. UNCHANGED <<restores, damage>>
    BY <1>3 DEF Revokes
  <2>3. Len(history') = Len(history) + 1 /\ history'[Len(history) + 1] = e
        /\ (\A i \in 1..Len(history) : history'[i] = history[i]) /\ DOMAIN history' = 1..Len(history')
        /\ DOMAIN history = 1..Len(history)
    BY <1>0, <2>1, AppendFacts
  <2> QED BY <1>0, <2>1, <2>2, <2>3, Len(history) \in Nat DEF RevocationHolds, Original, Consumptions
<1>4. CASE Damage
  BY <1>0, <1>4 DEF Damage, Original, RevocationHolds, Consumptions, TypeInv
<1>5. CASE Restore
  BY <1>0, <1>5 DEF Restore, Original, RevocationHolds, TypeInv
<1>6. ASSUME ~Original, NEW w \in Workers, Consumes(w) PROVE RevocationHolds'
  BY <1>6 DEF RevocationHolds, Original, Consumes
<1> QED BY <1>1, <1>2, <1>3, <1>4, <1>5, <1>6, StepCases

LEMMA ValidStep ==
  ASSUME IInv, [Next]_vars
  PROVE  ValidAtCommit'
<1>0. TypeInv /\ ValidAtCommit /\ history \in Seq(AuditEvents)
  BY DEF IInv, TypeInv
<1>1. CASE Quiet \/ Damage \/ Restore
  BY <1>0, <1>1 DEF ValidAtCommit, Consumptions, Quiet, Damage, Restore
<1>2. ASSUME NEW w \in Workers, Consumes(w) PROVE ValidAtCommit'
  <2>1. PICK h \in AuditEvents :
          h.decision = txn[w].decision /\ h.at = clock /\ history' = Append(history, h)
    BY <1>2, ConsumesFacts
  <2>2. h.decision.start <= h.at /\ h.at < h.decision.end
    BY <1>2, <2>1 DEF Consumes, check_fixture
  <2>3. Len(history') = Len(history) + 1 /\ history'[Len(history) + 1] = h
        /\ (\A i \in 1..Len(history) : history'[i] = history[i]) /\ DOMAIN history' = 1..Len(history')
        /\ DOMAIN history = 1..Len(history)
    BY <1>0, <2>1, AppendFacts
  <2> QED BY <1>0, <2>2, <2>3, Len(history) \in Nat DEF ValidAtCommit, Consumptions
<1>3. ASSUME NEW r \in Revocations, Revokes(r) PROVE ValidAtCommit'
  <2>1. PICK e \in AuditEvents : e.kind = "revoke" /\ history' = Append(history, e)
    BY <1>3, RevokesFacts
  <2> QED BY <1>0, <2>1, AppendFacts DEF ValidAtCommit, Consumptions
<1> QED BY <1>1, <1>2, <1>3, StepCases

LEMMA IInvStep == IInv /\ [Next]_vars => IInv'
BY TypeStep, LockStep, InsertedStep, AbsentStep, MirrorStep, RevokedOnceStep, StoppedStep, ToldStep,
   CheckpointStep, ConsumedOnceStep, RevocationHoldsStep, ValidStep DEF IInv

\* What the inductive invariant says of the properties.
LEMMA IInvGivesSound == IInv => LedgerSound
<1> SUFFICES ASSUME IInv PROVE LedgerSound
  OBVIOUS
<1>1. TypeOK
  BY LedgerAssumption DEF IInv, TypeInv, TypeOK, LockInv
<1>2. ToldIsDurable
  BY DEF IInv, ToldInv, ToldIsDurable
<1>3. CheckpointNoticesRollback
  <2> SUFFICES ASSUME inspect_checkpoint_fixture
               PROVE  LET before == SubSeq(history, 1, checkpoint.sequence)
                      IN  ConsumedIn(before) \subseteq consumed /\ RevokedIn(before) \subseteq revoked
    BY DEF CheckpointNoticesRollback
  <2> QED BY DEF inspect_checkpoint_fixture, Validate, IInv, CheckpointInv
<1> QED BY <1>1, <1>2, <1>3 DEF LedgerSound, IInv

\* Only a file whose tables and chain agree is written to.
LEMMA WritesAgree ==
  ASSUME IInv, [Next]_vars, consumed # ConsumedIn(events) \/ revoked # RevokedIn(events)
  PROVE  history' = history
<1>1. ASSUME NEW w \in Workers, Consumes(w) PROVE FALSE
  BY <1>1, ConsumesFacts DEF Agreed
<1>2. ASSUME NEW r \in Revocations, Revokes(r) PROVE FALSE
  BY <1>2 DEF Revokes, Agreed
<1> QED BY <1>1, <1>2, StepCases DEF Quiet, Damage, Restore

-----------------------------------------------------------------------------

\* consume_test and revoke_test of any number of processes, any of which may die, commit no
\* decision identity and no nonce twice, nothing whose owner, key, root or identity was revoked
\* before, and nothing outside its validity at the commit; what a caller was told stays, and a
\* file that is put back to an earlier copy does not pass the checkpoint.
THEOREM LedgerIsSound == Spec => []LedgerSound
<1>1. Spec => []IInv
  BY InitInv, IInvStep, PTL DEF Spec
<1> QED BY <1>1, IInvGivesSound, PTL

\* In particular, a file that passes inspect_checkpoint_fixture holds every consumption and
\* revocation that was committed before the checkpoint, however often it was damaged, lost or
\* put back.
THEOREM RollbackIsNoticed == Spec => []CheckpointNoticesRollback
<1>1. LedgerSound => CheckpointNoticesRollback
  BY DEF LedgerSound
<1> QED BY <1>1, LedgerIsSound, PTL

\* A file whose tables and audit chain disagree is never written to.
THEOREM DamageStopsWrites == Spec => DamageStops
<1>1. Spec => []IInv
  BY InitInv, IInvStep, PTL DEF Spec
<1>2. IInv /\ [Next]_vars =>
        [(consumed # ConsumedIn(events) \/ revoked # RevokedIn(events)) => history' = history]_vars
  BY WritesAgree
<1> QED BY <1>1, <1>2, PTL DEF Spec, DamageStops
-----------------------------------------------------------------------------
(***************************************************************************)
(* Runs of consecutive sessions.  First the account of one day: what the   *)
(* marks of a trade and the trades of a day leave of an account, by        *)
(* induction over them.  Then the chain of sessions on disk.               *)
(***************************************************************************)
\* The least element of a set of naturals, from which the inductions below follow.
LEMMA LeastNatural ==
  ASSUME NEW T, T \subseteq Nat, T # {}
  PROVE  \E x \in T : \A y \in T : x <= y
<1>1. IsWellFoundedOn(OpToRel(<,Nat), Nat)
  BY NatLessThanWellFounded
<1>2. PICK x \in T : \A y \in T : ~(<<y, x>> \in OpToRel(<,Nat))
  BY <1>1, WFMin
<1>3. \A y \in Nat : y < x => <<y, x>> \in OpToRel(<,Nat)
  BY DEF OpToRel
<1>4. \A y \in T : ~(y < x)
  BY <1>2, <1>3
<1>5. x \in Nat /\ \A y \in T : y \in Nat
  OBVIOUS
<1>6. \A y \in T : x <= y
  BY <1>4, <1>5
<1> QED BY <1>6

\* A set that holds 0 and is closed under the successor up to n holds all of 0..n.
LEMMA Inductive ==
  ASSUME NEW S, NEW n \in Nat, 0 \in S, \A k \in 1..n : k - 1 \in S => k \in S
  PROVE  0..n \subseteq S
<1> SUFFICES ASSUME ~(0..n \subseteq S) PROVE FALSE
  OBVIOUS
<1> DEFINE T == {k \in 0..n : k \notin S}
<1>1. T \subseteq Nat /\ T # {}
  OBVIOUS
<1>2. PICK x \in T : \A y \in T : x <= y
  BY <1>1, LeastNatural
<1>3. x \in 0..n /\ x \notin S /\ x # 0
  BY <1>2
<1>4. x \in 1..n /\ x - 1 \in 0..n /\ ~(x <= x - 1)
  BY <1>3
<1>5. x - 1 \in S
  BY <1>2, <1>4
<1> QED BY <1>3, <1>4, <1>5

\* The larger of two integers.
LEMMA MaxOfTwo ==
  ASSUME NEW x \in Int, NEW y \in Int
  PROVE  Max({x, y}) \in {x, y} /\ Max({x, y}) >= x /\ Max({x, y}) >= y
<1>1. \E m \in {x, y} : \A z \in {x, y} : m >= z
  OBVIOUS
<1> QED BY <1>1 DEF Max

Accounts == [equity : Int, cash : Int, trades : Nat, dayOpen : Int, high : Int, drawdown : Nat,
             halted : BOOLEAN]

\* b is what became of a: the peak and the deepest fall only grow, a halt stays.
Follows(a, b) ==
  /\ b \in Accounts /\ b.high >= a.high /\ b.drawdown >= a.drawdown
  /\ a.halted => b.halted

LEMMA GuardFollows ==
  ASSUME NEW a \in Accounts, NEW e \in Int
  PROVE  /\ Follows(a, guard(a, e)) /\ guard(a, e).cash = a.cash /\ guard(a, e).equity = e
         /\ guard(a, e).high >= e
         /\ guard(a, e).high - e >= CumulativeDrawdown => guard(a, e).halted
<1> DEFINE h == Max({a.high, e})
           d == Max({a.drawdown, h - e})
<1>1. a.high \in Int /\ a.drawdown \in Nat /\ a.drawdown \in Int
  BY DEF Accounts
<1>2. h \in Int /\ h >= a.high /\ h >= e
  <2>1. h \in {a.high, e} /\ h >= a.high /\ h >= e
    BY <1>1, MaxOfTwo
  <2> QED BY <1>1, <2>1
<1>3. d \in Nat /\ d >= a.drawdown
  <2>1. h - e \in Int /\ h - e >= 0
    BY <1>2
  <2>2. d \in {a.drawdown, h - e} /\ d >= a.drawdown
    BY <1>1, <2>1, MaxOfTwo
  <2> QED BY <1>1, <2>1, <2>2
<1>4. guard(a, e) = [a EXCEPT !.equity = e, !.high = h, !.drawdown = d,
                              !.halted = \/ a.halted \/ a.dayOpen - e >= DailyLoss
                                         \/ h - e >= CumulativeDrawdown]
  BY DEF guard
<1> HIDE DEF h, d
<1>5. guard(a, e) \in Accounts
  BY <1>2, <1>3, <1>4 DEF Accounts
<1>6. /\ guard(a, e).cash = a.cash /\ guard(a, e).equity = e /\ guard(a, e).high = h
      /\ guard(a, e).drawdown = d
      /\ guard(a, e).halted = \/ a.halted \/ a.dayOpen - e >= DailyLoss
                              \/ h - e >= CumulativeDrawdown
  BY <1>4 DEF Accounts
<1> QED BY <1>2, <1>3, <1>5, <1>6 DEF Follows

\* The account after each mark is what its recursion says.
LEMMA AfterMarksDefined ==
  ASSUME NEW a, NEW marks, Len(marks) \in Nat
  PROVE  AfterMarks(a, marks) = [n \in 0..Len(marks) |-> IF n = 0 THEN a ELSE guard(AfterMarks(a, marks)[n - 1], a.cash + marks[n])]
<1> DEFINE P(f, m) == f = [n \in 0..m |-> IF n = 0 THEN a ELSE guard(f[n - 1], a.cash + marks[n])]
           S == {m \in Nat : \E f : P(f, m)}
<1>1. 0 \in S
  <2>1. P([n \in 0..0 |-> a], 0)
    OBVIOUS
  <2> QED BY <2>1
<1>2. ASSUME NEW m \in 1..Len(marks), m - 1 \in S PROVE m \in S
  <2>1. PICK f : P(f, m - 1)
    BY <1>2
  <2> DEFINE g == [n \in 0..m |-> IF n = m THEN guard(f[m - 1], a.cash + marks[m]) ELSE f[n]]
  <2>2. m \in Nat /\ m # 0 /\ m - 1 \in Nat /\ m - 1 \in 0..m /\ m - 1 # m
    BY <1>2
  <2>3. \A n \in 0..m : n = m \/ (n \in 0..(m - 1) /\ (n = 0 \/ (n - 1 \in 0..m /\ n - 1 # m)))
    BY <2>2
  <2>4. \A n \in 0..m : g[n] = IF n = 0 THEN a ELSE guard(g[n - 1], a.cash + marks[n])
    <3> SUFFICES ASSUME NEW n \in 0..m PROVE g[n] = IF n = 0 THEN a ELSE guard(g[n - 1], a.cash + marks[n])
      OBVIOUS
    <3>1. CASE n = m
      <4>1. g[m] = guard(f[m - 1], a.cash + marks[m]) /\ g[m - 1] = f[m - 1]
        BY <2>2
      <4> QED BY <2>2, <3>1, <4>1
    <3>2. CASE n # m
      <4>1. n \in 0..(m - 1) /\ g[n] = f[n] /\ (n # 0 => g[n - 1] = f[n - 1])
        BY <2>3, <3>2
      <4>2. f[n] = IF n = 0 THEN a ELSE guard(f[n - 1], a.cash + marks[n])
        BY <2>1, <4>1
      <4> QED BY <4>1, <4>2
    <3> QED BY <3>1, <3>2
  <2>5. g = [n \in 0..m |-> g[n]]
    OBVIOUS
  <2>6. P(g, m)
    <3> HIDE DEF g
    <3> QED BY <2>4, <2>5
  <2> QED BY <2>2, <2>6
<1>3. Len(marks) \in S
  <2> HIDE DEF S
  <2>1. 0..Len(marks) \subseteq S
    BY <1>1, <1>2, Inductive
  <2> QED BY <2>1
<1>4. \E f : P(f, Len(marks))
  BY <1>3
<1>5. AfterMarks(a, marks) = CHOOSE f : P(f, Len(marks))
  BY DEF AfterMarks
<1>6. P(CHOOSE f : P(f, Len(marks)), Len(marks))
  <2> HIDE DEF P
  <2> QED BY <1>4
<1> QED BY <1>5, <1>6

\* What became of what became of an account became of it.
LEMMA FollowsTransitive ==
  ASSUME NEW a \in Accounts, NEW b, NEW c, Follows(a, b), Follows(b, c)
  PROVE  Follows(a, c)
<1>1. b \in Accounts /\ c \in Accounts
  BY DEF Follows
<1>2. /\ a.high \in Int /\ b.high \in Int /\ c.high \in Int
      /\ a.drawdown \in Int /\ b.drawdown \in Int /\ c.drawdown \in Int
  BY <1>1 DEF Accounts
<1>3. b.high >= a.high /\ c.high >= b.high /\ b.drawdown >= a.drawdown /\ c.drawdown >= b.drawdown
  BY DEF Follows
<1>4. c.high >= a.high /\ c.drawdown >= a.drawdown
  BY <1>2, <1>3
<1>5. a.halted => c.halted
  BY DEF Follows
<1> QED BY <1>1, <1>4, <1>5 DEF Follows

\* A trade in progress changes neither the cash nor the peak downwards.
LEMMA MarksFollow ==
  ASSUME NEW a \in Accounts, NEW marks \in Seq(Int)
  PROVE  /\ Follows(a, AfterMarks(a, marks)[Len(marks)])
         /\ AfterMarks(a, marks)[Len(marks)].cash = a.cash
<1> DEFINE f == AfterMarks(a, marks)
           S == {n \in 0..Len(marks) : Follows(a, f[n]) /\ f[n].cash = a.cash}
<1>1. Len(marks) \in Nat
  OBVIOUS
<1>2. f = [n \in 0..Len(marks) |-> IF n = 0 THEN a ELSE guard(f[n - 1], a.cash + marks[n])]
  BY <1>1, AfterMarksDefined
<1> HIDE DEF f
<1>3. 0 \in S
  <2>1. f[0] = a
    BY <1>1, <1>2
  <2> QED BY <1>1, <2>1 DEF Follows, Accounts
<1>4. ASSUME NEW n \in 1..Len(marks), n - 1 \in S PROVE n \in S
  <2>0. n \in 0..Len(marks) /\ n # 0
    BY <1>1
  <2>1. f[n] = guard(f[n - 1], a.cash + marks[n]) /\ n \in 0..Len(marks)
    BY <1>2, <2>0
  <2>2. a.cash + marks[n] \in Int
    <3>1. a.cash \in Int /\ marks[n] \in Int
      BY DEF Accounts
    <3> QED BY <3>1
  <2>3. Follows(a, f[n - 1]) /\ f[n - 1].cash = a.cash
    BY <1>4
  <2>4. f[n - 1] \in Accounts
    BY <2>3 DEF Follows
  <2>5. Follows(f[n - 1], f[n]) /\ f[n].cash = f[n - 1].cash
    BY <2>1, <2>2, <2>4, GuardFollows
  <2>6. Follows(a, f[n])
    BY <2>3, <2>5, FollowsTransitive
  <2> QED BY <2>1, <2>3, <2>5, <2>6
<1>5. Len(marks) \in S
  <2> HIDE DEF S
  <2>1. 0..Len(marks) \subseteq S
    BY <1>1, <1>3, <1>4, Inductive
  <2> QED BY <1>1, <2>1
<1> QED BY <1>5 DEF f

\* Between trades an account within the cumulative limit is worth no more than its peak, and
\* is within the limit as long as it is not halted.
Within(a) == a.high >= a.cash /\ (~a.halted => a.high - a.cash < CumulativeDrawdown)

LEMMA TradedFollows ==
  ASSUME NEW a \in Accounts, NEW t \in Trades, Within(a)
  PROVE  Follows(a, Traded(a, t)) /\ Within(Traded(a, t))
<1>1. CASE a.halted
  BY <1>1 DEF Traded, Follows, Accounts
<1>2. CASE ~a.halted
  <2> DEFINE m == AfterMarks(a, t.marks)[Len(t.marks)]
             e == a.cash + t.net
             g == guard(m, e)
  <2>1. Follows(a, m) /\ m \in Accounts
    BY MarksFollow DEF Trades, Follows
  <2>2. a.cash \in Int /\ t.net \in Int /\ e \in Int
    BY DEF Accounts, Trades
  <2>3. Traded(a, t) = [g EXCEPT !.cash = e, !.trades = @ + 1]
    BY <1>2 DEF Traded
  <2> HIDE DEF m, e
  <2>4. Follows(m, g) /\ g.high >= e /\ (g.high - e >= CumulativeDrawdown => g.halted)
    BY <2>1, <2>2, GuardFollows
  <2> HIDE DEF g
  <2>5. g \in Accounts
    BY <2>4 DEF Follows
  <2> DEFINE c == [g EXCEPT !.cash = e, !.trades = @ + 1]
  <2>6. c \in Accounts /\ c.cash = e /\ c.high = g.high /\ c.drawdown = g.drawdown /\ c.halted = g.halted
    <3>1. g.trades \in Nat /\ g.trades + 1 \in Nat
      BY <2>5 DEF Accounts
    <3>2. c = [g EXCEPT !.cash = e, !.trades = g.trades + 1]
      BY <2>5 DEF Accounts
    <3> QED BY <2>2, <2>5, <3>1, <3>2 DEF Accounts
  <2> HIDE DEF c
  <2>7. Follows(a, c)
    <3>1. Follows(a, g)
      BY <2>1, <2>4, FollowsTransitive
    <3> QED BY <2>6, <3>1 DEF Follows
  <2>8. Within(c)
    BY <2>2, <2>4, <2>5, <2>6, MultiAssumption DEF Within, Accounts
  <2> QED BY <2>3, <2>7, <2>8 DEF c
<1> QED BY <1>1, <1>2 DEF Accounts

\* The account after each trade is what its recursion says.
LEMMA AfterTradesDefined ==
  ASSUME NEW a, NEW daily, Len(daily) \in Nat
  PROVE  AfterTrades(a, daily) = [n \in 0..Len(daily) |-> IF n = 0 THEN a ELSE Traded(AfterTrades(a, daily)[n - 1], daily[n])]
<1> DEFINE P(f, m) == f = [n \in 0..m |-> IF n = 0 THEN a ELSE Traded(f[n - 1], daily[n])]
           S == {m \in Nat : \E f : P(f, m)}
<1>1. 0 \in S
  <2>1. P([n \in 0..0 |-> a], 0)
    OBVIOUS
  <2> QED BY <2>1
<1>2. ASSUME NEW m \in 1..Len(daily), m - 1 \in S PROVE m \in S
  <2>1. PICK f : P(f, m - 1)
    BY <1>2
  <2> DEFINE g == [n \in 0..m |-> IF n = m THEN Traded(f[m - 1], daily[m]) ELSE f[n]]
  <2>2. m \in Nat /\ m # 0 /\ m - 1 \in Nat /\ m - 1 \in 0..m /\ m - 1 # m
    BY <1>2
  <2>3. \A n \in 0..m : n = m \/ (n \in 0..(m - 1) /\ (n = 0 \/ (n - 1 \in 0..m /\ n - 1 # m)))
    BY <2>2
  <2>4. \A n \in 0..m : g[n] = IF n = 0 THEN a ELSE Traded(g[n - 1], daily[n])
    <3> SUFFICES ASSUME NEW n \in 0..m PROVE g[n] = IF n = 0 THEN a ELSE Traded(g[n - 1], daily[n])
      OBVIOUS
    <3>1. CASE n = m
      <4>1. g[m] = Traded(f[m - 1], daily[m]) /\ g[m - 1] = f[m - 1]
        BY <2>2
      <4> QED BY <2>2, <3>1, <4>1
    <3>2. CASE n # m
      <4>1. n \in 0..(m - 1) /\ g[n] = f[n] /\ (n # 0 => g[n - 1] = f[n - 1])
        BY <2>3, <3>2
      <4>2. f[n] = IF n = 0 THEN a ELSE Traded(f[n - 1], daily[n])
        BY <2>1, <4>1
      <4> QED BY <4>1, <4>2
    <3> QED BY <3>1, <3>2
  <2>5. g = [n \in 0..m |-> g[n]]
    OBVIOUS
  <2>6. P(g, m)
    <3> HIDE DEF g
    <3> QED BY <2>4, <2>5
  <2> QED BY <2>2, <2>6
<1>3. Len(daily) \in S
  <2> HIDE DEF S
  <2>1. 0..Len(daily) \subseteq S
    BY <1>1, <1>2, Inductive
  <2> QED BY <2>1
<1>4. \E f : P(f, Len(daily))
  BY <1>3
<1>5. AfterTrades(a, daily) = CHOOSE f : P(f, Len(daily))
  BY DEF AfterTrades
<1>6. P(CHOOSE f : P(f, Len(daily)), Len(daily))
  <2> HIDE DEF P
  <2> QED BY <1>4
<1> QED BY <1>5, <1>6

LEMMA TradesFollow ==
  ASSUME NEW a \in Accounts, NEW daily \in Seq(Trades), Within(a)
  PROVE  /\ Follows(a, AfterTrades(a, daily)[Len(daily)])
         /\ Within(AfterTrades(a, daily)[Len(daily)])
<1> DEFINE f == AfterTrades(a, daily)
           S == {n \in 0..Len(daily) : Follows(a, f[n]) /\ Within(f[n])}
<1>1. Len(daily) \in Nat
  OBVIOUS
<1>2. f = [n \in 0..Len(daily) |-> IF n = 0 THEN a ELSE Traded(f[n - 1], daily[n])]
  BY <1>1, AfterTradesDefined
<1> HIDE DEF f
<1>3. 0 \in S
  <2>1. f[0] = a
    BY <1>1, <1>2
  <2> QED BY <1>1, <2>1 DEF Follows, Accounts
<1>4. ASSUME NEW n \in 1..Len(daily), n - 1 \in S PROVE n \in S
  <2>1. f[n] = Traded(f[n - 1], daily[n]) /\ n \in 0..Len(daily) /\ daily[n] \in Trades
    BY <1>1, <1>2
  <2>2. Follows(a, f[n - 1]) /\ Within(f[n - 1]) /\ f[n - 1] \in Accounts
    BY <1>4 DEF Follows
  <2>3. Follows(f[n - 1], f[n]) /\ Within(f[n])
    BY <2>1, <2>2, TradedFollows
  <2>4. Follows(a, f[n])
    BY <2>2, <2>3, FollowsTransitive
  <2> QED BY <2>1, <2>3, <2>4
<1>5. Len(daily) \in S
  <2> HIDE DEF S
  <2>1. 0..Len(daily) \subseteq S
    BY <1>1, <1>3, <1>4, Inductive
  <2> QED BY <1>1, <2>1
<1> QED BY <1>5 DEF f

AccountStates == [equity : Int, net : Int, high : Int, drawdown : Nat, halted : BOOLEAN]

\* A closing state: one account since the opening, within the limit unless it halted.
Closing(st) ==
  /\ st \in AccountStates /\ st.equity = Capital + st.net /\ st.high >= st.equity
  /\ st.high >= Capital /\ (~st.halted => st.high - st.equity < CumulativeDrawdown)

\* What a session makes of the state carried to it.
LEMMA OutcomeCloses ==
  ASSUME plan \in Plans, NEW i, NEW start, Closing(start), ~start.halted
  PROVE  LET o == Outcome(i, start)
         IN  /\ o.start = start /\ o.date = Calendar[i] /\ Closing(o.end)
             /\ o = [start |-> o.start, date |-> o.date, end |-> o.end]
             /\ o.end.high >= start.high /\ o.end.drawdown >= start.drawdown
             /\ o.date \notin DOMAIN plan => o.end.halted
<1> DEFINE d == Calendar[i]
           o == Outcome(i, start)
<1>0. /\ start \in AccountStates /\ start.equity \in Int /\ start.net \in Int /\ start.high \in Int
      /\ start.drawdown \in Nat /\ Capital \in Int
  BY MultiAssumption DEF Closing, AccountStates
<1>1. o = [start |-> start, date |-> d, end |-> IF d \in DOMAIN plan THEN execute(plan[d], start)
                                               ELSE [start EXCEPT !.halted = TRUE]]
  BY DEF Outcome
<1>2. CASE d \notin DOMAIN plan
  <2>1. o.end = [start EXCEPT !.halted = TRUE]
    BY <1>1, <1>2
  <2>2. /\ o.end \in AccountStates /\ o.end.equity = start.equity /\ o.end.net = start.net
        /\ o.end.high = start.high /\ o.end.drawdown = start.drawdown /\ o.end.halted = TRUE
    BY <1>0, <2>1 DEF AccountStates
  <2>3. o.start = start /\ o.date = d /\ o = [start |-> o.start, date |-> o.date, end |-> o.end]
    BY <1>1
  <2> HIDE DEF o
  <2> QED BY <1>0, <2>2, <2>3 DEF Closing, o
<1>3. CASE d \in DOMAIN plan
  <2> DEFINE s == DayStart(start)
             a == AfterTrades(s, plan[d])[Len(plan[d])]
  <2>1. /\ s \in Accounts /\ s.cash = start.equity /\ s.high = start.high
        /\ s.drawdown = start.drawdown /\ s.halted = FALSE
    BY <1>0 DEF DayStart, Accounts
  <2>2. Within(s)
    <3> HIDE DEF s
    <3> QED BY <2>1 DEF Within, Closing
  <2>3. plan[d] \in Seq(Trades)
    BY <1>3, MultiAssumption
  <2>4. Follows(s, a) /\ Within(a)
    <3> HIDE DEF s
    <3> QED BY <2>1, <2>2, <2>3, TradesFollow
  <2>5. o.end = [equity |-> a.cash, net |-> start.net + (a.cash - start.equity), high |-> a.high,
                 drawdown |-> a.drawdown, halted |-> a.halted]
    BY <1>1, <1>3 DEF execute
  <2>6. o.start = start /\ o.date = d /\ o = [start |-> o.start, date |-> o.date, end |-> o.end]
    BY <1>1
  <2> HIDE DEF s, a, o
  <2>7. /\ a \in Accounts /\ a.cash \in Int /\ a.high \in Int /\ a.drawdown \in Nat /\ a.halted \in BOOLEAN
        /\ a.high >= start.high /\ a.drawdown >= start.drawdown
        /\ a.high >= a.cash /\ (~a.halted => a.high - a.cash < CumulativeDrawdown)
    BY <2>1, <2>4 DEF Follows, Within, Accounts
  <2>8. /\ o.end \in AccountStates /\ o.end.equity = a.cash
        /\ o.end.net = start.net + (a.cash - start.equity)
        /\ o.end.high = a.high /\ o.end.drawdown = a.drawdown /\ o.end.halted = a.halted
    BY <1>0, <2>5, <2>7 DEF AccountStates
  <2>9. start.equity = Capital + start.net /\ start.high >= Capital
    BY DEF Closing
  <2>10. o.end.equity = Capital + o.end.net /\ o.end.high >= o.end.equity /\ o.end.high >= Capital
    BY <1>0, <2>7, <2>8, <2>9
  <2>11. Closing(o.end)
    BY <2>7, <2>8, <2>10 DEF Closing
  <2> QED BY <1>3, <2>6, <2>7, <2>8, <2>11 DEF o
<1> QED BY <1>2, <1>3

\* The opening state is a closing state, not halted.
LEMMA OpeningCloses == Closing(Opening) /\ ~Opening.halted
BY MultiAssumption DEF Closing, Opening, AccountStates

-----------------------------------------------------------------------------
(***************************************************************************)
(* The run: what every state of the directory and of the attempt obeys.    *)
(***************************************************************************)
Outcomes == [start : AccountStates, date : Range(Calendar), end : AccountStates]
AlertIds == Range(Calendar) \X {"SESSION_STARTED", "SESSION_COMPLETED", "SESSION_MISSING",
                                "PAPER_HALT_TRIGGERED"}
Rows == [sequence : Nat, previous : Int, outcome : Outcomes, alerts : SUBSET AlertIds]
Acks == [alert : AlertIds, at : Times, previous : Nat]

\* The state the first k sessions leave.
ClosedWith(out, k) == IF k = 0 THEN Opening ELSE out[k].end

DirectoryShape ==
  /\ plan \in Plans
  /\ run_dir = [bound |-> run_dir.bound, outcomes |-> run_dir.outcomes, records |-> run_dir.records,
                summary |-> run_dir.summary, pending |-> run_dir.pending, lock |-> run_dir.lock,
                acks |-> run_dir.acks]
  /\ run_dir.outcomes \in Seq(Outcomes) /\ run_dir.records \in Seq(Rows)
  /\ run_dir.acks \in Seq(Acks) /\ accepted \in Seq(Outcomes)
  /\ stage \in {"down", "session", "record", "done", "refused"}

\* The outcomes are those of one account: each of the state before it, none after a halt, the
\* peak above every close so far and the deepest fall never less.
Account ==
  LET out == run_dir.outcomes
  IN  /\ Len(out) <= Len(Calendar)
      /\ \A i \in 1..Len(out) : out[i] = Outcome(i, ClosedWith(out, i - 1)) /\ Closing(out[i].end)
      /\ \A i \in 1..Len(out) : i < Len(out) => ~out[i].end.halted
      /\ \A i \in 1..Len(out), j \in 1..Len(out) : j <= i => out[j].end.equity <= out[i].end.high
      /\ \A i \in 1..Len(out) : i > 1 => out[i].end.drawdown >= out[i - 1].end.drawdown
      /\ \A i \in 1..Len(out) : out[i].date \notin DOMAIN plan => out[i].end.halted

\* The records are those of the outcomes; at most the last outcome lacks its own.
Recorded ==
  /\ Len(run_dir.records) \in {Len(run_dir.outcomes), Len(run_dir.outcomes) - 1}
  /\ \A i \in 1..Len(run_dir.records) : run_dir.records[i] = Record(i, run_dir.outcomes[i])

\* What the attempt has accepted is a beginning of what is on disk, and what it carries is how
\* that ended.
Carrying ==
  /\ Len(accepted) <= Len(run_dir.records)
  /\ \A i \in 1..Len(accepted) : accepted[i] = run_dir.outcomes[i]
  /\ carried = ClosedWith(run_dir.outcomes, Len(accepted))
  /\ stage = "record" => Len(accepted) < Len(run_dir.outcomes) /\ ~carried.halted
  /\ stage \in {"session", "record"} => run_dir.summary = <<>>

\* A summary is of all the outcomes on disk, which then end with the calendar or with a halt.
Told ==
  run_dir.summary # <<>> =>
    LET out == run_dir.outcomes
        last == ClosedWith(out, Len(out))
        alerts == UNION {Alerts(out[i]) : i \in DOMAIN out}
    IN  /\ run_dir.summary = [complete |-> ~last.halted /\ Len(out) = Len(Calendar), state |-> last,
                              sessions |-> out, alerts |-> alerts, views |-> report_views(out, alerts)]
        /\ Len(out) = Len(Calendar) \/ last.halted

\* No alert has two acknowledgements.
Distinct ==
  \A i \in 1..Len(run_dir.acks), j \in 1..Len(run_dir.acks) :
    run_dir.acks[i].alert = run_dir.acks[j].alert => i = j

RunInv == DirectoryShape /\ Account /\ Recorded /\ Carrying /\ Told /\ Distinct

\* The initial run.
LEMMA RunInvInit == RunInit => RunInv
<1> SUFFICES ASSUME RunInit PROVE RunInv
  OBVIOUS
<1>1. /\ run_dir.outcomes = <<>> /\ run_dir.records = <<>> /\ run_dir.acks = <<>>
      /\ run_dir.summary = <<>> /\ accepted = <<>> /\ carried = Opening /\ stage = "down"
      /\ Len(Calendar) \in Nat
  BY MultiAssumption DEF RunInit, Empty
<1>2. DirectoryShape
  BY <1>1 DEF RunInit, Empty, DirectoryShape
<1>3. Account /\ Recorded
  BY <1>1 DEF Account, Recorded
<1>4. Carrying /\ Told /\ Distinct
  BY <1>1 DEF Carrying, Told, Distinct, ClosedWith
<1> QED BY <1>2, <1>3, <1>4 DEF RunInv

\* The invariant gives the properties.
LEMMA HaltIsLast ==
  ASSUME RunInv, NEW i \in 1..Len(run_dir.outcomes), run_dir.outcomes[i].end.halted
  PROVE  i = Len(run_dir.outcomes)
BY DEF RunInv, DirectoryShape, Account

LEMMA AccountProperties == RunInv => OneAccount /\ HaltEndsRun /\ CumulativeLimitHolds
<1> SUFFICES ASSUME RunInv PROVE OneAccount /\ HaltEndsRun /\ CumulativeLimitHolds
  OBVIOUS
<1> DEFINE out == run_dir.outcomes
<1>1. Len(out) \in Nat /\ DOMAIN out = 1..Len(out)
  BY DEF RunInv, DirectoryShape
<1>2. \A i \in 1..Len(out) : out[i] = Outcome(i, ClosedWith(out, i - 1)) /\ Closing(out[i].end)
  BY DEF RunInv, Account
<1>3. OneAccount
  <2>1. \A i \in 1..Len(out) : ClosedWith(out, i - 1) = IF i = 1 THEN Opening ELSE out[i - 1].end
    BY <1>1 DEF ClosedWith
  <2>2. \A i \in 1..Len(out) : out[i].end.equity = Capital + out[i].end.net
    BY <1>2 DEF Closing
  <2> QED BY <1>1, <1>2, <2>1, <2>2 DEF OneAccount
<1>4. HaltEndsRun
  BY <1>1 DEF HaltEndsRun, RunInv, Account
<1>5. CumulativeLimitHolds
  <2> SUFFICES ASSUME NEW i \in 1..Len(out),
                      NEW e \in {Capital} \cup {out[j].end.equity : j \in 1..i},
                      e - out[i].end.equity >= CumulativeDrawdown
               PROVE  out[i].end.halted
    BY <1>1 DEF CumulativeLimitHolds
  <2>1. Closing(out[i].end) /\ \A j \in 1..Len(out) : Closing(out[j].end)
    BY <1>2
  <2>2. /\ out[i].end.high \in Int /\ out[i].end.equity \in Int /\ out[i].end.high >= Capital
        /\ (~out[i].end.halted => out[i].end.high - out[i].end.equity < CumulativeDrawdown)
    BY <2>1 DEF Closing, AccountStates
  <2>3. e \in Int /\ e <= out[i].end.high
    <3>1. CASE e = Capital
      BY <2>2, <3>1, MultiAssumption
    <3>2. CASE e \in {out[j].end.equity : j \in 1..i}
      <4>1. PICK j \in 1..i : e = out[j].end.equity
        BY <3>2
      <4>2. j \in 1..Len(out) /\ j <= i
        BY <1>1
      <4>3. out[j].end.equity <= out[i].end.high
        BY <4>2 DEF RunInv, Account
      <4>4. out[j].end.equity \in Int
        BY <2>1, <4>2 DEF Closing, AccountStates
      <4> QED BY <4>1, <4>3, <4>4
    <3> QED BY <3>1, <3>2
  <2>4. ~(out[i].end.high - out[i].end.equity < CumulativeDrawdown)
    <3>1. CumulativeDrawdown \in Int
      BY MultiAssumption
    <3> QED BY <2>2, <2>3, <3>1
  <2> QED BY <2>2, <2>4
<1> QED BY <1>3, <1>4, <1>5

LEMMA AcknowledgementProperty == RunInv => AcknowledgedOnce
<1> SUFFICES ASSUME RunInv, NEW a \in run_dir.summary.alerts
             PROVE  Cardinality({i \in DOMAIN run_dir.acks : run_dir.acks[i].alert = a}) <= 1
  BY DEF AcknowledgedOnce, alert_view
<1> DEFINE S == {i \in DOMAIN run_dir.acks : run_dir.acks[i].alert = a}
<1>1. ASSUME NEW i \in S, NEW j \in S PROVE i = j
  <2>1. DOMAIN run_dir.acks = 1..Len(run_dir.acks)
    BY DEF RunInv, DirectoryShape
  <2>2. i \in 1..Len(run_dir.acks) /\ j \in 1..Len(run_dir.acks)
        /\ run_dir.acks[i].alert = run_dir.acks[j].alert
    BY <2>1
  <2> QED BY <2>2 DEF RunInv, Distinct
<1> HIDE DEF S
<1>2. ASSUME S = {} PROVE Cardinality(S) <= 1
  <2>1. Cardinality({}) = 0
    BY FS_EmptySet
  <2> QED BY <1>2, <2>1
<1>3. ASSUME S # {} PROVE Cardinality(S) <= 1
  <2>1. PICK i : S = {i}
    BY <1>1, <1>3
  <2>2. Cardinality({i}) = 1
    BY FS_Singleton
  <2> QED BY <2>1, <2>2
<1>4. Cardinality(S) <= 1
  BY <1>2, <1>3
<1> QED BY <1>4 DEF S

LEMMA TypeProperty == RunInv => RunTypeOK
<1> SUFFICES ASSUME RunInv PROVE RunTypeOK
  OBVIOUS
<1>1. Len(accepted) \in Nat /\ Len(run_dir.outcomes) \in Nat /\ Len(run_dir.records) \in Nat
  BY DEF RunInv, DirectoryShape
<1>2. Closing(carried)
  <2>1. CASE Len(accepted) = 0
    BY <2>1, OpeningCloses DEF RunInv, Carrying, ClosedWith
  <2>2. CASE Len(accepted) # 0
    <3>1. Len(accepted) \in 1..Len(run_dir.outcomes)
      BY <1>1, <2>2 DEF RunInv, Carrying, Recorded
    <3> QED BY <2>2, <3>1 DEF RunInv, Carrying, ClosedWith, Account
  <2> QED BY <2>1, <2>2
<1> QED BY <1>2 DEF RunTypeOK, Closing, AccountStates, RunInv, DirectoryShape, Recorded, Carrying

LEMMA SummaryProperty == RunInv => SummaryAgrees
<1> SUFFICES ASSUME RunInv, run_dir.summary # <<>>
             PROVE  LET v == run_dir.summary.views
                    IN  /\ run_dir.summary.complete <=> v.halts = {} /\ Len(v.equity) = Len(Calendar)
                        /\ v.missing # {} => Cardinality(v.halts) = 1 /\ ~run_dir.summary.complete
                        /\ Len(v.equity) < Len(Calendar) => Last(run_dir.summary.sessions).end.halted
                        /\ \A i \in DOMAIN v.drawdown : i > 1 => v.drawdown[i] >= v.drawdown[i - 1]
  BY DEF SummaryAgrees
<1> DEFINE out == run_dir.outcomes
           n == Len(out)
           last == ClosedWith(out, n)
           alerts == UNION {Alerts(out[i]) : i \in DOMAIN out}
           v == report_views(out, alerts)
<1>1. n \in Nat /\ DOMAIN out = 1..n /\ Len(Calendar) \in Nat /\ n <= Len(Calendar)
  BY MultiAssumption DEF RunInv, DirectoryShape, Account
<1>2. /\ run_dir.summary = [complete |-> ~last.halted /\ n = Len(Calendar), state |-> last,
                            sessions |-> out, alerts |-> alerts, views |-> v]
      /\ n = Len(Calendar) \/ last.halted
  BY DEF RunInv, Told
<1>3. /\ run_dir.summary.views = v /\ run_dir.summary.sessions = out
      /\ run_dir.summary.complete = (~last.halted /\ n = Len(Calendar))
  BY <1>2
<1>4. /\ v.equity = [i \in 1..n |-> out[i].end.equity]
      /\ v.drawdown = [i \in 1..n |-> out[i].end.drawdown]
      /\ v.halts = {s.date : s \in {x \in Range(out) : x.end.halted}}
      /\ v.missing = {a \in alerts : a[2] = "SESSION_MISSING"}
  BY <1>1 DEF report_views
<1>5. Len(v.equity) = n
  <2>1. [i \in 1..n |-> out[i].end.equity] \in Seq(Int)
    <3>1. \A i \in 1..n : out[i].end.equity \in Int
      <4>1. \A i \in 1..n : out[i] \in Outcomes
        BY <1>1 DEF RunInv, DirectoryShape
      <4> QED BY <4>1 DEF Outcomes, AccountStates
    <3> QED BY <1>1, <3>1
  <2> QED BY <1>1, <1>4, <2>1
<1>6. Range(out) = {out[i] : i \in 1..n}
  BY <1>1 DEF Range
<1>7. n > 0 => last = out[n].end /\ n \in 1..n
  BY <1>1 DEF ClosedWith
<1>8. n = 0 => last = Opening
  BY DEF ClosedWith
<1>9. (\E i \in 1..n : out[i].end.halted) <=> last.halted
  <2>1. ASSUME NEW i \in 1..n, out[i].end.halted PROVE last.halted
    <3>1. i = n
      BY <2>1, HaltIsLast
    <3> QED BY <1>1, <1>7, <2>1, <3>1
  <2>2. ASSUME last.halted PROVE \E i \in 1..n : out[i].end.halted
    BY <1>1, <1>7, <1>8, <2>2, OpeningCloses
  <2> QED BY <2>1, <2>2
<1> HIDE DEF v
<1>10. v.halts = {} <=> ~last.halted
  <2>1. v.halts = {} <=> ~\E x \in Range(out) : x.end.halted
    <3> DEFINE H == {x \in Range(out) : x.end.halted}
    <3>1. v.halts = {s.date : s \in H}
      BY <1>4
    <3>2. H = {} <=> ~\E x \in Range(out) : x.end.halted
      OBVIOUS
    <3> HIDE DEF H
    <3> QED BY <3>1, <3>2
  <2> QED BY <1>6, <1>9, <2>1
<1>11. run_dir.summary.complete <=> v.halts = {} /\ Len(v.equity) = Len(Calendar)
  BY <1>3, <1>5, <1>10
<1>12. ASSUME v.missing # {} PROVE Cardinality(v.halts) = 1 /\ ~run_dir.summary.complete
  <2>1. PICK a : a \in alerts /\ a[2] = "SESSION_MISSING"
    BY <1>4, <1>12
  <2>2. PICK i \in 1..n : a \in Alerts(out[i])
    BY <1>1, <2>1
  <2>3. out[i].date \notin DOMAIN plan
    BY <2>1, <2>2 DEF Alerts, SessionComplete
  <2>4. out[i].end.halted
    BY <2>3 DEF RunInv, Account
  <2>5. \A x \in Range(out) : x.end.halted <=> x = out[n]
    <3>1. i = n
      BY <2>4, HaltIsLast
    <3>2. \A j \in 1..n : out[j].end.halted => j = n
      BY HaltIsLast
    <3> QED BY <1>6, <2>4, <3>1, <3>2
  <2>6. out[n] \in Range(out)
    BY <1>1, <1>6, <2>2, <1>7
  <2>7. v.halts = {out[n].date}
    BY <1>4, <2>5, <2>6
  <2>8. last.halted
    BY <1>9, <2>4
  <2>9. Cardinality({out[n].date}) = 1
    BY FS_Singleton
  <2> QED BY <1>3, <2>7, <2>8, <2>9
<1>13. ASSUME Len(v.equity) < Len(Calendar) PROVE Last(run_dir.summary.sessions).end.halted
  <2>1. last.halted /\ n # 0
    BY <1>1, <1>2, <1>5, <1>8, <1>13, OpeningCloses
  <2> QED BY <1>1, <1>3, <1>7, <2>1 DEF Last
<1>14. ASSUME NEW i \in DOMAIN v.drawdown, i > 1 PROVE v.drawdown[i] >= v.drawdown[i - 1]
  <2>1. i \in 1..n /\ i - 1 \in 1..n
    BY <1>1, <1>4, <1>14
  <2>2. out[i].end.drawdown >= out[i - 1].end.drawdown
    BY <1>14, <2>1 DEF RunInv, Account
  <2> QED BY <1>4, <2>1, <2>2
<1> QED BY <1>3, <1>11, <1>12, <1>13, <1>14

\* What appending makes of a sequence.
LEMMA Appended ==
  ASSUME NEW S, NEW s \in Seq(S), NEW x \in S
  PROVE  /\ Append(s, x) \in Seq(S) /\ Len(Append(s, x)) = Len(s) + 1
         /\ Append(s, x)[Len(s) + 1] = x
         /\ \A i \in 1..Len(s) : Append(s, x)[i] = s[i]
         /\ \A i \in 1..(Len(s) + 1) : i \in 1..Len(s) \/ i = Len(s) + 1
<1>1. Len(s) \in Nat
  OBVIOUS
<1>2. \A i \in 1..(Len(s) + 1) : i \in 1..Len(s) \/ i = Len(s) + 1
  BY <1>1
<1> QED BY <1>2

\* The plan does not change, so neither does what a session makes of its start.
LEMMA PlanKept ==
  ASSUME plan' = plan
  PROVE  /\ \A i, s : Outcome(i, s)' = Outcome(i, s)
         /\ \A o : Alerts(o)' = Alerts(o)
         /\ \A i, o : Record(i, o)' = Record(i, o)
BY DEF Outcome, Alerts, Record, SessionComplete

\* The account is told by the plan and the outcomes alone.
LEMMA AccountKept ==
  ASSUME Account, plan' = plan, run_dir'.outcomes = run_dir.outcomes
  PROVE  Account'
<1>1. \A i, s : Outcome(i, s)' = Outcome(i, s)
  BY PlanKept
<1>2. \A i \in 1..Len(run_dir.outcomes) :
        (Outcome(i, ClosedWith(run_dir.outcomes, i - 1)))' = Outcome(i, ClosedWith(run_dir.outcomes, i - 1))
  BY <1>1 DEF ClosedWith
<1> QED BY <1>2 DEF Account

\* A step that leaves the outcomes, records, summary and acknowledgements alone.
FlagsOnly ==
  /\ run_dir' = [bound |-> run_dir'.bound, outcomes |-> run_dir.outcomes, records |-> run_dir.records,
                 summary |-> run_dir.summary, pending |-> run_dir'.pending, lock |-> run_dir'.lock,
                 acks |-> run_dir.acks]
  /\ plan' = plan

LEMMA DirectoryKept ==
  ASSUME RunInv, FlagsOnly, stage' \in {"down", "session", "record", "done", "refused"},
         accepted' \in Seq(Outcomes)
  PROVE  /\ DirectoryShape' /\ Account' /\ Recorded' /\ Told' /\ Distinct'
         /\ run_dir'.outcomes = run_dir.outcomes /\ run_dir'.records = run_dir.records
         /\ run_dir'.summary = run_dir.summary
<1>0. DirectoryShape
  BY DEF RunInv
<1>2. /\ run_dir'.outcomes = run_dir.outcomes /\ run_dir'.records = run_dir.records
      /\ run_dir'.summary = run_dir.summary /\ run_dir'.acks = run_dir.acks /\ plan' = plan
  BY DEF FlagsOnly
<1>3. DirectoryShape'
  BY <1>0, <1>2 DEF DirectoryShape, FlagsOnly
<1>4. Account'
  <2>1. Account
    BY DEF RunInv
  <2> QED BY <1>2, <2>1, AccountKept
<1>5. Recorded'
  <2>1. Recorded
    BY DEF RunInv
  <2> QED BY <1>2, <2>1, PlanKept DEF Recorded
<1>6. Told'
  <2>1. Told
    BY DEF RunInv
  <2>2. (UNION {Alerts(run_dir.outcomes[i]) : i \in DOMAIN run_dir.outcomes})'
          = UNION {Alerts(run_dir.outcomes[i]) : i \in DOMAIN run_dir.outcomes}
    BY <1>2 DEF Alerts, SessionComplete
  <2> QED BY <1>2, <2>1, <2>2 DEF Told, ClosedWith, report_views
<1>7. Distinct'
  BY <1>2 DEF RunInv, Distinct
<1> QED BY <1>2, <1>3, <1>4, <1>5, <1>6, <1>7

\* An attempt that starts again carries the opening state.
LEMMA FromTheStart ==
  ASSUME RunInv, accepted' = <<>>, carried' = Opening, stage' # "record",
         stage' \in {"session", "record"} => run_dir'.summary = <<>>,
         run_dir'.records = run_dir.records
  PROVE  Carrying'
<1>1. Len(run_dir.records) \in Nat
  BY DEF RunInv, DirectoryShape
<1> QED BY <1>1 DEF Carrying, ClosedWith

\* An attempt that keeps what it carries.
LEMMA StillCarrying ==
  ASSUME RunInv, accepted' = accepted, carried' = carried, stage' \notin {"session", "record"},
         run_dir'.records = run_dir.records, run_dir'.outcomes = run_dir.outcomes
  PROVE  Carrying'
<1>1. Carrying
  BY DEF RunInv
<1> QED BY <1>1 DEF Carrying, ClosedWith

LEMMA BeginKeeps ==
  ASSUME RunInv, NEW resume \in BOOLEAN, NEW head \in 0..Len(Calendar), BeginRun(resume, head)
  PROVE  RunInv'
<1>0. DirectoryShape
  BY DEF RunInv
<1>1. CASE AttemptFault(resume, head) # "none"
  <2>1. stage' = "refused" /\ run_dir' = run_dir /\ carried' = carried /\ accepted' = accepted /\ plan' = plan
    BY <1>1 DEF BeginRun
  <2>4. FlagsOnly /\ accepted' \in Seq(Outcomes)
    BY <1>0, <2>1 DEF FlagsOnly, DirectoryShape
  <2>2. DirectoryShape' /\ Account' /\ Recorded' /\ Told' /\ Distinct'
    BY <2>1, <2>4, DirectoryKept
  <2>3. Carrying'
    BY <2>1, StillCarrying
  <2> QED BY <2>2, <2>3 DEF RunInv
<1>2. CASE AttemptFault(resume, head) = "none"
  <2>1. /\ stage' = "session" /\ run_dir' = [run_dir EXCEPT !.bound = TRUE, !.lock = TRUE]
        /\ carried' = Opening /\ accepted' = <<>> /\ plan' = plan
    BY <1>2 DEF BeginRun
  <2>2. run_dir.summary = <<>>
    BY <1>2 DEF AttemptFault
  <2>3. FlagsOnly /\ accepted' \in Seq(Outcomes)
    <3>1. FlagsOnly
      BY <1>0, <2>1 DEF FlagsOnly, DirectoryShape
    <3> QED BY <2>1, <3>1
  <2>4. /\ DirectoryShape' /\ Account' /\ Recorded' /\ Told' /\ Distinct'
        /\ run_dir'.records = run_dir.records /\ run_dir'.summary = run_dir.summary
    BY <2>1, <2>3, DirectoryKept
  <2>5. Carrying'
    BY <2>1, <2>2, <2>4, FromTheStart
  <2> QED BY <2>4, <2>5 DEF RunInv
<1> QED BY <1>1, <1>2

LEMMA KillKeeps ==
  ASSUME RunInv, KillRun
  PROVE  RunInv'
<1>0. DirectoryShape
  BY DEF RunInv
<1>1. PICK half \in BOOLEAN : run_dir' = [run_dir EXCEPT !.pending = half]
  BY DEF KillRun
<1>2. stage' = "down" /\ carried' = Opening /\ accepted' = <<>> /\ plan' = plan
  BY DEF KillRun
<1>3. FlagsOnly /\ accepted' \in Seq(Outcomes)
  <2>1. FlagsOnly
    BY <1>0, <1>1, <1>2 DEF FlagsOnly, DirectoryShape
  <2> QED BY <1>2, <2>1
<1>4. /\ DirectoryShape' /\ Account' /\ Recorded' /\ Told' /\ Distinct'
      /\ run_dir'.records = run_dir.records
  BY <1>2, <1>3, DirectoryKept
<1>5. Carrying'
  BY <1>2, <1>4, FromTheStart
<1> QED BY <1>4, <1>5 DEF RunInv

LEMMA LockAndRetryKeep ==
  ASSUME RunInv, RemoveLock \/ Retry
  PROVE  RunInv'
<1>0. DirectoryShape
  BY DEF RunInv
<1>1. CASE RemoveLock
  <2>1. /\ stage' = "down" /\ run_dir' = [run_dir EXCEPT !.lock = FALSE]
        /\ carried' = carried /\ accepted' = accepted /\ plan' = plan
    BY <1>1 DEF RemoveLock
  <2>2. FlagsOnly
    BY <1>0, <2>1 DEF FlagsOnly, DirectoryShape
  <2>3. accepted' \in Seq(Outcomes)
    BY <1>0, <2>1 DEF DirectoryShape
  <2>4. /\ DirectoryShape' /\ Account' /\ Recorded' /\ Told' /\ Distinct'
        /\ run_dir'.records = run_dir.records /\ run_dir'.outcomes = run_dir.outcomes
    BY <2>1, <2>2, <2>3, DirectoryKept
  <2>5. Carrying'
    BY <2>1, <2>4, StillCarrying
  <2> QED BY <2>4, <2>5 DEF RunInv
<1>2. CASE Retry
  <2>1. stage' = "down" /\ run_dir' = run_dir /\ carried' = carried /\ accepted' = accepted /\ plan' = plan
    BY <1>2 DEF Retry
  <2>2. accepted' \in Seq(Outcomes)
    BY <1>0, <2>1 DEF DirectoryShape
  <2>5. FlagsOnly
    BY <1>0, <2>1 DEF FlagsOnly, DirectoryShape
  <2>3. DirectoryShape' /\ Account' /\ Recorded' /\ Told' /\ Distinct'
    BY <2>1, <2>2, <2>5, DirectoryKept
  <2>4. Carrying'
    BY <2>1, StillCarrying
  <2> QED BY <2>3, <2>4 DEF RunInv
<1> QED BY <1>1, <1>2

\* What is carried is the close of an account that has not passed its limit.
LEMMA CarriedCloses == RunInv => Closing(carried)
<1> SUFFICES ASSUME RunInv PROVE Closing(carried)
  OBVIOUS
<1>1. Len(accepted) \in Nat /\ Len(run_dir.outcomes) \in Nat /\ Len(run_dir.records) \in Nat
  BY DEF RunInv, DirectoryShape
<1>2. CASE Len(accepted) = 0
  BY <1>2, OpeningCloses DEF RunInv, Carrying, ClosedWith
<1>3. CASE Len(accepted) # 0
  <2>1. Len(accepted) \in 1..Len(run_dir.outcomes)
    BY <1>1, <1>3 DEF RunInv, Carrying, Recorded
  <2> QED BY <1>3, <2>1 DEF RunInv, Carrying, ClosedWith, Account
<1> QED BY <1>2, <1>3

\* The next session: a new outcome continues the account; one on disk opens with what is
\* carried, so the comparison of _run never refuses.
LEMMA SessionContinues ==
  ASSUME RunInv, NextSession, Next1 <= Len(run_dir.outcomes)
  PROVE  run_dir.outcomes[Next1].start = carried
<1> DEFINE out == run_dir.outcomes
           k == Len(accepted)
<1>1. k \in Nat /\ Len(out) \in Nat /\ k + 1 \in 1..Len(out) /\ k <= Len(out) /\ (k # 0 => k \in 1..Len(out))
  BY DEF RunInv, DirectoryShape, Next1
<1>2. out[k + 1] = Outcome(k + 1, ClosedWith(out, (k + 1) - 1)) /\ (k + 1) - 1 = k
  BY <1>1 DEF RunInv, Account
<1>3. carried = ClosedWith(out, k)
  BY DEF RunInv, Carrying
<1> HIDE DEF out, k
<1>4. Outcome(k + 1, carried).start = carried
  BY DEF Outcome
<1>5. out[k + 1].start = carried
  BY <1>2, <1>3, <1>4
<1> QED BY <1>5 DEF out, k, Next1

LEMMA SessionKeeps ==
  ASSUME RunInv, NextSession
  PROVE  RunInv'
<1>0. DirectoryShape /\ Account /\ Recorded /\ Carrying /\ Told /\ Distinct
  BY DEF RunInv
<1> DEFINE out == run_dir.outcomes
           n == Len(out)
           k == Len(accepted)
<1>1. /\ stage = "session" /\ ~(k + 1 > Len(Calendar)) /\ ~carried.halted
      /\ plan' = plan /\ carried' = carried /\ accepted' = accepted
  BY DEF NextSession, RunOver, Next1
<1>2. /\ n \in Nat /\ k \in Nat /\ Len(run_dir.records) \in Nat /\ Len(Calendar) \in Nat
      /\ Len(run_dir.records) <= n /\ k <= Len(run_dir.records)
  BY <1>0, MultiAssumption DEF DirectoryShape, Recorded, Carrying
<1>3. run_dir.summary = <<>>
  BY <1>0, <1>1 DEF Carrying
<1>4. CASE k + 1 <= n
  <2>1. stage' = "record" /\ run_dir' = run_dir
    BY <1>4, SessionContinues DEF NextSession, Next1
  <2>2. FlagsOnly /\ accepted' \in Seq(Outcomes)
    BY <1>0, <1>1, <2>1 DEF FlagsOnly, DirectoryShape
  <2>3. DirectoryShape' /\ Account' /\ Recorded' /\ Told' /\ Distinct'
    BY <2>1, <2>2, DirectoryKept
  <2>4. Carrying'
    BY <1>0, <1>1, <1>2, <1>3, <1>4, <2>1 DEF Carrying
  <2> QED BY <2>3, <2>4 DEF RunInv
<1>5. CASE ~(k + 1 <= n)
  <2> DEFINE o == Outcome(k + 1, carried)
  <2>1. k = n /\ Len(run_dir.records) = n /\ k + 1 = n + 1
    BY <1>2, <1>5
  <2>2. stage' = "record" /\ run_dir' = [run_dir EXCEPT !.outcomes = Append(out, o)]
    BY <1>5 DEF NextSession, Next1
  <2>3. /\ Closing(carried) /\ carried = ClosedWith(out, n)
    BY <1>0, <2>1, CarriedCloses DEF Carrying
  <2>4. /\ o.start = carried /\ o.date = Calendar[k + 1] /\ Closing(o.end)
        /\ o = [start |-> o.start, date |-> o.date, end |-> o.end]
        /\ o.end.high >= carried.high /\ o.end.drawdown >= carried.drawdown
        /\ (o.date \notin DOMAIN plan => o.end.halted)
    BY <1>0, <1>1, <2>3, OutcomeCloses DEF DirectoryShape
  <2> HIDE DEF o
  <2>5. o \in Outcomes
    <3>1. Calendar[k + 1] \in Range(Calendar)
      <4>1. k + 1 \in 1..Len(Calendar)
        BY <1>1, <1>2
      <4>2. DOMAIN Calendar = 1..Len(Calendar)
        BY MultiAssumption
      <4> QED BY <4>1, <4>2 DEF Range
    <3>2. carried \in AccountStates /\ o.end \in AccountStates
      BY <2>3, <2>4 DEF Closing
    <3> QED BY <2>4, <3>1, <3>2 DEF Outcomes
  <2> DEFINE new == Append(out, o)
  <2>6. out \in Seq(Outcomes)
    BY <1>0 DEF DirectoryShape
  <2>7. /\ new \in Seq(Outcomes) /\ Len(new) = n + 1 /\ new[n + 1] = o
        /\ \A i \in 1..n : new[i] = out[i]
        /\ \A i \in 1..(n + 1) : i \in 1..n \/ i = n + 1
    BY <2>5, <2>6, Appended
  <2> HIDE DEF new
  <2>8. run_dir' = [bound |-> run_dir.bound, outcomes |-> new, records |-> run_dir.records,
                    summary |-> run_dir.summary, pending |-> run_dir.pending, lock |-> run_dir.lock,
                    acks |-> run_dir.acks]
    BY <1>0, <2>2 DEF DirectoryShape, new
  <2>9. /\ run_dir'.outcomes = new /\ run_dir'.records = run_dir.records
        /\ run_dir'.summary = run_dir.summary /\ run_dir'.acks = run_dir.acks
    BY <2>8
  <2>10. DirectoryShape'
    <3>1. /\ plan' \in Plans /\ accepted' \in Seq(Outcomes) /\ run_dir.records \in Seq(Rows)
          /\ run_dir.acks \in Seq(Acks) /\ stage' = "record" /\ new \in Seq(Outcomes)
      BY <1>0, <1>1, <2>2, <2>7 DEF DirectoryShape
    <3>2. run_dir' = [bound |-> run_dir'.bound, outcomes |-> run_dir'.outcomes,
                      records |-> run_dir'.records, summary |-> run_dir'.summary,
                      pending |-> run_dir'.pending, lock |-> run_dir'.lock, acks |-> run_dir'.acks]
      BY <2>8
    <3> QED BY <2>9, <3>1, <3>2 DEF DirectoryShape
  <2>11. Account'
    <3>1. \A i \in 1..n : /\ out[i] = Outcome(i, ClosedWith(out, i - 1)) /\ Closing(out[i].end)
                          /\ (i < n => ~out[i].end.halted)
                          /\ (i > 1 => out[i].end.drawdown >= out[i - 1].end.drawdown)
                          /\ (out[i].date \notin DOMAIN plan => out[i].end.halted)
      BY <1>0 DEF Account
    <3>2. \A i \in 1..n, j \in 1..n : j <= i => out[j].end.equity <= out[i].end.high
      BY <1>0 DEF Account
    <3>3. \A i \in 1..(n + 1) : ClosedWith(new, i - 1) = ClosedWith(out, i - 1)
      <4>1. \A i \in 1..(n + 1) : i - 1 = 0 \/ i - 1 \in 1..n
        BY <1>2
      <4> QED BY <2>7, <4>1 DEF ClosedWith
    <3>4. Len(new) <= Len(Calendar)
      BY <1>1, <1>2, <2>1, <2>7
    <3>5. \A i \in 1..(n + 1) : new[i] = Outcome(i, ClosedWith(new, i - 1)) /\ Closing(new[i].end)
      <4>1. ASSUME NEW i \in 1..n PROVE new[i] = Outcome(i, ClosedWith(new, i - 1)) /\ Closing(new[i].end)
        <5>1. i \in 1..(n + 1)
          BY <1>2
        <5> QED BY <2>7, <3>1, <3>3, <5>1
      <4>2. new[n + 1] = Outcome(n + 1, ClosedWith(new, (n + 1) - 1)) /\ Closing(new[n + 1].end)
        <5>1. n + 1 \in 1..(n + 1) /\ (n + 1) - 1 = n
          BY <1>2
        <5>2. ClosedWith(new, (n + 1) - 1) = carried
          BY <2>3, <3>3, <5>1
        <5> QED BY <2>1, <2>4, <2>7, <5>2 DEF o
      <4> QED BY <2>7, <4>1, <4>2
    <3>6. \A i \in 1..(n + 1) : i < n + 1 => ~new[i].end.halted
      <4> SUFFICES ASSUME NEW i \in 1..n PROVE ~new[i].end.halted
        BY <1>2, <2>7
      <4>1. CASE i < n
        BY <2>7, <3>1, <4>1
      <4>2. CASE i = n
        <5>1. n # 0 /\ carried = out[n].end
          BY <1>2, <2>3, <4>2 DEF ClosedWith
        <5> QED BY <1>1, <2>7, <4>2, <5>1
      <4> QED BY <1>2, <4>1, <4>2
    <3>7. \A i \in 1..n : out[i].end.equity \in Int /\ out[i].end.high \in Int
      BY <3>1 DEF Closing, AccountStates
    <3>8. \A i \in 1..(n + 1), j \in 1..(n + 1) : j <= i => new[j].end.equity <= new[i].end.high
      <4>1. ASSUME NEW j \in 1..n PROVE out[j].end.equity <= o.end.high
        <5>1. n \in 1..n /\ j <= n /\ n # 0
          BY <1>2
        <5>2. carried = out[n].end
          BY <2>3, <5>1 DEF ClosedWith
        <5>3. out[j].end.equity <= out[n].end.high
          BY <3>2, <5>1
        <5>4. o.end.high \in Int
          BY <2>4 DEF Closing, AccountStates
        <5>5. out[j].end.equity \in Int /\ out[n].end.high \in Int
          BY <3>7, <5>1
        <5> QED BY <2>4, <5>2, <5>3, <5>4, <5>5
      <4>2. o.end.equity <= o.end.high
        BY <2>4 DEF Closing, AccountStates
      <4> SUFFICES ASSUME NEW i \in 1..(n + 1), NEW j \in 1..(n + 1), j <= i
                   PROVE  new[j].end.equity <= new[i].end.high
        OBVIOUS
      <4>3. CASE i = n + 1
        BY <2>7, <4>1, <4>2, <4>3
      <4>4. CASE i \in 1..n
        <5>1. j \in 1..n
          BY <1>2, <4>4
        <5> QED BY <2>7, <3>2, <4>4, <5>1
      <4> QED BY <2>7, <4>3, <4>4
    <3>9. \A i \in 1..(n + 1) : i > 1 => new[i].end.drawdown >= new[i - 1].end.drawdown
      <4> SUFFICES ASSUME NEW i \in 1..(n + 1), i > 1
                   PROVE  new[i].end.drawdown >= new[i - 1].end.drawdown
        OBVIOUS
      <4>1. i - 1 \in 1..n
        BY <1>2
      <4>2. CASE i \in 1..n
        BY <2>7, <3>1, <4>1, <4>2
      <4>3. CASE i = n + 1
        <5>1. i - 1 = n /\ n # 0
          BY <1>2, <4>3
        <5>2. carried = out[n].end
          BY <2>3, <5>1 DEF ClosedWith
        <5> QED BY <2>4, <2>7, <4>1, <4>3, <5>1, <5>2
      <4> QED BY <2>7, <4>2, <4>3
    <3>10. \A i \in 1..(n + 1) : new[i].date \notin DOMAIN plan => new[i].end.halted
      BY <2>4, <2>7, <3>1
    <3> HIDE DEF n, out, k
    <3>11. \A i, s : Outcome(i, s)' = Outcome(i, s)
      BY <1>1, PlanKept
    <3> QED BY <1>1, <2>7, <2>9, <3>4, <3>5, <3>6, <3>8, <3>9, <3>10, <3>11 DEF Account, ClosedWith
  <2>12. Recorded'
    <3>1. \A i \in 1..n : run_dir.records[i] = Record(i, out[i])
      BY <1>0, <2>1 DEF Recorded
    <3>2. \A i, q : Record(i, q)' = Record(i, q)
      BY <1>1, PlanKept
    <3>3. Len(run_dir.records) = (n + 1) - 1
      BY <1>2, <2>1
    <3> QED BY <2>1, <2>7, <2>9, <3>1, <3>2, <3>3 DEF Recorded
  <2>13. Carrying'
    <3>1. ClosedWith(new, k) = ClosedWith(out, k)
      BY <1>2, <2>1, <2>7 DEF ClosedWith
    <3>2. \A i \in 1..k : accepted[i] = new[i]
      BY <1>0, <2>1, <2>7 DEF Carrying
    <3>3. k < Len(new)
      BY <1>2, <2>1, <2>7
    <3> HIDE DEF out, n
    <3> QED BY <1>0, <1>1, <1>2, <1>3, <2>1, <2>3, <2>9, <3>1, <3>2, <3>3 DEF Carrying, ClosedWith
  <2>14. Told' /\ Distinct'
    BY <1>0, <1>3, <2>9 DEF Told, Distinct
  <2> QED BY <2>10, <2>11, <2>12, <2>13, <2>14 DEF RunInv
<1> QED BY <1>4, <1>5

LEMMA RecordKeeps ==
  ASSUME RunInv, PublishRecord
  PROVE  RunInv'
<1>0. DirectoryShape /\ Account /\ Recorded /\ Carrying /\ Told /\ Distinct
  BY DEF RunInv
<1> DEFINE out == run_dir.outcomes
           rec == run_dir.records
           m == Len(rec)
           k == Len(accepted)
           o == out[k + 1]
<1>1. /\ stage = "record" /\ stage' = "session" /\ plan' = plan
      /\ carried' = o.end /\ accepted' = Append(accepted, o)
  BY DEF PublishRecord, Next1
<1>2. /\ Len(out) \in Nat /\ k \in Nat /\ m \in Nat /\ Len(out) <= Len(Calendar)
      /\ (m = Len(out) \/ m = Len(out) - 1) /\ k <= m /\ k < Len(out) /\ run_dir.summary = <<>>
  BY <1>0, <1>1 DEF DirectoryShape, Recorded, Carrying, Account
<1>3. k + 1 \in 1..Len(out) /\ k + 1 \in Nat
  BY <1>2
<1>4. o \in Outcomes
  BY <1>0, <1>3 DEF DirectoryShape
<1>5. /\ accepted' \in Seq(Outcomes) /\ Len(accepted') = k + 1 /\ accepted'[k + 1] = o
      /\ \A i \in 1..k : accepted'[i] = accepted[i]
      /\ \A i \in 1..(k + 1) : i \in 1..k \/ i = k + 1
  <2>1. accepted \in Seq(Outcomes)
    BY <1>0 DEF DirectoryShape
  <2> HIDE DEF o
  <2> QED BY <1>1, <1>4, <2>1, Appended
<1>6. ASSUME run_dir'.outcomes = out, Len(run_dir'.records) \in Nat, k + 1 <= Len(run_dir'.records),
             run_dir'.summary = run_dir.summary
      PROVE  Carrying'
  <2>1. \A i \in 1..k : accepted[i] = out[i]
    BY <1>0 DEF Carrying
  <2>2. \A i \in 1..(k + 1) : accepted'[i] = out[i]
    BY <1>5, <2>1
  <2>3. ClosedWith(out, k + 1) = o.end
    BY <1>2 DEF ClosedWith
  <2> HIDE DEF o, out
  <2> QED BY <1>1, <1>2, <1>5, <1>6, <2>2, <2>3 DEF Carrying, ClosedWith
<1>7. CASE k + 1 <= m
  <2>1. run_dir' = run_dir
    BY <1>7 DEF PublishRecord, Next1
  <2>2. FlagsOnly
    BY <1>0, <1>1, <2>1 DEF FlagsOnly, DirectoryShape
  <2>3. DirectoryShape' /\ Account' /\ Recorded' /\ Told' /\ Distinct'
    BY <1>1, <1>5, <2>2, DirectoryKept
  <2>4. Carrying'
    BY <1>2, <1>6, <1>7, <2>1
  <2> QED BY <2>3, <2>4 DEF RunInv
<1>8. CASE ~(k + 1 <= m)
  <2> DEFINE r == Record(k + 1, o)
             new == Append(rec, r)
  <2>1. k = m /\ Len(out) = m + 1
    BY <1>2, <1>8
  <2>2. run_dir' = [run_dir EXCEPT !.records = new]
    BY <1>8 DEF PublishRecord, Next1
  <2>3. r \in Rows
    <3>1. Alerts(o) \subseteq AlertIds
      <4>1. o.date \in Range(Calendar)
        BY <1>4 DEF Outcomes
      <4> QED BY <4>1 DEF Alerts, AlertIds
    <3> HIDE DEF o
    <3> QED BY <1>3, <1>4, <3>1 DEF Record, Rows
  <2> HIDE DEF r
  <2>4. /\ new \in Seq(Rows) /\ Len(new) = m + 1 /\ new[m + 1] = r
        /\ \A i \in 1..m : new[i] = rec[i]
        /\ \A i \in 1..(m + 1) : i \in 1..m \/ i = m + 1
    <3>1. rec \in Seq(Rows)
      BY <1>0 DEF DirectoryShape
    <3> QED BY <2>3, <3>1, Appended
  <2> HIDE DEF new
  <2>5. run_dir' = [bound |-> run_dir.bound, outcomes |-> out, records |-> new,
                    summary |-> run_dir.summary, pending |-> run_dir.pending, lock |-> run_dir.lock,
                    acks |-> run_dir.acks]
    BY <1>0, <2>2 DEF DirectoryShape
  <2>6. /\ run_dir'.outcomes = out /\ run_dir'.records = new
        /\ run_dir'.summary = run_dir.summary /\ run_dir'.acks = run_dir.acks
    BY <2>5
  <2>7. DirectoryShape'
    <3>1. /\ plan' \in Plans /\ accepted' \in Seq(Outcomes) /\ out \in Seq(Outcomes)
          /\ run_dir.acks \in Seq(Acks) /\ stage' = "session" /\ new \in Seq(Rows)
      BY <1>0, <1>1, <1>5, <2>4 DEF DirectoryShape
    <3>2. run_dir' = [bound |-> run_dir'.bound, outcomes |-> run_dir'.outcomes,
                      records |-> run_dir'.records, summary |-> run_dir'.summary,
                      pending |-> run_dir'.pending, lock |-> run_dir'.lock, acks |-> run_dir'.acks]
      BY <2>5
    <3> QED BY <2>6, <3>1, <3>2 DEF DirectoryShape
  <2>8. Account'
    BY <1>0, <1>1, <2>6, AccountKept
  <2>9. Recorded'
    <3>1. \A i \in 1..m : rec[i] = Record(i, out[i])
      BY <1>0 DEF Recorded
    <3>2. \A i, q : Record(i, q)' = Record(i, q)
      BY <1>1, PlanKept
    <3>3. new[m + 1] = Record(m + 1, out[m + 1])
      BY <2>1, <2>4 DEF r
    <3> HIDE DEF o, m
    <3> QED BY <2>1, <2>4, <2>6, <3>1, <3>2, <3>3 DEF Recorded
  <2>10. Carrying'
    BY <1>2, <1>6, <2>1, <2>4, <2>6
  <2>11. Told' /\ Distinct'
    BY <1>0, <1>2, <2>6 DEF Told, Distinct
  <2> QED BY <2>7, <2>8, <2>9, <2>10, <2>11 DEF RunInv
<1> QED BY <1>7, <1>8

\* The report: nothing on disk is left out of it.
LEMMA ReportKeeps ==
  ASSUME RunInv, Report
  PROVE  RunInv'
<1>0. DirectoryShape /\ Account /\ Recorded /\ Carrying /\ Told /\ Distinct
  BY DEF RunInv
<1> DEFINE out == run_dir.outcomes
           n == Len(out)
           k == Len(accepted)
<1>1. /\ stage = "session" /\ stage' = "done" /\ plan' = plan /\ carried' = carried /\ accepted' = accepted
      /\ k + 1 > Len(Calendar) \/ carried.halted
      /\ run_dir' = [run_dir EXCEPT !.summary = Summary, !.lock = FALSE]
  BY DEF Report, RunOver, Next1
<1>2. /\ n \in Nat /\ k \in Nat /\ n <= Len(Calendar) /\ k <= n /\ Len(Calendar) \in Nat
      /\ Len(run_dir.records) \in Nat /\ carried = ClosedWith(out, k)
  BY <1>0, MultiAssumption DEF DirectoryShape, Recorded, Carrying, Account
<1>3. k = n
  <2>1. CASE k + 1 > Len(Calendar)
    BY <1>2, <2>1
  <2>2. CASE carried.halted
    <3>1. k # 0
      BY <1>2, <2>2, OpeningCloses DEF ClosedWith
    <3>2. k \in 1..n /\ out[k].end.halted
      BY <1>2, <2>2, <3>1 DEF ClosedWith
    <3> QED BY <3>2, HaltIsLast
  <2> QED BY <1>1, <2>1, <2>2
<1>4. accepted = out
  <2>1. accepted \in Seq(Outcomes) /\ out \in Seq(Outcomes)
    BY <1>0 DEF DirectoryShape
  <2>2. \A i \in 1..k : accepted[i] = out[i]
    BY <1>0 DEF Carrying
  <2> HIDE DEF out
  <2> QED BY <1>2, <1>3, <2>1, <2>2, SeqEqual
<1>5. run_dir' = [bound |-> run_dir.bound, outcomes |-> out, records |-> run_dir.records,
                  summary |-> Summary, pending |-> run_dir.pending, lock |-> FALSE,
                  acks |-> run_dir.acks]
  BY <1>0, <1>1 DEF DirectoryShape
<1>6. /\ run_dir'.outcomes = out /\ run_dir'.records = run_dir.records
      /\ run_dir'.summary = Summary /\ run_dir'.acks = run_dir.acks
  BY <1>5
<1>7. DirectoryShape'
  <2>1. /\ plan' \in Plans /\ accepted' \in Seq(Outcomes) /\ out \in Seq(Outcomes)
        /\ run_dir.acks \in Seq(Acks) /\ stage' = "done" /\ run_dir.records \in Seq(Rows)
    BY <1>0, <1>1 DEF DirectoryShape
  <2>2. run_dir' = [bound |-> run_dir'.bound, outcomes |-> run_dir'.outcomes,
                    records |-> run_dir'.records, summary |-> run_dir'.summary,
                    pending |-> run_dir'.pending, lock |-> run_dir'.lock, acks |-> run_dir'.acks]
    BY <1>5
  <2> QED BY <1>6, <2>1, <2>2 DEF DirectoryShape
<1>8. Account'
  BY <1>0, <1>1, <1>6, AccountKept
<1>9. Recorded'
  BY <1>0, <1>1, <1>6, PlanKept DEF Recorded
<1>10. Carrying'
  BY <1>1, <1>6, StillCarrying
<1>11. Told'
  <2> DEFINE last == ClosedWith(out, n)
             alerts == UNION {Alerts(out[i]) : i \in DOMAIN out}
  <2>1. Summary = [complete |-> ~last.halted /\ n = Len(Calendar), state |-> last,
                   sessions |-> out, alerts |-> alerts, views |-> report_views(out, alerts)]
    BY <1>2, <1>3, <1>4 DEF Summary
  <2>2. n = Len(Calendar) \/ last.halted
    BY <1>1, <1>2, <1>3
  <2>3. (UNION {Alerts(run_dir.outcomes[i]) : i \in DOMAIN run_dir.outcomes})' = alerts
    BY <1>1, <1>6 DEF Alerts, SessionComplete
  <2> HIDE DEF alerts
  <2> QED BY <1>6, <2>1, <2>2, <2>3 DEF Told, ClosedWith, report_views
<1>12. Distinct'
  BY <1>0, <1>6 DEF Distinct
<1> QED BY <1>7, <1>8, <1>9, <1>10, <1>11, <1>12 DEF RunInv

\* An acknowledgement is of an alert that has none.
LEMMA AcknowledgeKeeps ==
  ASSUME RunInv, NEW d \in Range(Calendar), NEW code \in {"SESSION_COMPLETED", "PAPER_HALT_TRIGGERED"},
         NEW at \in Times, acknowledge(<<d, code>>, at)
  PROVE  RunInv'
<1>0. DirectoryShape /\ Account /\ Recorded /\ Carrying /\ Told /\ Distinct
  BY DEF RunInv
<1> DEFINE acks == run_dir.acks
           n == Len(acks)
           a == [alert |-> <<d, code>>, at |-> at, previous |-> n]
           new == Append(acks, a)
<1>1. /\ plan' = plan /\ stage' = stage /\ carried' = carried /\ accepted' = accepted
      /\ run_dir' = [run_dir EXCEPT !.acks = new] /\ run_dir.summary # <<>>
      /\ \A i \in DOMAIN acks : acks[i].alert # <<d, code>>
  BY DEF acknowledge, AcknowledgeFault
<1>2. acks \in Seq(Acks) /\ n \in Nat /\ DOMAIN acks = 1..n
  BY <1>0 DEF DirectoryShape
<1>3. a \in Acks /\ a.alert = <<d, code>>
  BY <1>2 DEF Acks, AlertIds
<1> HIDE DEF a
<1>4. /\ new \in Seq(Acks) /\ Len(new) = n + 1 /\ new[n + 1] = a
      /\ \A i \in 1..n : new[i] = acks[i]
      /\ \A i \in 1..(n + 1) : i \in 1..n \/ i = n + 1
  BY <1>2, <1>3, Appended
<1> HIDE DEF new
<1>5. run_dir' = [bound |-> run_dir.bound, outcomes |-> run_dir.outcomes, records |-> run_dir.records,
                  summary |-> run_dir.summary, pending |-> run_dir.pending, lock |-> run_dir.lock,
                  acks |-> new]
  BY <1>0, <1>1 DEF DirectoryShape
<1>6. /\ run_dir'.outcomes = run_dir.outcomes /\ run_dir'.records = run_dir.records
      /\ run_dir'.summary = run_dir.summary /\ run_dir'.acks = new
  BY <1>5
<1>7. DirectoryShape'
  <2>1. /\ plan' \in Plans /\ accepted' \in Seq(Outcomes) /\ run_dir.outcomes \in Seq(Outcomes)
        /\ new \in Seq(Acks) /\ run_dir.records \in Seq(Rows)
        /\ stage' \in {"down", "session", "record", "done", "refused"}
    BY <1>0, <1>1, <1>4 DEF DirectoryShape
  <2>2. run_dir' = [bound |-> run_dir'.bound, outcomes |-> run_dir'.outcomes,
                    records |-> run_dir'.records, summary |-> run_dir'.summary,
                    pending |-> run_dir'.pending, lock |-> run_dir'.lock, acks |-> run_dir'.acks]
    BY <1>5
  <2> QED BY <1>6, <2>1, <2>2 DEF DirectoryShape
<1>8. Account'
  BY <1>0, <1>1, <1>6, AccountKept
<1>9. Recorded'
  BY <1>0, <1>1, <1>6, PlanKept DEF Recorded
<1>10. Carrying'
  BY <1>0, <1>1, <1>6 DEF Carrying, ClosedWith
<1>11. Told'
  <2>1. (UNION {Alerts(run_dir.outcomes[i]) : i \in DOMAIN run_dir.outcomes})'
          = UNION {Alerts(run_dir.outcomes[i]) : i \in DOMAIN run_dir.outcomes}
    BY <1>1, <1>6 DEF Alerts, SessionComplete
  <2> QED BY <1>0, <1>6, <2>1 DEF Told, ClosedWith, report_views
<1>12. Distinct'
  <2>1. \A i \in 1..n, j \in 1..n : acks[i].alert = acks[j].alert => i = j
    BY <1>0 DEF Distinct
  <2>2. \A i \in 1..n : acks[i].alert # a.alert
    BY <1>1, <1>2, <1>3
  <2> SUFFICES ASSUME NEW i \in 1..(n + 1), NEW j \in 1..(n + 1), new[i].alert = new[j].alert
               PROVE  i = j
    BY <1>4, <1>6 DEF Distinct
  <2> QED BY <1>4, <2>1, <2>2
<1> QED BY <1>7, <1>8, <1>9, <1>10, <1>11, <1>12 DEF RunInv

LEMMA RunInvNext == RunInv /\ [RunNext]_runVars => RunInv'
<1> SUFFICES ASSUME RunInv, [RunNext]_runVars PROVE RunInv'
  OBVIOUS
<1>1. CASE \E resume \in BOOLEAN, head \in 0..Len(Calendar) : BeginRun(resume, head)
  BY <1>1, BeginKeeps
<1>2. CASE NextSession
  BY <1>2, SessionKeeps
<1>3. CASE PublishRecord
  BY <1>3, RecordKeeps
<1>4. CASE Report
  BY <1>4, ReportKeeps
<1>5. CASE KillRun
  BY <1>5, KillKeeps
<1>6. CASE RemoveLock \/ Retry
  BY <1>6, LockAndRetryKeep
<1>7. CASE \E d \in Range(Calendar), code \in {"SESSION_COMPLETED", "PAPER_HALT_TRIGGERED"} :
             \E at \in Times : acknowledge(<<d, code>>, at)
  BY <1>7, AcknowledgeKeeps
<1>8. CASE UNCHANGED runVars
  <2>1. /\ plan' = plan /\ run_dir' = run_dir /\ stage' = stage /\ carried' = carried
        /\ accepted' = accepted
    BY <1>8 DEF runVars
  <2>2. DirectoryShape /\ Account /\ Recorded /\ Carrying /\ Told /\ Distinct
    BY DEF RunInv
  <2>3. FlagsOnly /\ accepted' \in Seq(Outcomes) /\ stage' \in {"down", "session", "record", "done", "refused"}
    BY <2>1, <2>2 DEF FlagsOnly, DirectoryShape
  <2>4. DirectoryShape' /\ Account' /\ Recorded' /\ Told' /\ Distinct'
    BY <2>3, DirectoryKept
  <2>5. Carrying'
    BY <2>1, <2>2 DEF Carrying, ClosedWith
  <2> QED BY <2>4, <2>5 DEF RunInv
<1> QED BY <1>1, <1>2, <1>3, <1>4, <1>5, <1>6, <1>7, <1>8 DEF RunNext

\* RunSound, for every calendar, plan, limit and number of attempts.
THEOREM RunIsSound == RunSpec => []RunSound
<1>1. RunInv => RunSound
  BY TypeProperty, AccountProperties, AcknowledgementProperty, SummaryProperty DEF RunSound
<1>2. RunInit => RunInv
  BY RunInvInit
<1>3. RunInv /\ [RunNext]_runVars => RunInv'
  BY RunInvNext
<1> QED BY <1>1, <1>2, <1>3, PTL DEF RunSpec

\* A sequence is a prefix of itself and of what is appended to it.
LEMMA PrefixOfAppended ==
  ASSUME NEW S, NEW s \in Seq(S)
  PROVE  IsPrefix(s, s) /\ \A x \in S : IsPrefix(s, Append(s, x))
<1>1. IsPrefix(s, s)
  <2>1. Len(s) \in Nat /\ SubSeq(s, 1, Len(s)) = SubSeq(s, 1, Len(s))
    OBVIOUS
  <2> QED BY <2>1 DEF IsPrefix
<1>2. ASSUME NEW x \in S PROVE IsPrefix(s, Append(s, x))
  <2>1. /\ Append(s, x) \in Seq(S) /\ Len(Append(s, x)) = Len(s) + 1
        /\ \A i \in 1..Len(s) : Append(s, x)[i] = s[i]
    BY Appended
  <2>2. \A i \in 1..Len(s) : s[i] = Append(s, x)[i]
    BY <2>1
  <2> QED BY <2>1, <2>2 DEF IsPrefix
<1> QED BY <1>1, <1>2

\* What is on disk only grows.
LEMMA HistoryStep ==
  ASSUME RunInv, RunInv', [RunNext]_runVars
  PROVE  HistoryGrows
<1>0. /\ DirectoryShape /\ Carrying /\ run_dir.outcomes \in Seq(Outcomes)
      /\ run_dir.records \in Seq(Rows)
  BY DEF RunInv, DirectoryShape
<1>1. ASSUME run_dir'.outcomes = run_dir.outcomes, run_dir'.records = run_dir.records,
             run_dir'.summary = run_dir.summary
      PROVE  HistoryGrows
  BY <1>0, <1>1, PrefixOfAppended DEF HistoryGrows
<1>2. ASSUME run_dir' = run_dir PROVE HistoryGrows
  BY <1>1, <1>2
<1>3. ASSUME NEW resume \in BOOLEAN, NEW head \in 0..Len(Calendar), BeginRun(resume, head)
      PROVE  HistoryGrows
  <2>1. run_dir' = run_dir \/ run_dir' = [run_dir EXCEPT !.bound = TRUE, !.lock = TRUE]
    BY <1>3 DEF BeginRun
  <2>2. CASE run_dir' = [run_dir EXCEPT !.bound = TRUE, !.lock = TRUE]
    BY <1>0, <1>1, <2>2 DEF DirectoryShape
  <2> QED BY <1>2, <2>1, <2>2
<1>4. CASE NextSession
  <2> DEFINE o == Outcome(Next1, carried)
  <2>1. CASE run_dir' = [run_dir EXCEPT !.outcomes = Append(run_dir.outcomes, o)]
    <3>1. /\ run_dir'.outcomes = Append(run_dir.outcomes, o) /\ run_dir'.records = run_dir.records
          /\ run_dir'.summary = run_dir.summary
      BY <1>0, <2>1 DEF DirectoryShape
    <3> HIDE DEF o
    <3>2. Append(run_dir.outcomes, o) \in Seq(Outcomes)
      BY <3>1 DEF RunInv, DirectoryShape
    <3>3. o \in Outcomes
      <4>1. Len(run_dir.outcomes) + 1 \in 1..(Len(run_dir.outcomes) + 1) /\ Len(run_dir.outcomes) \in Nat
        BY <1>0
      <4>2. DOMAIN Append(run_dir.outcomes, o) = 1..(Len(run_dir.outcomes) + 1)
        BY <1>0, <3>2
      <4>3. Append(run_dir.outcomes, o)[Len(run_dir.outcomes) + 1] = o
        BY <1>0
      <4> QED BY <3>2, <4>1, <4>2, <4>3
    <3> QED BY <1>0, <3>1, <3>3, PrefixOfAppended DEF HistoryGrows
  <2>2. CASE run_dir' = run_dir
    BY <1>2, <2>2
  <2>3. CASE run_dir' = [run_dir EXCEPT !.lock = FALSE]
    BY <1>0, <1>1, <2>3 DEF DirectoryShape
  <2> QED BY <1>4, <2>1, <2>2, <2>3 DEF NextSession
<1>5. CASE PublishRecord
  <2> DEFINE r == Record(Next1, run_dir.outcomes[Next1])
  <2>1. CASE run_dir' = [run_dir EXCEPT !.records = Append(run_dir.records, r)]
    <3>1. /\ run_dir'.records = Append(run_dir.records, r) /\ run_dir'.outcomes = run_dir.outcomes
          /\ run_dir'.summary = run_dir.summary
      BY <1>0, <2>1 DEF DirectoryShape
    <3> HIDE DEF r
    <3>2. Append(run_dir.records, r) \in Seq(Rows)
      BY <3>1 DEF RunInv, DirectoryShape
    <3>3. r \in Rows
      <4>1. Len(run_dir.records) + 1 \in 1..(Len(run_dir.records) + 1) /\ Len(run_dir.records) \in Nat
        BY <1>0
      <4>2. DOMAIN Append(run_dir.records, r) = 1..(Len(run_dir.records) + 1)
        BY <1>0, <3>2
      <4>3. Append(run_dir.records, r)[Len(run_dir.records) + 1] = r
        BY <1>0
      <4> QED BY <3>2, <4>1, <4>2, <4>3
    <3> QED BY <1>0, <3>1, <3>3, PrefixOfAppended DEF HistoryGrows
  <2>2. CASE run_dir' = run_dir
    BY <1>2, <2>2
  <2> QED BY <1>5, <2>1, <2>2 DEF PublishRecord
<1>6. CASE Report
  <2>1. /\ run_dir'.outcomes = run_dir.outcomes /\ run_dir'.records = run_dir.records
    BY <1>0, <1>6 DEF Report, DirectoryShape
  <2>2. run_dir.summary = <<>>
    BY <1>0, <1>6 DEF Report, Carrying
  <2> QED BY <1>0, <2>1, <2>2, PrefixOfAppended DEF HistoryGrows
<1>7. CASE KillRun
  <2>1. PICK half \in BOOLEAN : run_dir' = [run_dir EXCEPT !.pending = half]
    BY <1>7 DEF KillRun
  <2> QED BY <1>0, <1>1, <2>1 DEF DirectoryShape
<1>8. CASE RemoveLock
  <2>1. run_dir' = [run_dir EXCEPT !.lock = FALSE]
    BY <1>8 DEF RemoveLock
  <2> QED BY <1>0, <1>1, <2>1 DEF DirectoryShape
<1>9. CASE Retry
  BY <1>2, <1>9 DEF Retry
<1>10. ASSUME NEW alert, NEW at \in Times, acknowledge(alert, at)
       PROVE  HistoryGrows
  <2>1. PICK x : run_dir' = [run_dir EXCEPT !.acks = x]
    BY <1>10 DEF acknowledge
  <2> QED BY <1>0, <1>1, <2>1 DEF DirectoryShape
<1>11. CASE UNCHANGED runVars
  BY <1>2, <1>11 DEF runVars
<1> QED BY <1>3, <1>4, <1>5, <1>6, <1>7, <1>8, <1>9, <1>10, <1>11 DEF RunNext

\* No attempt of an operator who does not hold the head of the chain is let in.
LEMMA HeadStep == ResumeKnowsHead
<1> SUFFICES ASSUME NEW resume \in BOOLEAN, NEW head \in 0..Len(Calendar),
                    BeginRun(resume, head), stage' = "session", run_dir.bound
             PROVE  resume /\ head = Len(run_dir.records)
  BY DEF ResumeKnowsHead
<1>1. AttemptFault(resume, head) = "none"
  BY DEF BeginRun
<1>2. run_dir.summary = <<>>
  BY <1>1 DEF AttemptFault
<1>3. resume
  BY <1>1, <1>2 DEF AttemptFault
<1>4. head = Len(run_dir.records)
  BY <1>1, <1>2, <1>3 DEF AttemptFault
<1> QED BY <1>3, <1>4

\* HistoryGrows and ResumeKnowsHead: no step of any actor rewrites what a session published,
\* and none continues a run for an operator who does not know how far it came.
THEOREM HistoryOnlyGrows == RunSpec => [][HistoryGrows /\ ResumeKnowsHead]_runVars
<1>1. RunInv /\ RunInv' /\ [RunNext]_runVars => HistoryGrows /\ ResumeKnowsHead
  BY HistoryStep, HeadStep
<1>2. RunInit => RunInv
  BY RunInvInit
<1>3. RunInv /\ [RunNext]_runVars => RunInv'
  BY RunInvNext
<1> QED BY <1>1, <1>2, <1>3, PTL DEF RunSpec

\* An outcome found on disk always opens with the state this attempt carries, whichever attempt
\* executed it: the comparison before it is reused never refuses a run.
THEOREM OutcomesAreReused == RunSpec => [][NextSession => stage' = "record"]_runVars
<1>1. RunInv /\ [RunNext]_runVars => (NextSession => stage' = "record")
  <2> SUFFICES ASSUME RunInv, NextSession PROVE stage' = "record"
    OBVIOUS
  <2> QED BY SessionContinues DEF NextSession
<1>2. RunInit => RunInv
  BY RunInvInit
<1>3. RunInv /\ [RunNext]_runVars => RunInv'
  BY RunInvNext
<1> QED BY <1>1, <1>2, <1>3, PTL DEF RunSpec

-----------------------------------------------------------------------------
(***************************************************************************)
(* The one-minute backtest engine.  First the tariff: prices, notionals    *)
(* and charges are amounts.                                                *)
(***************************************************************************)
\* The smaller of two integers.
LEMMA MinOfTwo ==
  ASSUME NEW x \in Int, NEW y \in Int
  PROVE  Min({x, y}) \in {x, y}
<1>1. \E m \in {x, y} : \A z \in {x, y} : m <= z
  OBVIOUS
<1> QED BY <1>1 DEF Min

LEMMA PctNat ==
  ASSUME NEW v \in Nat, NEW rate \in Nat
  PROVE  Pct(v, rate) \in Nat
<1>1. v * rate \in Nat
  OBVIOUS
<1>2. ASSUME NEW x \in Nat PROVE x \div 100 \in Nat
  OBVIOUS
<1> QED BY <1>1, <1>2 DEF Pct

LEMMA QuoteNat ==
  ASSUME NEW side, NEW notional \in Nat, NEW entryNotional \in Nat
  PROVE  quote(side, notional, entryNotional) \in Nat
<1> DEFINE p == Pct(notional, BrokerageRate)
           brokerage == Min({BrokerageCap, p})
           levies == Pct(notional, LevyRate)
           gst == Pct(brokerage + levies, GstRate)
           mean == (notional + entryNotional) \div 2
           stt == Pct(mean, SttRate)
           stamp == Pct(notional, StampRate)
<1>1. /\ BrokerageRate \in Nat /\ LevyRate \in Nat /\ GstRate \in Nat /\ SttRate \in Nat
      /\ StampRate \in Nat /\ BrokerageCap \in Nat
  BY BacktestAssumption DEF RateAssumption
<1>2. p \in Nat /\ levies \in Nat /\ stamp \in Nat
  BY <1>1, PctNat
<1>3. brokerage \in Nat
  <2>1. p \in Int /\ BrokerageCap \in Int
    BY <1>1, <1>2
  <2> HIDE DEF p
  <2> QED BY <1>1, <1>2, <2>1, MinOfTwo
<1>4. mean \in Nat
  OBVIOUS
<1>5. stt \in Nat
  <2> HIDE DEF mean
  <2> QED BY <1>1, <1>4, PctNat
<1>6. gst \in Nat
  <2> HIDE DEF brokerage, levies
  <2>1. brokerage + levies \in Nat
    BY <1>2, <1>3
  <2> QED BY <1>1, <2>1, PctNat
<1>7. quote(side, notional, entryNotional)
        = brokerage + levies + gst + (IF side = "SELL" THEN stt ELSE stamp)
  BY DEF quote
<1> HIDE DEF brokerage, levies, gst, stt, stamp
<1> QED BY <1>2, <1>3, <1>5, <1>6, <1>7

LEMMA PriceNat ==
  ASSUME NEW side, NEW reference \in Nat
  PROVE  SlippedPrice(side, reference, Slip) \in Nat
<1>1. 100 + Slip \in Nat /\ 100 - Slip \in Nat
  BY BacktestAssumption
<1> QED BY <1>1, PctNat DEF SlippedPrice

-----------------------------------------------------------------------------
(* The state of a backtest between two bars.                               *)
Fills == [quantity : Quantities, notional : Nat, costs : Nat, price : Nat, time : Nat]
Intents == [id : Nat \ {0}, created : Nat, side : {"BUY", "SELL"}, quantity : Quantities]
Refusals == {"LOT_SIZE_VIOLATION", "NO_EXECUTABLE_VOLUME", "ALREADY_LONG", "OUTSIDE_ENTRY_WINDOW",
             "OVERSELL", "PARTIAL_EXIT_UNSUPPORTED", "INSUFFICIENT_CASH"}
Results == Refusals \cup {"NONE", "FILLED", "SUPERSEDED_BY_FORCED_EXIT", "UNFILLED_END_OF_DATA",
                         "UNFILLED_SESSION_END"}
Resolutions == [id : Nat \ {0}, created : Nat, resolved : Nat, result : Results]
RoundTrips == [from : Nat, to : Nat, net : Int]

BacktestTypes ==
  /\ day \in 0..Days /\ minute \in 0..(DayBars - 1) /\ (status = "running" => day < Days)
  /\ cash \in Nat /\ realized \in Int /\ entry \in Fills \cup {NoFill}
  /\ pending \in Intents \cup {NoIntent} /\ nextId \in Nat \ {0}
  /\ outcomes \in Seq(Resolutions) /\ trades \in Seq(RoundTrips)
  /\ costs \in Nat /\ peak \in Nat /\ drawdown \in Nat

\* The cash is what the closed trades and the open position left of it.
Explained(c, r, e) ==
  c = InitialCash + r - e.notional - e.costs /\ e.notional = e.price * e.quantity

\* An open position was entered today, and today's forced exit is still to come.
PositionToday == entry # NoFill => minute <= ForcedExit /\ day * (DayBars + 1) <= entry.time

\* Every round trip is of one day.
OneDay(t) ==
  \E d \in 0..(Days - 1) : d * (DayBars + 1) <= t.from /\ t.to < (d + 1) * (DayBars + 1)

\* Intents are resolved in the order of their numbers; at most the last one waits, for the
\* bar that comes now.
InOrder ==
  /\ \A i \in 1..Len(outcomes) :
       /\ outcomes[i].id = i
       /\ outcomes[i].result = "FILLED" => outcomes[i].created = outcomes[i].resolved
  /\ pending = NoIntent => Len(outcomes) = nextId - 1
  /\ pending # NoIntent => Len(outcomes) = nextId - 2 /\ pending.id = nextId - 1 /\ pending.created = Now

BacktestInv ==
  /\ BacktestTypes /\ Explained(cash, realized, entry) /\ PositionToday
  /\ \A i \in 1..Len(trades) : OneDay(trades[i])
  /\ InOrder
  /\ status \notin {"LEDGER_INCONSISTENT", "FINAL_LEDGER_INCONSISTENT", "OVERNIGHT_POSITION_FORBIDDEN"}

LEMMA BacktestInvInit == BacktestInit => BacktestInv
<1> SUFFICES ASSUME BacktestInit PROVE BacktestInv
  OBVIOUS
<1>1. BacktestTypes
  BY BacktestAssumption DEF BacktestInit, BacktestTypes
<1>2. Explained(cash, realized, entry) /\ PositionToday
  BY BacktestAssumption DEF BacktestInit, Explained, PositionToday, NoFill
<1>3. InOrder
  BY DEF BacktestInit, InOrder
<1> QED BY <1>1, <1>2, <1>3 DEF BacktestInv, BacktestInit

\* What waits is a numbered intent, made for this bar.
LEMMA NotNoFill ==
  /\ \A f \in Fills : f # NoFill /\ f.quantity \in Nat \ {0}
  /\ \A i \in Intents : i # NoIntent
<1>1. ASSUME NEW f \in Fills PROVE f # NoFill /\ f.quantity \in Nat \ {0}
  <2>1. f.quantity \in Nat \ {0}
    BY BacktestAssumption DEF Fills
  <2>2. NoFill.quantity = 0
    BY DEF NoFill
  <2> QED BY <2>1, <2>2
<1>2. ASSUME NEW i \in Intents PROVE i # NoIntent
  <2>1. i.id \in Nat \ {0}
    BY DEF Intents
  <2>2. NoIntent.id = 0
    BY DEF NoIntent
  <2> QED BY <2>1, <2>2
<1> QED BY <1>1, <1>2

LEMMA NowNat == BacktestTypes => Now \in Nat /\ DayBars + 1 \in Nat /\ day * (DayBars + 1) \in Nat
<1> SUFFICES ASSUME BacktestTypes PROVE Now \in Nat /\ DayBars + 1 \in Nat /\ day * (DayBars + 1) \in Nat
  OBVIOUS
<1>1. day \in Nat /\ minute \in Nat /\ DayBars + 1 \in Nat
  BY BacktestAssumption DEF BacktestTypes
<1>2. \A x, y \in Nat : x * y \in Nat
  OBVIOUS
<1>3. day * (DayBars + 1) \in Nat
  BY <1>1, <1>2
<1> QED BY <1>1, <1>3 DEF Now

\* A fill leaves the account explained; a BUY is of a day before its forced exit, a SELL
\* closes the position as a round trip of this day.
LEMMA FillExplained ==
  ASSUME BacktestInv, day < Days, NEW bar \in Bars, NEW intent \in Intents,
         Verdict(intent, bar) = "FILLED"
  PROVE  LET after == Filled(intent, bar)
         IN  /\ after = [cash |-> after.cash, realized |-> after.realized, entry |-> after.entry,
                         trades |-> after.trades]
             /\ after.cash \in Nat /\ after.realized \in Int /\ after.entry \in Fills \cup {NoFill}
             /\ after.trades \in Seq(RoundTrips)
             /\ Explained(after.cash, after.realized, after.entry)
             /\ Fee(intent, bar) \in Nat
             /\ \A i \in 1..Len(after.trades) : OneDay(after.trades[i])
             /\ intent.side = "SELL" => after.entry = NoFill
             /\ intent.side = "BUY" => minute <= LastEntry /\ day * (DayBars + 1) <= after.entry.time
<1> DEFINE price == SlippedPrice(intent.side, bar.open, Slip)
           n == Notional(intent, bar)
           f == Fee(intent, bar)
           after == Filled(intent, bar)
<1>0. /\ BacktestTypes /\ Explained(cash, realized, entry) /\ PositionToday
      /\ \A i \in 1..Len(trades) : OneDay(trades[i])
  BY DEF BacktestInv
<1>1. /\ intent.quantity \in Quantities /\ intent.quantity \in Nat \ {0} /\ intent.side \in {"BUY", "SELL"}
      /\ bar.open \in Nat
  BY BacktestAssumption DEF Intents
<1>2. /\ entry \in Fills \cup {NoFill} /\ entry.notional \in Nat /\ entry.costs \in Nat /\ entry.quantity \in Nat
      /\ entry.price \in Nat
  <2>1. entry \in Fills \cup {NoFill}
    BY <1>0 DEF BacktestTypes
  <2>2. CASE entry \in Fills
    BY <2>2, BacktestAssumption DEF Fills
  <2>3. CASE entry = NoFill
    BY <2>3 DEF NoFill
  <2> QED BY <2>1, <2>2, <2>3
<1>3. price \in Nat
  BY <1>1, PriceNat
<1>4. n = price * intent.quantity /\ n \in Nat
  <2>1. \A x, y \in Nat : x * y \in Nat
    OBVIOUS
  <2> HIDE DEF price
  <2>2. price * intent.quantity \in Nat
    BY <1>1, <1>3, <2>1
  <2> QED BY <2>2 DEF Notional, price
<1>5. f \in Nat
  <2>1. f = quote(intent.side, n, entry.notional)
    BY DEF Fee
  <2> HIDE DEF n, f
  <2> QED BY <1>2, <1>4, <2>1, QuoteNat
<1>6. Now \in Nat /\ DayBars + 1 \in Nat /\ day * (DayBars + 1) \in Nat /\ cash \in Nat /\ realized \in Int
      /\ InitialCash \in Nat /\ trades \in Seq(RoundTrips) /\ day \in Nat /\ minute \in Nat
  BY <1>0, NowNat, BacktestAssumption DEF BacktestTypes
<1>7. Rejection(intent, bar) = "NONE" /\ Affordable(intent, bar)
  <2>1. Rejection(intent, bar) # "FILLED"
    BY DEF Rejection
  <2> QED BY <2>1 DEF Verdict
<1> HIDE DEF price, n, f
<1>8. CASE intent.side = "BUY"
  <2>1. ~Long /\ ~(minute < EntryStart \/ LastEntry < minute)
    BY <1>7, <1>8 DEF Rejection
  <2>2. entry = NoFill /\ minute <= LastEntry
    BY <2>1, <1>6, BacktestAssumption DEF Long
  <2>3. cash >= n + f
    BY <1>7, <1>8 DEF Affordable, n, f
  <2> DEFINE e == [quantity |-> intent.quantity, notional |-> n, costs |-> f, price |-> price, time |-> Now]
  <2>4. after = [cash |-> cash - n - f, realized |-> realized, trades |-> trades, entry |-> e]
    BY <1>8 DEF Filled, n, f, price
  <2>5. e \in Fills
    BY <1>1, <1>3, <1>4, <1>5, <1>6 DEF Fills
  <2>6. cash - n - f \in Nat
    BY <1>4, <1>5, <1>6, <2>3
  <2>7. cash = InitialCash + realized
    BY <1>0, <1>6, <2>2 DEF Explained, NoFill
  <2>8. e.notional = n /\ e.costs = f /\ e.price = price /\ e.quantity = intent.quantity /\ e.time = Now
    OBVIOUS
  <2> HIDE DEF e
  <2>9. Explained(cash - n - f, realized, e)
    BY <1>4, <1>5, <1>6, <2>7, <2>8 DEF Explained
  <2>10. day * (DayBars + 1) <= e.time
    BY <1>6, <2>8 DEF Now
  <2>11. /\ after.cash = cash - n - f /\ after.realized = realized /\ after.trades = trades /\ after.entry = e
         /\ after = [cash |-> after.cash, realized |-> after.realized, entry |-> after.entry,
                     trades |-> after.trades]
    BY <2>4
  <2> HIDE DEF after
  <2> QED BY <1>0, <1>5, <1>6, <1>8, <2>2, <2>5, <2>6, <2>9, <2>10, <2>11 DEF after, f
<1>9. CASE intent.side = "SELL"
  <2>1. intent.quantity = entry.quantity
    BY <1>7, <1>9 DEF Rejection
  <2>2. entry # NoFill /\ entry \in Fills
    BY <1>1, <1>2, <2>1 DEF NoFill
  <2>3. cash + n >= f
    BY <1>7, <1>9 DEF Affordable, n, f
  <2> DEFINE net == n - entry.notional - entry.costs - f
             t == [from |-> entry.time, to |-> Now, net |-> net]
  <2>4. after = [cash |-> cash + n - f, realized |-> realized + net, entry |-> NoFill,
                 trades |-> Append(trades, t)]
    BY <1>9 DEF Filled, n, f
  <2>5. net \in Int /\ entry.time \in Nat /\ cash + n - f \in Nat /\ realized + net \in Int
    <3>1. entry.time \in Nat
      BY <2>2 DEF Fills
    <3>2. n \in Nat /\ f \in Nat /\ cash \in Nat /\ realized \in Int /\ entry.notional \in Nat
          /\ entry.costs \in Nat
      BY <1>2, <1>4, <1>5, <1>6
    <3>3. net \in Int
      BY <3>2
    <3>4. cash + n - f \in Nat
      BY <2>3, <3>2
    <3>5. realized + net \in Int
      <4> HIDE DEF net
      <4> QED BY <3>2, <3>3
    <3> QED BY <3>1, <3>3, <3>4, <3>5
  <2>6. t \in RoundTrips
    BY <1>6, <2>5 DEF RoundTrips
  <2>7. Explained(cash + n - f, realized + net, NoFill)
    <3>1. cash = InitialCash + realized - entry.notional - entry.costs
      BY <1>0 DEF Explained
    <3>2. NoFill.notional = 0 /\ NoFill.costs = 0 /\ NoFill.price = 0 /\ NoFill.quantity = 0
      BY DEF NoFill
    <3>3. cash + n - f = InitialCash + (realized + net) - 0 - 0
      <4>1. n \in Nat /\ f \in Nat /\ realized \in Int /\ entry.notional \in Nat
            /\ entry.costs \in Nat /\ InitialCash \in Nat
        BY <1>2, <1>4, <1>5, <1>6
      <4> QED BY <3>1, <4>1
    <3> QED BY <3>2, <3>3 DEF Explained
  <2> HIDE DEF net
  <2>8. OneDay(t)
    <3>1. day \in 0..(Days - 1)
      BY <1>0, BacktestAssumption DEF BacktestTypes
    <3>2. day * (DayBars + 1) <= t.from
      BY <1>0, <2>2 DEF PositionToday
    <3>3. (day + 1) * (DayBars + 1) = day * (DayBars + 1) + (DayBars + 1)
      <4>1. \A x, y \in Nat : (x + 1) * y = x * y + y
        OBVIOUS
      <4> QED BY <1>6, <4>1
    <3>4. minute < DayBars + 1
      BY <1>0, BacktestAssumption DEF BacktestTypes
    <3>5. t.to = day * (DayBars + 1) + minute
      BY DEF Now
    <3>6. t.to < (day + 1) * (DayBars + 1)
      <4> DEFINE D == day * (DayBars + 1)
      <4> HIDE DEF D
      <4> QED BY <1>6, <3>3, <3>4, <3>5 DEF D
    <3> QED BY <3>1, <3>2, <3>6 DEF OneDay
  <2> HIDE DEF t
  <2>9. /\ Append(trades, t) \in Seq(RoundTrips)
        /\ \A i \in 1..Len(Append(trades, t)) : OneDay(Append(trades, t)[i])
    BY <1>0, <1>6, <2>6, <2>8, Appended
  <2>10. /\ after.cash = cash + n - f /\ after.realized = realized + net /\ after.trades = Append(trades, t)
         /\ after.entry = NoFill
         /\ after = [cash |-> after.cash, realized |-> after.realized, entry |-> after.entry,
                     trades |-> after.trades]
    BY <2>4
  <2> HIDE DEF after
  <2> QED BY <1>5, <1>9, <2>5, <2>7, <2>9, <2>10 DEF after, f
<1> QED BY <1>1, <1>8, <1>9

\* Outcomes in the order of their numbers, to which the next one is added.
Ordered(out) ==
  /\ out \in Seq(Resolutions)
  /\ \A i \in 1..Len(out) : /\ out[i].id = i
                            /\ out[i].result = "FILLED" => out[i].created = out[i].resolved

LEMMA OrderedAppend ==
  ASSUME NEW out, Ordered(out), NEW r \in Resolutions, r.id = Len(out) + 1,
         r.result = "FILLED" => r.created = r.resolved
  PROVE  Ordered(Append(out, r)) /\ Len(Append(out, r)) = Len(out) + 1
<1>1. out \in Seq(Resolutions)
  BY DEF Ordered
<1>2. /\ Append(out, r) \in Seq(Resolutions) /\ Len(Append(out, r)) = Len(out) + 1
      /\ Append(out, r)[Len(out) + 1] = r
      /\ \A i \in 1..Len(out) : Append(out, r)[i] = out[i]
      /\ \A i \in 1..(Len(out) + 1) : i \in 1..Len(out) \/ i = Len(out) + 1
  BY <1>1, Appended
<1> DEFINE new == Append(out, r)
<1> HIDE DEF new
<1>3. \A i \in 1..Len(new) : /\ new[i].id = i
                             /\ new[i].result = "FILLED" => new[i].created = new[i].resolved
  BY <1>2 DEF Ordered, new
<1> QED BY <1>2, <1>3 DEF Ordered, new

LEMMA VerdictIsResult ==
  ASSUME NEW intent, NEW bar
  PROVE  Verdict(intent, bar) \in Results
<1> DEFINE j == Rejection(intent, bar)
           lots == intent.quantity % LotSize = 0
           dry == bar.volume = 0
<1>1. CASE ~lots
  BY <1>1 DEF Rejection, Verdict, Results, Refusals
<1>2. CASE lots /\ dry
  BY <1>2 DEF Rejection, Verdict, Results, Refusals
<1>3. CASE lots /\ ~dry
  <2>1. j \in {"ALREADY_LONG", "OUTSIDE_ENTRY_WINDOW", "NONE", "OVERSELL", "PARTIAL_EXIT_UNSUPPORTED"}
    BY <1>3 DEF Rejection
  <2> HIDE DEF j
  <2>2. Verdict(intent, bar) \in {j, "FILLED", "INSUFFICIENT_CASH"}
    BY DEF Verdict, j
  <2> QED BY <2>1, <2>2 DEF Results, Refusals
<1> QED BY <1>1, <1>2, <1>3

\* One bar.
LEMMA BarKeeps ==
  ASSUME BacktestInv, NEW bar \in Bars, NEW proposal \in Proposals, Bar(bar, proposal)
  PROVE  BacktestInv'
<1> DEFINE intent == IF Forced THEN IntentOf(nextId, Now, "SELL", entry.quantity) ELSE pending
           id1 == IF Forced THEN nextId + 1 ELSE nextId
           acts == intent # NoIntent
           verdict == IF acts THEN Verdict(intent, bar) ELSE "NONE"
           after == IF verdict = "FILLED" THEN Filled(intent, bar)
                    ELSE [cash |-> cash, realized |-> realized, entry |-> entry, trades |-> trades]
           out1 == IF acts THEN Append(Superseded, outcome(intent, Now, verdict)) ELSE outcomes
           equity == after.cash + bar.close * after.entry.quantity
           unrealized == (bar.close - after.entry.price) * after.entry.quantity
           pend1 == IF proposal = NoIntent THEN NoIntent
                    ELSE IntentOf(id1, Now + 1, proposal.side, proposal.quantity)
           final == day + 1 = Days
           ends == minute + 1 = DayBars
<1>0. /\ BacktestTypes /\ Explained(cash, realized, entry) /\ PositionToday
      /\ \A i \in 1..Len(trades) : OneDay(trades[i])
      /\ InOrder
  BY DEF BacktestInv
<1>1. status = "running" /\ day < Days
  BY <1>0 DEF Bar, BacktestTypes
<1>2. /\ Now \in Nat /\ DayBars + 1 \in Nat /\ day * (DayBars + 1) \in Nat
      /\ nextId \in Nat \ {0} /\ day \in Nat /\ minute \in Nat /\ minute < DayBars
  BY <1>0, NowNat, BacktestAssumption DEF BacktestTypes
<1>3. CASE Forced /\ verdict # "FILLED"
  <2>1. status' = "FORCED_EXIT_UNAVAILABLE"
        /\ UNCHANGED <<day, minute, cash, realized, entry, pending, nextId, outcomes,
                       trades, costs, peak, drawdown>>
    BY <1>3 DEF Bar
  <2>2. BacktestTypes'
    BY <1>0, <2>1 DEF BacktestTypes
  <2>3. InOrder'
    BY <1>0, <2>1 DEF InOrder, Now
  <2>4. PositionToday'
    BY <1>0, <2>1 DEF PositionToday
  <2> QED BY <1>0, <2>1, <2>2, <2>3, <2>4 DEF BacktestInv
<1>4. CASE ~(Forced /\ verdict # "FILLED")
  <2>1. /\ cash' = after.cash /\ realized' = after.realized
        /\ entry' = after.entry /\ trades' = after.trades
        /\ costs' = (IF verdict = "FILLED" THEN costs + Fee(intent, bar) ELSE costs)
        /\ nextId' = (IF proposal = NoIntent THEN id1 ELSE id1 + 1)
        /\ peak' = Max({peak, equity})
        /\ drawdown' = Max({drawdown, Max({peak, equity}) - equity})
        /\ pending' = Carried(pend1, ends)
        /\ outcomes' = (IF Carried(pend1, ends) # pend1
                       THEN Append(out1, outcome(pend1, Now + 1,
                              IF final THEN "UNFILLED_END_OF_DATA" ELSE "UNFILLED_SESSION_END"))
                       ELSE out1)
        /\ minute' = (IF ends THEN 0 ELSE minute + 1)
        /\ day' = (IF ends THEN day + 1 ELSE day)
        /\ status' = EndChecks(after, equity, unrealized, ends, final)
    BY <1>4 DEF Bar
  <2>2. /\ entry \in Fills \cup {NoFill} /\ (Forced => entry \in Fills /\ minute = ForcedExit)
        /\ pending \in Intents \cup {NoIntent}
    BY <1>0 DEF BacktestTypes, Forced, Long
  <2>3. acts => intent \in Intents /\ intent.created = Now /\ intent.id = id1 - 1
    <3>1. CASE Forced
      <4>1. intent = [id |-> nextId, created |-> Now, side |-> "SELL", quantity |-> entry.quantity]
        BY <3>1 DEF IntentOf
      <4>2. entry.quantity \in Quantities
        BY <2>2, <3>1 DEF Fills
      <4>3. intent \in Intents /\ intent.created = Now /\ intent.id = nextId
        BY <1>2, <4>1, <4>2 DEF Intents
      <4>4. id1 - 1 = nextId
        BY <1>2, <3>1
      <4> QED BY <4>3, <4>4
    <3>2. CASE ~Forced
      <4>1. intent = pending /\ id1 = nextId
        BY <3>2
      <4>2. pending # NoIntent => pending \in Intents /\ pending.created = Now /\ pending.id = nextId - 1
        BY <1>0, <2>2 DEF InOrder
      <4> QED BY <4>1, <4>2
    <3> QED BY <3>1, <3>2
  <2>4. id1 \in Nat \ {0}
    BY <1>2
  <2>5. verdict \in Results
    <3>1. CASE acts
      <4>1. verdict = Verdict(intent, bar)
        BY <3>1
      <4> HIDE DEF verdict, intent
      <4> QED BY <4>1, VerdictIsResult
    <3>2. CASE ~acts
      BY <3>2 DEF Results
    <3> QED BY <3>1, <3>2
  \* What the fill leaves.
  <2>6. /\ after.cash \in Nat /\ after.realized \in Int /\ after.entry \in Fills \cup {NoFill}
        /\ after.trades \in Seq(RoundTrips) /\ Explained(after.cash, after.realized, after.entry)
        /\ \A i \in 1..Len(after.trades) : OneDay(after.trades[i])
        /\ verdict = "FILLED" => Fee(intent, bar) \in Nat
        /\ after.entry # NoFill => minute < ForcedExit /\ day * (DayBars + 1) <= after.entry.time
    <3>1. CASE verdict = "FILLED"
      <4>1. intent \in Intents /\ Verdict(intent, bar) = "FILLED" /\ after = Filled(intent, bar)
        BY <2>3, <3>1
      <4>2. intent.side \in {"BUY", "SELL"}
        BY <4>1 DEF Intents
      <4>3. minute <= LastEntry => minute < ForcedExit
        BY <1>2, BacktestAssumption
      <4> HIDE DEF intent, after, verdict
      <4> QED BY <1>1, <3>1, <4>1, <4>2, <4>3, FillExplained
    <3>2. CASE verdict # "FILLED"
      <4>1. after = [cash |-> cash, realized |-> realized, entry |-> entry, trades |-> trades]
        BY <3>2
      <4>2. after.cash = cash /\ after.realized = realized /\ after.entry = entry /\ after.trades = trades
        BY <4>1
      <4>3. ~Forced
        BY <1>4, <3>2
      <4>4. entry # NoFill => minute < ForcedExit /\ day * (DayBars + 1) <= entry.time
        BY <1>0, <1>2, <4>3, BacktestAssumption DEF PositionToday, Forced, Long
      <4> HIDE DEF after, verdict
      <4> QED BY <1>0, <3>2, <4>2, <4>4 DEF BacktestTypes
    <3> QED BY <3>1, <3>2
  \* The outcomes once the intent is resolved.
  <2>7. Ordered(out1) /\ Len(out1) = id1 - 1
    <3>1. Ordered(outcomes) /\ Len(outcomes) \in Nat
      BY <1>0 DEF Ordered, InOrder, BacktestTypes
    <3>2. CASE ~acts
      <4>1. ~Forced /\ pending = NoIntent /\ out1 = outcomes /\ id1 = nextId
        <5>1. ~Forced
          <6>1. ASSUME Forced PROVE FALSE
            <7>1. intent.id = nextId /\ NoIntent.id = 0
              BY <6>1 DEF IntentOf, NoIntent
            <7> QED BY <1>2, <3>2, <7>1
          <6> QED BY <6>1
        <5> QED BY <3>2, <5>1
      <4> QED BY <1>0, <3>1, <4>1 DEF InOrder
    <3>3. CASE acts
      <4>1. Ordered(Superseded) /\ Len(Superseded) = intent.id - 1
        <5>1. CASE Forced /\ pending # NoIntent
          <6> DEFINE q == outcome(pending, Now, "SUPERSEDED_BY_FORCED_EXIT")
          <6>1. Superseded = Append(outcomes, q)
            BY <5>1 DEF Superseded
          <6>2. pending \in Intents /\ Len(outcomes) = nextId - 2 /\ pending.id = nextId - 1
            BY <1>0, <2>2, <5>1 DEF InOrder
          <6>3. q \in Resolutions /\ q.id = pending.id /\ q.result = "SUPERSEDED_BY_FORCED_EXIT"
            <7>1. pending.id \in Nat \ {0} /\ pending.created \in Nat
              BY <6>2 DEF Intents
            <7>2. "SUPERSEDED_BY_FORCED_EXIT" \in Results
              BY DEF Results
            <7>3. q = [id |-> pending.id, created |-> pending.created, resolved |-> Now,
                       result |-> "SUPERSEDED_BY_FORCED_EXIT"]
              BY DEF outcome
            <7> HIDE DEF q
            <7> QED BY <1>2, <7>1, <7>2, <7>3 DEF Resolutions
          <6> HIDE DEF q
          <6>4. q.id = Len(outcomes) + 1 /\ ~(q.result = "FILLED")
            BY <1>2, <6>2, <6>3
          <6>5. Ordered(Superseded) /\ Len(Superseded) = Len(outcomes) + 1
            BY <3>1, <6>1, <6>3, <6>4, OrderedAppend
          <6>6. intent.id = nextId
            BY <5>1 DEF IntentOf
          <6> QED BY <1>2, <6>2, <6>5, <6>6
        <5>2. CASE Forced /\ pending = NoIntent
          <6>1. Superseded = outcomes /\ intent.id = nextId
            BY <5>2 DEF Superseded, IntentOf
          <6> QED BY <1>0, <3>1, <5>2, <6>1 DEF InOrder
        <5>3. CASE ~Forced
          <6>1. Superseded = outcomes /\ intent = pending /\ pending # NoIntent
            BY <3>3, <5>3 DEF Superseded
          <6>2. Len(outcomes) = nextId - 2 /\ pending.id = nextId - 1
            BY <1>0, <6>1 DEF InOrder
          <6>3. Len(outcomes) = pending.id - 1
            BY <1>2, <6>2
          <6> QED BY <3>1, <6>1, <6>3
        <5> QED BY <5>1, <5>2, <5>3
      <4> DEFINE q == outcome(intent, Now, verdict)
      <4>2. out1 = Append(Superseded, q) /\ intent \in Intents /\ intent.created = Now /\ intent.id = id1 - 1
        BY <2>3, <3>3
      <4> HIDE DEF intent, verdict
      <4>3. q \in Resolutions /\ q.id = intent.id /\ q.created = q.resolved
        BY <1>2, <2>5, <4>2 DEF outcome, Resolutions, Intents
      <4> HIDE DEF q, out1, id1
      <4>4. q.id = Len(Superseded) + 1
        BY <2>4, <4>1, <4>2, <4>3
      <4>5. Ordered(out1) /\ Len(out1) = Len(Superseded) + 1
        BY <4>1, <4>2, <4>3, <4>4, OrderedAppend
      <4> QED BY <2>4, <4>1, <4>2, <4>5
    <3> QED BY <3>2, <3>3
  \* The next proposal.
  <2>8. /\ proposal = NoIntent => pend1 = NoIntent
        /\ proposal # NoIntent => pend1 \in Intents /\ pend1.id = id1 /\ pend1.created = Now + 1
                                  /\ pend1 # NoIntent
    <3>1. ASSUME proposal # NoIntent
          PROVE  pend1 \in Intents /\ pend1.id = id1 /\ pend1.created = Now + 1
      <4>1. proposal.side \in {"BUY", "SELL"} /\ proposal.quantity \in Quantities
        BY <3>1 DEF Proposals
      <4>2. pend1 = [id |-> id1, created |-> Now + 1, side |-> proposal.side, quantity |-> proposal.quantity]
        BY <3>1 DEF IntentOf
      <4> HIDE DEF id1, pend1
      <4> QED BY <1>2, <2>4, <4>1, <4>2 DEF Intents
    <3> QED BY <3>1, NotNoFill
  <2> HIDE DEF intent, verdict, after, out1, id1, pend1, acts
  \* The checks of the step.
  <2>9. /\ after.entry.quantity \in Nat /\ after.entry.price \in Nat /\ bar.close \in Nat
        /\ after.entry.notional \in Nat /\ after.entry.costs \in Nat
    <3>1. CASE after.entry = NoFill
      BY <3>1, BacktestAssumption DEF NoFill
    <3>2. CASE after.entry \in Fills
      BY <3>2, BacktestAssumption DEF Fills
    <3> QED BY <2>6, <3>1, <3>2
  <2>10. equity \in Int /\ unrealized \in Int
         /\ unrealized = bar.close * after.entry.quantity - after.entry.price * after.entry.quantity
    <3>1. \A x, y, z \in Int : x * z \in Int /\ (x - y) * z \in Int /\ (x - y) * z = x * z - y * z
      OBVIOUS
    <3> QED BY <2>6, <2>9, <3>1
  <2>11. equity = InitialCash + after.realized + unrealized - after.entry.costs
    <3> DEFINE m == bar.close * after.entry.quantity
               v == after.entry.price * after.entry.quantity
    <3>1. m \in Int /\ v \in Int
      <4>1. \A x, z \in Nat : x * z \in Int
        OBVIOUS
      <4> QED BY <2>9, <4>1
    <3>2. after.cash = InitialCash + after.realized - v - after.entry.costs
      BY <2>6 DEF Explained
    <3>3. unrealized = m - v /\ equity = after.cash + m
      BY <2>10
    <3>4. after.cash \in Int /\ after.realized \in Int /\ after.entry.costs \in Int /\ InitialCash \in Int
      BY <2>6, <2>9, BacktestAssumption
    <3> HIDE DEF m, v, equity, unrealized
    <3> QED BY <3>1, <3>2, <3>3, <3>4
  <2>12. ends => after.entry = NoFill
    BY <1>2, <2>6, BacktestAssumption
  <2>13. after.entry = NoFill => after.cash = InitialCash + after.realized
    <3>1. NoFill.notional = 0 /\ NoFill.costs = 0
      BY DEF NoFill
    <3> QED BY <2>6, <3>1, BacktestAssumption DEF Explained
  <2> HIDE DEF equity, unrealized
  <2>14. status' = IF ends /\ final THEN "done" ELSE "running"
    BY <2>1, <2>11, <2>12, <2>13 DEF EndChecks
  <2>15. peak' \in Nat /\ drawdown' \in Nat
    <3>1. peak \in Nat /\ drawdown \in Nat
      BY <1>0 DEF BacktestTypes
    <3>2. Max({peak, equity}) \in {peak, equity} /\ Max({peak, equity}) >= peak /\ Max({peak, equity}) >= equity
      <4>1. equity \in Int /\ peak \in Int
        BY <2>10, <3>1
      <4> QED BY <4>1, MaxOfTwo
    <3> DEFINE h == Max({peak, equity})
    <3>3. h \in Nat /\ h - equity \in Int
      BY <2>10, <3>1, <3>2
    <3> HIDE DEF h
    <3>4. Max({drawdown, h - equity}) \in {drawdown, h - equity} /\ Max({drawdown, h - equity}) >= drawdown
      BY <3>1, <3>3, MaxOfTwo
    <3>5. Max({drawdown, h - equity}) \in Nat
      BY <3>1, <3>3, <3>4
    <3> QED BY <2>1, <3>3, <3>5 DEF h
  <2>16. Ordered(outcomes') /\ nextId' \in Nat \ {0} /\ pending' \in Intents \cup {NoIntent}
         /\ (pending' = NoIntent => Len(outcomes') = nextId' - 1)
         /\ (pending' # NoIntent => /\ Len(outcomes') = nextId' - 2 /\ pending'.id = nextId' - 1
                                    /\ pending'.created = Now + 1 /\ ~ends)
    <3>1. CASE proposal = NoIntent
      <4>1. pend1 = NoIntent /\ Carried(pend1, ends) = NoIntent
        BY <2>8, <3>1 DEF Carried
      <4>2. nextId' = id1 /\ pending' = NoIntent /\ outcomes' = out1
        BY <2>1, <3>1, <4>1
      <4> QED BY <2>4, <2>7, <4>2
    <3>2. CASE proposal # NoIntent /\ ~ends
      <4>1. Carried(pend1, ends) = pend1
        BY <3>2 DEF Carried
      <4>2. nextId' = id1 + 1 /\ pending' = pend1 /\ outcomes' = out1
        BY <2>1, <3>2, <4>1
      <4> HIDE DEF ends
      <4> QED BY <2>4, <2>7, <2>8, <3>2, <4>2
    <3>3. CASE proposal # NoIntent /\ ends
      <4> DEFINE how == IF final THEN "UNFILLED_END_OF_DATA" ELSE "UNFILLED_SESSION_END"
                 q == outcome(pend1, Now + 1, how)
      <4>1. Carried(pend1, ends) = NoIntent /\ pend1 # NoIntent
        BY <2>8, <3>3 DEF Carried
      <4>2. nextId' = id1 + 1 /\ pending' = NoIntent /\ outcomes' = Append(out1, q)
        BY <2>1, <3>3, <4>1
      <4>3. how \in Results /\ how # "FILLED"
        <5>1. CASE final
          BY <5>1 DEF Results
        <5>2. CASE ~final
          BY <5>2 DEF Results
        <5> QED BY <5>1, <5>2
      <4> HIDE DEF how
      <4>4. q \in Resolutions /\ q.id = id1 /\ q.result = how
        BY <1>2, <2>8, <3>3, <4>3 DEF outcome, Resolutions, Intents
      <4> HIDE DEF q
      <4>5. Ordered(outcomes') /\ Len(outcomes') = Len(out1) + 1
        <5>1. q.id = Len(out1) + 1
          BY <2>4, <2>7, <4>4
        <5> QED BY <2>7, <4>2, <4>3, <4>4, <5>1, OrderedAppend
      <4> QED BY <2>4, <2>7, <4>2, <4>5
    <3> QED BY <3>1, <3>2, <3>3
  <2>17. ~ends => Now' = Now + 1
    BY <1>2, <2>1 DEF Now
  <2>18. InOrder'
    BY <2>16, <2>17 DEF InOrder, Ordered
  <2>19. BacktestTypes'
    <3>1. day' \in 0..Days /\ minute' \in 0..(DayBars - 1)
      BY <1>0, <1>1, <1>2, <2>1, BacktestAssumption DEF BacktestTypes
    <3>2. status' = "running" => day' < Days
      <4>1. status' = "running" => ~(ends /\ final)
        BY <2>14
      <4> QED BY <1>1, <1>2, <2>1, <4>1, BacktestAssumption
    <3>3. costs' \in Nat
      <4>1. costs \in Nat
        BY <1>0 DEF BacktestTypes
      <4> QED BY <2>1, <2>6, <4>1
    <3>4. outcomes' \in Seq(Resolutions)
      BY <2>16 DEF Ordered
    <3> QED BY <2>1, <2>6, <2>15, <2>16, <3>1, <3>2, <3>3, <3>4 DEF BacktestTypes
  <2>20. PositionToday'
    <3> SUFFICES ASSUME after.entry # NoFill
                 PROVE  minute' <= ForcedExit /\ day' * (DayBars + 1) <= after.entry.time
      BY <2>1 DEF PositionToday
    <3>1. ~ends /\ minute < ForcedExit /\ day * (DayBars + 1) <= after.entry.time
      BY <2>6, <2>12
    <3>2. day' = day /\ minute' = minute + 1
      BY <2>1, <3>1
    <3> QED BY <1>2, <3>1, <3>2, BacktestAssumption
  <2>21. Explained(cash, realized, entry)' /\ \A i \in 1..Len(trades') : OneDay(trades'[i])
    BY <2>1, <2>6 DEF Explained
  <2>22. (\A i \in 1..Len(trades) : OneDay(trades[i]))'
    BY <2>21
  <2> QED BY <2>14, <2>18, <2>19, <2>20, <2>21, <2>22 DEF BacktestInv
<1> QED BY <1>3, <1>4


LEMMA BacktestInvNext == BacktestInv /\ [BacktestNext]_backtestVars => BacktestInv'
<1> SUFFICES ASSUME BacktestInv, [BacktestNext]_backtestVars PROVE BacktestInv'
  OBVIOUS
<1>1. ASSUME NEW bar \in Bars, NEW p \in Proposals, Bar(bar, p) PROVE BacktestInv'
  BY <1>1, BarKeeps
<1>2. ASSUME UNCHANGED <<day, minute, cash, realized, entry, pending, nextId, outcomes, trades, costs,
                         peak, drawdown>>,
             status' \in {status, "STRATEGY_FAILURE"}
      PROVE  BacktestInv'
  <2>1. BacktestTypes'
    BY <1>2 DEF BacktestInv, BacktestTypes
  <2>2. InOrder'
    BY <1>2 DEF BacktestInv, InOrder, Now
  <2>3. PositionToday' /\ Explained(cash, realized, entry)'
    BY <1>2 DEF BacktestInv, PositionToday, Explained
  <2>4. (\A i \in 1..Len(trades) : OneDay(trades[i]))'
    BY <1>2 DEF BacktestInv
  <2>5. status' \notin {"LEDGER_INCONSISTENT", "FINAL_LEDGER_INCONSISTENT", "OVERNIGHT_POSITION_FORBIDDEN"}
    BY <1>2 DEF BacktestInv
  <2> QED BY <2>1, <2>2, <2>3, <2>4, <2>5 DEF BacktestInv
<1>3. CASE StrategyFails
  BY <1>2, <1>3 DEF StrategyFails
<1>4. CASE NoMoreBars \/ UNCHANGED backtestVars
  BY <1>2, <1>4 DEF NoMoreBars, backtestVars
<1> QED BY <1>1, <1>3, <1>4 DEF BacktestNext

LEMMA BacktestInvGives == BacktestInv => BacktestSound
<1> SUFFICES ASSUME BacktestInv PROVE BacktestSound
  OBVIOUS
<1>1. BacktestTypes /\ InOrder /\ \A i \in 1..Len(trades) : OneDay(trades[i])
  BY DEF BacktestInv
<1>2. /\ outcomes \in Seq(Resolutions) /\ trades \in Seq(RoundTrips) /\ nextId \in Nat \ {0}
      /\ pending \in Intents \cup {NoIntent}
  BY <1>1 DEF BacktestTypes
<1>3. Len(outcomes) \in Nat /\ DOMAIN outcomes = 1..Len(outcomes) /\ DOMAIN trades = 1..Len(trades)
  BY <1>2
<1>4. BacktestTypeOK
  <2>1. entry.quantity \in {0} \cup Quantities
    <3>1. CASE entry = NoFill
      BY <3>1 DEF NoFill
    <3>2. CASE entry \in Fills
      BY <3>2 DEF Fills
    <3> QED BY <1>1, <3>1, <3>2 DEF BacktestTypes
  <2> QED BY <1>1, <2>1 DEF BacktestTypes, BacktestTypeOK
<1>5. LedgerConsistent
  BY DEF BacktestInv, LedgerConsistent
<1>6. NoOvernightPosition
  BY <1>1, <1>3 DEF BacktestInv, OneDay, NoOvernightPosition
<1>7. \A i \in 1..Len(outcomes) : outcomes[i].id = i
  BY <1>1 DEF InOrder
<1>8. {outcomes[i].id : i \in 1..Len(outcomes)} = 1..Len(outcomes)
  BY <1>7
<1>9. 1..Len(outcomes) = (1..(nextId - 1)) \ {pending.id}
  <2>1. CASE pending = NoIntent
    <3>1. pending.id = 0 /\ Len(outcomes) = nextId - 1
      BY <1>1, <2>1 DEF InOrder, NoIntent
    <3> QED BY <1>2, <3>1
  <2>2. CASE pending # NoIntent
    <3>1. pending.id = nextId - 1 /\ Len(outcomes) = nextId - 2
      BY <1>1, <2>2 DEF InOrder
    <3> QED BY <1>2, <1>3, <3>1
  <2> QED BY <2>1, <2>2
<1>10. EveryIntentResolvedOnce
  BY <1>3, <1>7, <1>8, <1>9 DEF EveryIntentResolvedOnce
<1>11. FilledAtNextOpen
  BY <1>1, <1>3 DEF InOrder, FilledAtNextOpen
<1> QED BY <1>4, <1>5, <1>6, <1>10, <1>11 DEF BacktestSound

\* The one-minute engine of backtest/engine.py never trips its own ledger checks, whatever the
\* bars, the tariff and the proposals: cash never goes negative, no position or round trip
\* crosses a session, every numbered intent is resolved exactly once (superseded, unfilled and
\* rejected ones included), and a fill happens only at the open the intent was made for.
THEOREM BacktestIsSound == BacktestSpec => []BacktestSound
<1>1. BacktestSpec => []BacktestInv
  BY BacktestInvInit, BacktestInvNext, PTL DEF BacktestSpec
<1> QED BY <1>1, BacktestInvGives, PTL
=============================================================================
