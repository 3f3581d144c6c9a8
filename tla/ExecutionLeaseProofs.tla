------------------------ MODULE ExecutionLeaseProofs ------------------------
(***************************************************************************)
(* What ExecutionLease guarantees for any number of holders, decisions,    *)
(* copies and restores, and what the verifier of synthetic decisions       *)
(* (FixtureTrust) guarantees for any threads, decisions and clocks.        *)
(***************************************************************************)
EXTENDS ExecutionLease, FixtureTrust, SequenceTheorems, TLAPS

\* The result of verify_fixture is one of the states of a lease.
LEMMA ResultType == \A d, h : Result(d, h) \in States
BY DEF Result, States

\* The table of transition() names states only.
LEMMA AllowedType == \A s \in States : Allowed[s] \subseteq States
BY DEF Allowed, States, Over

\* Appending to the log of reservations leaves what it held in place.
LEMMA SpentGrows ==
  ASSUME NEW s \in Seq(Spends), NEW x \in Spends
  PROVE  /\ Append(s, x) \in Seq(Spends)
         /\ DOMAIN Append(s, x) = DOMAIN s \cup {Len(s) + 1}
         /\ Append(s, x)[Len(s) + 1] = x
         /\ \A i \in DOMAIN s : Append(s, x)[i] = s[i] /\ i < Len(s) + 1 /\ i \in Nat
OBVIOUS

\* The variables start with their types.
LEMMA TypeInit == Init => TypeOK
BY LeaseAssumption
   DEF Init, TypeOK, EmptyLedger, Ledgers, States, Spends

\* Every step keeps the types: verifying and transition() yield states, a reservation
\* records an identity and a nonce of a decision.
LEMMA TypeNext == TypeOK /\ [Next]_vars => TypeOK'
<1> SUFFICES ASSUME TypeOK, [Next]_vars PROVE TypeOK'
  OBVIOUS
<1> USE LeaseAssumption DEF TypeOK
<1>1. ASSUME NEW h \in Holders, NEW d \in Decisions, verify_fixture(h, d) PROVE TypeOK'
  BY <1>1, ResultType DEF verify_fixture, Ledgers
<1>2. ASSUME NEW h \in Holders, reserve(h) PROVE TypeOK'
  <2> DEFINE d == lease[h].decision
             x == [identity |-> d.identity, nonce |-> d.nonce, version |-> ledger.version + 1, holder |-> h]
  <2>1. d \in Decisions /\ d.identity \in Identities /\ d.nonce \in Nonces
    OBVIOUS
  <2>2. ledger.version \in Nat /\ ledger.decisions \subseteq Identities /\ ledger.nonces \subseteq Nonces
    BY DEF Ledgers
  <2>3. x \in Spends
    BY <2>1, <2>2 DEF Spends
  <2>4. lease' \in [Holders -> [state : States, decision : Decisions, read : Nat]]
    BY <1>2 DEF reserve, States
  <2>5. CASE MayReserve(lease[h])
    <3>1. spent' = Append(spent, x)
      BY <1>2, <2>5 DEF reserve
    <3>2. spent' \in Seq(Spends) /\ durable' \subseteq DOMAIN spent'
      BY <1>2, <2>3, <3>1, SpentGrows DEF reserve
    <3>3. ledger' \in Ledgers
      BY <1>2, <2>1, <2>2, <2>5 DEF reserve, Ledgers
    <3> QED BY <1>2, <2>4, <3>2, <3>3 DEF reserve
  <2>6. CASE ~MayReserve(lease[h])
    BY <1>2, <2>4, <2>6 DEF reserve
  <2> QED BY <2>5, <2>6
<1>3. ASSUME NEW h \in Holders, NEW t \in States, transition(h, t) PROVE TypeOK'
  BY <1>3 DEF transition
<1>4. ASSUME NEW h \in Holders, crash(h) PROVE TypeOK'
  BY <1>4 DEF crash, States
<1>5. CASE Checkpoint
  BY <1>5 DEF Checkpoint, OnLedger, Ledgers
<1>6. CASE Copy
  BY <1>6 DEF Copy
<1>7. CASE Restore
  BY <1>7 DEF Restore
<1>8. CASE Revoke
  BY <1>8 DEF Revoke
<1>9. CASE SetClock
  BY <1>9 DEF SetClock
<1>10. CASE UNCHANGED vars
  BY <1>10 DEF vars
<1> QED BY <1>1, <1>2, <1>3, <1>4, <1>5, <1>6, <1>7, <1>8, <1>9, <1>10 DEF Next, Hold

\* A step that leaves the ledger, its copies, the checkpoint and the log alone.
LEMMA OthersKeep ==
  LeaseInv /\ UNCHANGED <<ledger, checkpoint, copies, spent, durable>>
    => DurableOnLedger' /\ CopiesAreEarlier' /\ DurableNeverReissued'
BY DEF LeaseInv, DurableOnLedger, CopiesAreEarlier, DurableNeverReissued, Holds, Shares

\* A reservation: MayReserve refuses a ledger behind the checkpoint, so the ledger holds
\* every durable reservation, and the decision shares nothing with any of them.
LEMMA ReserveKeeps ==
  ASSUME LeaseInv, NEW h \in Holders, reserve(h)
  PROVE  DurableOnLedger' /\ CopiesAreEarlier' /\ DurableNeverReissued'
<1> DEFINE d == lease[h].decision
           x == [identity |-> d.identity, nonce |-> d.nonce, version |-> ledger.version + 1, holder |-> h]
<1> USE DEF LeaseInv
<1>1. CASE ~MayReserve(lease[h])
  BY <1>1, OthersKeep DEF reserve
<1>2. CASE MayReserve(lease[h])
  <2>1. /\ spent \in Seq(Spends) /\ durable \subseteq DOMAIN spent
        /\ ledger.version \in Nat /\ checkpoint \in Nat
        /\ \A c \in copies : c.version \in Nat
    BY DEF TypeOK, Ledgers
  <2>2. x \in Spends
    BY LeaseAssumption, <2>1 DEF TypeOK, Spends
  <2>3. /\ spent' = Append(spent, x)
        /\ ledger'.version = ledger.version + 1
        /\ ledger'.decisions = ledger.decisions \cup {d.identity}
        /\ ledger'.nonces = ledger.nonces \cup {d.nonce}
        /\ checkpoint' = checkpoint /\ copies' = copies /\ durable' = durable
    BY <1>2 DEF reserve
  <2>4. /\ DOMAIN spent' = DOMAIN spent \cup {Len(spent) + 1}
        /\ spent'[Len(spent) + 1] = x
        /\ \A i \in DOMAIN spent : spent'[i] = spent[i] /\ i < Len(spent) + 1 /\ i \in Nat
    BY <2>1, <2>2, <2>3, SpentGrows
  <2>5. Holds(ledger) /\ checkpoint <= ledger.version
    BY <1>2, <2>1 DEF MayReserve, DurableOnLedger
  <2>6. \A i \in durable : ~Shares(spent[i], x)
    BY <1>2, <2>5 DEF Holds, MayReserve, Free, Shares
  <2>7. DurableOnLedger'
    BY <2>1, <2>3, <2>4, <2>5 DEF DurableOnLedger, Holds
  <2>8. CopiesAreEarlier'
    BY <2>1, <2>3 DEF CopiesAreEarlier
  <2>9. DurableNeverReissued'
    <3> SUFFICES ASSUME NEW i \in DOMAIN spent', NEW j \in DOMAIN spent', i < j,
                        Shares(spent'[i], spent'[j])
                 PROVE  i \notin durable
      BY <2>3 DEF DurableNeverReissued, Shares
    <3>1. CASE i \in DOMAIN spent /\ j \in DOMAIN spent
      BY <2>4, <3>1 DEF DurableNeverReissued
    <3>2. CASE i \in DOMAIN spent /\ j = Len(spent) + 1
      BY <2>4, <2>6, <3>2
    <3>3. CASE i = Len(spent) + 1
      BY <2>1, <2>4, <3>3
    <3> QED BY <2>4, <3>1, <3>2, <3>3
  <2> QED BY <2>7, <2>8, <2>9
<1> QED BY <1>1, <1>2

\* A checkpoint: a copy that reaches the new checkpoint has the version of the ledger and
\* is equal to it.
LEMMA CheckpointKeeps ==
  LeaseInv /\ Checkpoint => DurableOnLedger' /\ CopiesAreEarlier' /\ DurableNeverReissued'
<1> SUFFICES ASSUME LeaseInv, Checkpoint
             PROVE  DurableOnLedger' /\ CopiesAreEarlier' /\ DurableNeverReissued'
  OBVIOUS
<1> USE DEF LeaseInv
<1>1. /\ ledger.version \in Nat /\ checkpoint \in Nat
      /\ \A c \in copies : c.version \in Nat
      /\ DOMAIN spent \subseteq Nat
  BY DEF TypeOK, Ledgers
<1>2. /\ checkpoint < ledger.version /\ checkpoint' = ledger.version
      /\ durable' = durable \cup OnLedger
      /\ ledger' = ledger /\ copies' = copies /\ spent' = spent
  BY DEF Checkpoint
<1>3. Holds(ledger)
  BY <1>1, <1>2 DEF DurableOnLedger
<1>4. Holds(ledger)'
  BY <1>2, <1>3 DEF Holds, OnLedger
<1>5. DurableOnLedger'
  BY <1>1, <1>2, <1>4 DEF DurableOnLedger, CopiesAreEarlier
<1>6. CopiesAreEarlier'
  BY <1>2 DEF CopiesAreEarlier
<1>7. DurableNeverReissued'
  BY <1>1, <1>2 DEF DurableNeverReissued, OnLedger, Shares
<1> QED BY <1>5, <1>6, <1>7

\* A restore brings back a copy, for which the same facts are known.
LEMMA RestoreKeeps ==
  LeaseInv /\ Restore => DurableOnLedger' /\ CopiesAreEarlier' /\ DurableNeverReissued'
<1> SUFFICES ASSUME LeaseInv, Restore
             PROVE  DurableOnLedger' /\ CopiesAreEarlier' /\ DurableNeverReissued'
  OBVIOUS
<1> USE DEF LeaseInv
<1>1. PICK c \in copies : ledger' = c /\ copies' = {x \in copies : x.version <= c.version}
  BY DEF Restore
<1>2. checkpoint' = checkpoint /\ spent' = spent /\ durable' = durable
  BY DEF Restore
<1>3. DurableOnLedger'
  BY <1>1, <1>2 DEF DurableOnLedger, Holds
<1>4. CopiesAreEarlier'
  BY <1>1 DEF CopiesAreEarlier
<1>5. DurableNeverReissued'
  BY <1>2 DEF DurableNeverReissued, Shares
<1> QED BY <1>3, <1>4, <1>5

\* A copy taken now is the ledger itself.
LEMMA CopyKeeps ==
  LeaseInv /\ Copy => DurableOnLedger' /\ CopiesAreEarlier' /\ DurableNeverReissued'
<1> SUFFICES ASSUME LeaseInv, Copy
             PROVE  DurableOnLedger' /\ CopiesAreEarlier' /\ DurableNeverReissued'
  OBVIOUS
<1> USE DEF LeaseInv
<1>1. /\ copies' = copies \cup {ledger} /\ ledger' = ledger
      /\ checkpoint' = checkpoint /\ spent' = spent /\ durable' = durable
  BY DEF Copy
<1>2. ledger.version \in Nat
  BY DEF TypeOK, Ledgers
<1>3. DurableOnLedger'
  BY <1>1 DEF DurableOnLedger, Holds
<1>4. CopiesAreEarlier'
  BY <1>1, <1>2 DEF CopiesAreEarlier
<1>5. DurableNeverReissued'
  BY <1>1 DEF DurableNeverReissued, Shares
<1> QED BY <1>3, <1>4, <1>5

\* LeaseInv is inductive: it holds at first and every step keeps it.
THEOREM LeaseInductive == Spec => []LeaseInv
<1>1. Init => LeaseInv
  BY TypeInit DEF Init, LeaseInv, DurableOnLedger, CopiesAreEarlier, DurableNeverReissued,
     Holds, EmptyLedger
<1>2. LeaseInv /\ [Next]_vars => LeaseInv'
  <2> SUFFICES ASSUME LeaseInv, [Next]_vars PROVE LeaseInv'
    OBVIOUS
  <2>1. TypeOK'
    BY TypeNext DEF LeaseInv
  <2>2. ASSUME NEW h \in Holders, Hold(h)
        PROVE  DurableOnLedger' /\ CopiesAreEarlier' /\ DurableNeverReissued'
    <3>1. CASE reserve(h)
      BY <3>1, ReserveKeeps
    <3>2. CASE ~reserve(h)
      BY <2>2, <3>2, OthersKeep DEF Hold, verify_fixture, transition, crash
    <3> QED BY <3>1, <3>2
  <2>3. ASSUME Revoke \/ SetClock \/ UNCHANGED vars
        PROVE  DurableOnLedger' /\ CopiesAreEarlier' /\ DurableNeverReissued'
    <3>1. UNCHANGED <<ledger, checkpoint, copies, spent, durable>>
      BY <2>3 DEF Revoke, SetClock, vars
    <3> QED BY <3>1, OthersKeep
  <2>4. DurableOnLedger' /\ CopiesAreEarlier' /\ DurableNeverReissued'
    <3>1. CASE Next
      <4>1. CASE Checkpoint \/ Copy \/ Restore
        BY <4>1, CheckpointKeeps, CopyKeeps, RestoreKeeps
      <4> QED BY <2>2, <2>3, <3>1, <4>1 DEF Next
    <3> QED BY <2>3, <3>1
  <2> QED BY <2>1, <2>4 DEF LeaseInv
<1> QED BY <1>1, <1>2, PTL DEF Spec

\* phase1444ej: the types of the ledger, the leases and the log hold in every behaviour.
THEOREM LeaseTypes == Spec => []TypeOK
BY LeaseInductive, PTL DEF LeaseInv

\* No identity and no nonce covered by a checkpoint is ever reserved again by reserve().
THEOREM LeaseNeverReissued == Spec => []DurableNeverReissued
BY LeaseInductive, PTL DEF LeaseInv

\* transition(), crash() and verify_fixture(): a lease that is over is not revived without
\* a new verification, and a consumed one is never reserved or consumed again.
THEOREM LeaseOverIsFinal == Spec => OverIsFinal
<1>1. LeaseInv /\ [Next]_vars =>
        [\A h \in Holders :
           /\ lease[h].state \in Over /\ lease'[h] # lease[h]
                => lease'[h].state \in {"VERIFIED"} \cup Over /\ spent' = spent
           /\ lease[h].state = "CONSUMED" /\ lease'[h] # lease[h] => lease'[h].state \in Over]_vars
  <2> SUFFICES ASSUME LeaseInv, Next, NEW h \in Holders, lease'[h] # lease[h]
               PROVE  /\ lease[h].state \in Over
                           => lease'[h].state \in {"VERIFIED"} \cup Over /\ spent' = spent
                      /\ lease[h].state = "CONSUMED" => lease'[h].state \in Over
    OBVIOUS
  <2>1. PICK g \in Holders : Hold(g)
    BY DEF Next, Checkpoint, Copy, Restore, Revoke, SetClock
  <2>2. lease \in [Holders -> [state : States, decision : Decisions, read : Nat]]
    BY DEF LeaseInv, TypeOK
  <2>3. CASE \E d \in Decisions : verify_fixture(g, d)
    BY <2>2, <2>3 DEF verify_fixture, Result, Over
  <2>4. CASE reserve(g)
    BY <2>2, <2>4 DEF reserve, Over
  <2>5. CASE \E t \in States : transition(g, t)
    <3>1. PICK t \in States : transition(g, t)
      BY <2>5
    <3>2. g = h /\ lease'[h].state = t /\ t \in Allowed[lease[h].state]
      BY <2>2, <3>1 DEF transition
    <3>3. \A s \in Over : Allowed[s] = {}
      BY DEF Allowed, Over
    <3>4. Allowed["CONSUMED"] \subseteq Over
      BY DEF Allowed, Over
    <3> QED BY <3>2, <3>3, <3>4
  <2>6. CASE crash(g)
    <3>1. g = h /\ lease[h].state \notin Over /\ lease'[h].state = "ABORTED"
      BY <2>2, <2>6 DEF crash
    <3> QED BY <3>1 DEF Over
  <2> QED BY <2>1, <2>3, <2>4, <2>5, <2>6 DEF Hold
<1> QED BY <1>1, LeaseInductive, PTL DEF Spec, OverIsFinal

\* A step of one holder to a state that may not execute, or no step of a lease, keeps
\* what is known of the leases that may.
LEMMA HeldKeeps ==
  ASSUME TypeOK, HeldOnLedger, ConsumedAlone,
         \A h \in Holders : lease'[h] = lease[h] \/ lease'[h].state \notin {"RESERVED", "CONSUMED"}
                           \/ (/\ lease[h].state \in {"RESERVED", "CONSUMED"}
                               /\ lease'[h].decision = lease[h].decision),
         ledger' = ledger \/ restores' # 0, spent' = spent, restores' = 0 => restores = 0
  PROVE  HeldOnLedger' /\ ConsumedAlone'
<1>1. \A h \in Holders : lease'[h].state \in {"RESERVED", "CONSUMED"} =>
        /\ lease[h].state \in {"RESERVED", "CONSUMED"}
        /\ lease'[h].decision = lease[h].decision
  OBVIOUS
<1>2. HeldOnLedger'
  BY <1>1 DEF HeldOnLedger
<1>3. ConsumedAlone'
  BY <1>1 DEF ConsumedAlone, Shares
<1> QED BY <1>2, <1>3

\* A reservation of h: Free keeps its identity and nonce apart from those of every other
\* lease on the ledger.
LEMMA ReserveAlone ==
  ASSUME TypeOK, HeldOnLedger, ConsumedAlone, NEW h \in Holders, reserve(h)
  PROVE  HeldOnLedger' /\ ConsumedAlone'
<1> DEFINE d == lease[h].decision
           x == [identity |-> d.identity, nonce |-> d.nonce, version |-> ledger.version + 1, holder |-> h]
<1>0. lease \in [Holders -> [state : States, decision : Decisions, read : Nat]]
  BY DEF TypeOK
<1>1. CASE ~MayReserve(lease[h])
  <2>1. /\ \A g \in Holders : lease'[g] = lease[g] \/ lease'[g].state \notin {"RESERVED", "CONSUMED"}
        /\ ledger' = ledger /\ spent' = spent /\ restores' = restores
    BY <1>0, <1>1 DEF reserve
  <2> QED BY <2>1, HeldKeeps
<1>2. CASE MayReserve(lease[h])
  <2>1. /\ spent' = Append(spent, x) /\ restores' = restores
        /\ ledger'.decisions = ledger.decisions \cup {d.identity}
        /\ ledger'.nonces = ledger.nonces \cup {d.nonce}
        /\ lease' = [lease EXCEPT ![h].state = "RESERVED"]
        /\ d.identity \notin ledger.decisions /\ d.nonce \notin ledger.nonces
    BY <1>2 DEF reserve, MayReserve, Free
  <2>2. /\ lease'[h].decision = d
        /\ \A g \in Holders \ {h} : lease'[g] = lease[g]
    BY <1>0, <2>1
  <2>3. x \in Spends /\ spent \in Seq(Spends)
    BY LeaseAssumption, <1>0 DEF TypeOK, Ledgers, Spends
  <2>4. /\ DOMAIN spent' = DOMAIN spent \cup {Len(spent) + 1}
        /\ spent'[Len(spent) + 1] = x
        /\ \A i \in DOMAIN spent : spent'[i] = spent[i]
    BY <2>1, <2>3, SpentGrows
  <2>5. HeldOnLedger'
    BY <2>1, <2>2 DEF HeldOnLedger
  <2>6. restores = 0 => \A g \in Holders \ {h} :
          lease[g].state \in {"RESERVED", "CONSUMED"} => ~Shares(lease[g].decision, d)
    BY <2>1 DEF HeldOnLedger, Shares
  <2>7. ASSUME NEW g \in Holders, lease'[g].state \in {"RESERVED", "CONSUMED"}
        PROVE  \E i \in DOMAIN spent' : /\ spent'[i].holder = g
                                        /\ spent'[i].identity = lease'[g].decision.identity
                                        /\ spent'[i].nonce = lease'[g].decision.nonce
    <3>1. CASE g = h
      BY <2>2, <2>4, <3>1
    <3>2. CASE g # h
      <4>1. PICK i \in DOMAIN spent : /\ spent[i].holder = g
                                      /\ spent[i].identity = lease[g].decision.identity
                                      /\ spent[i].nonce = lease[g].decision.nonce
        BY <2>2, <2>7, <3>2 DEF ConsumedAlone
      <4> QED BY <2>2, <2>4, <3>2, <4>1
    <3> QED BY <3>1, <3>2
  <2>8. ASSUME NEW g \in Holders, NEW k \in Holders \ {g}, restores = 0,
               lease'[g].state \in {"RESERVED", "CONSUMED"}, lease'[k].state \in {"RESERVED", "CONSUMED"}
        PROVE  ~Shares(lease'[k].decision, lease'[g].decision)
    <3>1. CASE g = h
      BY <2>2, <2>6, <2>8, <3>1
    <3>2. CASE k = h
      BY <2>2, <2>6, <2>8, <3>2 DEF Shares
    <3>3. CASE g # h /\ k # h
      BY <2>2, <2>8, <3>3 DEF ConsumedAlone
    <3> QED BY <3>1, <3>2, <3>3
  <2>9. ConsumedAlone'
    BY <2>1, <2>7, <2>8 DEF ConsumedAlone, Shares
  <2> QED BY <2>5, <2>9
<1> QED BY <1>1, <1>2

\* reserve() and transition(): a lease that may execute rests on a reservation of its own
\* holder, and, the ledger never having been put back, it is alone on its identity and nonce.
THEOREM LeaseConsumedAlone == Spec => []ConsumedAlone
<1>1. Init => HeldOnLedger /\ ConsumedAlone
  BY DEF Init, HeldOnLedger, ConsumedAlone
<1>2. LeaseInv /\ HeldOnLedger /\ ConsumedAlone /\ [Next]_vars => HeldOnLedger' /\ ConsumedAlone'
  <2> SUFFICES ASSUME LeaseInv, HeldOnLedger, ConsumedAlone, [Next]_vars
               PROVE  HeldOnLedger' /\ ConsumedAlone'
    OBVIOUS
  <2>1. TypeOK /\ lease \in [Holders -> [state : States, decision : Decisions, read : Nat]]
    BY DEF LeaseInv, TypeOK
  <2>2. ASSUME NEW h \in Holders, reserve(h) PROVE HeldOnLedger' /\ ConsumedAlone'
    BY <2>1, <2>2, ReserveAlone
  <2>3. ASSUME NEW h \in Holders, NEW d \in Decisions, verify_fixture(h, d)
        PROVE  HeldOnLedger' /\ ConsumedAlone'
    <3>1. /\ \A g \in Holders : lease'[g] = lease[g] \/ lease'[g].state \notin {"RESERVED", "CONSUMED"}
          /\ ledger' = ledger /\ spent' = spent /\ restores' = restores
      BY <2>1, <2>3 DEF verify_fixture, Result
    <3> QED BY <2>1, <3>1, HeldKeeps
  <2>4. ASSUME NEW h \in Holders, NEW t \in States, transition(h, t)
        PROVE  HeldOnLedger' /\ ConsumedAlone'
    <3>1. lease[h].state \in States /\ t \in Allowed[lease[h].state]
      BY <2>1, <2>4 DEF transition
    <3>2. t \in {"RESERVED", "CONSUMED"} => lease[h].state \in {"RESERVED", "CONSUMED"}
      BY <3>1 DEF Allowed, States, Over
    <3>3. /\ lease'[h].state = t /\ lease'[h].decision = lease[h].decision
          /\ \A g \in Holders \ {h} : lease'[g] = lease[g]
          /\ ledger' = ledger /\ spent' = spent /\ restores' = restores
      BY <2>1, <2>4 DEF transition
    <3> QED BY <2>1, <3>2, <3>3, HeldKeeps
  <2>5. ASSUME NEW h \in Holders, crash(h) PROVE HeldOnLedger' /\ ConsumedAlone'
    <3>1. /\ \A g \in Holders : lease'[g] = lease[g] \/ lease'[g].state \notin {"RESERVED", "CONSUMED"}
          /\ ledger' = ledger /\ spent' = spent /\ restores' = restores
      BY <2>1, <2>5 DEF crash
    <3> QED BY <2>1, <3>1, HeldKeeps
  <2>6. ASSUME Checkpoint \/ Copy \/ Revoke \/ SetClock \/ UNCHANGED vars
        PROVE  HeldOnLedger' /\ ConsumedAlone'
    <3>1. lease' = lease /\ ledger' = ledger /\ spent' = spent /\ restores' = restores
      BY <2>6 DEF Checkpoint, Copy, Revoke, SetClock, vars
    <3> QED BY <2>1, <3>1, HeldKeeps
  <2>7. ASSUME Restore PROVE HeldOnLedger' /\ ConsumedAlone'
    <3>1. restores \in Nat
      BY DEF LeaseInv, TypeOK
    <3>2. lease' = lease /\ spent' = spent /\ restores' = restores + 1 /\ restores' # 0
      BY <2>7, <3>1 DEF Restore
    <3> QED BY <2>1, <3>2, HeldKeeps
  <2>8. CASE Next
    <3>1. ASSUME NEW h \in Holders, Hold(h) PROVE HeldOnLedger' /\ ConsumedAlone'
      BY <2>2, <2>3, <2>4, <2>5, <3>1 DEF Hold
    <3> QED BY <2>6, <2>7, <2>8, <3>1 DEF Next
  <2> QED BY <2>6, <2>8
<1> QED BY <1>1, <1>2, LeaseInductive, PTL DEF Spec

\* verify_fixture(), reserve() and transition() over a ledger that may be put back: what the
\* checkpoint covers stays spent, and a lease that may execute has its reservation to itself.
THEOREM LeaseIsSound == Spec => []LeaseSound
<1>1. LeaseInv /\ ConsumedAlone => LeaseSound
  BY DEF LeaseSound
<1> QED BY <1>1, LeaseInductive, LeaseConsumedAlone, PTL
-----------------------------------------------------------------------------
(***************************************************************************)
(* The verifier a lease relies on.  Between a thread's checks and its      *)
(* consumption clock and authority may change; what the invariant keeps is *)
(* what the thread established when it checked (Verified), for the calls   *)
(* in progress and for all consumptions of this process.                   *)
(***************************************************************************)
Verified(c) ==
  /\ c.raw \in Raw
  /\ c.raw = sign_fixture(c.raw, OwnerKey)
  /\ c.exact => c.raw.start <= c.time /\ c.time < c.raw.end
  /\ c.raw.id \notin c.revoked

CallsInv == /\ call = [t \in Threads |-> call[t]]
            /\ \A t \in Threads : call[t] = NoCall \/ (~call[t].idle /\ Verified(call[t]))

\* The authority carries every revocation made so far.
RevokedInv == authority.revoked_key \/ revocations \subseteq authority.revoked_decisions

\* The ledger is the identities and the nonces of what was accepted, each once.
LedgerOfInv ==
  /\ accepted = [i \in 1..Len(accepted) |-> accepted[i]] /\ Len(accepted) \in Nat
  /\ \A i \in 1..Len(accepted) : Verified(accepted[i])
  /\ ids = {accepted[i].raw.id : i \in 1..Len(accepted)}
  /\ nonces = {accepted[i].raw.nonce : i \in 1..Len(accepted)}
  /\ \A i, j \in 1..Len(accepted) : i # j => /\ accepted[i].raw.id # accepted[j].raw.id
                                             /\ accepted[i].raw.nonce # accepted[j].raw.nonce

ClockInv == time \in Instants /\ caller_clock \in FixtureClocks /\ authority \in FixtureAuthorities

TrustInv == ClockInv /\ CallsInv /\ RevokedInv /\ LedgerOfInv

\* What verify_fixture checked holds of the call, whatever the clock showed.
LEMMA ChecksVerify ==
  ASSUME ClockInv, RevokedInv, NEW raw \in Raw,
         verify_fixture_checks(raw, authority, caller_clock)
  PROVE  Verified([idle |-> FALSE, raw |-> raw, time |-> time,
                   exact |-> caller_clock.now - time \in -Uncertainty..Uncertainty,
                   revoked |-> revocations])
<1>1. raw \in SignedDecisions /\ Uncertainty \in Nat
  BY TrustAssumption
<1>2. raw = sign_fixture(raw, OwnerKey)
  BY <1>1 DEF verify_fixture_checks, parse, SignatureValid, payload, sign_fixture, SignedDecisions
<1>3. caller_clock.now - time \in -Uncertainty..Uncertainty => raw.start <= time /\ time < raw.end
  <2>1. raw.start \in Int /\ raw.end \in Int
    BY <1>1 DEF SignedDecisions
  <2>2. caller_clock.now \in Int /\ time \in Int
    BY DEF ClockInv, FixtureClocks, Instants
  <2>3. raw.start <= caller_clock.now - Uncertainty /\ caller_clock.now + Uncertainty < raw.end
    BY DEF verify_fixture_checks, TimeVerified
  <2> QED BY <1>1, <2>1, <2>2, <2>3
<1>4. raw.id \notin revocations
  BY DEF RevokedInv, verify_fixture_checks, NotRevoked
<1> DEFINE c == [idle |-> FALSE, raw |-> raw, time |-> time,
                 exact |-> caller_clock.now - time \in -Uncertainty..Uncertainty,
                 revoked |-> revocations]
<1>5. c.raw = raw /\ c.time = time /\ c.revoked = revocations
      /\ c.exact = (caller_clock.now - time \in -Uncertainty..Uncertainty)
  OBVIOUS
<1> HIDE DEF c
<1>6. Verified(c)
  BY <1>2, <1>3, <1>4, <1>5 DEF Verified
<1> QED BY <1>6 DEF c

LEMMA SubmitKeeps ==
  ASSUME TrustInv, NEW t \in Threads, NEW raw \in Raw, Submit(t, raw)
  PROVE  TrustInv'
<1>0. ClockInv /\ CallsInv /\ RevokedInv /\ LedgerOfInv
  BY DEF TrustInv
<1> DEFINE c == [idle |-> FALSE, raw |-> raw, time |-> time,
                 exact |-> caller_clock.now - time \in -Uncertainty..Uncertainty,
                 revoked |-> revocations]
<1>1. Verified(c) /\ ~c.idle
  BY <1>0, ChecksVerify DEF Submit
<1>2. call' = [call EXCEPT ![t] = c]
      /\ UNCHANGED <<time, caller_clock, authority, ids, nonces, accepted, revocations>>
  BY DEF Submit
<1> HIDE DEF c
<1>3. CallsInv'
  <2>1. call' = [s \in Threads |-> call'[s]]
    BY <1>0, <1>2 DEF CallsInv
  <2>2. \A s \in Threads : call'[s] = IF s = t THEN c ELSE call[s]
    BY <1>0, <1>2 DEF CallsInv
  <2>3. \A s \in Threads : call'[s] = NoCall \/ (~call'[s].idle /\ Verified(call'[s]))
    BY <1>0, <1>1, <2>2 DEF CallsInv
  <2> QED BY <2>1, <2>3 DEF CallsInv, Verified
<1>4. ClockInv' /\ RevokedInv'
  BY <1>0, <1>2 DEF ClockInv, RevokedInv
<1>5. LedgerOfInv'
  BY <1>0, <1>2 DEF LedgerOfInv
<1> QED BY <1>3, <1>4, <1>5 DEF TrustInv

\* What Append does to the history of consumptions.
LEMMA AcceptedGrows ==
  ASSUME NEW s, NEW c, NEW S, s \in Seq(S), c \in S
  PROVE  /\ Len(Append(s, c)) = Len(s) + 1 /\ DOMAIN Append(s, c) = 1..(Len(s) + 1)
         /\ Append(s, c)[Len(s) + 1] = c
         /\ \A i \in 1..Len(s) : Append(s, c)[i] = s[i]
         /\ Append(s, c) = [i \in 1..(Len(s) + 1) |-> Append(s, c)[i]]
<1>1. Append(s, c) \in Seq(S) /\ Len(Append(s, c)) = Len(s) + 1 /\ Len(s) \in Nat
  OBVIOUS
<1>2. DOMAIN Append(s, c) = 1..(Len(s) + 1)
  BY <1>1
<1>3. Append(s, c)[Len(s) + 1] = c /\ \A i \in 1..Len(s) : Append(s, c)[i] = s[i]
  OBVIOUS
<1>4. Append(s, c) \in [1..(Len(s) + 1) -> S]
  BY <1>1, LenProperties
<1> QED BY <1>1, <1>2, <1>3, <1>4

\* Checked and entered under one lock: neither the identity nor the nonce is there yet.
LEMMA ConsumeKeeps ==
  ASSUME TrustInv, NEW t \in Threads, consume(t)
  PROVE  TrustInv'
<1>0. ClockInv /\ CallsInv /\ RevokedInv /\ LedgerOfInv
  BY DEF TrustInv
<1> DEFINE c == call[t]
           n == Len(accepted)
<1>1. ~c.idle /\ call' = [call EXCEPT ![t] = NoCall]
      /\ UNCHANGED <<time, caller_clock, authority, revocations>>
  BY DEF consume
<1>2. Verified(c)
  BY <1>0, <1>1 DEF CallsInv, NoCall
<1>3. CallsInv'
  <2>1. call' = [s \in Threads |-> call'[s]]
    BY <1>0, <1>1 DEF CallsInv
  <2>2. \A s \in Threads : call'[s] = IF s = t THEN NoCall ELSE call[s]
    BY <1>0, <1>1 DEF CallsInv
  <2>3. \A s \in Threads : call'[s] = NoCall \/ (~call'[s].idle /\ Verified(call'[s]))
    BY <1>0, <2>2 DEF CallsInv
  <2> QED BY <2>1, <2>3 DEF CallsInv, Verified
<1>4. ClockInv' /\ RevokedInv'
  BY <1>0, <1>1 DEF ClockInv, RevokedInv
<1>5. LedgerOfInv'
  <2>1. CASE UNCHANGED <<ids, nonces, accepted>>
    BY <1>0, <2>1 DEF LedgerOfInv
  <2>2. CASE /\ c.raw.id \notin ids /\ c.raw.nonce \notin nonces
             /\ ids' = ids \cup {c.raw.id} /\ nonces' = nonces \cup {c.raw.nonce}
             /\ accepted' = Append(accepted, c)
    <3>1. n \in Nat /\ DOMAIN accepted = 1..n
      BY <1>0 DEF LedgerOfInv
    <3>2. accepted \in Seq({accepted[i] : i \in 1..n} \cup {c})
      BY <1>0, <3>1 DEF LedgerOfInv
    <3>3. /\ Len(accepted') = n + 1 /\ DOMAIN accepted' = 1..(n + 1)
          /\ accepted'[n + 1] = c /\ \A i \in 1..n : accepted'[i] = accepted[i]
          /\ accepted' = [i \in 1..(n + 1) |-> accepted'[i]]
      BY <2>2, <3>2, AcceptedGrows
    <3> HIDE DEF c, n
    <3>4. \A i \in 1..(n + 1) : i \in 1..n \/ i = n + 1
      BY <3>1
    <3>5. 1..n \subseteq 1..(n + 1) /\ n + 1 \in 1..(n + 1) /\ n + 1 \in Nat
      BY <3>1
    <3>6. /\ \A i \in 1..n : Verified(accepted[i])
          /\ ids = {accepted[i].raw.id : i \in 1..n}
          /\ nonces = {accepted[i].raw.nonce : i \in 1..n}
          /\ \A i, j \in 1..n : i # j => /\ accepted[i].raw.id # accepted[j].raw.id
                                         /\ accepted[i].raw.nonce # accepted[j].raw.nonce
      BY <1>0 DEF LedgerOfInv, n
    <3>7. \A i \in 1..(n + 1) : Verified(accepted'[i])
      BY <1>2, <3>3, <3>4, <3>6
    <3>8. ids' = {accepted'[i].raw.id : i \in 1..(n + 1)}
      BY <2>2, <3>3, <3>4, <3>5, <3>6
    <3>9. nonces' = {accepted'[i].raw.nonce : i \in 1..(n + 1)}
      BY <2>2, <3>3, <3>4, <3>5, <3>6
    <3>10. \A i \in 1..n : accepted[i].raw.id # c.raw.id /\ accepted[i].raw.nonce # c.raw.nonce
      BY <2>2, <3>6
    <3>11. \A i, j \in 1..(n + 1) : i # j => /\ accepted'[i].raw.id # accepted'[j].raw.id
                                             /\ accepted'[i].raw.nonce # accepted'[j].raw.nonce
      BY <3>3, <3>4, <3>6, <3>10
    <3>12. \A i \in 1..(n + 1) : Verified(accepted[i])' <=> Verified(accepted'[i])
      BY DEF Verified
    <3> QED BY <3>3, <3>5, <3>7, <3>8, <3>9, <3>11, <3>12 DEF LedgerOfInv
  <2> QED BY <2>1, <2>2 DEF consume
<1> QED BY <1>3, <1>4, <1>5 DEF TrustInv

LEMMA SurroundingsKeep ==
  ASSUME TrustInv, Tick \/ ClockFault \/ RevokeDecision \/ Restart \/ UNCHANGED trustVars
  PROVE  TrustInv'
<1>0. ClockInv /\ CallsInv /\ RevokedInv /\ LedgerOfInv
  BY DEF TrustInv
<1>1. ASSUME UNCHANGED <<call, ids, nonces, accepted>> PROVE CallsInv' /\ LedgerOfInv'
  BY <1>0, <1>1 DEF CallsInv, LedgerOfInv, Verified
<1>2. CASE Tick
  <2>1. PICK n \in Instants :
          caller_clock' = [caller_clock EXCEPT !.now = n, !.prior_checkpoint = caller_clock.now]
    BY <1>2 DEF Tick
  <2>2. caller_clock' \in FixtureClocks
    BY <1>0, <2>1 DEF ClockInv, FixtureClocks
  <2>3. time' \in Instants
    <3>1. time \in 0..Horizon /\ time < Horizon /\ time' = time + 1
      BY <1>0, <1>2 DEF Tick, ClockInv, Instants
    <3>2. Horizon \in Nat
      BY TrustAssumption
    <3> QED BY <3>1, <3>2 DEF Instants
  <2>4. ClockInv' /\ RevokedInv'
    BY <1>0, <1>2, <2>2, <2>3 DEF Tick, ClockInv, RevokedInv, Instants, FixtureClocks, FixtureAuthorities
  <2> QED BY <1>1, <1>2, <2>4 DEF TrustInv, Tick
<1>3. CASE ClockFault
  <2>1. PICK n \in Instants, e \in BOOLEAN :
          caller_clock' = [caller_clock EXCEPT !.now = n, !.evidence = e]
    BY <1>3 DEF ClockFault
  <2>2. caller_clock' \in FixtureClocks
    BY <1>0, <2>1 DEF ClockInv, FixtureClocks
  <2>3. ClockInv' /\ RevokedInv'
    BY <1>0, <1>3, <2>2 DEF ClockFault, ClockInv, RevokedInv, Instants, FixtureClocks, FixtureAuthorities
  <2> QED BY <1>1, <1>3, <2>3 DEF TrustInv, ClockFault
<1>4. CASE RevokeDecision
  <2>1. ASSUME NEW id \in RevocableIds,
               authority' = [authority EXCEPT !.revoked_decisions = @ \cup {id}],
               revocations' = revocations \cup {id}
        PROVE  authority' \in FixtureAuthorities /\ RevokedInv'
    BY <1>0, <2>1, TrustAssumption DEF ClockInv, FixtureAuthorities, RevokedInv
  <2>2. ASSUME authority' = [authority EXCEPT !.revoked_key = TRUE]
        PROVE  authority' \in FixtureAuthorities /\ RevokedInv'
    BY <1>0, <2>2 DEF ClockInv, FixtureAuthorities, RevokedInv
  <2>3. authority' \in FixtureAuthorities /\ RevokedInv'
    BY <1>4, <2>1, <2>2 DEF RevokeDecision
  <2>4. ClockInv'
    BY <1>0, <1>4, <2>3 DEF RevokeDecision, ClockInv, Instants, FixtureClocks, FixtureAuthorities
  <2> QED BY <1>1, <1>4, <2>3, <2>4 DEF TrustInv, RevokeDecision
<1>5. CASE Restart
  <2>1. ids' = {} /\ nonces' = {} /\ accepted' = <<>> /\ call' = [t \in Threads |-> NoCall]
        /\ UNCHANGED <<time, caller_clock, authority, revocations>>
    BY <1>5 DEF Restart
  <2>2. CallsInv'
    BY <2>1 DEF CallsInv, NoCall
  <2>3. LedgerOfInv'
    <3>1. Len(accepted') = 0 /\ 1..Len(accepted') = {}
      BY <2>1
    <3>2. accepted' = [i \in 1..Len(accepted') |-> accepted'[i]]
      BY <2>1, <3>1
    <3> QED BY <2>1, <3>1, <3>2 DEF LedgerOfInv
  <2>4. ClockInv' /\ RevokedInv'
    BY <1>0, <2>1 DEF ClockInv, RevokedInv
  <2> QED BY <2>2, <2>3, <2>4 DEF TrustInv
<1>6. CASE UNCHANGED trustVars
  <2>1. ClockInv' /\ RevokedInv'
    BY <1>0, <1>6 DEF trustVars, ClockInv, RevokedInv
  <2> QED BY <1>1, <1>6, <2>1 DEF TrustInv, trustVars
<1> QED BY <1>2, <1>3, <1>4, <1>5, <1>6

LEMMA TrustInvInit == TrustInit => TrustInv
<1> SUFFICES ASSUME TrustInit PROVE TrustInv
  OBVIOUS
<1>1. ClockInv
  BY TrustAssumption DEF TrustInit, ClockInv, Instants, FixtureClocks, FixtureAuthorities
<1>2. CallsInv /\ RevokedInv
  BY DEF TrustInit, CallsInv, RevokedInv, NoCall
<1>3. LedgerOfInv
  <2>1. accepted = <<>> /\ Len(accepted) = 0 /\ 1..Len(accepted) = {}
    BY DEF TrustInit
  <2>2. accepted = [i \in 1..Len(accepted) |-> accepted[i]]
    BY <2>1
  <2> QED BY <2>1, <2>2 DEF LedgerOfInv, TrustInit
<1> QED BY <1>1, <1>2, <1>3 DEF TrustInv

LEMMA TrustInvSound == TrustInv => TrustSound
<1> SUFFICES ASSUME TrustInv PROVE TrustSound
  OBVIOUS
<1>0. ClockInv /\ CallsInv /\ LedgerOfInv
  BY DEF TrustInv
<1>1. DOMAIN accepted = 1..Len(accepted) /\ \A i \in DOMAIN accepted : Verified(accepted[i])
  BY <1>0 DEF LedgerOfInv
<1>2. TrustTypeOK
  <2>1. \A t \in Threads : ~call[t].idle => call[t].raw \in SignedDecisions
    BY <1>0, TrustAssumption DEF CallsInv, NoCall, Verified
  <2>2. ids = {accepted[i].raw.id : i \in DOMAIN accepted}
        /\ nonces = {accepted[i].raw.nonce : i \in DOMAIN accepted}
    BY <1>0, <1>1 DEF LedgerOfInv
  <2>3. ids \subseteq {r.id : r \in Raw} /\ nonces \subseteq {r.nonce : r \in Raw}
    BY <1>1, <2>2 DEF Verified
  <2> QED BY <1>0, <2>1, <2>2, <2>3 DEF TrustTypeOK, ClockInv
<1>3. ConsumedOnce
  BY <1>0, <1>1 DEF LedgerOfInv, ConsumedOnce
<1>4. OnlySignedContents /\ VerifiedInWindow /\ RevokedNotConsumed
  BY <1>1 DEF Verified, OnlySignedContents, VerifiedInWindow, RevokedNotConsumed
<1> QED BY <1>2, <1>3, <1>4 DEF TrustSound

\* However threads interleave, clocks fail and the authority changes between a thread's checks
\* and its consumption, for any set of decisions and any bounds: the fixture verifier consumes
\* no identity and no nonce twice in one process, only what the enrolled key signed, verified
\* inside its window and not revoked at that time (phase1444b verify_fixture,
\* VolatileFixtureLedger.consume).
THEOREM TrustIsSound == TrustSpec => []TrustSound
<1>1. TrustInv /\ [TrustNext]_trustVars => TrustInv'
  BY SubmitKeeps, ConsumeKeeps, SurroundingsKeep DEF TrustNext
<1>2. TrustSpec => []TrustInv
  BY <1>1, TrustInvInit, PTL DEF TrustSpec
<1> QED BY <1>2, TrustInvSound, PTL

=============================================================================
