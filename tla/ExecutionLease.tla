--------------------------- MODULE ExecutionLease ---------------------------
(***************************************************************************)
(* phase1444ej/enforcement.py: a lease on one execution, from a decision   *)
(* that names an identity and a nonce.  A holder verifies the decision     *)
(* against the ledger it reads, reserves with a compare-and-swap on the    *)
(* ledger's version, and consumes.  What the reservation recorded is never *)
(* taken back: a crash aborts the lease and leaves the ledger alone.       *)
(*                                                                         *)
(* The code states the ledger as an immutable value; here it is the value  *)
(* the holders share.  It may be put back to an earlier copy; the          *)
(* checkpoint, kept apart, is what verify and reserve hold against that.   *)
(***************************************************************************)
EXTENDS Integers, Sequences, FiniteSets

CONSTANTS
  Holders,
  Identities, Nonces,
  Decisions,          \* [identity, nonce, from, till, sound]
  Revocable,          \* decisions that may be withdrawn
  MaxTime, MaxJump,   \* MaxJump: how far a clock may run ahead of its last reading
  MaxLeases, MaxRestores

ASSUME LeaseAssumption ==
  /\ Decisions \subseteq [identity : Identities, nonce : Nonces, from : Nat, till : Nat,
                          sound : BOOLEAN]
  /\ Revocable \subseteq Decisions
  /\ MaxTime \in Nat /\ MaxJump \in Nat /\ MaxLeases \in Nat /\ MaxRestores \in Nat

VARIABLES
  ledger,       \* [version, decisions, nonces]
  checkpoint,   \* checkpoint_version
  copies,       \* earlier values of the ledger
  lease,        \* per holder: [state, decision, read]; read is the version it verified on
  revoked,      \* decisions withdrawn
  clock, seen,  \* the time, and per holder the time it read last
  spent,        \* every successful reserve: [identity, nonce, version, holder]
  durable,      \* numbers of the reservations some checkpoint covered
  restores

vars == <<ledger, checkpoint, copies, lease, revoked, clock, seen, spent, durable, restores>>

States == {"PENDING", "VERIFIED", "RESERVED", "CONSUMED", "EXPIRED", "REVOKED", "REJECTED", "ABORTED"}
Over == {"EXPIRED", "REVOKED", "REJECTED", "ABORTED"}

EmptyLedger == [version |-> 0, decisions |-> {}, nonces |-> {}]
Ledgers == [version : Nat, decisions : SUBSET Identities, nonces : SUBSET Nonces]

Free(d) == d.identity \notin ledger.decisions /\ d.nonce \notin ledger.nonces

\* verify_fixture, the requires in their order; sound stands for the ones that compare the
\* decision with the expected one and look at its own fields, and for the usage limits.
Result(d, h) ==
  IF ~d.sound THEN "REJECTED"
  ELSE IF d \in revoked THEN "REVOKED"
  ELSE IF clock >= d.till THEN "EXPIRED"
  ELSE IF clock < d.from \/ clock < seen[h] \/ clock - seen[h] > MaxJump THEN "REJECTED"
  ELSE IF ledger.version < checkpoint \/ ~Free(d) THEN "REJECTED"
  ELSE "VERIFIED"

verify_fixture(h, d) ==
  /\ lease[h].state = "PENDING" \/ lease[h].state \in Over
  /\ Len(spent) < MaxLeases
  /\ lease' = [lease EXCEPT ![h] = [state |-> Result(d, h), decision |-> d, read |-> ledger.version]]
  /\ seen' = [seen EXCEPT ![h] = clock]
  /\ UNCHANGED <<ledger, checkpoint, copies, revoked, clock, spent, durable, restores>>

\* Mutant of MayReserve: a ledger older than the checkpoint is accepted.
MayReserveOld(l) == l.state = "VERIFIED" /\ ledger.version = l.read /\ Free(l.decision)

MayReserve(l) ==
  /\ l.state = "VERIFIED"
  /\ ledger.version = l.read
  /\ ledger.version >= checkpoint
  /\ Free(l.decision)

reserve(h) ==
  LET d == lease[h].decision IN
  /\ lease[h].state \in {"VERIFIED"}
  /\ IF MayReserve(lease[h])
     THEN /\ lease' = [lease EXCEPT ![h].state = "RESERVED"]
          /\ ledger' = [version |-> ledger.version + 1,
                        decisions |-> ledger.decisions \cup {d.identity},
                        nonces |-> ledger.nonces \cup {d.nonce}]
          /\ spent' = Append(spent, [identity |-> d.identity, nonce |-> d.nonce,
                                     version |-> ledger.version + 1, holder |-> h])
     ELSE /\ lease' = [lease EXCEPT ![h].state = "REJECTED"]
          /\ UNCHANGED <<ledger, spent>>
  /\ UNCHANGED <<checkpoint, copies, revoked, clock, seen, durable, restores>>

\* Mutant of Allowed: a consumed lease may go back to reserved.
AllowedAgain ==
  [PENDING |-> Over, VERIFIED |-> Over, RESERVED |-> {"CONSUMED", "EXPIRED", "REVOKED", "ABORTED"},
   CONSUMED |-> {"RESERVED", "ABORTED", "REVOKED"},
   EXPIRED |-> {}, REVOKED |-> {}, REJECTED |-> {}, ABORTED |-> {}]

\* The table of transition().
Allowed ==
  [PENDING  |-> Over,
   VERIFIED |-> Over,
   RESERVED |-> {"CONSUMED", "EXPIRED", "REVOKED", "ABORTED"},
   CONSUMED |-> {"ABORTED", "REVOKED"},
   EXPIRED |-> {}, REVOKED |-> {}, REJECTED |-> {}, ABORTED |-> {}]

\* critical_revalidated: the caller has looked at the decision again.
Revalidated(h) == lease[h].decision \notin revoked /\ clock < lease[h].decision.till

transition(h, target) ==
  /\ target \in Allowed[lease[h].state]
  /\ target = "CONSUMED" => Revalidated(h)
  /\ lease' = [lease EXCEPT ![h].state = target]
  /\ UNCHANGED <<ledger, checkpoint, copies, revoked, clock, seen, spent, durable, restores>>

crash(h) ==
  /\ lease[h].state \notin Over
  /\ lease' = [lease EXCEPT ![h].state = "ABORTED"]
  /\ UNCHANGED <<ledger, checkpoint, copies, revoked, clock, seen, spent, durable, restores>>

(***************************************************************************)
(* The surroundings, which the code takes as inputs.                       *)
(***************************************************************************)
Shares(x, y) == x.identity = y.identity \/ x.nonce = y.nonce

\* The reservations the ledger still shows: recorded there and not reserved anew since.
OnLedger ==
  {i \in DOMAIN spent :
     /\ spent[i].identity \in ledger.decisions /\ spent[i].nonce \in ledger.nonces
     /\ \A j \in DOMAIN spent : i < j => ~Shares(spent[i], spent[j])}

\* The version reached is recorded where the ledger cannot be put back.
Checkpoint ==
  /\ checkpoint < ledger.version
  /\ checkpoint' = ledger.version
  /\ durable' = durable \cup OnLedger
  /\ UNCHANGED <<ledger, copies, lease, revoked, clock, seen, spent, restores>>

\* A copy of the ledger is kept; putting one back discards the copies made after it.
Copy ==
  /\ restores < MaxRestores /\ ledger \notin copies
  /\ copies' = copies \cup {ledger}
  /\ UNCHANGED <<ledger, checkpoint, lease, revoked, clock, seen, spent, durable, restores>>

Restore ==
  /\ restores < MaxRestores
  /\ \E c \in copies :
       /\ c # ledger
       /\ ledger' = c
       /\ copies' = {x \in copies : x.version <= c.version}
  /\ restores' = restores + 1
  /\ UNCHANGED <<checkpoint, lease, revoked, clock, seen, spent, durable>>

Revoke ==
  /\ \E d \in Revocable \ revoked : revoked' = revoked \cup {d}
  /\ UNCHANGED <<ledger, checkpoint, copies, lease, clock, seen, spent, durable, restores>>

\* A clock may jump ahead and be set back.
SetClock ==
  /\ clock' \in 0..MaxTime
  /\ UNCHANGED <<ledger, checkpoint, copies, lease, revoked, seen, spent, durable, restores>>

Init ==
  /\ ledger = EmptyLedger /\ checkpoint = 0 /\ copies = {}
  /\ \E d \in Decisions :
       lease = [h \in Holders |-> [state |-> "PENDING", decision |-> d, read |-> 0]]
  /\ revoked = {} /\ clock = 0 /\ seen = [h \in Holders |-> 0]
  /\ spent = <<>> /\ durable = {} /\ restores = 0

Hold(h) ==
  \/ \E d \in Decisions : verify_fixture(h, d)
  \/ reserve(h)
  \/ \E t \in States : transition(h, t)
  \/ crash(h)

Next ==
  \/ \E h \in Holders : Hold(h)
  \/ Checkpoint \/ Copy \/ Restore \/ Revoke \/ SetClock

Spec == Init /\ [][Next]_vars

-----------------------------------------------------------------------------
Spends == [identity : Identities, nonce : Nonces, version : Nat, holder : Holders]

\* Types, and the checkpoint never names a version no reservation reached.
TypeOK ==
  /\ ledger \in Ledgers
  /\ checkpoint \in Nat
  /\ copies \subseteq Ledgers
  /\ lease \in [Holders -> [state : States, decision : Decisions, read : Nat]]
  /\ revoked \subseteq Decisions
  /\ clock \in Nat /\ seen \in [Holders -> Nat]
  /\ spent \in Seq(Spends)
  /\ durable \subseteq DOMAIN spent
  /\ restores \in Nat

\* An identity or a nonce whose reservation a checkpoint has covered is never reserved
\* again: not by a holder that verified earlier, not after a crash, and not when the
\* ledger is put back to a copy without it.
DurableNeverReissued ==
  \A i, j \in DOMAIN spent : i < j /\ Shares(spent[i], spent[j]) => i \notin durable

\* A lease that may execute rests on a reservation its own holder made, and it is the only
\* such lease on that identity and nonce unless the ledger was put back.
ConsumedAlone ==
  \A h \in Holders : lease[h].state \in {"RESERVED", "CONSUMED"} =>
    /\ \E i \in DOMAIN spent :
         /\ spent[i].holder = h
         /\ spent[i].identity = lease[h].decision.identity
         /\ spent[i].nonce = lease[h].decision.nonce
    /\ restores = 0 =>
         \A g \in Holders \ {h} : lease[g].state \in {"RESERVED", "CONSUMED"} =>
           ~Shares(lease[g].decision, lease[h].decision)

\* A lease that is over stays over until its holder verifies a decision again; and what is
\* consumed can only be given up, never reserved or consumed a second time.
OverIsFinal ==
  [][\A h \in Holders :
       /\ lease[h].state \in Over /\ lease'[h] # lease[h]
            => lease'[h].state \in {"VERIFIED"} \cup Over /\ spent' = spent
       /\ lease[h].state = "CONSUMED" /\ lease'[h] # lease[h] => lease'[h].state \in Over]_vars

(***************************************************************************)
(* The inductive invariant behind DurableNeverReissued.                    *)
(***************************************************************************)

\* A ledger at or past the checkpoint holds every durable reservation; one before it is
\* refused by verify and reserve.
Holds(l) == \A i \in durable : spent[i].identity \in l.decisions /\ spent[i].nonce \in l.nonces

DurableOnLedger ==
  /\ checkpoint <= ledger.version => Holds(ledger)
  /\ \A c \in copies : checkpoint <= c.version => Holds(c)

\* Copies are earlier values of this ledger, those of one version are equal.
CopiesAreEarlier ==
  /\ \A c \in copies :
       /\ c.version <= ledger.version
       /\ c.version = ledger.version => c = ledger
  /\ \A c, e \in copies : c.version = e.version => c = e

\* While the ledger has not been put back it shows every lease that may execute.
HeldOnLedger ==
  restores = 0 =>
    \A h \in Holders : lease[h].state \in {"RESERVED", "CONSUMED"} =>
      /\ lease[h].decision.identity \in ledger.decisions
      /\ lease[h].decision.nonce \in ledger.nonces

LeaseInv == TypeOK /\ DurableOnLedger /\ CopiesAreEarlier /\ DurableNeverReissued

\* What a checkpoint covers is never reserved again, whatever ledger is put back, and a lease
\* that may execute is alone on its identity and nonce.
LeaseSound == LeaseInv /\ ConsumedAlone

=============================================================================
