-------------------------- MODULE RecoveryAuthority --------------------------
(***************************************************************************)
(* phase1426/authority.py, Authority: one-use approvals of a recovery.     *)
(* An approval is consumed durably, in a local directory and in a witness  *)
(* outside it, before the recovery it allows is run; there is no retry and *)
(* no repair.  Several processes call recover(); each may raise, be        *)
(* interrupted or be killed between any two writes, and the local          *)
(* directory may be put back to an earlier copy at any time.  The witness  *)
(* is assumed to survive, as the policy of the code states.                *)
(*                                                                         *)
(* A witness row is [state, spent, status]; an approval is                 *)
(*   [request, identity, matter, head, from, till]                         *)
(* matter stands for the incident and the evidence the approval is bound   *)
(* to.  An approval's fingerprint is the approval itself.                  *)
(***************************************************************************)
EXTENDS WitnessLedger, Integers, FiniteSets

CONSTANTS
  Callers, Requests, Identities, Matters,
  Windows,            \* possible <<issued, expiry>>, relative to the time of issue
  Outcomes,           \* what the recovery action may do
  Limit,              \* records in the witness
  MaxTime, MaxIssues, MaxKills, MaxCopies, MaxRestores, MaxCalls

ASSUME AuthorityAssumption ==
  /\ Callers \cap {Nobody, Orphan} = {}
  /\ Windows \subseteq Int \X Int
  /\ {Limit, MaxTime, MaxIssues, MaxKills, MaxCopies, MaxRestores, MaxCalls} \subseteq Nat
  /\ Limit # 0
  /\ Outcomes \subseteq {"resumed", "halted", "cleared", "rolledback", "forked", "unbound", "raised"}

VARIABLES
  witness,     \* the directory witness/
  local,       \* the local directory: consumption files and pending names
  copies,      \* earlier copies of the local directory
  approvals,   \* approvals handed out
  trusted,     \* request -> the fingerprint the caller's configuration trusts
  call,        \* per caller: the call in progress
  clock,
  ran,         \* the recovery actions that were started, in order
  kills, restores, calls

vars == <<witness, local, copies, approvals, trusted, call, clock, ran, kills, restores, calls>>

NoApproval == [request |-> "none"]
Idle == [at |-> "idle"]

State == [event : Nat, journal : Nat, epoch : Nat, halt : BOOLEAN, last : {"none", "CONSUMED", "RESUME"}]
NoLocal == [exists |-> FALSE, files |-> {}, pending |-> {}]

Record(a) == [request |-> a.request, identity |-> a.identity, approval |-> a]

Values(s) == {s[i] : i \in DOMAIN s}

(***************************************************************************)
(* What a row may follow, and what the two directories must show together. *)
(***************************************************************************)

progress(old, new) ==
  /\ new.event >= old.event
  /\ new.epoch >= old.epoch
  /\ old.halt => new.halt
  /\ new.event = old.event => new.journal = old.journal

Extends(long, short) == Len(short) <= Len(long) /\ SubSeq(long, 1, Len(short)) = short

Distinct(f(_), s) == Cardinality({f(s[i]) : i \in DOMAIN s}) = Len(s)

current(w, l, head) ==
  /\ chain(w, head)
  /\ w.rows # <<>>
  /\ \A i \in 2..Len(w.rows) :
        /\ progress(w.rows[i-1].state, w.rows[i].state)
        /\ Extends(w.rows[i].spent, w.rows[i-1].spent)
  /\ LET spent == w.rows[Len(w.rows)].spent
     IN  /\ Distinct(LAMBDA r : r.request, spent)
         /\ Distinct(LAMBDA r : r.identity, spent)
         /\ l.pending = {}
         /\ l.files = Values(spent)

verify(w, l, head, observed) == current(w, l, head) /\ w.rows[Len(w.rows)].state = observed

NotSpent(a, spent) ==
  \A r \in Values(spent) : r.request # a.request /\ r.identity # a.identity /\ r.approval # a

\* Mutant of Accepted: an interrupted recovery may be tried again.
AcceptedAgain(k) ==
  LET last == witness.rows[Len(witness.rows)]
      a == k.approval
  IN  /\ verify(witness, local, k.head, k.observed)
      /\ trusted[a.request] = a
      /\ a.matter = k.matter /\ a.head = k.head
      /\ a.from <= k.now /\ k.now < a.till
      /\ NotSpent(a, last.spent)

\* Mutant of Accepted: an approval still counts at the instant it ends.
AcceptedAtTheEnd(k) ==
  LET last == witness.rows[Len(witness.rows)]
      a == k.approval
  IN  /\ verify(witness, local, k.head, k.observed)
      /\ last.status # "CONSUMED"
      /\ trusted[a.request] = a
      /\ a.matter = k.matter /\ a.head = k.head
      /\ a.from <= k.now /\ k.now <= a.till
      /\ NotSpent(a, last.spent)

\* Every require of recover() under the lock.
Accepted(k) ==
  LET last == witness.rows[Len(witness.rows)]
      a == k.approval
  IN  /\ verify(witness, local, k.head, k.observed)
      /\ last.status # "CONSUMED"
      /\ trusted[a.request] = a
      /\ a.matter = k.matter
      /\ a.head = k.head
      /\ a.from <= k.now /\ k.now < a.till
      /\ NotSpent(a, last.spent)

(***************************************************************************)
(* The steps of a call.                                                    *)
(***************************************************************************)
At(c, place) == call[c].at = place
Goto(c, place) == call' = [call EXCEPT ![c].at = place]
Leave(c) == call' = [call EXCEPT ![c] = Idle] /\ witness' = Disown(witness)

\* initialize(): refused when either directory exists already.  The local directory is
\* made first, the first record is published after it.
InitializeBegin(c) ==
  /\ At(c, "idle") /\ CanOwn(witness) /\ calls < MaxCalls
  /\ witness.rows = <<>> /\ ~witness.pending /\ ~local.exists
  /\ witness' = OwnedBy(witness, c)
  /\ local' = [NoLocal EXCEPT !.exists = TRUE]
  /\ call' = [call EXCEPT ![c] = [at |-> "initializing"]]
  /\ calls' = calls + 1
  /\ UNCHANGED <<copies, approvals, trusted, clock, ran, kills, restores>>

InitializePending(c) ==
  /\ At(c, "initializing") /\ ~witness.pending
  /\ witness' = WritePending(witness)
  /\ UNCHANGED <<local, copies, approvals, trusted, call, clock, ran, kills, restores, calls>>

InitializeEnd(c) ==
  /\ At(c, "initializing") /\ witness.pending
  /\ \E halt \in BOOLEAN :
       witness' = Disown(RenamePending(witness,
         [state |-> [event |-> 0, journal |-> 0, epoch |-> 0, halt |-> halt, last |-> "none"],
          spent |-> <<>>, status |-> "READY"]))
  /\ call' = [call EXCEPT ![c] = Idle]
  /\ UNCHANGED <<local, copies, approvals, trusted, clock, ran, kills, restores, calls>>

\* recover(): the caller names the head and the state it has seen, which may be old by
\* the time the lock is taken, and reads its clock before the call.
Call(c) ==
  /\ At(c, "idle") /\ calls < MaxCalls /\ witness.rows # <<>>
  /\ \E a \in approvals, i \in 1..Len(witness.rows), m \in Matters :
       call' = [call EXCEPT ![c] = [at |-> "called", approval |-> a, head |-> HeadOf(witness),
                                    observed |-> witness.rows[i].state, matter |-> m, now |-> clock]]
  /\ calls' = calls + 1
  /\ UNCHANGED <<witness, local, copies, approvals, trusted, clock, ran, kills, restores>>

Lock(c) ==
  /\ At(c, "called")
  /\ IF CanOwn(witness) THEN witness' = OwnedBy(witness, c) /\ Goto(c, "locked")
                        ELSE call' = [call EXCEPT ![c] = Idle] /\ UNCHANGED witness
  /\ UNCHANGED <<local, copies, approvals, trusted, clock, ran, kills, restores, calls>>

Validate(c) ==
  /\ At(c, "locked")
  /\ IF Accepted(call[c]) THEN Goto(c, "publishing") /\ UNCHANGED witness ELSE Leave(c)
  /\ UNCHANGED <<local, copies, approvals, trusted, clock, ran, kills, restores, calls>>

\* publish() of the local consumption file: a file of that name is accepted when its bytes
\* are these and refused otherwise; the pending file is opened exclusively.
PublishPending(c) ==
  LET r == Record(call[c].approval)
      same == {f \in local.files : f.identity = r.identity}
  IN  /\ At(c, "publishing")
      /\ \/ same = {r} /\ Goto(c, "recorded") /\ UNCHANGED <<local, witness>>
         \/ /\ same \notin {{}, {r}} \/ (same = {} /\ r.identity \in local.pending)
            /\ Leave(c) /\ UNCHANGED local
         \/ /\ same = {} /\ r.identity \notin local.pending
            /\ local' = [local EXCEPT !.pending = @ \cup {r.identity}, !.exists = TRUE]
            /\ Goto(c, "renaming") /\ UNCHANGED witness
      /\ UNCHANGED <<copies, approvals, trusted, clock, ran, kills, restores, calls>>

\* os.rename: fails when a restore has taken the pending file away.
PublishLocal(c) ==
  LET r == Record(call[c].approval) IN
  /\ At(c, "renaming")
  /\ IF r.identity \in local.pending
     THEN /\ local' = [local EXCEPT !.pending = @ \ {r.identity},
                                    !.files = {f \in @ : f.identity # r.identity} \cup {r}]
          /\ Goto(c, "recorded") /\ UNCHANGED witness
     ELSE Leave(c) /\ UNCHANGED local
  /\ UNCHANGED <<copies, approvals, trusted, clock, ran, kills, restores, calls>>

AppendPending(c) ==
  /\ call[c].at \in {"recorded", "returned"}
  /\ IF CanAppend(witness, Limit)
     THEN witness' = WritePending(witness)
          /\ Goto(c, IF At(c, "recorded") THEN "consuming" ELSE "completing")
     ELSE Leave(c)
  /\ UNCHANGED <<local, copies, approvals, trusted, clock, ran, kills, restores, calls>>

Consume(c) ==
  LET k == call[c]
      last == witness.rows[Len(witness.rows)]
      consumed == [k.observed EXCEPT !.epoch = @ + 1, !.last = "CONSUMED"]
  IN  /\ At(c, "consuming")
      /\ witness' = RenamePending(witness, [state |-> consumed,
                        spent |-> Append(last.spent, Record(k.approval)), status |-> "CONSUMED"])
      /\ call' = [call EXCEPT ![c].at = "consumed", ![c].observed = consumed]
      /\ UNCHANGED <<local, copies, approvals, trusted, clock, ran, kills, restores, calls>>

\* What the supplied action may return, right or wrong.
Result(s, outcome) ==
  CASE outcome = "resumed"    -> [s EXCEPT !.event = @ + 1, !.journal = s.event + 1, !.last = "RESUME"]
    [] outcome = "halted"     -> [s EXCEPT !.halt = TRUE, !.last = "RESUME"]
    [] outcome = "cleared"    -> [s EXCEPT !.halt = FALSE, !.last = "RESUME"]
    [] outcome = "rolledback" -> [s EXCEPT !.event = 0, !.last = "RESUME"]
    [] outcome = "forked"     -> [s EXCEPT !.journal = @ + 1, !.last = "RESUME"]
    [] OTHER                  -> s

\* action(consumed), then the requires on what it returned.
RunAction(c) ==
  LET k == call[c] IN
  /\ At(c, "consumed")
  /\ ran' = Append(ran, [approval |-> k.approval, now |-> k.now, head |-> k.head, by |-> c])
  /\ \E outcome \in Outcomes :
       LET new == Result(k.observed, outcome)
       IN  IF outcome # "raised" /\ progress(k.observed, new) /\ new.last = "RESUME"
                /\ new.epoch = k.observed.epoch
           THEN call' = [call EXCEPT ![c].at = "returned", ![c].observed = new] /\ UNCHANGED witness
           ELSE Leave(c)
  /\ UNCHANGED <<local, copies, approvals, trusted, clock, kills, restores, calls>>

Complete(c) ==
  LET last == witness.rows[Len(witness.rows)] IN
  /\ At(c, "completing")
  /\ witness' = Disown(RenamePending(witness,
                   [state |-> call[c].observed, spent |-> last.spent, status |-> "COMPLETED"]))
  /\ call' = [call EXCEPT ![c] = Idle]
  /\ UNCHANGED <<local, copies, approvals, trusted, clock, ran, kills, restores, calls>>

\* An exception at one of the crash points: the finally of ownership() runs.
Interrupt(c) ==
  /\ call[c].at \in {"publishing", "recorded", "consumed", "returned"}
  /\ kills < MaxKills
  /\ kills' = kills + 1
  /\ Leave(c)
  /\ UNCHANGED <<local, copies, approvals, trusted, clock, ran, restores, calls>>

\* The process dies: its lock and its pending files stay.
Kill(c) ==
  /\ witness.owner = c /\ kills < MaxKills
  /\ kills' = kills + 1
  /\ call' = [call EXCEPT ![c] = Idle]
  /\ witness' = OwnedBy(witness, Orphan)
  /\ UNCHANGED <<local, copies, approvals, trusted, clock, ran, restores, calls>>

(***************************************************************************)
(* The surroundings: not code of the repository.                           *)
(***************************************************************************)
RemoveLock ==
  /\ witness.owner = Orphan
  /\ witness' = Disown(witness)
  /\ UNCHANGED <<local, copies, approvals, trusted, call, clock, ran, kills, restores, calls>>

Issue ==
  /\ Cardinality(approvals) < MaxIssues
  /\ \E r \in Requests, i \in Identities, m \in Matters, w \in Windows :
       LET a == [request |-> r, identity |-> i, matter |-> m, head |-> HeadOf(witness),
                 from |-> clock + w[1], till |-> clock + w[2]]
       IN  /\ a.from < a.till          \* INVALID_AUTHORITY_INTERVAL
           /\ a \notin approvals
           /\ approvals' = approvals \cup {a}
           /\ trusted' \in {trusted, [trusted EXCEPT ![r] = a]}
  /\ UNCHANGED <<witness, local, copies, call, clock, ran, kills, restores, calls>>

Copy ==
  /\ Cardinality(copies) < MaxCopies /\ restores < MaxRestores
  /\ local \notin copies
  /\ copies' = copies \cup {local}
  /\ UNCHANGED <<witness, local, approvals, trusted, call, clock, ran, kills, restores, calls>>

Restore ==
  /\ restores < MaxRestores
  /\ restores' = restores + 1
  /\ local' \in copies \ {local}
  /\ UNCHANGED <<witness, copies, approvals, trusted, call, clock, ran, kills, calls>>

Tick ==
  /\ clock < MaxTime
  /\ clock' = clock + 1
  /\ UNCHANGED <<witness, local, copies, approvals, trusted, call, ran, kills, restores, calls>>

Init ==
  /\ witness = Empty /\ local = NoLocal /\ copies = {}
  /\ approvals = {} /\ trusted = [r \in Requests |-> NoApproval]
  /\ call = [c \in Callers |-> Idle]
  /\ clock = 0 /\ ran = <<>> /\ kills = 0 /\ restores = 0 /\ calls = 0

Step(c) ==
  \/ InitializePending(c) \/ InitializeEnd(c) \/ Lock(c) \/ Validate(c) \/ PublishPending(c)
  \/ PublishLocal(c) \/ AppendPending(c) \/ Consume(c) \/ RunAction(c) \/ Complete(c)

Next ==
  \/ \E c \in Callers : InitializeBegin(c) \/ Call(c) \/ Step(c) \/ Interrupt(c) \/ Kill(c)
  \/ RemoveLock \/ Issue \/ Copy \/ Restore \/ Tick

Spec == Init /\ [][Next]_vars

-----------------------------------------------------------------------------
\* Every variable keeps its type; the witness stays within its limit, a status follows
\* the protocol of recover(): READY, then CONSUMED and COMPLETED in turn.
TypeOK ==
  /\ Len(witness.rows) <= Limit
  /\ witness.owner \in Callers \cup {Nobody, Orphan}
  /\ \A i \in DOMAIN witness.rows :
       /\ witness.rows[i].state \in State
       /\ witness.rows[i].status = IF i = 1 THEN "READY"
                                   ELSE IF i % 2 = 0 THEN "CONSUMED" ELSE "COMPLETED"
  /\ local.pending \subseteq Identities
  /\ clock \in 0..MaxTime

\* A recovery is run at most once for a request, for a consumption identity and for an
\* approval, whatever callers compete, whichever of them die, and whatever earlier copy
\* of the local directory is put back (consume_before_recovery, automatic_retry: False).
RecoveryRunsOnce ==
  \A i, j \in DOMAIN ran : i # j =>
    /\ ran[i].approval.request # ran[j].approval.request
    /\ ran[i].approval.identity # ran[j].approval.identity

\* Every recovery that was started had been consumed in the witness, as the record right
\* after the head its approval names: what happened in between cannot have been missed.
ConsumedBeforeRun ==
  \A i \in DOMAIN ran :
    LET at == ran[i].approval.head + 1
    IN  /\ at \in DOMAIN witness.rows
        /\ witness.rows[at].status = "CONSUMED"
        /\ witness.rows[at].spent[Len(witness.rows[at].spent)].approval = ran[i].approval

\* While the outcome of a recovery is not on record, only the call that consumed the
\* approval goes on: once that call is gone nothing is appended and nothing is run again
\* ("No retry or repair path").
AmbiguityIsFinal ==
  witness.rows # <<>> /\ witness.rows[Len(witness.rows)].status = "CONSUMED"
    /\ (witness'.rows # witness.rows \/ ran' # ran)
  => LET spent == witness.rows[Len(witness.rows)].spent
     IN  \E c \in DOMAIN call : /\ witness.owner = c
                               /\ call[c].at \in {"consumed", "completing"}
                               /\ call[c].approval = spent[Len(spent)].approval

\* Two callers are never both past the lock.
OneOwner ==
  \A c \in DOMAIN call : call[c].at \notin {"idle", "called"} => witness.owner = c

\* The recorded state never goes back: no row clears a halt, lowers the number of events,
\* or names another journal for the same events.
WitnessNeverRegresses ==
  \A i, j \in DOMAIN witness.rows : i < j =>
    LET a == witness.rows[i].state
        b == witness.rows[j].state
    IN  /\ a.halt => b.halt
        /\ a.event <= b.event /\ a.epoch <= b.epoch
        /\ a.event = b.event => a.journal = b.journal

\* A recovery was run only inside the window of its approval, read on the caller's clock,
\* and with the witness at the head the approval names.
ApprovedInTime ==
  \A i \in DOMAIN ran :
    /\ ran[i].approval.from <= ran[i].now /\ ran[i].now < ran[i].approval.till
    /\ ran[i].head = ran[i].approval.head

\* An approved recovery runs at most once, after its consumption is on the witness and inside
\* its window, by one process at a time, whoever dies and whatever copy of the local directory
\* is put back; no recovery clears a halt or goes back.
RecoverySound ==
  /\ RecoveryRunsOnce /\ ConsumedBeforeRun /\ ApprovedInTime
  /\ OneOwner /\ WitnessNeverRegresses

\* While the outcome of a recovery is not on record only the call that consumed its approval
\* goes on, and never again once that call is gone.
AmbiguityStays == [][AmbiguityIsFinal]_vars

=============================================================================
