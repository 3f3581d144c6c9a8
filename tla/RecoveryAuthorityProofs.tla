----------------------- MODULE RecoveryAuthorityProofs -----------------------
(***************************************************************************)
(* What RecoveryAuthority guarantees for any number of callers, approvals, *)
(* kills, copies and restores.                                             *)
(*                                                                         *)
(* Only the caller that owns the witness is past its lock, so what a call  *)
(* found there when it was validated is still there when it appends: the   *)
(* invariant says, for each place of recover(), what that is (Place).  The *)
(* recoveries that were started are all among the records of the last row  *)
(* (RanInv), which nothing removes: this is why one that was consumed is   *)
(* refused later, whatever became of the local directory.                  *)
(*                                                                         *)
(* The last part is about the ingestion of data and the certification of a *)
(* dataset.                                                                *)
(***************************************************************************)
EXTENDS RecoveryAuthority, DatasetIngestion, FiniteSetTheorems, TLAPS

-----------------------------------------------------------------------------
(* The shapes of the data.                                                   *)

Approval == [request : Requests, identity : Identities, matter : Matters,
             head : Nat, from : Int, till : Int]
Spent == [request : Requests, identity : Identities, approval : Approval]
Status == {"READY", "CONSUMED", "COMPLETED"}
Row == [state : State, spent : Seq(Spent), status : Status]
Run == [approval : Approval, now : Nat, head : Nat, by : Callers]

Fresh == {"publishing", "renaming", "recorded", "consuming"}
Used == {"consumed", "returned", "completing"}
Places == {"called", "locked"} \cup Fresh \cup Used
CallRec == [at : Places, approval : Approval, head : Nat, observed : State,
            matter : Matters, now : Nat]
Initializing == [at |-> "initializing"]

LastRow(rows) == rows[Len(rows)]

\* A directory has three fields; what the pending file is does not matter here.
Shape(d) ==
  /\ d = [rows |-> d.rows, pending |-> d.pending, owner |-> d.owner]
  /\ d.rows \in Seq(Row)
  /\ d.owner \in Callers \cup {Nobody, Orphan}

\* What a call may rely on at its place, given the rows and the recoveries started so far.
Place(k, rows, runs) ==
  /\ k.at = "initializing" => rows = <<>>
  /\ k.at \in Fresh =>
       /\ rows # <<>>
       /\ LastRow(rows).status # "CONSUMED"
       /\ NotSpent(k.approval, LastRow(rows).spent)
       /\ k.approval.head = k.head /\ k.head = Len(rows)
       /\ k.observed = LastRow(rows).state
       /\ k.approval.from <= k.now /\ k.now < k.approval.till
  /\ k.at \in Used =>
       /\ rows # <<>>
       /\ LastRow(rows).status = "CONSUMED"
       /\ LastRow(rows).spent # <<>>
       /\ LastRow(rows).spent[Len(LastRow(rows).spent)] = Record(k.approval)
       /\ k.approval.head = k.head /\ k.head + 1 = Len(rows)
       /\ k.approval.from <= k.now /\ k.now < k.approval.till
  /\ k.at = "consumed" =>
       /\ k.observed = LastRow(rows).state
       /\ \A i \in DOMAIN runs : /\ runs[i].approval.request # k.approval.request
                                 /\ runs[i].approval.identity # k.approval.identity
  /\ k.at \in {"returned", "completing"} => progress(LastRow(rows).state, k.observed)

Outside(k) == k.at \in {"idle", "called"}

CallInv(c) ==
  /\ call[c] \in {Idle, Initializing} \cup CallRec
  /\ ~Outside(call[c]) => witness.owner = c
  /\ Place(call[c], witness.rows, ran)

CallsInv ==
  /\ call = [c \in Callers |-> call[c]]
  /\ \A c \in Callers : CallInv(c)

RowsInv(rows) ==
  \A i, j \in DOMAIN rows : i < j => progress(rows[i].state, rows[j].state)

\* One recovery: consumed, still on the last row, and approved for when it was started.
RunInv(run, rows) ==
  /\ rows # <<>>
  /\ Record(run.approval) \in Values(LastRow(rows).spent)
  /\ run.approval.head + 1 \in DOMAIN rows
  /\ rows[run.approval.head + 1].status = "CONSUMED"
  /\ rows[run.approval.head + 1].spent[Len(rows[run.approval.head + 1].spent)].approval = run.approval
  /\ run.approval.from <= run.now /\ run.now < run.approval.till
  /\ run.head = run.approval.head

RanInv(runs, rows) ==
  /\ runs \in Seq(Run)
  /\ \A i \in DOMAIN runs : RunInv(runs[i], rows)
  /\ \A i, j \in DOMAIN runs : i # j =>
       /\ runs[i].approval.request # runs[j].approval.request
       /\ runs[i].approval.identity # runs[j].approval.identity

IssuedInv == approvals \subseteq Approval /\ clock \in Nat

\* The inductive invariant.
RInv ==
  /\ Shape(witness) /\ CallsInv /\ RowsInv(witness.rows) /\ RanInv(ran, witness.rows)
  /\ IssuedInv

-----------------------------------------------------------------------------
(* The operators of the directory and of the state.                          *)

\* Taking or giving up the lock and writing the pending file leave the rows alone.
LEMMA OwnShape ==
  ASSUME NEW d, Shape(d), NEW who \in Callers \cup {Nobody, Orphan}
  PROVE  Shape(OwnedBy(d, who)) /\ OwnedBy(d, who).rows = d.rows /\ OwnedBy(d, who).owner = who
<1>1. OwnedBy(d, who) = [rows |-> d.rows, pending |-> d.pending, owner |-> who]
  BY DEF Shape, OwnedBy
<1> QED BY <1>1 DEF Shape

\* Giving up the lock leaves the rows alone.
LEMMA DisownShape ==
  ASSUME NEW d, Shape(d)
  PROVE  Shape(Disown(d)) /\ Disown(d).rows = d.rows /\ Disown(d).owner = Nobody
<1>1. Disown(d) = [rows |-> d.rows, pending |-> d.pending, owner |-> Nobody]
  BY DEF Shape, Disown
<1> QED BY <1>1 DEF Shape

\* Writing the pending file leaves the rows and the owner alone.
LEMMA PendingShape ==
  ASSUME NEW d, Shape(d)
  PROVE  /\ Shape(WritePending(d))
         /\ WritePending(d).rows = d.rows /\ WritePending(d).owner = d.owner
<1>0. PICK t : t = TRUE
  OBVIOUS
<1>1. WritePending(d) = [d EXCEPT !.pending = t]
  BY <1>0, Zenon DEF WritePending
<1> HIDE <1>0
<1>2. [d EXCEPT !.pending = t] = [rows |-> d.rows, pending |-> t, owner |-> d.owner]
  BY DEF Shape
<1> QED BY <1>1, <1>2 DEF Shape

\* The rename appends one row.
LEMMA RenameShape ==
  ASSUME NEW d, Shape(d), NEW row \in Row
  PROVE  /\ Shape(RenamePending(d, row))
         /\ RenamePending(d, row).rows = Append(d.rows, row)
         /\ RenamePending(d, row).owner = d.owner
<1>0. PICK t : t = FALSE
  OBVIOUS
<1>1. PICK n : n = Append(d.rows, row)
  OBVIOUS
<1>2. RenamePending(d, row) = [d EXCEPT !.pending = t, !.rows = n]
  BY <1>0, <1>1, Zenon DEF RenamePending
<1>3. d.rows \in Seq(Row) /\ d.owner \in Callers \cup {Nobody, Orphan}
  BY DEF Shape
<1>4. n \in Seq(Row)
  BY <1>1, <1>3
<1> HIDE <1>0, <1>1
<1>5. [d EXCEPT !.pending = t, !.rows = n] = [rows |-> n, pending |-> t, owner |-> d.owner]
  <2>1. [d EXCEPT !.pending = t] = [rows |-> d.rows, pending |-> t, owner |-> d.owner]
    BY DEF Shape
  <2>2. [d EXCEPT !.pending = t, !.rows = n] = [[d EXCEPT !.pending = t] EXCEPT !.rows = n]
    BY Zenon
  <2>3. [[rows |-> d.rows, pending |-> t, owner |-> d.owner] EXCEPT !.rows = n]
          = [rows |-> n, pending |-> t, owner |-> d.owner]
    OBVIOUS
  <2> QED BY <2>1, <2>2, <2>3
<1> QED BY <1>1, <1>2, <1>3, <1>4, <1>5 DEF Shape

\* Appending to a sequence: what was there stays, and the last element is the new one.
LEMMA AppendFacts ==
  ASSUME NEW S, NEW s \in Seq(S), NEW x \in S
  PROVE  /\ Append(s, x) \in Seq(S) /\ Append(s, x) # <<>>
         /\ Len(Append(s, x)) = Len(s) + 1 /\ Len(s) \in Nat
         /\ DOMAIN Append(s, x) = DOMAIN s \cup {Len(s) + 1} /\ DOMAIN s = 1..Len(s)
         /\ Append(s, x)[Len(s) + 1] = x
         /\ \A i \in DOMAIN s : Append(s, x)[i] = s[i] /\ i <= Len(s) /\ i \in Nat
OBVIOUS

\* The last row of a witness that has one.
LEMMA LastFacts ==
  ASSUME NEW rows \in Seq(Row), rows # <<>>
  PROVE  /\ Len(rows) \in DOMAIN rows /\ LastRow(rows) \in Row
         /\ DOMAIN rows = 1..Len(rows) /\ Len(rows) \in Nat
<1>1. Len(rows) \in Nat /\ DOMAIN rows = 1..Len(rows) /\ Len(rows) # 0
  OBVIOUS
<1>2. Len(rows) \in DOMAIN rows
  BY <1>1
<1>3. rows[Len(rows)] \in Row
  BY <1>2
<1> QED BY <1>1, <1>2, <1>3 DEF LastRow

\* progress() is transitive.
LEMMA ProgressTransitive ==
  ASSUME NEW a \in State, NEW b \in State, NEW d \in State, progress(a, b), progress(b, d)
  PROVE  progress(a, d)
<1>1. a.event \in Nat /\ b.event \in Nat /\ d.event \in Nat
      /\ a.epoch \in Nat /\ b.epoch \in Nat /\ d.epoch \in Nat
  BY DEF State
<1>2. d.event >= a.event /\ d.epoch >= a.epoch /\ (d.event = a.event => d.journal = a.journal)
  BY <1>1 DEF progress
<1>3. a.halt => d.halt
  BY Zenon DEF progress
<1> QED BY <1>2, <1>3, Zenon DEF progress

\* Moving a call on changes its place only.
LEMMA MoveFacts ==
  ASSUME NEW k \in CallRec, NEW p \in Places
  PROVE  [k EXCEPT !.at = p] = [at |-> p, approval |-> k.approval, head |-> k.head,
                                observed |-> k.observed, matter |-> k.matter, now |-> k.now]
BY DEF CallRec

\* Moving a call on with another state.
LEMMA ObserveFacts ==
  ASSUME NEW k \in CallRec, NEW p \in Places, NEW o
  PROVE  [[k EXCEPT !.at = p] EXCEPT !.observed = o]
           = [at |-> p, approval |-> k.approval, head |-> k.head,
              observed |-> o, matter |-> k.matter, now |-> k.now]
<1>1. PICK e : e = [k EXCEPT !.at = p]
  OBVIOUS
<1>2. e = [at |-> p, approval |-> k.approval, head |-> k.head,
           observed |-> k.observed, matter |-> k.matter, now |-> k.now]
  BY <1>1, MoveFacts
<1>3. [e EXCEPT !.observed = o] = [at |-> p, approval |-> k.approval, head |-> k.head,
                                   observed |-> o, matter |-> k.matter, now |-> k.now]
  BY <1>2
<1> QED BY <1>1, <1>3

\* A call that has got past its lock is a record of recover(), and its approval is one.
LEMMA CallFacts ==
  ASSUME NEW k \in {Idle, Initializing} \cup CallRec, k.at \notin {"idle", "initializing"}
  PROVE  /\ k \in CallRec /\ k.at \in Places /\ k.approval \in Approval /\ k.head \in Nat
         /\ k.observed \in State /\ k.matter \in Matters /\ k.now \in Nat
         /\ Record(k.approval) \in Spent
         /\ k = [at |-> k.at, approval |-> k.approval, head |-> k.head,
                 observed |-> k.observed, matter |-> k.matter, now |-> k.now]
<1>1. k \in CallRec
  BY DEF Idle, Initializing
<1>2. k.approval \in Approval
  BY <1>1 DEF CallRec
<1>3. Record(k.approval) \in Spent
  BY <1>2 DEF Record, Spent, Approval
<1> QED BY <1>1, <1>2, <1>3 DEF CallRec

\* What the action may return is a state.
LEMMA ResultState ==
  ASSUME NEW s \in State, NEW o
  PROVE  Result(s, o) \in State
<1>0. s.event + 1 \in Nat /\ s.journal + 1 \in Nat
  BY DEF State
<1>1. CASE o = "resumed"
  <2>1. PICK n \in Nat : n = s.event + 1
    BY <1>0
  <2>2. Result(s, o) = [s EXCEPT !.event = n, !.journal = n, !.last = "RESUME"]
    BY <1>1, <2>1 DEF Result
  <2> HIDE <2>1
  <2> QED BY <2>2 DEF State
<1>2. CASE o = "halted"
  <2>1. [s EXCEPT !.halt = TRUE, !.last = "RESUME"] \in State
    BY Zenon DEF State
  <2>2. Result(s, o) = [s EXCEPT !.halt = TRUE, !.last = "RESUME"]
    BY <1>2 DEF Result
  <2> QED BY <2>1, <2>2
<1>3. CASE o = "cleared"
  BY <1>3 DEF Result, State
<1>4. CASE o = "rolledback"
  BY <1>4 DEF Result, State
<1>5. CASE o = "forked"
  <2>1. PICK n \in Nat : n = s.journal + 1
    BY <1>0
  <2>2. Result(s, o) = [s EXCEPT !.journal = n, !.last = "RESUME"]
    BY <1>5, <2>1 DEF Result
  <2> HIDE <2>1
  <2> QED BY <2>2 DEF State
<1>6. CASE o \notin {"resumed", "halted", "cleared", "rolledback", "forked"}
  <2>1. Result(s, o) = s
    BY <1>6 DEF Result
  <2> QED BY <2>1
<1> QED BY <1>1, <1>2, <1>3, <1>4, <1>5, <1>6

-----------------------------------------------------------------------------
(* One caller moves, the others stay where they are.                         *)

\* Outside the lock a call relies on nothing.
LEMMA OutsidePlace ==
  ASSUME NEW k, Outside(k), NEW rows, NEW runs
  PROVE  Place(k, rows, runs)
BY DEF Outside, Place, Fresh, Used

\* Whoever does not own the witness is outside its lock.
LEMMA Alone ==
  ASSUME CallsInv, NEW c \in Callers, witness.owner # c
  PROVE  Outside(call[c])
BY DEF CallsInv, CallInv

\* One call moves; the others are outside the lock or see no change.
LEMMA OneMoves ==
  ASSUME CallsInv, NEW c \in Callers, NEW k, call' = [call EXCEPT ![c] = k],
         k \in {Idle, Initializing} \cup CallRec,
         ~Outside(k) => witness'.owner = c,
         Place(k, witness'.rows, ran'),
         \A d \in Callers \ {c} :
           \/ Outside(call[d])
           \/ witness'.owner = witness.owner /\ witness'.rows = witness.rows /\ ran' = ran
  PROVE  CallsInv'
<1>1. call' = [d \in Callers |-> call'[d]] /\ call'[c] = k
      /\ \A d \in Callers \ {c} : call'[d] = call[d]
  BY DEF CallsInv
<1>2. CallInv(c)'
  BY <1>1 DEF CallInv
<1>3. ASSUME NEW d \in Callers \ {c} PROVE CallInv(d)'
  <2>1. CallInv(d) /\ call'[d] = call[d]
    BY <1>1 DEF CallsInv
  <2>2. CASE Outside(call[d])
    <3>1. Place(call[d], witness'.rows, ran')
      BY <2>2, OutsidePlace
    <3> QED BY <2>1, <2>2, <3>1 DEF CallInv
  <2>3. CASE witness'.owner = witness.owner /\ witness'.rows = witness.rows /\ ran' = ran
    BY <2>1, <2>3 DEF CallInv
  <2> QED BY <2>2, <2>3
<1> QED BY <1>1, <1>2, <1>3 DEF CallsInv

\* Leaving: the call is over and the lock is given up; nothing else changes.
LEMMA Left ==
  ASSUME RInv, NEW c \in Callers, witness.owner = c, Leave(c), ran' = ran,
         UNCHANGED <<approvals, clock>>
  PROVE  RInv'
<1>1. Shape(witness') /\ witness'.rows = witness.rows
  BY DisownShape DEF RInv, Leave
<1>2. Place(Idle, witness'.rows, ran') /\ Outside(Idle)
  BY OutsidePlace DEF Outside, Idle
<1>3. \A d \in Callers \ {c} : Outside(call[d])
  BY Alone DEF RInv
<1>4. CallsInv'
  <2>1. PICK k : k = Idle
    OBVIOUS
  <2> QED BY <2>1, <1>2, <1>3, OneMoves DEF RInv, Leave
<1> QED BY <1>1, <1>4 DEF RInv, IssuedInv

\* A call inside the lock goes on to the next place.
LEMMA Moved ==
  ASSUME RInv, NEW c \in Callers, NEW p \in Places, Goto(c, p),
         call[c] \in CallRec, ~Outside(call[c]),
         Shape(witness'), witness'.rows = witness.rows, witness'.owner = witness.owner,
         ran' = ran, UNCHANGED <<approvals, clock>>,
         Place([call[c] EXCEPT !.at = p], witness.rows, ran)
  PROVE  RInv'
<1>1. PICK k : k = [call[c] EXCEPT !.at = p]
  OBVIOUS
<1>2. k \in CallRec
  BY <1>1 DEF CallRec
<1>3. call' = [call EXCEPT ![c] = k]
  BY <1>1 DEF Goto
<1>4. witness'.owner = c /\ \A d \in Callers \ {c} : Outside(call[d])
  BY Alone DEF RInv, CallsInv, CallInv
<1>5. CallsInv'
  BY <1>1, <1>2, <1>3, <1>4, OneMoves DEF RInv
<1> QED BY <1>5 DEF RInv, IssuedInv

-----------------------------------------------------------------------------
(* A row is appended.                                                        *)

\* A row that follows the last one keeps the rows in order.
LEMMA RowsGrow ==
  ASSUME NEW rows \in Seq(Row), RowsInv(rows), NEW row \in Row,
         rows # <<>> => progress(LastRow(rows).state, row.state)
  PROVE  RowsInv(Append(rows, row))
<1> DEFINE more == Append(rows, row)
<1>1. /\ DOMAIN more = DOMAIN rows \cup {Len(rows) + 1} /\ Len(rows) \in Nat
      /\ DOMAIN rows = 1..Len(rows) /\ more[Len(rows) + 1] = row
      /\ \A i \in DOMAIN rows : more[i] = rows[i] /\ i <= Len(rows) /\ i \in Nat
  BY AppendFacts
<1>2. SUFFICES ASSUME NEW i \in DOMAIN more, NEW j \in DOMAIN more, i < j
               PROVE  progress(more[i].state, more[j].state)
  BY DEF RowsInv
<1> HIDE DEF more
<1>3. CASE j \in DOMAIN rows
  <2>1. i \in DOMAIN rows
    BY <1>1, <1>2, <1>3
  <2> QED BY <1>1, <1>2, <1>3, <2>1 DEF RowsInv
<1>4. CASE j = Len(rows) + 1
  <2>1. i \in DOMAIN rows /\ rows # <<>>
    BY <1>1, <1>2, <1>4
  <2>2. more[i] = rows[i] /\ more[j] = row /\ rows[i] \in Row
    BY <1>1, <1>4, <2>1
  <2>3. Len(rows) \in DOMAIN rows /\ LastRow(rows) \in Row
    BY <2>1, LastFacts
  <2>4. CASE i = Len(rows)
    BY <2>1, <2>2, <2>4 DEF LastRow
  <2>5. CASE i # Len(rows)
    <3>1. progress(rows[i].state, LastRow(rows).state)
      BY <1>1, <2>1, <2>3, <2>5 DEF RowsInv, LastRow
    <3>2. rows[i].state \in State /\ LastRow(rows).state \in State /\ row.state \in State
      BY <2>2, <2>3 DEF Row
    <3> QED BY <2>1, <2>2, <3>1, <3>2, ProgressTransitive
  <2> QED BY <2>4, <2>5
<1> QED BY <1>1, <1>2, <1>3, <1>4

\* The recoveries that were started stay on record when the row keeps the spent records.
LEMMA RanKept ==
  ASSUME NEW runs, NEW rows \in Seq(Row), RanInv(runs, rows), NEW row \in Row,
         rows # <<>> => Values(LastRow(rows).spent) \subseteq Values(row.spent)
  PROVE  RanInv(runs, Append(rows, row))
<1> DEFINE more == Append(rows, row)
<1>1. /\ DOMAIN more = DOMAIN rows \cup {Len(rows) + 1} /\ Len(rows) \in Nat
      /\ more # <<>> /\ Len(more) = Len(rows) + 1 /\ more[Len(rows) + 1] = row
      /\ \A i \in DOMAIN rows : more[i] = rows[i]
  BY AppendFacts
<1> HIDE DEF more
<1>2. LastRow(more) = row
  BY <1>1 DEF LastRow
<1>3. ASSUME NEW i \in DOMAIN runs PROVE RunInv(runs[i], more)
  <2>1. RunInv(runs[i], rows)
    BY DEF RanInv
  <2>2. runs[i].approval.head + 1 \in DOMAIN rows
        /\ more[runs[i].approval.head + 1] = rows[runs[i].approval.head + 1]
    BY <1>1, <2>1 DEF RunInv
  <2> QED BY <1>1, <1>2, <2>1, <2>2 DEF RunInv
<1> QED BY <1>3 DEF RanInv, more

-----------------------------------------------------------------------------
(* The steps of a call.                                                      *)

\* initialize() takes the lock of an empty witness.
LEMMA InitializeBeginStep ==
  ASSUME RInv, NEW c \in Callers, InitializeBegin(c)
  PROVE  RInv'
<1>1. Shape(witness') /\ witness'.rows = witness.rows /\ witness'.owner = c /\ witness.rows = <<>>
  BY OwnShape DEF RInv, InitializeBegin
<1>2. \A d \in Callers \ {c} : Outside(call[d])
  BY Alone, AuthorityAssumption DEF RInv, InitializeBegin, CanOwn
<1>3. Place(Initializing, witness'.rows, ran')
  BY <1>1 DEF Place, Initializing, Fresh, Used
<1>4. CallsInv'
  <2>1. PICK k : k = Initializing
    OBVIOUS
  <2> QED BY <2>1, <1>1, <1>2, <1>3, OneMoves DEF RInv, InitializeBegin, Initializing
<1> QED BY <1>1, <1>4 DEF RInv, IssuedInv, InitializeBegin

\* The first record is written beside its name.
LEMMA InitializePendingStep ==
  ASSUME RInv, NEW c \in Callers, InitializePending(c)
  PROVE  RInv'
<1>1. Shape(witness') /\ witness'.rows = witness.rows /\ witness'.owner = witness.owner
  BY PendingShape DEF RInv, InitializePending
<1>2. call' = call /\ ran' = ran
  BY DEF InitializePending
<1>3. CallsInv'
  BY <1>1, <1>2 DEF RInv, CallsInv, CallInv
<1> QED BY <1>1, <1>2, <1>3 DEF RInv, IssuedInv, InitializePending

\* The first record takes its name and the lock is given up.
LEMMA InitializeEndStep ==
  ASSUME RInv, NEW c \in Callers, InitializeEnd(c)
  PROVE  RInv'
<1>1. witness.owner = c /\ witness.rows = <<>>
  BY DEF RInv, CallsInv, CallInv, Place, Outside, InitializeEnd, At
<1>2. PICK row : /\ row \in Row
                 /\ witness' = Disown(RenamePending(witness, row))
  <2>1. PICK halt \in BOOLEAN : witness' = Disown(RenamePending(witness,
            [state |-> [event |-> 0, journal |-> 0, epoch |-> 0, halt |-> halt, last |-> "none"],
             spent |-> <<>>, status |-> "READY"]))
    BY DEF InitializeEnd
  <2>2. [event |-> 0, journal |-> 0, epoch |-> 0, halt |-> halt, last |-> "none"] \in State
    BY DEF State
  <2>3. \A s \in State : [state |-> s, spent |-> <<>>, status |-> "READY"] \in Row
    BY DEF Row, Status
  <2> QED BY <2>1, <2>2, <2>3
<1>3. Shape(witness') /\ witness'.rows = Append(witness.rows, row)
  BY <1>2, RenameShape, DisownShape DEF RInv
<1>4. witness.rows \in Seq(Row)
  BY DEF RInv, Shape
<1>5. RowsInv(witness'.rows) /\ RanInv(ran', witness'.rows)
  BY <1>1, <1>2, <1>3, <1>4, RowsGrow, RanKept DEF RInv, InitializeEnd
<1>6. \A d \in Callers \ {c} : Outside(call[d])
  BY <1>1, Alone DEF RInv
<1>7. CallsInv'
  <2>1. PICK k : k = Idle
    OBVIOUS
  <2>2. Outside(k) /\ Place(k, witness'.rows, ran')
    BY <2>1, OutsidePlace DEF Outside, Idle
  <2> QED BY <2>1, <2>2, <1>6, OneMoves DEF RInv, InitializeEnd
<1> QED BY <1>3, <1>5, <1>7 DEF RInv, IssuedInv, InitializeEnd

\* recover() is called with what the caller has seen.
LEMMA CallStep ==
  ASSUME RInv, NEW c \in Callers, Call(c)
  PROVE  RInv'
<1>1. PICK a \in approvals, i \in 1..Len(witness.rows), m \in Matters :
        call' = [call EXCEPT ![c] = [at |-> "called", approval |-> a, head |-> HeadOf(witness),
                                     observed |-> witness.rows[i].state, matter |-> m, now |-> clock]]
  BY DEF Call
<1>2. PICK k : k = [at |-> "called", approval |-> a, head |-> HeadOf(witness),
                    observed |-> witness.rows[i].state, matter |-> m, now |-> clock]
  OBVIOUS
<1>3. witness.rows \in Seq(Row) /\ Len(witness.rows) \in Nat
  BY DEF RInv, Shape
<1>4. witness.rows[i] \in Row
  BY <1>3
<1>5. witness.rows[i].state \in State
  BY <1>4 DEF Row
<1>6. k \in CallRec /\ Outside(k)
  BY <1>2, <1>3, <1>5 DEF CallRec, Places, HeadOf, RInv, IssuedInv, Outside
<1>7. Place(k, witness'.rows, ran')
  BY <1>6, OutsidePlace
<1>8. witness' = witness /\ ran' = ran
  BY DEF Call
<1>9. CallsInv'
  BY <1>1, <1>2, <1>6, <1>7, <1>8, OneMoves DEF RInv
<1> QED BY <1>8, <1>9 DEF RInv, IssuedInv, Call

\* The lock is taken, or the call gives up.
LEMMA LockStep ==
  ASSUME RInv, NEW c \in Callers, Lock(c)
  PROVE  RInv'
<1>1. call[c] \in CallRec /\ call[c].at = "called"
  BY CallFacts DEF RInv, CallsInv, CallInv, Lock, At
<1>2. CASE CanOwn(witness)
  <2>1. Shape(witness') /\ witness'.rows = witness.rows /\ witness'.owner = c
    BY <1>2, OwnShape DEF RInv, Lock
  <2>2. \A d \in Callers \ {c} : Outside(call[d])
    BY <1>2, Alone, AuthorityAssumption DEF RInv, CanOwn
  <2>3. PICK k : k = [call[c] EXCEPT !.at = "locked"]
    OBVIOUS
  <2>4. k \in CallRec /\ k.at = "locked"
    BY <1>1, <2>3 DEF CallRec, Places
  <2>5. Place(k, witness'.rows, ran')
    BY <2>4 DEF Place, Fresh, Used
  <2>6. call' = [call EXCEPT ![c] = k]
    BY <1>2, <2>3 DEF Lock, Goto
  <2>7. CallsInv'
    BY <2>1, <2>2, <2>4, <2>5, <2>6, OneMoves DEF RInv
  <2> QED BY <2>1, <2>7 DEF RInv, IssuedInv, Lock
<1>3. CASE ~CanOwn(witness)
  <2>1. witness' = witness /\ ran' = ran /\ call' = [call EXCEPT ![c] = Idle]
    BY <1>3 DEF Lock
  <2>2. PICK k : k = Idle
    OBVIOUS
  <2>3. Outside(k) /\ Place(k, witness'.rows, ran')
    BY <2>2, OutsidePlace DEF Outside, Idle
  <2>4. CallsInv'
    BY <2>1, <2>2, <2>3, OneMoves DEF RInv
  <2> QED BY <2>1, <2>4 DEF RInv, IssuedInv, Lock
<1> QED BY <1>2, <1>3

\* The requires of recover(): what they establish is what the call relies on from then on.
LEMMA ValidateStep ==
  ASSUME RInv, NEW c \in Callers, Validate(c)
  PROVE  RInv'
<1>1. call[c] \in CallRec /\ call[c].at = "locked" /\ ~Outside(call[c]) /\ witness.owner = c
  BY CallFacts DEF RInv, CallsInv, CallInv, Validate, At, Outside
<1>2. CASE Accepted(call[c])
  <2>1. Goto(c, "publishing") /\ witness' = witness /\ ran' = ran
    BY <1>2 DEF Validate
  <2>2. PICK k : k = [call[c] EXCEPT !.at = "publishing"]
    OBVIOUS
  <2>3. k = [at |-> "publishing", approval |-> call[c].approval, head |-> call[c].head,
             observed |-> call[c].observed, matter |-> call[c].matter, now |-> call[c].now]
    BY <1>1, <2>2, MoveFacts DEF Places, Fresh
  <2>4. Place(k, witness.rows, ran)
    BY <1>2, <2>3 DEF Accepted, verify, current, chain, HeadOf, Place, Fresh, Used, LastRow
  <2>5. PICK p : p = "publishing"
    OBVIOUS
  <2> QED BY <1>1, <2>1, <2>2, <2>4, <2>5, Moved DEF RInv, Validate, Places, Fresh
<1>3. CASE ~Accepted(call[c])
  BY <1>1, <1>3, Left DEF Validate
<1> QED BY <1>2, <1>3

\* From one place before the consumption to the next nothing is relied on anew.
LEMMA FreshMoves ==
  ASSUME RInv, NEW c \in Callers, call[c].at \in Fresh, NEW p \in Fresh, Goto(c, p),
         Shape(witness'), witness'.rows = witness.rows, witness'.owner = witness.owner,
         ran' = ran, UNCHANGED <<approvals, clock>>
  PROVE  RInv'
<1>1. call[c] \in CallRec /\ ~Outside(call[c]) /\ Place(call[c], witness.rows, ran)
  BY CallFacts DEF RInv, CallsInv, CallInv, Outside, Fresh
<1>2. PICK k : k = [call[c] EXCEPT !.at = p]
  OBVIOUS
<1>3. k = [at |-> p, approval |-> call[c].approval, head |-> call[c].head,
           observed |-> call[c].observed, matter |-> call[c].matter, now |-> call[c].now]
  BY <1>1, <1>2, MoveFacts DEF Places
<1>4. Place(k, witness.rows, ran)
  BY <1>1, <1>3 DEF Place, Fresh, Used
<1> QED BY <1>1, <1>2, <1>4, Moved DEF Places

\* A call before the consumption owns the witness.
LEMMA InsideOwns ==
  ASSUME RInv, NEW c \in Callers, call[c].at \in Fresh \cup Used
  PROVE  /\ witness.owner = c /\ call[c] \in CallRec /\ ~Outside(call[c])
         /\ Place(call[c], witness.rows, ran)
BY CallFacts DEF RInv, CallsInv, CallInv, Outside, Fresh, Used

\* The local file is found, refused or written beside its name.
LEMMA PublishPendingStep ==
  ASSUME RInv, NEW c \in Callers, PublishPending(c)
  PROVE  RInv'
<1>1. call[c].at = "publishing" /\ ran' = ran /\ UNCHANGED <<approvals, clock>>
  BY DEF PublishPending, At
<1>2. witness.owner = c
  BY <1>1, InsideOwns DEF Fresh
<1>3. \/ Leave(c)
      \/ Goto(c, "recorded") /\ witness' = witness
      \/ Goto(c, "renaming") /\ witness' = witness
  BY DEF PublishPending
<1>4. CASE Leave(c)
  BY <1>1, <1>2, <1>4, Left
<1>5. CASE Goto(c, "recorded") /\ witness' = witness
  <2>1. PICK p : p = "recorded"
    OBVIOUS
  <2> QED BY <1>1, <1>5, <2>1, FreshMoves DEF RInv, Fresh
<1>6. CASE Goto(c, "renaming") /\ witness' = witness
  <2>1. PICK p : p = "renaming"
    OBVIOUS
  <2> QED BY <1>1, <1>6, <2>1, FreshMoves DEF RInv, Fresh
<1> QED BY <1>3, <1>4, <1>5, <1>6

\* The local file takes its name, or the rename fails.
LEMMA PublishLocalStep ==
  ASSUME RInv, NEW c \in Callers, PublishLocal(c)
  PROVE  RInv'
<1>1. call[c].at = "renaming" /\ ran' = ran /\ UNCHANGED <<approvals, clock>>
  BY DEF PublishLocal, At
<1>2. witness.owner = c
  BY <1>1, InsideOwns DEF Fresh
<1>3. Leave(c) \/ (Goto(c, "recorded") /\ witness' = witness)
  BY DEF PublishLocal
<1>4. CASE Leave(c)
  BY <1>1, <1>2, <1>4, Left
<1>5. CASE Goto(c, "recorded") /\ witness' = witness
  <2>1. PICK p : p = "recorded"
    OBVIOUS
  <2> QED BY <1>1, <1>5, <2>1, FreshMoves DEF RInv, Fresh
<1> QED BY <1>3, <1>4, <1>5

\* The next row is written beside its name, or the witness is full or not as expected.
LEMMA AppendPendingStep ==
  ASSUME RInv, NEW c \in Callers, AppendPending(c)
  PROVE  RInv'
<1>1. call[c].at \in {"recorded", "returned"} /\ ran' = ran /\ UNCHANGED <<approvals, clock>>
  BY DEF AppendPending
<1>2. witness.owner = c /\ call[c] \in CallRec /\ ~Outside(call[c]) /\ Place(call[c], witness.rows, ran)
  BY <1>1, InsideOwns DEF Fresh, Used
<1>3. CASE ~CanAppend(witness, Limit)
  BY <1>1, <1>2, <1>3, Left DEF AppendPending
<1>4. CASE CanAppend(witness, Limit)
  <2>1. witness' = WritePending(witness)
    BY <1>4 DEF AppendPending
  <2>2. Shape(witness') /\ witness'.rows = witness.rows /\ witness'.owner = witness.owner
    BY <2>1, PendingShape DEF RInv
  <2>3. CASE call[c].at = "recorded"
    <3>1. PICK p : p = "consuming"
      OBVIOUS
    <3>2. Goto(c, p)
      BY <1>4, <2>3, <3>1 DEF AppendPending, At
    <3> QED BY <1>1, <2>2, <2>3, <3>1, <3>2, FreshMoves DEF Fresh
  <2>4. CASE call[c].at = "returned"
    <3>1. PICK p : p = "completing"
      OBVIOUS
    <3>2. Goto(c, p)
      BY <1>4, <2>4, <3>1 DEF AppendPending, At
    <3>3. PICK k : k = [call[c] EXCEPT !.at = p]
      OBVIOUS
    <3>4. k = [at |-> "completing", approval |-> call[c].approval, head |-> call[c].head,
               observed |-> call[c].observed, matter |-> call[c].matter, now |-> call[c].now]
      BY <1>2, <3>1, <3>3, MoveFacts DEF Places, Used
    <3>5. Place(k, witness.rows, ran)
      BY <1>2, <2>4, <3>4 DEF Place, Fresh, Used
    <3> QED BY <1>1, <1>2, <2>2, <3>1, <3>2, <3>3, <3>5, Moved DEF Places, Used
  <2> QED BY <1>1, <2>3, <2>4
<1> QED BY <1>3, <1>4

\* The approval is consumed: nothing that ran before it had its request or its identity.
LEMMA ConsumeStep ==
  ASSUME RInv, NEW c \in Callers, Consume(c)
  PROVE  RInv'
<1> DEFINE k == call[c]
           last == LastRow(witness.rows)
           s == [k.observed EXCEPT !.epoch = @ + 1, !.last = "CONSUMED"]
           row == [state |-> s, spent |-> Append(last.spent, Record(k.approval)), status |-> "CONSUMED"]
<1>1. k.at = "consuming" /\ ran' = ran /\ UNCHANGED <<approvals, clock>>
  BY DEF Consume, At
<1>2. witness.owner = c /\ k \in CallRec /\ Place(k, witness.rows, ran)
  BY <1>1, InsideOwns DEF Fresh
<1>3. /\ witness.rows # <<>> /\ NotSpent(k.approval, last.spent)
      /\ k.approval.head = k.head /\ k.head = Len(witness.rows) /\ k.observed = last.state
      /\ k.approval.from <= k.now /\ k.now < k.approval.till
  BY <1>1, <1>2 DEF Place, Fresh
<1>4. witness.rows \in Seq(Row) /\ last \in Row
  BY <1>3, LastFacts DEF RInv, Shape
<1>5. last.state \in State /\ last.spent \in Seq(Spent)
  BY <1>4 DEF Row
<1>6. Record(k.approval) \in Spent /\ k.approval \in Approval /\ k.head \in Nat /\ k.now \in Nat
      /\ k.matter \in Matters
  BY <1>1, <1>2, CallFacts
<1>7. s \in State /\ progress(last.state, s)
  <2>1. PICK n \in Nat : n = k.observed.epoch + 1
    BY <1>3, <1>5 DEF State
  <2>2. s = [k.observed EXCEPT !.epoch = n, !.last = "CONSUMED"]
    BY <2>1
  <2>3. n >= last.state.epoch
    BY <1>3, <1>5, <2>1 DEF State
  <2> HIDE <2>1
  <2>4. s \in State
    BY <1>3, <1>5, <2>2 DEF State
  <2>5. s.event = last.state.event /\ s.journal = last.state.journal /\ s.epoch = n
    BY <1>3, <1>5, <2>2 DEF State
  <2>6. s.halt = last.state.halt
    BY <1>3, <1>5, <2>2 DEF State
  <2>7. last.state.event \in Nat
    BY <1>5 DEF State
  <2>8. s.event >= last.state.event /\ s.epoch >= last.state.epoch
    BY <2>3, <2>5, <2>7
  <2>9. last.state.halt => s.halt
    BY <2>6
  <2>10. PICK a, b : a = last.state /\ b = s
    OBVIOUS
  <2> HIDE DEF s, last
  <2>11. b.event >= a.event /\ b.epoch >= a.epoch /\ (a.halt => b.halt) /\ b.journal = a.journal
    BY <2>5, <2>8, <2>9, <2>10, Zenon
  <2>12. progress(a, b)
    BY <2>11, Zenon DEF progress
  <2> QED BY <2>4, <2>10, <2>12
<1>8. /\ Append(last.spent, Record(k.approval)) \in Seq(Spent)
      /\ Append(last.spent, Record(k.approval)) # <<>>
      /\ Len(Append(last.spent, Record(k.approval))) = Len(last.spent) + 1
      /\ Append(last.spent, Record(k.approval))[Len(last.spent) + 1] = Record(k.approval)
      /\ Values(last.spent) \subseteq Values(Append(last.spent, Record(k.approval)))
  BY <1>5, <1>6, AppendFacts DEF Values
<1>9. row \in Row /\ row.state = s /\ row.status = "CONSUMED"
      /\ row.spent = Append(last.spent, Record(k.approval))
  BY <1>7, <1>8 DEF Row, Status
<1>10. witness' = RenamePending(witness, row)
  BY DEF Consume, LastRow
<1> HIDE DEF row
<1>11. Shape(witness') /\ witness'.rows = Append(witness.rows, row) /\ witness'.owner = c
  BY <1>2, <1>9, <1>10, RenameShape DEF RInv
<1>12. RowsInv(witness'.rows) /\ RanInv(ran', witness'.rows)
  <2>1. Values(last.spent) \subseteq Values(row.spent)
    BY <1>8, <1>9
  <2>2. progress(last.state, row.state)
    BY <1>7, <1>9
  <2> HIDE DEF s, k
  <2>3. RowsInv(witness.rows) /\ RanInv(ran, witness.rows)
    BY DEF RInv
  <2>4. RowsInv(Append(witness.rows, row))
    BY <1>4, <1>9, <2>2, <2>3, RowsGrow
  <2>5. RanInv(ran, Append(witness.rows, row))
    BY <1>4, <1>9, <2>1, <2>3, RanKept
  <2> QED BY <1>1, <1>11, <2>4, <2>5
<1>13. /\ witness'.rows # <<>> /\ LastRow(witness'.rows) = row
       /\ Len(witness'.rows) = Len(witness.rows) + 1
  BY <1>4, <1>9, <1>11, AppendFacts DEF LastRow
<1>14. \A i \in DOMAIN ran : /\ ran[i].approval.request # k.approval.request
                            /\ ran[i].approval.identity # k.approval.identity
  <2> SUFFICES ASSUME NEW i \in DOMAIN ran
               PROVE  /\ ran[i].approval.request # k.approval.request
                      /\ ran[i].approval.identity # k.approval.identity
    OBVIOUS
  <2>1. Record(ran[i].approval) \in Values(last.spent)
    BY DEF RInv, RanInv, RunInv
  <2> QED BY <1>3, <2>1 DEF NotSpent, Record
<1>15. PICK m : m = [at |-> "consumed", approval |-> k.approval, head |-> k.head,
                     observed |-> s, matter |-> k.matter, now |-> k.now]
  OBVIOUS
<1>16. m \in CallRec /\ m.at = "consumed" /\ m.approval = k.approval /\ m.head = k.head
       /\ m.observed = s /\ m.now = k.now
  BY <1>6, <1>7, <1>15 DEF CallRec, Places, Used
<1>17. call' = [call EXCEPT ![c] = m]
  <2>1. call' = [call EXCEPT ![c].at = "consumed", ![c].observed = s]
    BY DEF Consume
  <2>2. [[k EXCEPT !.at = "consumed"] EXCEPT !.observed = s] = m
    <3>1. PICK t, p : t = s /\ p = "consumed"
      OBVIOUS
    <3> HIDE DEF s, k
    <3> QED BY <1>2, <1>15, <3>1, ObserveFacts DEF Places, Used
  <2>3. call = [d \in Callers |-> call[d]]
    BY DEF RInv, CallsInv
  <2> HIDE DEF s
  <2> QED BY <2>1, <2>2, <2>3
<1>18. Place(m, witness'.rows, ran')
  <2>1. row.spent # <<>> /\ row.spent[Len(row.spent)] = Record(m.approval)
    BY <1>8, <1>9, <1>16
  <2> HIDE DEF s, k, last
  <2> QED BY <1>1, <1>3, <1>9, <1>13, <1>14, <1>16, <2>1 DEF Place, Fresh, Used
<1>19. \A d \in Callers \ {c} : Outside(call[d])
  BY <1>2, Alone DEF RInv
<1>20. CallsInv'
  BY <1>11, <1>16, <1>17, <1>18, <1>19, OneMoves DEF RInv
<1> QED BY <1>1, <1>11, <1>12, <1>20 DEF RInv, IssuedInv

\* The recovery is started: it is the first with its request and its identity, and its
\* approval is the last record of the last row.
LEMMA RunActionStep ==
  ASSUME RInv, NEW c \in Callers, RunAction(c)
  PROVE  RInv'
<1> DEFINE k == call[c]
           last == LastRow(witness.rows)
           run == [approval |-> k.approval, now |-> k.now, head |-> k.head, by |-> c]
<1>1. k.at = "consumed" /\ ran' = Append(ran, run) /\ UNCHANGED <<approvals, clock>>
  BY DEF RunAction, At
<1>2. witness.owner = c /\ k \in CallRec /\ Place(k, witness.rows, ran)
  BY <1>1, InsideOwns DEF Used
<1>3. /\ witness.rows # <<>> /\ last.status = "CONSUMED" /\ last.spent # <<>>
      /\ last.spent[Len(last.spent)] = Record(k.approval)
      /\ k.approval.head = k.head /\ k.head + 1 = Len(witness.rows) /\ k.observed = last.state
      /\ k.approval.from <= k.now /\ k.now < k.approval.till
      /\ \A i \in DOMAIN ran : /\ ran[i].approval.request # k.approval.request
                               /\ ran[i].approval.identity # k.approval.identity
  BY <1>1, <1>2 DEF Place, Used
<1>4. witness.rows \in Seq(Row) /\ last \in Row /\ Len(witness.rows) \in DOMAIN witness.rows
  BY <1>3, LastFacts DEF RInv, Shape
<1>5. last.state \in State /\ last.spent \in Seq(Spent)
  BY <1>4 DEF Row
<1>6. k.approval \in Approval /\ k.head \in Nat /\ k.now \in Nat /\ k.matter \in Matters
  BY <1>1, <1>2, CallFacts
<1>7. run \in Run /\ run.approval = k.approval /\ run.now = k.now /\ run.head = k.head
  BY <1>6 DEF Run
<1>8. RunInv(run, witness.rows)
  <2>1. Record(k.approval) \in Values(last.spent)
    <3>1. Len(last.spent) \in DOMAIN last.spent
      BY <1>3, <1>5
    <3> QED BY <1>3, <3>1 DEF Values
  <2>2. witness.rows[k.approval.head + 1] = last /\ k.approval.head + 1 \in DOMAIN witness.rows
    BY <1>3, <1>4 DEF LastRow
  <2>3. last.spent[Len(last.spent)].approval = k.approval
    BY <1>3 DEF Record
  <2> HIDE DEF last, k, run
  <2> QED BY <1>3, <1>7, <2>1, <2>2, <2>3 DEF RunInv, last
<1> HIDE DEF run
<1>9. RanInv(ran', witness.rows)
  <2>1. ran \in Seq(Run) /\ \A i \in DOMAIN ran : RunInv(ran[i], witness.rows)
    BY DEF RInv, RanInv
  <2>2. /\ ran' \in Seq(Run) /\ DOMAIN ran' = DOMAIN ran \cup {Len(ran) + 1} /\ Len(ran) \in Nat
        /\ ran'[Len(ran) + 1] = run
        /\ \A i \in DOMAIN ran : ran'[i] = ran[i] /\ i <= Len(ran) /\ i \in Nat
    BY <1>1, <1>7, <2>1, AppendFacts
  <2>3. \A i \in DOMAIN ran' : RunInv(ran'[i], witness.rows)
    BY <1>8, <2>1, <2>2
  <2>4. ASSUME NEW i \in DOMAIN ran', NEW j \in DOMAIN ran', i # j
        PROVE  /\ ran'[i].approval.request # ran'[j].approval.request
               /\ ran'[i].approval.identity # ran'[j].approval.identity
    <3>1. CASE i \in DOMAIN ran /\ j \in DOMAIN ran
      BY <2>2, <2>4, <3>1 DEF RInv, RanInv
    <3>2. CASE i \in DOMAIN ran /\ j = Len(ran) + 1
      BY <1>3, <1>7, <2>2, <3>2
    <3>3. CASE i = Len(ran) + 1 /\ j \in DOMAIN ran
      BY <1>3, <1>7, <2>2, <3>3
    <3> QED BY <2>2, <2>4, <3>1, <3>2, <3>3
  <2> QED BY <2>2, <2>3, <2>4 DEF RanInv
<1>10. \A d \in Callers \ {c} : Outside(call[d])
  BY <1>2, Alone DEF RInv
<1>11. PICK outcome \in Outcomes :
         LET new == Result(k.observed, outcome)
         IN  IF outcome # "raised" /\ progress(k.observed, new) /\ new.last = "RESUME"
                  /\ new.epoch = k.observed.epoch
             THEN call' = [call EXCEPT ![c].at = "returned", ![c].observed = new] /\ UNCHANGED witness
             ELSE Leave(c)
  BY DEF RunAction
<1>12. PICK new : new = Result(k.observed, outcome)
  OBVIOUS
<1>13. \/ /\ progress(k.observed, new)
          /\ call' = [call EXCEPT ![c].at = "returned", ![c].observed = new]
          /\ witness' = witness
       \/ Leave(c)
  BY <1>11, <1>12
<1>14. new \in State
  BY <1>3, <1>5, <1>12, ResultState
<1>15. CASE Leave(c)
  <2>1. Shape(witness') /\ witness'.rows = witness.rows
    BY <1>15, DisownShape DEF RInv, Leave
  <2>2. PICK m : m = Idle
    OBVIOUS
  <2>3. Place(m, witness'.rows, ran') /\ Outside(m)
    BY <2>2, OutsidePlace DEF Outside, Idle
  <2>4. CallsInv'
    BY <1>10, <1>15, <2>2, <2>3, OneMoves DEF RInv, Leave
  <2> QED BY <1>1, <1>9, <2>1, <2>4 DEF RInv, IssuedInv
<1>16. CASE /\ progress(k.observed, new) /\ witness' = witness
            /\ call' = [call EXCEPT ![c].at = "returned", ![c].observed = new]
  <2>1. PICK m : m = [at |-> "returned", approval |-> k.approval, head |-> k.head,
                      observed |-> new, matter |-> k.matter, now |-> k.now]
    OBVIOUS
  <2>2. m \in CallRec /\ m.at = "returned" /\ m.approval = k.approval /\ m.head = k.head
        /\ m.observed = new /\ m.now = k.now
    BY <1>6, <1>14, <2>1 DEF CallRec, Places, Used
  <2>3. call' = [call EXCEPT ![c] = m]
    <3>1. PICK p : p = "returned"
      OBVIOUS
    <3>2. [[k EXCEPT !.at = "returned"] EXCEPT !.observed = new] = m
      <4> HIDE DEF k
      <4> QED BY <1>2, <2>1, <3>1, ObserveFacts DEF Places, Used
    <3>3. call = [d \in Callers |-> call[d]]
      BY DEF RInv, CallsInv
    <3> QED BY <1>16, <3>2, <3>3
  <2>4. Place(m, witness'.rows, ran')
    <3> HIDE DEF k
    <3> QED BY <1>3, <1>16, <2>2 DEF Place, Fresh, Used
  <2>5. CallsInv'
    BY <1>2, <1>10, <1>16, <2>2, <2>3, <2>4, OneMoves DEF RInv
  <2> QED BY <1>1, <1>9, <1>16, <2>5 DEF RInv, IssuedInv
<1> QED BY <1>13, <1>15, <1>16

\* The outcome is put on record.
LEMMA CompleteStep ==
  ASSUME RInv, NEW c \in Callers, Complete(c)
  PROVE  RInv'
<1> DEFINE k == call[c]
           last == LastRow(witness.rows)
           row == [state |-> k.observed, spent |-> last.spent, status |-> "COMPLETED"]
<1>1. k.at = "completing" /\ ran' = ran /\ UNCHANGED <<approvals, clock>>
      /\ call' = [call EXCEPT ![c] = Idle]
  BY DEF Complete, At
<1>2. witness.owner = c /\ k \in CallRec /\ Place(k, witness.rows, ran)
  BY <1>1, InsideOwns DEF Used
<1>3. witness.rows # <<>> /\ progress(last.state, k.observed)
  BY <1>1, <1>2 DEF Place, Used
<1>4. witness.rows \in Seq(Row) /\ last \in Row
  BY <1>3, LastFacts DEF RInv, Shape
<1>5. k.observed \in State
  BY <1>1, <1>2, CallFacts
<1>6. row \in Row /\ row.state = k.observed /\ row.spent = last.spent
  BY <1>4, <1>5 DEF Row, Status
<1>7. witness' = Disown(RenamePending(witness, row))
  BY DEF Complete, LastRow
<1> HIDE DEF row
<1>8. Shape(witness') /\ witness'.rows = Append(witness.rows, row)
  BY <1>6, <1>7, RenameShape, DisownShape DEF RInv
<1>9. RowsInv(witness'.rows) /\ RanInv(ran', witness'.rows)
  <2>1. progress(last.state, row.state) /\ Values(last.spent) \subseteq Values(row.spent)
    BY <1>3, <1>6
  <2>2. RowsInv(witness.rows) /\ RanInv(ran, witness.rows)
    BY DEF RInv
  <2>3. RowsInv(Append(witness.rows, row))
    BY <1>4, <1>6, <2>1, <2>2, RowsGrow
  <2>4. RanInv(ran, Append(witness.rows, row))
    BY <1>4, <1>6, <2>1, <2>2, RanKept
  <2> QED BY <1>1, <1>8, <2>3, <2>4
<1>10. \A d \in Callers \ {c} : Outside(call[d])
  BY <1>2, Alone DEF RInv
<1>11. CallsInv'
  <2>1. PICK m : m = Idle
    OBVIOUS
  <2>2. Place(m, witness'.rows, ran') /\ Outside(m)
    BY <2>1, OutsidePlace DEF Outside, Idle
  <2> QED BY <1>1, <1>10, <2>1, <2>2, OneMoves DEF RInv
<1> QED BY <1>1, <1>8, <1>9, <1>11 DEF RInv, IssuedInv

\* An interrupted call gives up its lock; a killed one leaves it behind.
LEMMA DeathStep ==
  ASSUME RInv, NEW c \in Callers, Interrupt(c) \/ Kill(c)
  PROVE  RInv'
<1>1. CASE Interrupt(c)
  <2>1. witness.owner = c
    BY <1>1, InsideOwns DEF Interrupt, Fresh, Used
  <2> QED BY <1>1, <2>1, Left DEF Interrupt
<1>2. CASE Kill(c)
  <2>1. Shape(witness') /\ witness'.rows = witness.rows /\ ran' = ran /\ witness.owner = c
    BY <1>2, OwnShape DEF RInv, Kill
  <2>2. \A d \in Callers \ {c} : Outside(call[d])
    BY <2>1, Alone DEF RInv
  <2>3. PICK m : m = Idle
    OBVIOUS
  <2>4. Place(m, witness'.rows, ran') /\ Outside(m)
    BY <2>3, OutsidePlace DEF Outside, Idle
  <2>5. CallsInv'
    BY <1>2, <2>2, <2>3, <2>4, OneMoves DEF RInv, Kill
  <2> QED BY <1>2, <2>1, <2>5 DEF RInv, IssuedInv, Kill
<1> QED BY <1>1, <1>2

\* What happens around the authority: an approval is issued, time passes, the lock of a dead
\* process is removed, the local directory is copied or put back.
LEMMA SurroundingsStep ==
  ASSUME RInv, RemoveLock \/ Issue \/ Copy \/ Restore \/ Tick
  PROVE  RInv'
<1>1. CASE RemoveLock
  <2>1. Shape(witness') /\ witness'.rows = witness.rows
    BY <1>1, DisownShape DEF RInv, RemoveLock
  <2>2. call' = call /\ ran' = ran /\ UNCHANGED <<approvals, clock>>
    BY <1>1 DEF RemoveLock
  <2>3. \A d \in Callers : Outside(call[d])
    BY <1>1, Alone, AuthorityAssumption DEF RInv, RemoveLock
  <2>4. CallsInv'
    BY <2>1, <2>2, <2>3 DEF RInv, CallsInv, CallInv
  <2> QED BY <2>1, <2>2, <2>4 DEF RInv, IssuedInv
<1>2. CASE Issue
  <2>1. witness' = witness /\ call' = call /\ ran' = ran /\ clock' = clock
    BY <1>2 DEF Issue
  <2>2. approvals' \subseteq Approval
    <3>1. PICK r \in Requests, i \in Identities, m \in Matters, w \in Windows :
            approvals' = approvals \cup {[request |-> r, identity |-> i, matter |-> m,
              head |-> HeadOf(witness), from |-> clock + w[1], till |-> clock + w[2]]}
      BY <1>2 DEF Issue
    <3>2. w[1] \in Int /\ w[2] \in Int /\ clock \in Nat /\ HeadOf(witness) \in Nat
      BY AuthorityAssumption DEF RInv, IssuedInv, Shape, HeadOf
    <3>3. clock + w[1] \in Int /\ clock + w[2] \in Int
      BY <3>2
    <3> QED BY <3>1, <3>2, <3>3 DEF RInv, IssuedInv, Approval
  <2> QED BY <2>1, <2>2 DEF RInv, IssuedInv, CallsInv, CallInv
<1>3. CASE Copy \/ Restore
  BY <1>3 DEF RInv, IssuedInv, CallsInv, CallInv, Copy, Restore
<1>4. CASE Tick
  BY <1>4 DEF RInv, IssuedInv, CallsInv, CallInv, Tick
<1> QED BY <1>1, <1>2, <1>3, <1>4

-----------------------------------------------------------------------------
(* The theorems.                                                             *)

\* The invariant holds at the start.
LEMMA RInvInit == Init => RInv
<1> SUFFICES ASSUME Init PROVE RInv
  OBVIOUS
<1>1. Shape(witness) /\ witness.rows = <<>>
  BY DEF Init, Empty, Shape
<1>2. CallsInv
  <2>1. \A c \in Callers : call[c] = Idle
    BY DEF Init
  <2>2. Outside(Idle) /\ Place(Idle, witness.rows, ran)
    BY OutsidePlace DEF Outside, Idle
  <2> QED BY <2>1, <2>2 DEF Init, CallsInv, CallInv
<1>3. RowsInv(witness.rows) /\ RanInv(ran, witness.rows)
  BY <1>1 DEF Init, RowsInv, RanInv
<1> QED BY <1>1, <1>2, <1>3 DEF RInv, IssuedInv, Init

\* Every step keeps the invariant.
LEMMA RInvNext == RInv /\ [Next]_vars => RInv'
<1> SUFFICES ASSUME RInv, [Next]_vars PROVE RInv'
  OBVIOUS
<1>1. ASSUME NEW c \in Callers, InitializeBegin(c) \/ Call(c) \/ Step(c) \/ Interrupt(c) \/ Kill(c)
      PROVE  RInv'
  <2>1. CASE InitializeBegin(c)
    BY <2>1, InitializeBeginStep
  <2>2. CASE Call(c)
    BY <2>2, CallStep
  <2>3. CASE Step(c)
    BY <2>3, InitializePendingStep, InitializeEndStep, LockStep, ValidateStep, PublishPendingStep,
       PublishLocalStep, AppendPendingStep, ConsumeStep, RunActionStep, CompleteStep DEF Step
  <2>4. CASE Interrupt(c) \/ Kill(c)
    BY <2>4, DeathStep
  <2> QED BY <1>1, <2>1, <2>2, <2>3, <2>4
<1>2. CASE RemoveLock \/ Issue \/ Copy \/ Restore \/ Tick
  BY <1>2, SurroundingsStep
<1>3. CASE UNCHANGED vars
  BY <1>3 DEF vars, RInv, IssuedInv, CallsInv, CallInv
<1> QED BY <1>1, <1>2, <1>3 DEF Next

\* The invariant holds in every state: at each place of recover() the call finds on the
\* witness what it validated, and every recovery that was started is still on the last row.
THEOREM AuthorityInductive == Spec => []RInv
BY RInvInit, RInvNext, PTL DEF Spec

\* The invariant gives the properties of a state.
LEMMA RInvSound == RInv => RecoverySound
<1> SUFFICES ASSUME RInv PROVE RecoverySound
  OBVIOUS
<1>1. RecoveryRunsOnce
  BY DEF RInv, RanInv, RecoveryRunsOnce
<1>2. ConsumedBeforeRun /\ ApprovedInTime
  BY DEF RInv, RanInv, RunInv, ConsumedBeforeRun, ApprovedInTime
<1>3. OneOwner
  BY DEF RInv, CallsInv, CallInv, Outside, OneOwner
<1>4. WitnessNeverRegresses
  <2> SUFFICES ASSUME NEW i \in DOMAIN witness.rows, NEW j \in DOMAIN witness.rows, i < j
               PROVE  LET a == witness.rows[i].state
                          b == witness.rows[j].state
                      IN  /\ a.halt => b.halt
                          /\ a.event <= b.event /\ a.epoch <= b.epoch
                          /\ a.event = b.event => a.journal = b.journal
    BY DEF WitnessNeverRegresses
  <2>1. progress(witness.rows[i].state, witness.rows[j].state)
    BY DEF RInv, RowsInv
  <2>2. witness.rows[i].state \in State /\ witness.rows[j].state \in State
    <3>1. witness.rows[i] \in Row /\ witness.rows[j] \in Row
      BY DEF RInv, Shape
    <3> QED BY <3>1 DEF Row
  <2>3. \A a, b \in State : progress(a, b) =>
          /\ a.event <= b.event /\ a.epoch <= b.epoch
          /\ a.event = b.event => a.journal = b.journal
    BY DEF progress, State
  <2>4. \A a, b : progress(a, b) => (a.halt => b.halt)
    BY Zenon DEF progress
  <2> QED BY <2>1, <2>2, <2>3, <2>4
<1> QED BY <1>1, <1>2, <1>3, <1>4 DEF RecoverySound

\* A recovery runs at most once for a request and for an identity, after its consumption is on
\* the witness at the head its approval names and inside its window; one process at a time is
\* past the lock; no row clears a halt or goes back.  For any number of callers, kills and
\* restores of the local directory.
THEOREM RecoveriesAreSound == Spec => []RecoverySound
BY AuthorityInductive, RInvSound, PTL

\* A step that appends to a witness whose last row is CONSUMED, or that starts a recovery
\* then, is one of the call that consumed it.
LEMMA AmbiguityStep == RInv /\ [Next]_vars => AmbiguityIsFinal
<1> SUFFICES ASSUME RInv, [Next]_vars, witness.rows # <<>>,
                    LastRow(witness.rows).status = "CONSUMED",
                    witness'.rows # witness.rows \/ ran' # ran
             PROVE  \E c \in DOMAIN call :
                      /\ witness.owner = c /\ call[c].at \in {"consumed", "completing"}
                      /\ call[c].approval =
                           LastRow(witness.rows).spent[Len(LastRow(witness.rows).spent)].approval
  BY DEF AmbiguityIsFinal, LastRow
<1>1. Shape(witness) /\ DOMAIN call = Callers
  BY DEF RInv, CallsInv
<1>2. ASSUME NEW c \in Callers, RunAction(c) \/ Complete(c)
      PROVE  /\ witness.owner = c /\ call[c].at \in {"consumed", "completing"}
             /\ call[c].approval =
                  LastRow(witness.rows).spent[Len(LastRow(witness.rows).spent)].approval
  <2>1. call[c].at \in {"consumed", "completing"}
    BY <1>2 DEF RunAction, Complete, At
  <2>2. witness.owner = c /\ Place(call[c], witness.rows, ran)
    BY <2>1, InsideOwns DEF Used
  <2> QED BY <2>1, <2>2 DEF Place, Used, Record
<1>3. ASSUME NEW c \in Callers, InitializeEnd(c) PROVE FALSE
  BY <1>3 DEF RInv, CallsInv, CallInv, Place, InitializeEnd, At
<1>4. ASSUME NEW c \in Callers, Consume(c) PROVE FALSE
  <2>1. call[c].at = "consuming"
    BY <1>4 DEF Consume, At
  <2>2. Place(call[c], witness.rows, ran)
    BY <2>1, InsideOwns DEF Fresh
  <2> QED BY <2>1, <2>2 DEF Place, Fresh
<1>5. \A c \in Callers : OwnedBy(witness, c).rows = witness.rows
  BY <1>1, OwnShape
<1>6. OwnedBy(witness, Orphan).rows = witness.rows /\ Disown(witness).rows = witness.rows
      /\ WritePending(witness).rows = witness.rows
  BY <1>1, OwnShape, DisownShape, PendingShape
<1>7. ASSUME NEW c \in Callers,
             \/ InitializeBegin(c) \/ Call(c) \/ Interrupt(c) \/ Kill(c) \/ InitializePending(c)
             \/ Lock(c) \/ Validate(c) \/ PublishPending(c) \/ PublishLocal(c) \/ AppendPending(c)
      PROVE  FALSE
  <2>1. ran' = ran
    BY <1>7 DEF InitializeBegin, Call, Interrupt, Kill, InitializePending, Lock, Validate,
                PublishPending, PublishLocal, AppendPending
  <2>2. witness' \in {witness, OwnedBy(witness, c), OwnedBy(witness, Orphan), Disown(witness), WritePending(witness)}
    BY <1>7 DEF InitializeBegin, Call, Interrupt, Kill, InitializePending, Lock, Validate,
                PublishPending, PublishLocal, AppendPending, Leave
  <2> QED BY <1>5, <1>6, <2>1, <2>2
<1>8. CASE RemoveLock \/ Issue \/ Copy \/ Restore \/ Tick \/ UNCHANGED vars
  BY <1>6, <1>8 DEF RemoveLock, Issue, Copy, Restore, Tick, vars
<1> QED BY <1>1, <1>2, <1>3, <1>4, <1>7, <1>8 DEF Next, Step

\* While the outcome of a recovery is not on record only the call that consumed its approval
\* appends or runs anything: once that call is gone nothing is retried and nothing repaired.
THEOREM AmbiguityIsForGood == Spec => AmbiguityStays
<1>1. RInv /\ [Next]_vars => [AmbiguityIsFinal]_vars
  BY AmbiguityStep
<1> QED BY <1>1, AuthorityInductive, PTL DEF Spec, AmbiguityStays

-----------------------------------------------------------------------------
(* Types: the witness stays within its limit and its statuses alternate.     *)

LocalShape(l) ==
  /\ l = [exists |-> l.exists, files |-> l.files, pending |-> l.pending]
  /\ l.pending \subseteq Identities

StatusAt(i) == IF i = 1 THEN "READY" ELSE IF i % 2 = 0 THEN "CONSUMED" ELSE "COMPLETED"

RowsTyped(rows) == Len(rows) <= Limit /\ \A i \in DOMAIN rows : rows[i].status = StatusAt(i)

RoomInv ==
  \A c \in Callers : call[c].at \in {"consuming", "completing"} => Len(witness.rows) < Limit

TInv ==
  /\ RowsTyped(witness.rows) /\ RoomInv /\ clock \in 0..MaxTime
  /\ LocalShape(local) /\ \A l \in copies : LocalShape(l)

\* A row with the next status leaves the rows typed.
LEMMA RowsTypedGrow ==
  ASSUME NEW rows \in Seq(Row), RowsTyped(rows), Len(rows) < Limit, NEW row \in Row,
         row.status = StatusAt(Len(rows) + 1)
  PROVE  RowsTyped(Append(rows, row))
<1>1. Limit \in Nat
  BY AuthorityAssumption
<1>2. /\ DOMAIN Append(rows, row) = DOMAIN rows \cup {Len(rows) + 1} /\ Len(rows) \in Nat
      /\ Append(rows, row)[Len(rows) + 1] = row /\ Len(Append(rows, row)) = Len(rows) + 1
      /\ \A i \in DOMAIN rows : Append(rows, row)[i] = rows[i]
  BY AppendFacts
<1>3. Len(Append(rows, row)) <= Limit
  BY <1>1, <1>2
<1>4. \A i \in DOMAIN Append(rows, row) : Append(rows, row)[i].status = StatusAt(i)
  BY <1>2 DEF RowsTyped
<1> QED BY <1>3, <1>4 DEF RowsTyped

\* The status that follows the last one.
LEMMA NextStatus ==
  ASSUME NEW rows \in Seq(Row), RowsTyped(rows), rows # <<>>
  PROVE  /\ LastRow(rows).status # "CONSUMED" => StatusAt(Len(rows) + 1) = "CONSUMED"
         /\ LastRow(rows).status = "CONSUMED" => StatusAt(Len(rows) + 1) = "COMPLETED"
<1>1. Len(rows) \in DOMAIN rows /\ Len(rows) \in Nat /\ Len(rows) # 0
  BY LastFacts
<1>2. LastRow(rows).status = StatusAt(Len(rows))
  BY <1>1 DEF RowsTyped, LastRow
<1>3. PICK n \in Nat : n = Len(rows)
  BY <1>1
<1>4. StatusAt(n) # "CONSUMED" => StatusAt(n + 1) = "CONSUMED"
  BY <1>1, <1>3 DEF StatusAt
<1>5. StatusAt(n) = "CONSUMED" => StatusAt(n + 1) = "COMPLETED"
  BY <1>1, <1>3 DEF StatusAt
<1> QED BY <1>2, <1>3, <1>4, <1>5

\* A pending name in the local directory.
LEMMA LocalPending ==
  ASSUME NEW l, LocalShape(l), NEW id \in Identities
  PROVE  LocalShape([l EXCEPT !.pending = @ \cup {id}, !.exists = TRUE])
<1>1. PICK t, p : t = TRUE /\ p = l.pending \cup {id}
  OBVIOUS
<1>2. [l EXCEPT !.pending = @ \cup {id}, !.exists = TRUE] = [[l EXCEPT !.pending = p] EXCEPT !.exists = t]
  BY <1>1, Zenon
<1>3. p \subseteq Identities
  BY <1>1 DEF LocalShape
<1> HIDE <1>1
<1>4. [l EXCEPT !.pending = p] = [exists |-> l.exists, files |-> l.files, pending |-> p]
  BY DEF LocalShape
<1>5. [[exists |-> l.exists, files |-> l.files, pending |-> p] EXCEPT !.exists = t]
        = [exists |-> t, files |-> l.files, pending |-> p]
  OBVIOUS
<1> QED BY <1>2, <1>3, <1>4, <1>5 DEF LocalShape

\* The pending file of the local directory takes its name.
LEMMA LocalRenamed ==
  ASSUME NEW l, LocalShape(l), NEW r
  PROVE  LocalShape([l EXCEPT !.pending = @ \ {r.identity},
                              !.files = {f \in @ : f.identity # r.identity} \cup {r}])
<1>1. PICK p : p = l.pending \ {r.identity}
  OBVIOUS
<1>2. [l EXCEPT !.pending = p] = [exists |-> l.exists, files |-> l.files, pending |-> p]
  BY DEF LocalShape
<1>3. PICK g : g = {f \in l.files : f.identity # r.identity} \cup {r}
  OBVIOUS
<1>4. [l EXCEPT !.pending = @ \ {r.identity}, !.files = {f \in @ : f.identity # r.identity} \cup {r}]
        = [[l EXCEPT !.pending = p] EXCEPT !.files = {f \in @ : f.identity # r.identity} \cup {r}]
  BY <1>1, Zenon
<1>5. [[l EXCEPT !.pending = p] EXCEPT !.files = {f \in @ : f.identity # r.identity} \cup {r}]
        = [exists |-> l.exists, files |-> g, pending |-> p]
  <2>1. PICK e : e = [l EXCEPT !.pending = p]
    OBVIOUS
  <2>2. e = [exists |-> l.exists, files |-> l.files, pending |-> p]
    BY <1>2, <2>1
  <2>3. e.files = l.files
    BY <2>2
  <2>4. [e EXCEPT !.files = {f \in @ : f.identity # r.identity} \cup {r}] = [e EXCEPT !.files = g]
    BY <1>3, <2>3
  <2> HIDE <1>3
  <2>5. [e EXCEPT !.files = g] = [exists |-> l.exists, files |-> g, pending |-> p]
    BY <2>2
  <2> QED BY <2>1, <2>4, <2>5
<1>6. p \subseteq Identities
  BY <1>1 DEF LocalShape
<1> QED BY <1>4, <1>5, <1>6 DEF LocalShape

\* The local directory and its copies keep their shape.
LEMMA LocalStep ==
  ASSUME RInv, TInv, [Next]_vars
  PROVE  LocalShape(local)' /\ \A l \in copies' : LocalShape(l)
<1> USE DEF TInv
<1>1. CASE local' = local /\ copies' = copies
  BY <1>1
<1>2. ASSUME NEW c \in Callers, InitializeBegin(c) PROVE LocalShape(local') /\ copies' = copies
  <2>1. PICK t : t = TRUE
    OBVIOUS
  <2>2. local' = [NoLocal EXCEPT !.exists = t]
    BY <1>2, <2>1 DEF InitializeBegin
  <2> HIDE <2>1
  <2>3. local' = [exists |-> t, files |-> {}, pending |-> {}]
    BY <2>2 DEF NoLocal
  <2>4. LocalShape(local')
    BY <2>3 DEF LocalShape
  <2> QED BY <1>2, <2>4 DEF InitializeBegin
<1>3. ASSUME NEW c \in Callers, PublishPending(c) PROVE LocalShape(local') /\ copies' = copies
  <2>1. call[c].at = "publishing"
    BY <1>3 DEF PublishPending, At
  <2>2. Record(call[c].approval).identity \in Identities
    <3>1. call[c].approval \in Approval
      BY <2>1, InsideOwns, CallFacts DEF Fresh
    <3> QED BY <3>1 DEF Record, Approval
  <2>3. PICK id \in Identities : id = Record(call[c].approval).identity
    BY <2>2
  <2>4. local' = local \/ local' = [local EXCEPT !.pending = @ \cup {id}, !.exists = TRUE]
    BY <1>3, <2>3 DEF PublishPending
  <2>5. LocalShape([local EXCEPT !.pending = @ \cup {id}, !.exists = TRUE])
    BY LocalPending
  <2>6. copies' = copies
    BY <1>3 DEF PublishPending
  <2> QED BY <2>4, <2>5, <2>6
<1>4. ASSUME NEW c \in Callers, PublishLocal(c) PROVE LocalShape(local') /\ copies' = copies
  <2>1. PICK r : r = Record(call[c].approval)
    OBVIOUS
  <2>2. local' = local \/ local' = [local EXCEPT !.pending = @ \ {r.identity},
                                    !.files = {f \in @ : f.identity # r.identity} \cup {r}]
    BY <1>4, <2>1 DEF PublishLocal
  <2>3. LocalShape([local EXCEPT !.pending = @ \ {r.identity},
                                 !.files = {f \in @ : f.identity # r.identity} \cup {r}])
    BY LocalRenamed
  <2>4. copies' = copies
    BY <1>4 DEF PublishLocal
  <2> QED BY <2>2, <2>3, <2>4
<1>5. CASE Copy \/ Restore
  BY <1>5 DEF Copy, Restore
<1>6. \/ local' = local /\ copies' = copies
      \/ Copy \/ Restore
      \/ \E c \in Callers : InitializeBegin(c) \/ PublishPending(c) \/ PublishLocal(c)
  BY DEF Next, Step, Call, InitializePending, InitializeEnd, Lock, Validate, AppendPending, Consume,
         RunAction, Complete, Interrupt, Kill, RemoveLock, Issue, Tick, vars
<1> QED BY <1>1, <1>2, <1>3, <1>4, <1>5, <1>6

\* The three steps that append a row, and the steps that leave the rows alone.
LEMMA RowsStep ==
  ASSUME RInv, TInv, [Next]_vars
  PROVE  /\ RowsTyped(witness'.rows)
         /\ \/ witness'.rows = witness.rows
            \/ \E c \in Callers : /\ witness.owner = c
                                  /\ InitializeEnd(c) \/ Consume(c) \/ Complete(c)
<1>1. Shape(witness) /\ witness.rows \in Seq(Row) /\ RowsTyped(witness.rows) /\ Limit \in Nat /\ Limit # 0
  BY AuthorityAssumption DEF RInv, Shape, TInv
<1>2. ASSUME NEW c \in Callers, InitializeEnd(c)
      PROVE  RowsTyped(witness'.rows) /\ witness.owner = c
  <2>1. witness.owner = c /\ witness.rows = <<>>
    BY <1>2 DEF RInv, CallsInv, CallInv, Place, Outside, InitializeEnd, At
  <2>2. PICK row : /\ row \in Row /\ row.status = "READY"
                   /\ witness' = Disown(RenamePending(witness, row))
    <3>1. PICK halt \in BOOLEAN : witness' = Disown(RenamePending(witness,
              [state |-> [event |-> 0, journal |-> 0, epoch |-> 0, halt |-> halt, last |-> "none"],
               spent |-> <<>>, status |-> "READY"]))
      BY <1>2 DEF InitializeEnd
    <3>2. [event |-> 0, journal |-> 0, epoch |-> 0, halt |-> halt, last |-> "none"] \in State
      BY DEF State
    <3>3. \A s \in State : [state |-> s, spent |-> <<>>, status |-> "READY"] \in Row
      BY DEF Row, Status
    <3> QED BY <3>1, <3>2, <3>3
  <2>3. witness'.rows = Append(witness.rows, row)
    BY <1>1, <2>2, RenameShape, DisownShape
  <2>4. Len(witness.rows) = 0 /\ Len(witness.rows) < Limit
    BY <1>1, <2>1
  <2>5. row.status = StatusAt(Len(witness.rows) + 1)
    BY <2>2, <2>4 DEF StatusAt
  <2> QED BY <1>1, <2>1, <2>2, <2>3, <2>4, <2>5, RowsTypedGrow
<1>3. ASSUME NEW c \in Callers, Consume(c) PROVE RowsTyped(witness'.rows) /\ witness.owner = c
  <2>1. call[c].at = "consuming"
    BY <1>3 DEF Consume, At
  <2>2. witness.owner = c /\ Place(call[c], witness.rows, ran)
    BY <2>1, InsideOwns DEF Fresh
  <2>3. witness.rows # <<>> /\ LastRow(witness.rows).status # "CONSUMED" /\ Len(witness.rows) < Limit
    BY <2>1, <2>2 DEF Place, Fresh, TInv, RoomInv
  <2>4. Shape(witness')
    BY <1>3, ConsumeStep DEF RInv
  <2>5. PICK row : witness' = RenamePending(witness, row) /\ row.status = "CONSUMED"
    BY <1>3 DEF Consume
  <2>6. witness'.rows = Append(witness.rows, row)
    BY <2>5, <1>1 DEF RenamePending, Shape
  <2>7. row \in Row
    <3>1. Append(witness.rows, row) \in Seq(Row)
      BY <2>4, <2>6 DEF Shape
    <3>2. Len(witness.rows) + 1 \in DOMAIN Append(witness.rows, row)
          /\ Append(witness.rows, row)[Len(witness.rows) + 1] = row
      BY <1>1
    <3> QED BY <3>1, <3>2
  <2> QED BY <1>1, <2>2, <2>3, <2>5, <2>6, <2>7, NextStatus, RowsTypedGrow
<1>4. ASSUME NEW c \in Callers, Complete(c) PROVE RowsTyped(witness'.rows) /\ witness.owner = c
  <2>1. call[c].at = "completing"
    BY <1>4 DEF Complete, At
  <2>2. witness.owner = c /\ Place(call[c], witness.rows, ran) /\ call[c] \in CallRec
    BY <2>1, InsideOwns DEF Used
  <2>3. witness.rows # <<>> /\ LastRow(witness.rows).status = "CONSUMED" /\ Len(witness.rows) < Limit
    BY <2>1, <2>2 DEF Place, Used, TInv, RoomInv
  <2>4. call[c].observed \in State /\ LastRow(witness.rows) \in Row
    BY <1>1, <2>2, <2>3, LastFacts DEF CallRec
  <2>5. PICK row : row = [state |-> call[c].observed, spent |-> LastRow(witness.rows).spent,
                          status |-> "COMPLETED"]
    OBVIOUS
  <2>6. row \in Row /\ row.status = "COMPLETED"
    BY <2>4, <2>5 DEF Row, Status
  <2>7. witness' = Disown(RenamePending(witness, row))
    BY <1>4, <2>5 DEF Complete, LastRow
  <2>8. witness'.rows = Append(witness.rows, row)
    BY <1>1, <2>6, <2>7, RenameShape, DisownShape
  <2> QED BY <1>1, <2>2, <2>3, <2>6, <2>8, NextStatus, RowsTypedGrow
<1>5. \A c \in Callers : OwnedBy(witness, c).rows = witness.rows
  BY <1>1, OwnShape
<1>6. OwnedBy(witness, Orphan).rows = witness.rows /\ Disown(witness).rows = witness.rows
      /\ WritePending(witness).rows = witness.rows
  BY <1>1, OwnShape, DisownShape, PendingShape
<1>7. ASSUME NEW c \in Callers,
             \/ InitializeBegin(c) \/ Call(c) \/ Interrupt(c) \/ Kill(c) \/ InitializePending(c)
             \/ Lock(c) \/ Validate(c) \/ PublishPending(c) \/ PublishLocal(c) \/ AppendPending(c)
             \/ RunAction(c)
      PROVE  witness'.rows = witness.rows
  <2>1. witness' \in {witness, OwnedBy(witness, c), OwnedBy(witness, Orphan), Disown(witness), WritePending(witness)}
    BY <1>7 DEF InitializeBegin, Call, Interrupt, Kill, InitializePending, Lock, Validate,
                PublishPending, PublishLocal, AppendPending, RunAction, Leave
  <2> QED BY <1>5, <1>6, <2>1
<1>8. CASE RemoveLock \/ Issue \/ Copy \/ Restore \/ Tick \/ UNCHANGED vars
  <2>1. witness'.rows = witness.rows
    BY <1>6, <1>8 DEF RemoveLock, Issue, Copy, Restore, Tick, vars
  <2> QED BY <1>1, <2>1
<1> QED BY <1>1, <1>2, <1>3, <1>4, <1>7, <1>8 DEF Next, Step

\* Whoever is about to append found room, and nobody else appends meanwhile.
LEMMA RoomStep ==
  ASSUME RInv, TInv, [Next]_vars
  PROVE  RoomInv'
<1> SUFFICES ASSUME NEW c \in Callers, call'[c].at \in {"consuming", "completing"}
             PROVE  Len(witness'.rows) < Limit
  BY DEF RoomInv
<1>1. CASE witness'.rows = witness.rows /\ call'[c].at = call[c].at
  BY <1>1 DEF TInv, RoomInv
<1>2. CASE AppendPending(c)
  <2>1. CanAppend(witness, Limit)
    <3>1. ASSUME Leave(c) PROVE FALSE
      <4>1. call'[c] = Idle
        BY <3>1 DEF Leave, RInv, CallsInv
      <4> QED BY <4>1 DEF Idle
    <3> QED BY <1>2, <3>1 DEF AppendPending
  <2>2. witness'.rows = witness.rows
    BY <1>2, <2>1, PendingShape DEF AppendPending, RInv
  <2> QED BY <2>1, <2>2 DEF CanAppend
<1>3. ~AppendPending(c) => call'[c].at = call[c].at
  <2>1. call = [d \in Callers |-> call[d]] /\ call[c] \in {Idle, Initializing} \cup CallRec
    BY DEF RInv, CallsInv, CallInv
  <2>2. SUFFICES ASSUME ~AppendPending(c), call' # call PROVE call'[c].at = call[c].at
    OBVIOUS
  <2>3. ASSUME NEW d \in Callers, d # c,
               InitializeBegin(d) \/ Call(d) \/ Step(d) \/ Interrupt(d) \/ Kill(d)
        PROVE  call'[c].at = call[c].at
    BY <2>1, <2>3 DEF InitializeBegin, Call, Step, Interrupt, Kill, InitializePending, InitializeEnd,
       Lock, Validate, PublishPending, PublishLocal, AppendPending, Consume, RunAction, Complete,
       Leave, Goto
  <2>4. ASSUME InitializeBegin(c) \/ Call(c) \/ Step(c) \/ Interrupt(c) \/ Kill(c)
        PROVE  FALSE
    <3>1. \A k : call' = [call EXCEPT ![c] = k] => call'[c] = k
      BY <2>1
    <3>2. \A p \in Places : call[c] \in CallRec /\ Goto(c, p) => call'[c].at = p
      BY <2>1, MoveFacts DEF Goto
    <3>3. ASSUME call' = [call EXCEPT ![c] = Idle] PROVE FALSE
      <4>1. call'[c] = Idle
        BY <3>1, <3>3
      <4> QED BY <4>1 DEF Idle
    <3>4. CASE InitializeBegin(c) \/ Call(c)
      <4>1. CASE InitializeBegin(c)
        <5>1. call'[c] = [at |-> "initializing"]
          BY <2>1, <4>1 DEF InitializeBegin
        <5> QED BY <5>1
      <4>2. CASE Call(c)
        <5>1. PICK a, i, m : call' = [call EXCEPT ![c] = [at |-> "called", approval |-> a,
                head |-> HeadOf(witness), observed |-> witness.rows[i].state, matter |-> m,
                now |-> clock]]
          BY <4>2 DEF Call
        <5>2. call'[c] = [at |-> "called", approval |-> a, head |-> HeadOf(witness),
                          observed |-> witness.rows[i].state, matter |-> m, now |-> clock]
          BY <2>1, <5>1
        <5> QED BY <5>2
      <4> QED BY <3>4, <4>1, <4>2
    <3>5. CASE Interrupt(c) \/ Kill(c) \/ InitializeEnd(c) \/ Complete(c)
      BY <3>3, <3>5 DEF Interrupt, Kill, InitializeEnd, Complete, Leave
    <3>6. CASE InitializePending(c)
      BY <2>2, <3>6 DEF InitializePending
    <3>7. CASE Lock(c) \/ Validate(c) \/ PublishPending(c) \/ PublishLocal(c)
      <4>1. call[c] \in CallRec
        BY <2>1, <3>7, CallFacts DEF Lock, Validate, PublishPending, PublishLocal, At
      <4>2. \E p \in {"locked", "publishing", "recorded", "renaming"} : Goto(c, p)
        BY <3>3, <3>7 DEF Lock, Validate, PublishPending, PublishLocal, Leave
      <4> QED BY <3>2, <4>1, <4>2 DEF Places, Fresh
    <3>8. CASE Consume(c) \/ RunAction(c)
      <4>1. call[c] \in CallRec
        BY <2>1, <3>8, CallFacts DEF Consume, RunAction, At
      <4>2. \E s, p : p \in {"consumed", "returned"}
                         /\ call' = [call EXCEPT ![c].at = p, ![c].observed = s]
        BY <3>3, <3>8 DEF Consume, RunAction, Leave
      <4>3. PICK s, p : p \in {"consumed", "returned"}
                         /\ call' = [call EXCEPT ![c].at = p, ![c].observed = s]
        BY <4>2
      <4>4. call'[c] = [[call[c] EXCEPT !.at = p] EXCEPT !.observed = s]
        BY <2>1, <4>3
      <4>5. call'[c].at = p
        <5>1. p \in Places
          BY <4>3 DEF Places, Used
        <5>2. PICK k \in CallRec : k = call[c]
          BY <4>1
        <5>3. call'[c] = [at |-> p, approval |-> k.approval, head |-> k.head,
                          observed |-> s, matter |-> k.matter, now |-> k.now]
          BY <4>4, <5>1, <5>2, ObserveFacts
        <5> QED BY <5>3
      <4> QED BY <4>3, <4>5
    <3> QED BY <2>2, <2>4, <3>4, <3>5, <3>6, <3>7, <3>8 DEF Step
  <2>5. CASE RemoveLock \/ Issue \/ Copy \/ Restore \/ Tick \/ UNCHANGED vars
    BY <2>2, <2>5 DEF RemoveLock, Issue, Copy, Restore, Tick, vars
  <2> QED BY <2>3, <2>4, <2>5 DEF Next
<1>4. CASE call'[c].at = call[c].at /\ witness'.rows # witness.rows
  <2>1. PICK d \in Callers : witness.owner = d /\ (InitializeEnd(d) \/ Consume(d) \/ Complete(d))
    BY <1>4, RowsStep
  <2>2. call[c].at \in {"consuming", "completing"}
    BY <1>4
  <2>3. d = c
    BY <2>1, <2>2, InsideOwns DEF Fresh, Used
  <2>4. call = [e \in Callers |-> call[e]] /\ call[c] \in CallRec
    BY <2>2, InsideOwns DEF RInv, CallsInv, Fresh, Used
  <2>5. CASE InitializeEnd(c) \/ Complete(c)
    <3>1. call'[c] = Idle
      BY <2>4, <2>5 DEF InitializeEnd, Complete
    <3> QED BY <3>1 DEF Idle
  <2>6. CASE Consume(c)
    <3>1. PICK p, s : p \in Places /\ p = "consumed"
                      /\ call' = [call EXCEPT ![c].at = p, ![c].observed = s]
      BY <2>6 DEF Consume, Places, Used
    <3>2. call'[c] = [[call[c] EXCEPT !.at = p] EXCEPT !.observed = s]
      BY <2>4, <3>1
    <3>3. call'[c].at = "consumed"
      <4>1. PICK k \in CallRec : k = call[c]
        BY <2>4
      <4>2. p \in Places
        BY <3>1
      <4>3. call'[c] = [at |-> p, approval |-> k.approval, head |-> k.head,
                        observed |-> s, matter |-> k.matter, now |-> k.now]
        BY <3>2, <4>1, <4>2, ObserveFacts
      <4> QED BY <3>1, <4>3
    <3> QED BY <3>3
  <2> QED BY <2>1, <2>3, <2>5, <2>6
<1> QED BY <1>1, <1>2, <1>3, <1>4

\* The witness stays within its limit, its statuses are READY and then CONSUMED and COMPLETED
\* in turn, the owner is a caller, nobody or a dead process, and the clock and the pending
\* names keep their types.
THEOREM TypeCorrect == Spec => []TypeOK
<1>1. Init => TInv
  <2> SUFFICES ASSUME Init PROVE TInv
    OBVIOUS
  <2>1. RowsTyped(witness.rows)
    BY AuthorityAssumption DEF Init, Empty, RowsTyped
  <2>2. RoomInv
    BY DEF Init, RoomInv, Idle
  <2>3. LocalShape(local) /\ copies = {}
    BY DEF Init, LocalShape, NoLocal
  <2>4. clock \in 0..MaxTime
    BY AuthorityAssumption DEF Init
  <2> QED BY <2>1, <2>2, <2>3, <2>4 DEF TInv
<1>2. RInv /\ TInv /\ [Next]_vars => TInv'
  <2> SUFFICES ASSUME RInv, TInv, [Next]_vars PROVE TInv'
    OBVIOUS
  <2>1. clock' \in 0..MaxTime
    <3>1. clock' = clock \/ Tick
      BY DEF Next, Step, InitializeBegin, Call, InitializePending, InitializeEnd, Lock, Validate,
         PublishPending, PublishLocal, AppendPending, Consume, RunAction, Complete, Interrupt, Kill,
         RemoveLock, Issue, Copy, Restore, vars
    <3>2. MaxTime \in Nat
      BY AuthorityAssumption
    <3> QED BY <3>1, <3>2 DEF TInv, Tick
  <2> QED BY <2>1, LocalStep, RowsStep, RoomStep DEF TInv
<1>3. RInv /\ TInv => TypeOK
  <2> SUFFICES ASSUME RInv, TInv PROVE TypeOK
    OBVIOUS
  <2>1. \A i \in DOMAIN witness.rows : witness.rows[i].state \in State
    <3> SUFFICES ASSUME NEW i \in DOMAIN witness.rows PROVE witness.rows[i].state \in State
      OBVIOUS
    <3>1. witness.rows[i] \in Row
      BY DEF RInv, Shape
    <3> QED BY <3>1 DEF Row
  <2> QED BY <2>1 DEF TInv, RInv, Shape, RowsTyped, StatusAt, LocalShape, TypeOK
<1> QED BY <1>1, <1>2, <1>3, AuthorityInductive, PTL DEF Spec

-----------------------------------------------------------------------------
(***************************************************************************)
(* The ingestion of data and the certification of a dataset.               *)
(***************************************************************************)
Masters == [observed : Int, expires : Int, token : [Symbols -> Tokens]]

SessionShape ==
  /\ session = [seen |-> session.seen, closed |-> session.closed] /\ session.closed \in BOOLEAN
  /\ session.closed => session.seen = {}
  /\ \A x, y \in session.seen : x.id = y.id => x = y

MastersInOrder ==
  /\ masters \in Seq(Masters)
  /\ \A i \in 1..Len(masters) : IsOneToOne(masters[i].token)
  /\ \A i \in 1..Len(masters) : i > 1 =>
       \A s, q \in Symbols : masters[i-1].token[q] = masters[i].token[s] => s = q

\* What one certified content is, under a scope.
Whole(c, sc) ==
  /\ {c.raw[i].start : i \in DOMAIN c.raw} = Traded(sc) /\ sc.events = {}
  /\ \A i \in DOMAIN c.raw :
       /\ i > 1 => c.raw[i-1].start < c.raw[i].start
       /\ c.raw[i].available > c.raw[i].start /\ c.raw[i].available <= c.at
       /\ \A j \in DOMAIN sc.periods :
            sc.periods[j].token = c.raw[i].token => sc.periods[j].symbol = Symbol

DatasetInv ==
  /\ scope \in Scopes /\ delivered \in Seq(Records)
  /\ \A c \in certified : Whole(c, scope)
  /\ certified = {} \/ \E c : certified = {c}

IngestionInv ==
  /\ now \in 0..MaxNow /\ SessionShape /\ MastersInOrder /\ StudiedIsCurrent /\ DatasetInv

\* The expected candles of a verified calendar are those of the intervals that were traded.
LEMMA ExpectedIsTraded ==
  ASSUME NEW sc \in Scopes, CalendarVerified(sc)
  PROVE  expected(sc) = Traded(sc)
<1> DEFINE size == sc.length * DayLength
<1>1. size \in Int
  <2>1. sc.length \in Int /\ DayLength \in Int
    BY IngestionAssumption
  <2> QED BY <2>1
<1>2. Window(sc) = 0..(size - 1)
  BY DEF Window
<1> HIDE DEF size
<1>3. /\ sc.listed.start \in Int /\ sc.listed.end \in Int
      /\ \A s \in sc.sessions : s.start \in Int /\ s.end \in Int
      /\ \A i \in DOMAIN sc.pauses : sc.pauses[i].start \in Int /\ sc.pauses[i].end \in Int
  <2>1. sc.listed \in Intervals /\ sc.sessions \subseteq Intervals /\ sc.pauses \in Seq(Intervals)
    BY IngestionAssumption
  <2>2. \A i \in DOMAIN sc.pauses : sc.pauses[i] \in Intervals
    BY <2>1
  <2> QED BY <2>1, <2>2 DEF Intervals
<1>4. \A s \in sc.sessions : s.start \in Window(sc) /\ s.end - 1 \in Window(sc)
  BY DEF CalendarVerified
<1>5. ASSUME NEW s \in sc.sessions, NEW t \in s.start..(s.end - 1) PROVE t \in Window(sc) /\ t \in Int
  BY <1>1, <1>2, <1>3, <1>4
<1>6. ASSUME NEW t \in Int
      PROVE  /\ \A s \in sc.sessions : t \in s.start..(s.end - 1) <=> (s.start <= t /\ t < s.end)
             /\ (sc.listed.start <= t /\ t + 1 <= sc.listed.end) <=> t \in sc.listed.start..(sc.listed.end - 1)
             /\ \A i \in DOMAIN sc.pauses :
                  ~(t < sc.pauses[i].end /\ t + 1 > sc.pauses[i].start)
                    <=> ~(sc.pauses[i].start <= t /\ t < sc.pauses[i].end)
  BY <1>3
<1>7. ASSUME NEW t \in expected(sc) PROVE t \in Traded(sc)
  <2>1. PICK s \in sc.sessions : t \in s.start..(s.end - 1)
    BY <1>7 DEF expected, SlotsOf
  <2>2. t \in Window(sc) /\ t \in Int
    BY <1>5, <2>1
  <2>3. \E r \in sc.sessions : r.start <= t /\ t < r.end
    BY <1>6, <2>1, <2>2
  <2>4. t \in sc.listed.start..(sc.listed.end - 1)
    BY <1>6, <1>7, <2>2 DEF expected
  <2>5. ~\E i \in DOMAIN sc.pauses : sc.pauses[i].start <= t /\ t < sc.pauses[i].end
    BY <1>6, <1>7, <2>2 DEF expected
  <2> QED BY <2>2, <2>3, <2>4, <2>5 DEF Traded
<1>8. ASSUME NEW t \in Traded(sc) PROVE t \in expected(sc)
  <2>1. t \in Int
    BY <1>1, <1>2, <1>8 DEF Traded
  <2>2. \E s \in sc.sessions : t \in s.start..(s.end - 1)
    BY <1>6, <1>8, <2>1 DEF Traded
  <2>3. sc.listed.start <= t /\ t + 1 <= sc.listed.end
    BY <1>6, <1>8, <2>1 DEF Traded
  <2>4. \A i \in DOMAIN sc.pauses : ~(t < sc.pauses[i].end /\ t + 1 > sc.pauses[i].start)
    BY <1>6, <1>8, <2>1 DEF Traded
  <2>5. t \in SlotsOf(sc.sessions)
    BY <2>2 DEF SlotsOf
  <2> QED BY <2>3, <2>4, <2>5 DEF expected
<1> QED BY <1>7, <1>8

\* A refusal is never taken for a certificate.
LEMMA RefusalNames ==
  ASSUME NEW sc
  PROVE  Refusal(sc) \in {"", "RETENTION_NOT_AUTHORIZED", "DATASET_INVALID", "CALENDAR_UNVERIFIED",
                          "INSTRUMENT_IDENTITY_UNVERIFIED", "CORPORATE_ACTION_UNVERIFIED",
                          "ADJUSTMENT_UNVERIFIED"}
BY DEF Refusal

\* What the certifying assessment checked.
LEMMA CertifiedIsWholeThen ==
  ASSUME NEW raw \in Seq(Records), NEW sc \in Scopes, now \in Int,
         assess(raw, sc).status = "SYNTHETIC_DATASET_CERTIFIED"
  PROVE  Whole(assess(raw, sc), sc)
<1> DEFINE c == assess(raw, sc)
           got == {raw[i].start : i \in {j \in DOMAIN raw : RecordValid(raw[j], sc)}}
<1>1. Refusal(sc) = ""
  <2>1. CASE Refusal(sc) # ""
    <3>1. c.status = Refusal(sc)
      BY <2>1 DEF assess
    <3> QED BY <2>1, <3>1, RefusalNames
  <2> QED BY <2>1
<1>2. /\ c.raw = raw /\ c.at = now
      /\ ~Irregular(raw, sc) /\ actions(sc) # "ADJUSTMENT_REQUIRED"
      /\ ~(expected(sc) \ got # {} \/ expected(sc) = {})
  BY <1>1 DEF assess
<1> HIDE DEF c
<1>3. CalendarVerified(sc) /\ identity(sc)
      /\ actions(sc) \notin {"CORPORATE_ACTION_UNVERIFIED", "ADJUSTMENT_UNVERIFIED"}
  BY <1>1 DEF Refusal
<1>4. sc.events = {}
  BY <1>2, <1>3 DEF actions
<1>5. Len(raw) \in Nat /\ DOMAIN raw = 1..Len(raw)
      /\ \A i \in DOMAIN raw : raw[i].start \in Int /\ raw[i].available \in Int
  BY IngestionAssumption
<1> DEFINE starts == [i \in DOMAIN raw |-> raw[i].start]
<1>6. /\ \A i \in DOMAIN raw : RecordValid(raw[i], sc)
      /\ IsInjective(starts) /\ ToSet(starts) \ expected(sc) = {}
      /\ \A i \in DOMAIN raw : i > 1 => ~(starts[i-1] > starts[i])
  BY <1>2 DEF Irregular
<1>7. {raw[i].start : i \in DOMAIN raw} = expected(sc)
  <2>1. \A i \in DOMAIN raw : raw[i].start \in expected(sc)
    BY <1>6 DEF ToSet
  <2>2. \A t \in expected(sc) : \E i \in DOMAIN raw : t = raw[i].start
    BY <1>2
  <2> QED BY <2>1, <2>2
<1>8. ASSUME NEW i \in DOMAIN raw, i > 1 PROVE raw[i-1].start < raw[i].start
  <2>1. i - 1 \in DOMAIN raw /\ i - 1 # i
    BY <1>5, <1>8
  <2>2. starts[i-1] # starts[i]
    BY <1>6, <2>1 DEF IsInjective
  <2>3. starts[i-1] = raw[i-1].start /\ starts[i] = raw[i].start /\ ~(starts[i-1] > starts[i])
    BY <1>6, <1>8, <2>1
  <2>4. raw[i-1].start \in Int /\ raw[i].start \in Int
    BY <1>5, <2>1
  <2> HIDE DEF starts
  <2> QED BY <2>2, <2>3, <2>4
<1>9. ASSUME NEW i \in DOMAIN raw
      PROVE  raw[i].available > raw[i].start /\ raw[i].available <= now
  <2>1. raw[i].start + 1 <= raw[i].available /\ raw[i].available <= now
    BY <1>6 DEF RecordValid
  <2>2. raw[i].start \in Int /\ raw[i].available \in Int
    BY <1>5
  <2> QED BY <2>1, <2>2
<1>10. ASSUME NEW i \in DOMAIN raw, NEW j \in DOMAIN sc.periods, sc.periods[j].token = raw[i].token
       PROVE  sc.periods[j].symbol = Symbol
  <2>1. PICK k \in DOMAIN sc.periods : sc.periods[k].symbol = Symbol /\ sc.periods[k].token = raw[i].token
    BY <1>6 DEF RecordValid, Covering
  <2>2. \A m \in DOMAIN sc.periods : \A n \in 1..(m - 1) :
          sc.periods[m].symbol # sc.periods[n].symbol => sc.periods[m].token # sc.periods[n].token
    BY <1>3 DEF identity
  <2>3. j \in Int /\ k \in Int /\ j >= 1 /\ k >= 1
    BY IngestionAssumption
  <2>4. CASE j = k
    BY <2>1, <2>4
  <2>5. CASE j < k
    <3>1. j \in 1..(k - 1)
      BY <2>3, <2>5
    <3> QED BY <1>10, <2>1, <2>2, <3>1
  <2>6. CASE k < j
    <3>1. k \in 1..(j - 1)
      BY <2>3, <2>6
    <3> QED BY <1>10, <2>1, <2>2, <3>1
  <2> QED BY <2>3, <2>4, <2>5, <2>6
<1>11. {raw[i].start : i \in DOMAIN raw} = Traded(sc)
  BY <1>3, <1>7, ExpectedIsTraded
<1> HIDE DEF starts, got
<1> QED BY <1>2, <1>4, <1>8, <1>9, <1>10, <1>11 DEF Whole, c

LEMMA SlotsAreInt == \A t \in SlotsOf(Sessions) : t \in Int
<1>1. \A s \in Sessions : s.start \in Int /\ s.end \in Int
  BY IngestionAssumption DEF Intervals
<1> QED BY <1>1 DEF SlotsOf

\* Accepting and studying a batch.
LEMMA BatchSteps ==
  ASSUME IngestionInv, NEW b \in Batches, NEW m \in ToSet(masters), Accept(b, m) \/ Research(b, m)
  PROVE  SessionShape' /\ StudiedIsCurrent' /\ UNCHANGED <<now, masters, scope, delivered, certified>>
<1> USE DEF IngestionInv
<1>0. now \in Int /\ UNCHANGED <<now, masters, scope, delivered, certified>>
  BY IngestionAssumption DEF Accept, Research
<1>1. Dispose = [seen |-> {}, closed |-> TRUE] /\ Active \in {Dispose, session}
  BY DEF Dispose, Active
<1>2. ASSUME session' = Active PROVE SessionShape'
  <2>1. CASE session' = session
    BY <2>1 DEF SessionShape
  <2>2. CASE session' = Dispose
    <3>1. session' = [seen |-> {}, closed |-> TRUE]
      BY <1>1, <2>2
    <3>2. session'.seen = {} /\ session'.closed = TRUE
      BY <3>1
    <3> QED BY <3>1, <3>2 DEF SessionShape
  <2> QED BY <1>1, <1>2, <2>1, <2>2
<1>3. ASSUME Accept(b, m), session' # Active PROVE SessionShape'
  <2>1. /\ IsActive /\ session' = [session EXCEPT !.seen = @ \cup {b}]
        /\ \A x \in session.seen : x.id # b.id
    BY <1>3 DEF Accept
  <2>2. ~session.closed
    BY <2>1 DEF IsActive, Active, Dispose
  <2>3. session' = [seen |-> session.seen \cup {b}, closed |-> session.closed]
    BY <2>1 DEF SessionShape
  <2>4. session'.seen = session.seen \cup {b} /\ session'.closed = session.closed
    BY <2>3
  <2> QED BY <2>1, <2>2, <2>3, <2>4 DEF SessionShape
<1>4. StudiedIsCurrent'
  <2>1. CASE studied' = studied
    BY <2>1 DEF StudiedIsCurrent
  <2>2. CASE studied' # studied
    <3> DEFINE x == [batch |-> b, master |-> m, at |-> now]
    <3>1. studied' = studied \cup {x} /\ completeness(b, m) = "COMPLETE"
      BY <2>2 DEF Accept, Research
    <3>2. candles(b, m) /\ b.bars = SlotsOf(Sessions)
      <4>1. b.verified \in {"all", "CALENDAR_UNVERIFIED"}
        BY DEF Batches
      <4> QED BY <3>1, <4>1 DEF completeness
    <3>3. b.observed \in Int
      BY <1>0 DEF Batches
    <3>4. \A t \in b.bars : t + 1 <= now
      <4>1. \A t \in b.bars : t \in Int /\ t + 1 <= b.observed
        BY <3>2, SlotsAreInt DEF candles
      <4>2. b.observed <= now
        BY <3>2 DEF candles
      <4> QED BY <1>0, <3>3, <4>1, <4>2
    <3>5. m.observed <= now /\ now < m.expires
      BY <3>2 DEF candles, MasterValid
    <3>6. x.batch = b /\ x.master = m /\ x.at = now
      OBVIOUS
    <3> HIDE DEF x
    <3> QED BY <3>1, <3>2, <3>4, <3>5, <3>6 DEF StudiedIsCurrent
  <2> QED BY <2>1, <2>2
<1>5. Research(b, m) => session' = Active
  BY DEF Research
<1> QED BY <1>0, <1>2, <1>3, <1>4, <1>5

LEMMA MasterStep ==
  ASSUME IngestionInv, AcceptMaster
  PROVE  MastersInOrder'
<1>0. now \in Int /\ Validity \in Int
  BY IngestionAssumption DEF IngestionInv
<1>1. PICK token \in [Symbols -> Tokens] :
        LET m == [observed |-> now, expires |-> now + Validity, token |-> token]
        IN  /\ IsOneToOne(token)
            /\ masters # <<>> => Follows(m, Last(masters))
            /\ masters' = Append(masters, m)
  BY DEF AcceptMaster
<1> DEFINE m == [observed |-> now, expires |-> now + Validity, token |-> token]
           n == Len(masters)
<1>2. m \in Masters /\ m.token = token
  BY <1>0 DEF Masters
<1>3. masters' = Append(masters, m) /\ (masters # <<>> => Follows(m, Last(masters))) /\ IsOneToOne(token)
  BY <1>1
<1> HIDE DEF m
<1>4. masters \in Seq(Masters) /\ n \in Nat
  BY DEF IngestionInv, MastersInOrder
<1>5. /\ masters' \in Seq(Masters) /\ Len(masters') = n + 1 /\ masters'[n + 1] = m
      /\ \A i \in 1..n : masters'[i] = masters[i]
  BY <1>2, <1>3, <1>4
<1> HIDE DEF n
<1>6. ASSUME NEW i \in 1..(n + 1) PROVE i \in 1..n \/ i = n + 1
  BY <1>4
<1>7. \A i \in 1..Len(masters') : IsOneToOne(masters'[i].token)
  BY <1>2, <1>3, <1>5, <1>6 DEF IngestionInv, MastersInOrder, n
<1>8. ASSUME NEW i \in 1..Len(masters'), i > 1, NEW s \in Symbols, NEW q \in Symbols,
             masters'[i-1].token[q] = masters'[i].token[s]
      PROVE  s = q
  <2>1. CASE i \in 1..n
    <3>1. i - 1 \in 1..n
      BY <1>4, <1>8, <2>1
    <3> QED BY <1>5, <1>8, <2>1, <3>1 DEF IngestionInv, MastersInOrder, n
  <2>2. CASE i = n + 1
    <3>1. n \in 1..n /\ i - 1 = n /\ masters # <<>>
      BY <1>4, <1>8, <2>2 DEF n
    <3>2. Last(masters) = masters[n]
      BY DEF Last, n
    <3>3. masters'[i-1].token[q] = Last(masters).token[q] /\ masters'[i].token[s] = m.token[s]
      BY <1>5, <2>2, <3>1, <3>2
    <3> QED BY <1>3, <1>8, <3>1, <3>3 DEF Follows
  <2> QED BY <1>5, <1>6, <1>8, <2>1, <2>2
<1> QED BY <1>5, <1>7, <1>8 DEF MastersInOrder

LEMMA IngestionStep == IngestionInv /\ [IngestionNext]_ingestionVars => IngestionInv'
<1> SUFFICES ASSUME IngestionInv, [IngestionNext]_ingestionVars PROVE IngestionInv'
  OBVIOUS
<1> USE DEF IngestionInv
<1>0. now \in Int /\ MaxNow \in Nat
  BY IngestionAssumption
<1>1. ASSUME UNCHANGED session PROVE SessionShape'
  BY <1>1 DEF SessionShape
<1>2. ASSUME UNCHANGED masters PROVE MastersInOrder'
  BY <1>2 DEF MastersInOrder
<1>3. ASSUME UNCHANGED studied PROVE StudiedIsCurrent'
  BY <1>3 DEF StudiedIsCurrent
<1>4. ASSUME UNCHANGED <<scope, certified>>, delivered' \in Seq(Records) PROVE DatasetInv'
  BY <1>4 DEF DatasetInv
<1>5. delivered \in Seq(Records)
  BY DEF DatasetInv
<1>6. CASE AcceptMaster
  BY <1>1, <1>3, <1>4, <1>5, <1>6, MasterStep DEF AcceptMaster
<1>7. ASSUME NEW b \in Batches, NEW m \in ToSet(masters), Accept(b, m) \/ Research(b, m) PROVE IngestionInv'
  <2>1. SessionShape' /\ StudiedIsCurrent' /\ UNCHANGED <<now, masters, scope, delivered, certified>>
    BY <1>7, BatchSteps
  <2> QED BY <2>1, <1>2, <1>4, <1>5
<1>8. CASE Close
  <2>1. session' = [seen |-> {}, closed |-> TRUE]
    BY <1>8 DEF Close, Dispose
  <2>2. SessionShape'
    BY <2>1 DEF SessionShape
  <2> QED BY <2>2, <1>2, <1>3, <1>4, <1>5, <1>8 DEF Close
<1>9. CASE Deliver
  <2>1. PICK r \in Records : delivered' = Append(delivered, r)
    BY <1>9 DEF Deliver
  <2>2. delivered' \in Seq(Records)
    BY <1>5, <2>1
  <2> QED BY <1>1, <1>2, <1>3, <1>4, <1>9, <2>2 DEF Deliver
<1>10. CASE Withdraw
  <2>1. delivered' \in Seq(Records)
    BY <1>10 DEF Withdraw
  <2> QED BY <1>1, <1>2, <1>3, <1>4, <1>10, <2>1 DEF Withdraw
<1>11. CASE Certify
  <2> DEFINE c == assess(delivered, scope)
  <2>1. certified' = {c} /\ UNCHANGED <<now, masters, session, studied, scope, delivered>>
    BY <1>11 DEF Certify
  <2>2. Whole(c, scope)
    BY <1>0, <1>5, <1>11, CertifiedIsWholeThen DEF Certify, DatasetInv
  <2> HIDE DEF c
  <2>3. DatasetInv'
    BY <2>1, <2>2 DEF DatasetInv
  <2> QED BY <1>1, <1>2, <1>3, <2>1, <2>3
<1>12. CASE TimePasses \/ SetBack
  <2>1. now' \in 0..MaxNow
    BY <1>0, <1>12 DEF TimePasses, SetBack
  <2> QED BY <1>1, <1>2, <1>3, <1>4, <1>5, <1>12, <2>1 DEF TimePasses, SetBack
<1>13. CASE UNCHANGED <<now, back, masters, session, studied, scope, delivered, certified>>
  BY <1>1, <1>2, <1>3, <1>4, <1>5, <1>13
<1> QED BY <1>6, <1>7, <1>8, <1>9, <1>10, <1>11, <1>12, <1>13 DEF IngestionNext, ingestionVars, Assess

LEMMA IngestionAlways == IngestionSpec => []IngestionInv
<1>1. IngestionInit => IngestionInv
  BY IngestionAssumption DEF IngestionInit, IngestionInv, SessionShape, MastersInOrder, StudiedIsCurrent, DatasetInv
<1> QED BY <1>1, IngestionStep, PTL DEF IngestionSpec

\* phase1439/pipeline.py and phase1440/datasets.py: research uses complete batches only, under
\* a mapping valid while it runs and with no candle still to end; a token never passes to
\* another symbol; and a dataset is certified once, as exactly the candles of the traded
\* intervals in order, none read before it ended, all of one security; for any calendar,
\* scopes, records, masters and settings of the clock.
THEOREM IngestionIsSound == IngestionSpec => []IngestionSound
<1>1. IngestionInv => IngestionSound
  <2> SUFFICES ASSUME IngestionInv PROVE IngestionSound
    OBVIOUS
  <2>1. DOMAIN masters = 1..Len(masters) /\ ToSet(masters) = {masters[i] : i \in 1..Len(masters)}
    BY DEF IngestionInv, MastersInOrder, ToSet
  <2>2. IngestionTypeOK
    BY <2>1 DEF IngestionInv, IngestionTypeOK, SessionShape, MastersInOrder
  <2>3. TokensKeepTheirSymbol
    BY <2>1 DEF IngestionInv, MastersInOrder, TokensKeepTheirSymbol
  <2>4. CertifiedIsWhole
    BY DEF IngestionInv, DatasetInv, Whole, CertifiedIsWhole
  <2>5. CertifiedOnce
    <3>1. CASE certified = {}
      BY <3>1, FS_EmptySet DEF CertifiedOnce
    <3>2. ASSUME NEW c, certified = {c} PROVE CertifiedOnce
      BY <3>2, FS_Singleton DEF CertifiedOnce
    <3> QED BY <3>1, <3>2 DEF IngestionInv, DatasetInv
  <2> QED BY <2>2, <2>3, <2>4, <2>5 DEF IngestionInv, IngestionSound
<1> QED BY <1>1, IngestionAlways, PTL

\* Transient of phase1439/pipeline.py: what is studied was accepted by the open session with
\* exactly that content, and a session that was closed accepts and allows nothing again, also
\* when the clock is set back.
THEOREM StudyNeedsAcceptance == IngestionSpec => StudiedWasAccepted
<1> DEFINE A == /\ \A x \in studied' \ studied : x.batch \in session.seen
                /\ session.closed => session' = session /\ studied' = studied
<1>1. IngestionInv /\ [IngestionNext]_ingestionVars => [A]_ingestionVars
  <2> SUFFICES ASSUME IngestionInv, IngestionNext PROVE A
    OBVIOUS
  <2>0. session = [seen |-> session.seen, closed |-> session.closed] /\ (session.closed => session.seen = {})
        /\ session.closed \in BOOLEAN
    BY DEF IngestionInv, SessionShape
  <2>1. ASSUME session.closed PROVE Active = session /\ ~IsActive
    <3>1. session = Dispose
      <4>1. session.closed = TRUE /\ session.seen = {}
        BY <2>0, <2>1
      <4> QED BY <2>0, <4>1 DEF Dispose
    <3> QED BY <3>1 DEF Active, IsActive, Dispose
  <2>2. ASSUME NEW b \in Batches, NEW m \in ToSet(masters), Accept(b, m) PROVE A
    BY <2>1, <2>2 DEF Accept
  <2>3. ASSUME NEW b \in Batches, NEW m \in ToSet(masters), Research(b, m) PROVE A
    BY <2>1, <2>3 DEF Research
  <2>4. CASE UNCHANGED <<session, studied>>
    BY <2>4
  <2>5. CASE Close
    BY <2>5 DEF Close
  <2> QED BY <2>2, <2>3, <2>4, <2>5 DEF IngestionNext, AcceptMaster, Deliver, Withdraw, Assess, Certify,
          TimePasses, SetBack
<1>2. IngestionSpec => [][A]_ingestionVars
  BY <1>1, IngestionAlways, PTL DEF IngestionSpec
<1> QED BY <1>2 DEF StudiedWasAccepted

==============================================================================
