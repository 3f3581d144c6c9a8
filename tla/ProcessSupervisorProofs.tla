----------------------- MODULE ProcessSupervisorProofs -----------------------
(***************************************************************************)
(* What both supervisors guarantee for any number of processes, spawned    *)
(* children, reused identifiers and failing system calls.                  *)
(*                                                                         *)
(* A step of the system or of the supervisor leaves what identifies a      *)
(* process alone (Kept): so what was established about an owned process    *)
(* when its handle was opened stays true.  The invariant has four parts:   *)
(* the processes themselves (WInv), the handles (OInv), what the polls     *)
(* have listed (SInv), and what is settled at each place of run() (PInv).  *)
(*                                                                         *)
(* The second part is about the acquisition of the artifacts that the      *)
(* supervised programs are built from, the third about the ledger in which *)
(* monitored programs record their incidents.                              *)
(***************************************************************************)
EXTENDS ProcessSupervisor, ArtifactAcquisition, AlertAssurance, FiniteSetTheorems, TLAPS

Beginning == {"start", "job", "suspended"}
Polling == {"poll", "visit"}
Ending == {"cleanup", "draining", "final", "done"}

\* Processes: times are distinct and past, identifiers of what is alive are distinct, a child
\* is in the job and had another identifier than its parent, the root runs in the job only.
WInv ==
    /\ procs \in Seq(Processes) /\ now \in Nat /\ now > 0
    /\ root \in Nat /\ (root # 0 => root \in Index)
    /\ \A i \in Index :
         /\ 0 < procs[i].creation /\ procs[i].creation < now /\ procs[i].exit < now
         /\ procs[i].parent # 0 =>
              procs[i].injob /\ procs[i].parent \in Index /\ procs[procs[i].parent].pid # procs[i].pid
    /\ \A i, j \in Index :
         /\ i # j => procs[i].creation # procs[j].creation
         /\ procs[i].exit # procs[j].creation
         /\ i # j /\ Alive(i) /\ Alive(j) => procs[i].pid # procs[j].pid
    /\ root # 0 /\ procs[root].running => procs[root].injob

\* Handles: of the process that has the identifier, which is not its own parent's; while the
\* run may still complete they are members of the job, with pinned images if it is strict.
OInv ==
    /\ \A p \in DOMAIN owned :
         /\ owned[p].proc \in Index /\ procs[owned[p].proc].pid = p
         /\ owned[p].parent_pid # p
         /\ pc \in Polling \/ status = "COMPLETE" =>
              procs[owned[p].proc].injob /\ (strict => procs[owned[p].proc].pinned)
    /\ \A p \in DOMAIN ancestry : ancestry[p] # p

\* Every member a poll has listed is accounted for, or still to be visited.
SInv ==
    /\ seen \subseteq Index
    /\ pc \in Polling \/ status = "COMPLETE" =>
         \A i \in seen : \/ procs[i].pid \in DOMAIN owned \cup gaps
                         \/ pc = "visit" /\ procs[i].pid \in todo

\* The process of the handle p is the root, or the process of another handle was alive when it
\* was created.
Descends(p) ==
    LET q == owned[p].proc
    IN  q # root => \E r \in DOMAIN owned :
                      /\ procs[owned[r].proc].creation < procs[q].creation
                      /\ ~(procs[owned[r].proc].exit \in 1..procs[q].creation)

\* Where run() is and what is settled there.
PInv ==
    /\ pc \in Beginning \cup Polling \cup Ending \cup {"refused"}
    /\ status \in {"PARTIAL", "COMPLETE", "SUPERVISION_FAILED"}
    /\ pc \notin Ending => status = "PARTIAL"
    /\ pc \in Beginning \cup {"refused"} => DOMAIN owned = {} /\ seen = {} /\ ~assigned
    /\ pc \in {"start", "job", "refused"} => root = 0
    /\ pc = "suspended" => root # 0
    /\ assigned => root # 0 /\ procs[root].injob
    /\ pc \in Polling \/ status = "COMPLETE" => assigned
    /\ faults \in Nat
    /\ pc \in {"draining", "final", "done"} /\ root # 0 =>
         \/ procs[root].injob \/ procs[root].dying \/ procs[root].exit # 0
         \/ faults > 0 /\ status = "SUPERVISION_FAILED"
    /\ pc \in {"final", "done"} /\ strict /\ status = "COMPLETE" => drained
    /\ pc = "done" => \A i \in Index : procs[i].injob /\ Alive(i) => procs[i].dying
    /\ pc = "done" /\ strict /\ status = "COMPLETE" => \A p \in DOMAIN owned : Descends(p)

\* The inductive invariant.
PSInv == WInv /\ OInv /\ SInv /\ PInv

-----------------------------------------------------------------------------
(* The records of processes.                                                 *)

\* What no step changes of a process: its identifier, parent, creation and image.
Like(r, q) ==
    r.pid = q.pid /\ r.parent = q.parent /\ r.creation = q.creation /\ r.pinned = q.pinned

\* A process exits.
LEMMA ExitRecord ==
  ASSUME NEW q \in Processes, NEW n \in Nat
  PROVE  /\ [q EXCEPT !.exit = n] \in Processes /\ Like([q EXCEPT !.exit = n], q)
         /\ [q EXCEPT !.exit = n].exit = n /\ [q EXCEPT !.exit = n].injob = q.injob
         /\ [q EXCEPT !.exit = n].running = q.running /\ [q EXCEPT !.exit = n].dying = q.dying
BY DEF Processes, Like

\* A process is assigned to the job.
LEMMA AssignRecord ==
  ASSUME NEW q \in Processes
  PROVE  /\ [q EXCEPT !.injob = TRUE] \in Processes /\ Like([q EXCEPT !.injob = TRUE], q)
         /\ [q EXCEPT !.injob = TRUE].exit = q.exit /\ [q EXCEPT !.injob = TRUE].injob
         /\ [q EXCEPT !.injob = TRUE].dying = q.dying
<1>1. PICK t \in BOOLEAN : t = TRUE
  OBVIOUS
<1>2. [q EXCEPT !.injob = TRUE] = [q EXCEPT !.injob = t]
  BY <1>1, Zenon
<1>3. [q EXCEPT !.injob = t].injob = t
  BY DEF Processes
<1>4. [q EXCEPT !.injob = t].injob
  BY <1>1, <1>3
<1> HIDE <1>1
<1>5. /\ [q EXCEPT !.injob = t] \in Processes /\ Like([q EXCEPT !.injob = t], q)
      /\ [q EXCEPT !.injob = t].exit = q.exit /\ [q EXCEPT !.injob = t].dying = q.dying
  BY DEF Processes, Like
<1> QED BY <1>2, <1>4, <1>5

\* A process is resumed.
LEMMA ResumeRecord ==
  ASSUME NEW q \in Processes
  PROVE  /\ [q EXCEPT !.running = TRUE] \in Processes /\ Like([q EXCEPT !.running = TRUE], q)
         /\ [q EXCEPT !.running = TRUE].exit = q.exit
         /\ [q EXCEPT !.running = TRUE].injob = q.injob
         /\ [q EXCEPT !.running = TRUE].dying = q.dying
<1>1. PICK t \in BOOLEAN : t = TRUE
  OBVIOUS
<1>2. [q EXCEPT !.running = TRUE] = [q EXCEPT !.running = t]
  BY <1>1, Zenon
<1> HIDE <1>1
<1>3. /\ [q EXCEPT !.running = t] \in Processes /\ Like([q EXCEPT !.running = t], q)
      /\ [q EXCEPT !.running = t].exit = q.exit /\ [q EXCEPT !.running = t].injob = q.injob
      /\ [q EXCEPT !.running = t].dying = q.dying
  BY DEF Processes, Like
<1> QED BY <1>2, <1>3

\* A process is told to end.
LEMMA DyingRecord ==
  ASSUME NEW q \in Processes
  PROVE  /\ [q EXCEPT !.dying = TRUE] \in Processes /\ Like([q EXCEPT !.dying = TRUE], q)
         /\ [q EXCEPT !.dying = TRUE].exit = q.exit /\ [q EXCEPT !.dying = TRUE].dying
         /\ [q EXCEPT !.dying = TRUE].injob = q.injob
         /\ [q EXCEPT !.dying = TRUE].running = q.running
<1>1. PICK t \in BOOLEAN : t = TRUE
  OBVIOUS
<1>2. [q EXCEPT !.dying = TRUE] = [q EXCEPT !.dying = t]
  BY <1>1, Zenon
<1>3. [q EXCEPT !.dying = t].dying = t
  BY DEF Processes
<1>4. [q EXCEPT !.dying = t].dying
  BY <1>1, <1>3
<1> HIDE <1>1
<1>5. /\ [q EXCEPT !.dying = t] \in Processes /\ Like([q EXCEPT !.dying = t], q)
      /\ [q EXCEPT !.dying = t].exit = q.exit /\ [q EXCEPT !.dying = t].injob = q.injob
      /\ [q EXCEPT !.dying = t].running = q.running
  BY DEF Processes, Like
<1> QED BY <1>2, <1>4, <1>5

\* A member of a terminated job.
LEMMA KilledRecord ==
  ASSUME NEW q \in Processes
  PROVE  LET r == [q EXCEPT !.dying = TRUE, !.running = FALSE]
         IN  /\ r \in Processes /\ Like(r, q)
             /\ r.exit = q.exit /\ r.dying /\ r.injob = q.injob /\ ~r.running
<1>1. PICK t \in BOOLEAN, f \in BOOLEAN : t = TRUE /\ f = FALSE
  OBVIOUS
<1>2. PICK r : r = [q EXCEPT !.dying = TRUE, !.running = FALSE]
  OBVIOUS
<1>3. r = [[q EXCEPT !.dying = t] EXCEPT !.running = f]
  BY <1>1, <1>2, Zenon
<1>4. PICK d : d = [q EXCEPT !.dying = t]
  OBVIOUS
<1>5. d \in Processes /\ d.dying = t /\ Like(d, q) /\ d.exit = q.exit /\ d.injob = q.injob
  BY <1>4 DEF Processes, Like
<1>6. r = [d EXCEPT !.running = f]
  BY <1>3, <1>4
<1>7. r \in Processes /\ r.dying = t /\ r.running = f /\ Like(r, d) /\ r.exit = d.exit
      /\ r.injob = d.injob
  BY <1>5, <1>6 DEF Processes, Like
<1>8. r.dying /\ ~r.running
  BY <1>1, <1>7
<1>9. Like(r, q)
  BY <1>5, <1>7 DEF Like
<1> QED BY <1>2, <1>5, <1>7, <1>8, <1>9

-----------------------------------------------------------------------------
(* The steps of the system, as far as what is known of processes goes.       *)

\* What every step leaves of the processes there are.
Kept ==
    /\ DOMAIN procs \subseteq DOMAIN procs'
    /\ \A i \in DOMAIN procs :
         /\ Like(procs'[i], procs[i])
         /\ procs[i].injob => procs'[i].injob
         /\ procs[i].dying => procs'[i].dying
         /\ procs'[i].exit = procs[i].exit \/ (procs[i].exit = 0 /\ procs'[i].exit = now)

\* The types of a process.
LEMMA ProcessTypes ==
  ASSUME WInv, NEW i \in Index
  PROVE  /\ i \in Nat /\ i > 0 /\ procs[i] \in Processes /\ procs[i].pid \in Pids
         /\ procs[i].parent \in Nat /\ procs[i].creation \in Nat /\ procs[i].exit \in Nat
<1>1. procs \in Seq(Processes)
  BY DEF WInv
<1>2. procs[i] \in Processes /\ i \in Nat /\ i > 0
  BY <1>1 DEF Index
<1> QED BY <1>2 DEF Processes

\* Processes are resumed, assigned, told to end or exit; none is created.
LEMMA WorldChanges ==
  ASSUME WInv, procs' \in Seq(Processes), DOMAIN procs' = DOMAIN procs, Kept,
         root' = root, root # 0 /\ procs'[root].running => procs'[root].injob,
         \/ now' = now /\ \A i \in Index : procs'[i].exit = procs[i].exit
         \/ now' = now + 1
  PROVE  WInv'
<1>1. Index' = Index
  BY DEF Index
<1>2. now \in Nat /\ now > 0 /\ now' \in Nat /\ now' >= now
  BY DEF WInv
<1>3. ASSUME NEW i \in Index
      PROVE  /\ procs'[i].pid = procs[i].pid /\ procs'[i].parent = procs[i].parent
             /\ procs'[i].creation = procs[i].creation /\ (procs[i].injob => procs'[i].injob)
             /\ procs'[i].exit = procs[i].exit \/ (procs'[i].exit = now /\ now' = now + 1)
             /\ (procs'[i].exit = 0 => procs[i].exit = 0)
  BY <1>2 DEF Kept, Like, Index, WInv
<1>4. ASSUME NEW i \in Index
      PROVE  /\ 0 < procs'[i].creation /\ procs'[i].creation < now' /\ procs'[i].exit < now'
             /\ procs'[i].parent # 0 => /\ procs'[i].injob /\ procs'[i].parent \in Index
                                        /\ procs'[procs'[i].parent].pid # procs'[i].pid
  <2>1. 0 < procs[i].creation /\ procs[i].creation < now /\ procs[i].exit < now
    BY DEF WInv
  <2>2. procs[i].creation \in Nat /\ procs[i].exit \in Nat
    BY ProcessTypes
  <2>3. procs[i].parent # 0 => /\ procs[i].injob /\ procs[i].parent \in Index
                               /\ procs[procs[i].parent].pid # procs[i].pid
    BY DEF WInv
  <2>4. procs'[i].exit < now'
    BY <1>2, <1>3, <2>1, <2>2
  <2> QED BY <1>2, <1>3, <2>1, <2>2, <2>3, <2>4
<1>5. ASSUME NEW i \in Index, NEW j \in Index
      PROVE  /\ i # j => procs'[i].creation # procs'[j].creation
             /\ procs'[i].exit # procs'[j].creation
             /\ i # j /\ procs'[i].exit = 0 /\ procs'[j].exit = 0 => procs'[i].pid # procs'[j].pid
  <2>1. /\ i # j => procs[i].creation # procs[j].creation
        /\ procs[i].exit # procs[j].creation
        /\ i # j /\ procs[i].exit = 0 /\ procs[j].exit = 0 => procs[i].pid # procs[j].pid
    BY DEF WInv, Alive
  <2>2. procs[j].creation < now /\ procs[j].creation \in Nat
    BY ProcessTypes DEF WInv
  <2> QED BY <1>2, <1>3, <2>1, <2>2
<1>6. root' \in Nat /\ (root' # 0 => root' \in Index)
  BY DEF WInv
<1> QED BY <1>1, <1>2, <1>4, <1>5, <1>6 DEF WInv, Alive

\* A process is created: with a free identifier, and in the job if a member created it.
LEMMA WorldGrows ==
  ASSUME WInv, NEW pid \in FreePids, NEW parent, NEW injob \in BOOLEAN, NEW running \in BOOLEAN,
         NEW pinned \in BOOLEAN,
         NewProcess(pid, parent, injob, running, pinned),
         parent = 0 \/ (parent \in members /\ injob),
         root' = root \/ (root' = Len(procs) + 1 /\ ~running)
  PROVE  /\ WInv' /\ Kept
         /\ DOMAIN procs' = DOMAIN procs \cup {Len(procs) + 1} /\ Len(procs) + 1 \notin DOMAIN procs
<1> DEFINE n == Len(procs) + 1
           q == [pid |-> pid, parent |-> parent, creation |-> now, exit |-> 0, injob |-> injob,
                 running |-> running, dying |-> FALSE, pinned |-> pinned]
<1>1. procs \in Seq(Processes) /\ now \in Nat /\ now > 0 /\ Len(procs) \in Nat /\ Index = 1..Len(procs)
  BY DEF WInv, Index
<1>2. procs' = Append(procs, q) /\ now' = now + 1
  BY DEF NewProcess
<1>3. pid \in Pids /\ parent \in Nat /\ (parent # 0 => parent \in Index)
  BY <1>1 DEF FreePids, members
<1>4. q \in Processes /\ q.pid = pid /\ q.parent = parent /\ q.creation = now /\ q.exit = 0
  BY <1>1, <1>3 DEF Processes
<1>5. q.injob = injob /\ q.running = running
  OBVIOUS
<1> HIDE DEF q
<1>6. /\ procs' \in Seq(Processes) /\ DOMAIN procs' = Index \cup {n} /\ n \notin Index
      /\ procs'[n] = q /\ \A i \in Index : procs'[i] = procs[i]
  BY <1>1, <1>2, <1>4 DEF Index
<1>7. Index' = Index \cup {n}
  BY <1>6 DEF Index
<1>8. Kept
  BY <1>6 DEF Kept, Like, Index
<1>9. \A i \in Index : (procs[i].exit = 0 => procs[i].pid # pid)
  BY DEF FreePids, Alive
<1>10. ASSUME NEW i \in Index'
       PROVE  /\ 0 < procs'[i].creation /\ procs'[i].creation < now' /\ procs'[i].exit < now'
              /\ procs'[i].parent # 0 => /\ procs'[i].injob /\ procs'[i].parent \in Index'
                                         /\ procs'[procs'[i].parent].pid # procs'[i].pid
  <2>1. CASE i \in Index
    <3>1. 0 < procs[i].creation /\ procs[i].creation < now /\ procs[i].exit < now
      BY <2>1 DEF WInv
    <3>2. procs[i].creation \in Nat /\ procs[i].exit \in Nat
      BY <2>1, ProcessTypes
    <3>3. procs[i].parent # 0 => /\ procs[i].injob /\ procs[i].parent \in Index
                                 /\ procs[procs[i].parent].pid # procs[i].pid
      BY <2>1 DEF WInv
    <3> QED BY <1>1, <1>2, <1>6, <1>7, <2>1, <3>1, <3>2, <3>3
  <2>2. CASE i = n
    <3>1. procs'[i] = q
      BY <1>6, <2>2
    <3>2. parent # 0 => injob /\ parent \in Index /\ procs[parent].pid # pid
      BY <1>9 DEF members, Alive
    <3>3. parent # 0 => procs'[parent] = procs[parent] /\ parent \in Index'
      BY <1>3, <1>6, <1>7
    <3>4. q.parent # 0 => q.injob /\ q.parent \in Index' /\ procs'[q.parent].pid # q.pid
      BY <1>4, <1>5, <3>2, <3>3
    <3>5. 0 < q.creation /\ q.creation < now' /\ q.exit < now'
      BY <1>1, <1>2, <1>4
    <3> QED BY <3>1, <3>4, <3>5, Zenon
  <2> QED BY <1>7, <1>10, <2>1, <2>2
<1>11. ASSUME NEW i \in Index', NEW j \in Index'
       PROVE  /\ i # j => procs'[i].creation # procs'[j].creation
              /\ procs'[i].exit # procs'[j].creation
              /\ i # j /\ procs'[i].exit = 0 /\ procs'[j].exit = 0 => procs'[i].pid # procs'[j].pid
  <2>1. \A k \in Index : procs[k].creation \in Nat /\ procs[k].creation < now
                         /\ procs[k].exit \in Nat /\ procs[k].exit < now /\ 0 < procs[k].creation
    BY ProcessTypes DEF WInv
  <2>2. CASE i \in Index /\ j \in Index
    <3>1. /\ i # j => procs[i].creation # procs[j].creation
          /\ procs[i].exit # procs[j].creation
          /\ i # j /\ procs[i].exit = 0 /\ procs[j].exit = 0 => procs[i].pid # procs[j].pid
      BY <2>2 DEF WInv, Alive
    <3> QED BY <1>6, <2>2, <3>1
  <2>3. CASE i \in Index /\ j = n
    BY <1>1, <1>4, <1>6, <1>9, <2>1, <2>3
  <2>4. CASE i = n /\ j \in Index
    BY <1>1, <1>4, <1>6, <1>9, <2>1, <2>4
  <2>5. CASE i = n /\ j = n
    BY <1>1, <1>4, <1>6, <2>5
  <2> QED BY <1>7, <2>2, <2>3, <2>4, <2>5
<1>12. root' \in Nat /\ (root' # 0 => root' \in Index')
  BY <1>1, <1>7 DEF WInv
<1>13. root' # 0 /\ procs'[root'].running => procs'[root'].injob
  <2>1. CASE root' = n /\ ~running
    BY <1>5, <1>6, <2>1
  <2>2. CASE root' = root
    BY <1>6, <2>2 DEF WInv
  <2> QED BY <2>1, <2>2
<1>14. now' \in Nat /\ now' > 0
  BY <1>1, <1>2
<1>15. WInv'
  BY <1>6, <1>10, <1>11, <1>12, <1>13, <1>14 DEF WInv, Alive
<1> QED BY <1>6, <1>8, <1>15 DEF Index

\* A process exits.
LEMMA WorldExits ==
  ASSUME WInv, NEW i \in Index, Alive(i), procs' = [procs EXCEPT ![i].exit = now], now' = now + 1,
         root' = root
  PROVE  WInv' /\ Kept /\ DOMAIN procs' = DOMAIN procs
<1>1. procs \in Seq(Processes) /\ now \in Nat /\ procs[i] \in Processes /\ i \in DOMAIN procs
  BY ProcessTypes DEF WInv, Index
<1>2. PICK r : r = [procs[i] EXCEPT !.exit = now]
  OBVIOUS
<1>3. /\ r \in Processes /\ Like(r, procs[i]) /\ r.exit = now /\ r.injob = procs[i].injob
      /\ r.running = procs[i].running /\ r.dying = procs[i].dying
  BY <1>1, <1>2, ExitRecord
<1>4. procs' = [procs EXCEPT ![i] = r]
  BY <1>2
<1> HIDE <1>2
<1>5. procs' \in Seq(Processes) /\ DOMAIN procs' = DOMAIN procs /\ procs'[i] = r
      /\ \A j \in DOMAIN procs : j # i => procs'[j] = procs[j]
  BY <1>1, <1>3, <1>4
<1>6. Kept
  BY <1>3, <1>5 DEF Kept, Like, Alive
<1>7. root # 0 /\ procs'[root].running => procs'[root].injob
  BY <1>3, <1>5 DEF WInv, Index
<1> QED BY <1>5, <1>6, <1>7, WorldChanges

\* The job is terminated.
LEMMA WorldTerminated ==
  ASSUME WInv, procs' = Terminated, now' = now, root' = root
  PROVE  /\ WInv' /\ Kept /\ DOMAIN procs' = DOMAIN procs
         /\ \A i \in Index : procs'[i].injob /\ procs'[i].exit = 0 => procs'[i].dying
<1>1. procs \in Seq(Processes) /\ Index = 1..Len(procs) /\ Len(procs) \in Nat
  BY DEF WInv, Index
<1>2. ASSUME NEW i \in Index
      PROVE  /\ procs'[i] \in Processes /\ Like(procs'[i], procs[i])
             /\ procs'[i].exit = procs[i].exit /\ procs'[i].injob = procs[i].injob
             /\ (procs[i].dying => procs'[i].dying)
             /\ (i \in members => procs'[i].dying /\ ~procs'[i].running)
             /\ (i \notin members => procs'[i] = procs[i])
  <2>1. CASE i \in members
    <3>1. procs'[i] = [procs[i] EXCEPT !.dying = TRUE, !.running = FALSE]
      BY <2>1 DEF Terminated
    <3> QED BY <2>1, <3>1, ProcessTypes, KilledRecord
  <2>2. CASE i \notin members
    <3>1. procs'[i] = procs[i]
      BY <2>2 DEF Terminated
    <3> QED BY <2>2, <3>1, ProcessTypes DEF Like
  <2> QED BY <2>1, <2>2
<1>3. DOMAIN procs' = Index
  BY DEF Terminated
<1>4. procs' \in Seq(Processes)
  <2>1. procs' = [i \in 1..Len(procs) |-> procs'[i]]
    BY <1>1 DEF Terminated
  <2>2. \A i \in 1..Len(procs) : procs'[i] \in Processes
    BY <1>1, <1>2
  <2> QED BY <1>1, <2>1, <2>2
<1>5. Kept
  BY <1>2, <1>3 DEF Kept, Index
<1>6. root # 0 /\ procs'[root].running => procs'[root].injob
  BY <1>2 DEF WInv
<1>7. WInv'
  BY <1>2, <1>3, <1>4, <1>5, <1>6, WorldChanges DEF Index
<1>8. \A i \in Index : procs'[i].injob /\ procs'[i].exit = 0 => procs'[i].dying
  BY <1>2 DEF members, Alive
<1> QED BY <1>3, <1>5, <1>7, <1>8 DEF Index

-----------------------------------------------------------------------------
(* Handles, and the steps that are common to several places.                 *)

\* What a handle is, whatever becomes of the run.
Handles == \A p \in DOMAIN owned : /\ owned[p].proc \in Index /\ procs[owned[p].proc].pid = p
                                   /\ owned[p].parent_pid # p

\* The handles stay what they are when none is opened.
LEMMA HandlesKept ==
  ASSUME WInv, OInv, Kept, owned' = owned
  PROVE  Handles'
BY DEF OInv, Kept, Like, Handles, Index

\* A handle is opened for a listed identifier.
LEMMA HandleOpened ==
  ASSUME WInv, OInv, Kept, NEW pid, NEW i \in Holder(pid), NEW v, Own(pid, i, v)
  PROVE  /\ Handles' /\ DOMAIN owned' = DOMAIN owned \cup {pid}
         /\ owned'[pid].proc = i /\ \A p \in DOMAIN owned : p # pid => owned'[p] = owned[p]
<1>1. i \in Index /\ procs[i].pid = pid /\ pid \in Pids
  BY ProcessTypes DEF Holder
<1>2. PICK h : h = [proc |-> i,
                    parent_pid |-> IF pid \in DOMAIN ancestry THEN ancestry[pid] ELSE None,
                    verified |-> v]
  OBVIOUS
<1>3. h.proc = i /\ h.parent_pid = IF pid \in DOMAIN ancestry THEN ancestry[pid] ELSE None
  BY <1>2
<1>4. owned' = [p \in DOMAIN owned \cup {pid} |-> IF p # pid THEN owned[p] ELSE h]
  BY <1>2 DEF Own
<1> HIDE <1>2
<1>5. DOMAIN owned' = DOMAIN owned \cup {pid} /\ owned'[pid] = h
      /\ \A p \in DOMAIN owned : p # pid => owned'[p] = owned[p]
  BY <1>4
<1>6. h.parent_pid # pid
  BY <1>1, <1>3, PidsAssumption DEF OInv
<1>7. ASSUME NEW p \in DOMAIN owned'
      PROVE  /\ owned'[p].proc \in Index' /\ procs'[owned'[p].proc].pid = p
             /\ owned'[p].parent_pid # p
  <2>1. CASE p = pid
    BY <1>1, <1>3, <1>5, <1>6, <2>1 DEF Kept, Like, Index
  <2>2. CASE p # pid
    <3>1. p \in DOMAIN owned /\ owned'[p] = owned[p]
      BY <1>5, <2>2
    <3>2. owned[p].proc \in Index /\ procs[owned[p].proc].pid = p /\ owned[p].parent_pid # p
      BY <3>1 DEF OInv
    <3> QED BY <3>1, <3>2 DEF Kept, Like, Index
  <2> QED BY <2>1, <2>2
<1> QED BY <1>3, <1>5, <1>7 DEF Handles

\* An exception: the run has failed and only cleanup is left.
LEMMA Raised ==
  ASSUME PSInv, WInv', Kept, Raise, Handles', faults' \in Nat,
         UNCHANGED <<root, seen, ancestry>>,
         assigned' => root # 0 /\ procs'[root].injob
  PROVE  PSInv'
<1>1. pc' = "cleanup" /\ status' = "SUPERVISION_FAILED"
  BY DEF Raise
<1>2. OInv'
  BY <1>1 DEF PSInv, OInv, Handles, Polling
<1>3. SInv'
  BY <1>1 DEF PSInv, SInv, Polling, Kept, Index
<1>4. PInv'
  BY <1>1 DEF PSInv, PInv, Beginning, Polling, Ending
<1> QED BY <1>2, <1>3, <1>4 DEF PSInv

\* A listed identifier has been dealt with and the run goes on.
LEMMA Visited ==
  ASSUME PSInv, WInv', Kept, pc = "visit", Handles', faults' \in Nat,
         UNCHANGED <<pc, status, root, assigned, seen, ancestry, drained, strict>>,
         NEW pid \in todo, todo' = todo \ {pid}, pid \in DOMAIN owned' \cup gaps',
         gaps \subseteq gaps', DOMAIN owned \subseteq DOMAIN owned',
         \A p \in DOMAIN owned' :
           procs'[owned'[p].proc].injob /\ (strict => procs'[owned'[p].proc].pinned)
  PROVE  PSInv'
<1>1. OInv'
  BY DEF PSInv, OInv, Handles
<1>2. SInv'
  <2>1. seen' \subseteq Index'
    BY DEF PSInv, SInv, Kept, Index
  <2>2. ASSUME NEW i \in seen
        PROVE  procs'[i].pid \in DOMAIN owned' \cup gaps' \cup todo'
    <3>1. procs[i].pid \in DOMAIN owned \cup gaps \cup todo /\ procs'[i].pid = procs[i].pid
      BY DEF PSInv, SInv, Polling, Kept, Like, Index
    <3> QED BY <3>1
  <2> QED BY <2>1, <2>2 DEF SInv
<1>3. PInv'
  <2>1. status = "PARTIAL" /\ assigned /\ root # 0 /\ procs[root].injob /\ root \in Index
    BY DEF PSInv, PInv, WInv, Polling, Ending
  <2>2. procs'[root].injob
    BY <2>1 DEF Kept, Index
  <2> QED BY <2>1, <2>2 DEF PSInv, PInv, Beginning, Polling, Ending
<1> QED BY <1>1, <1>2, <1>3 DEF PSInv

\* An owned process still descends from another one.
LEMMA DescendsKept ==
  ASSUME WInv, OInv, Kept, owned' = owned, root' = root, NEW p \in DOMAIN owned, Descends(p)
  PROVE  Descends(p)'
<1> DEFINE q == owned[p].proc
<1>1. q \in Index /\ procs[q].creation \in Nat /\ procs[q].creation < now /\ procs'[q].creation = procs[q].creation
  BY ProcessTypes DEF OInv, WInv, Kept, Like, Index
<1>2. SUFFICES ASSUME q # root
               PROVE  \E r \in DOMAIN owned :
                        /\ procs'[owned[r].proc].creation < procs'[q].creation
                        /\ ~(procs'[owned[r].proc].exit \in 1..procs'[q].creation)
  BY DEF Descends
<1>3. PICK r \in DOMAIN owned : /\ procs[owned[r].proc].creation < procs[q].creation
                                /\ ~(procs[owned[r].proc].exit \in 1..procs[q].creation)
  BY <1>2 DEF Descends
<1>4. owned[r].proc \in Index
  BY DEF OInv
<1>5. procs'[owned[r].proc].creation = procs[owned[r].proc].creation
  BY <1>4 DEF Kept, Like, Index
<1>6. procs'[owned[r].proc].exit \in {procs[owned[r].proc].exit, now}
  BY <1>4 DEF Kept, Index
<1>7. ~(procs'[owned[r].proc].exit \in 1..procs'[q].creation)
  BY <1>1, <1>3, <1>6 DEF WInv
<1> QED BY <1>1, <1>3, <1>5, <1>7

\* Around the supervisor: processes spawn, start elsewhere and exit, time passes.
LEMMA Around ==
  ASSUME PSInv, WInv', Kept,
         UNCHANGED <<pc, root, assigned, todo, ancestry, owned, gaps, seen, status, drained, faults, strict>>,
         pc = "done" => \A i \in Index' : procs'[i].injob /\ procs'[i].exit = 0 => procs'[i].dying
  PROVE  PSInv'
<1>1. OInv'
  <2>1. Handles'
    BY HandlesKept DEF PSInv
  <2>2. ASSUME NEW p \in DOMAIN owned, pc \in Polling \/ status = "COMPLETE"
        PROVE  procs'[owned[p].proc].injob /\ (strict => procs'[owned[p].proc].pinned)
    <3>1. /\ owned[p].proc \in Index /\ procs[owned[p].proc].injob
          /\ (strict => procs[owned[p].proc].pinned)
      BY <2>2 DEF PSInv, OInv
    <3> QED BY <3>1 DEF Kept, Like, Index
  <2> QED BY <2>1, <2>2 DEF PSInv, OInv, Handles
<1>2. SInv'
  BY DEF PSInv, SInv, Kept, Like, Index
<1>3. PInv'
  <2>1. root # 0 => /\ root \in Index /\ (procs[root].injob => procs'[root].injob)
                    /\ (procs[root].dying => procs'[root].dying)
                    /\ (procs[root].exit # 0 => procs'[root].exit # 0)
    BY DEF PSInv, WInv, Kept, Index
  <2>2. pc = "done" /\ strict /\ status = "COMPLETE" => \A p \in DOMAIN owned : Descends(p)'
    BY DescendsKept DEF PSInv, PInv
  <2>3. pc = "done" => \A i \in Index' : procs'[i].injob /\ Alive(i)' => procs'[i].dying
    BY DEF Alive
  <2> QED BY <2>1, <2>2, <2>3 DEF PSInv, PInv
<1> QED BY <1>1, <1>2, <1>3 DEF PSInv

\* Nothing happens to the processes.
LEMMA NothingHappens ==
  ASSUME PSInv, UNCHANGED <<procs, now, root>>
  PROVE  WInv' /\ Kept /\ Index' = Index
<1>1. Kept
  BY DEF Kept, Like
<1> QED BY <1>1 DEF PSInv, WInv, Index, Alive

-----------------------------------------------------------------------------
(* The actions: one lemma each.                                              *)

\* The checks before anything is created fail.
LEMMA RefuseStep == ASSUME PSInv, Refuse, UNCHANGED strict PROVE PSInv'
<1> USE DEF Refuse, record, world
<1>1. WInv' /\ Kept /\ Index' = Index
  BY NothingHappens
<1>2. OInv'
  BY <1>1 DEF PSInv, PInv, OInv, Beginning, Ending, Polling
<1>3. SInv'
  BY <1>1 DEF PSInv, SInv, PInv, Beginning
<1>4. PInv'
  BY DEF PSInv, PInv, Beginning, Polling, Ending
<1> QED BY <1>1, <1>2, <1>3, <1>4 DEF PSInv

\* The job is created, or not.
LEMMA CreateJobStep == ASSUME PSInv, CreateJob, UNCHANGED strict PROVE PSInv'
<1> USE DEF CreateJob, world
<1>1. WInv' /\ Kept /\ Index' = Index /\ Handles'
  BY NothingHappens, HandlesKept DEF PSInv
<1>2. CASE pc' = "job" /\ UNCHANGED <<status, todo, faults>>
  <2>1. OInv'
    BY <1>1, <1>2 DEF PSInv, PInv, OInv, Beginning, Ending, Polling
  <2>2. SInv'
    BY <1>1, <1>2 DEF PSInv, SInv, PInv, Beginning
  <2>3. PInv'
    BY <1>2 DEF PSInv, PInv, Beginning, Polling, Ending
  <2> QED BY <1>1, <2>1, <2>2, <2>3 DEF PSInv
<1>3. CASE Raise /\ Fault
  <2>1. faults' \in Nat
    BY <1>3 DEF PSInv, PInv, Fault
  <2>2. assigned' => root # 0 /\ procs'[root].injob
    BY DEF PSInv, PInv
  <2> QED BY <1>1, <1>3, <2>1, <2>2, Raised
<1> QED BY <1>2, <1>3

\* The root is created suspended, or not at all.
LEMMA CreateSuspendedStep == ASSUME PSInv, CreateSuspended, UNCHANGED strict PROVE PSInv'
<1> USE DEF CreateSuspended
<1>1. CASE \E pid \in FreePids, pinned \in BOOLEAN :
             /\ NewProcess(pid, 0, FALSE, FALSE, pinned)
             /\ root' = Len(procs) + 1
             /\ pc' = "suspended"
             /\ UNCHANGED <<status, todo, faults>>
  <2>1. PICK pid \in FreePids, pinned \in BOOLEAN :
             /\ NewProcess(pid, 0, FALSE, FALSE, pinned)
             /\ root' = Len(procs) + 1
             /\ pc' = "suspended"
             /\ UNCHANGED <<status, todo, faults>>
    BY <1>1
  <2>2. PICK f \in BOOLEAN : f = FALSE
    OBVIOUS
  <2>3. NewProcess(pid, 0, f, f, pinned) /\ ~f
    BY <2>1, <2>2
  <2>4. WInv
    BY DEF PSInv
  <2>5. WInv' /\ Kept
    BY <2>1, <2>3, <2>4, WorldGrows
  <2>6. OInv'
    BY <2>1 DEF PSInv, PInv, OInv, Beginning, Polling, Ending
  <2>7. SInv'
    BY <2>1 DEF PSInv, SInv, PInv, Beginning
  <2>8. root' # 0
    BY <2>1, <2>4 DEF WInv
  <2>9. PInv'
    BY <2>1, <2>8 DEF PSInv, PInv, Beginning, Polling, Ending
  <2> QED BY <2>5, <2>6, <2>7, <2>9 DEF PSInv
<1>2. CASE Raise /\ Fault /\ UNCHANGED <<procs, now, root>>
  <2>1. WInv' /\ Kept /\ Index' = Index /\ Handles'
    BY <1>2, NothingHappens, HandlesKept DEF PSInv
  <2>2. faults' \in Nat
    BY <1>2 DEF PSInv, PInv, Fault
  <2>3. assigned' => root # 0 /\ procs'[root].injob
    BY <1>2 DEF PSInv, PInv
  <2> QED BY <1>2, <2>1, <2>2, <2>3, Raised
<1> QED BY <1>1, <1>2

\* Another call with the same label.
LEMMA RivalStep == ASSUME PSInv, RivalCall, UNCHANGED strict PROVE PSInv'
<1>1. WInv' /\ Kept /\ Index' = Index
  BY NothingHappens DEF RivalCall
<1> QED BY <1>1, Around DEF RivalCall

\* The budget runs out.
LEMMA BudgetStep == ASSUME PSInv, BudgetSpent, UNCHANGED strict PROVE PSInv'
<1>1. WInv' /\ Kept /\ Index' = Index
  BY NothingHappens DEF BudgetSpent, world, record
<1> QED BY <1>1, Around DEF BudgetSpent, world, record

\* A member of the job starts a child.
LEMMA SpawnStep == ASSUME PSInv, Spawn, UNCHANGED strict PROVE PSInv'
<1>1. PICK i \in members, pid \in FreePids, pinned \in BOOLEAN :
           procs[i].running /\ NewProcess(pid, i, TRUE, TRUE, pinned)
  BY DEF Spawn
<1>2. PICK t \in BOOLEAN : t = TRUE
  OBVIOUS
<1>3. NewProcess(pid, i, t, t, pinned) /\ t
  BY <1>1, <1>2
<1>4. WInv' /\ Kept
  BY <1>3, WorldGrows DEF PSInv, Spawn, record
<1> QED BY <1>4, Around DEF Spawn, record

\* Something else starts a process.
LEMMA ForeignStep == ASSUME PSInv, ForeignStart, UNCHANGED strict PROVE PSInv'
<1>1. PICK pid \in FreePids : NewProcess(pid, 0, FALSE, TRUE, TRUE)
  BY DEF ForeignStart
<1>2. PICK t \in BOOLEAN, f \in BOOLEAN : t = TRUE /\ f = FALSE
  OBVIOUS
<1>3. NewProcess(pid, 0, f, t, t)
  BY <1>1, <1>2
<1>4. WInv' /\ Kept
  BY <1>3, WorldGrows DEF PSInv, ForeignStart, record
<1> QED BY <1>4, Around DEF ForeignStart, record

\* A process exits.
LEMMA ExitStep == ASSUME PSInv, NEW i \in Index, Exit(i), UNCHANGED strict PROVE PSInv'
<1>1. /\ Alive(i) /\ procs' = [procs EXCEPT ![i].exit = now] /\ now' = now + 1 /\ root' = root
  BY DEF Exit, record
<1>2. WInv' /\ Kept /\ DOMAIN procs' = DOMAIN procs
  BY <1>1, WorldExits DEF PSInv
<1>3. ASSUME NEW j \in Index PROVE procs'[j].injob = procs[j].injob /\ procs'[j].dying = procs[j].dying
                                   /\ (procs'[j].exit = 0 => procs[j].exit = 0)
  <2>1. CASE j = i
    <3>1. procs'[j] = [procs[i] EXCEPT !.exit = now]
      BY <1>1, <2>1 DEF Index
    <3>2. now \in Nat /\ procs[i] \in Processes
      BY ProcessTypes DEF PSInv, WInv
    <3>3. procs[i].exit = 0
      BY <1>1 DEF Alive
    <3> QED BY <2>1, <3>1, <3>2, <3>3, ExitRecord
  <2>2. CASE j # i
    BY <1>1, <2>2 DEF Index
  <2> QED BY <2>1, <2>2
<1>4. pc = "done" => \A j \in Index' : procs'[j].injob /\ procs'[j].exit = 0 => procs'[j].dying
  BY <1>2, <1>3 DEF PSInv, PInv, Index, Alive
<1> QED BY <1>2, <1>4, Around DEF Exit, record

\* The root is assigned to the job, and resumed if run says so.
LEMMA RootAssigned ==
  ASSUME WInv, root # 0, UNCHANGED <<now, root>>,
         \/ procs' = [procs EXCEPT ![root].injob = TRUE, ![root].running = TRUE]
         \/ procs' = [procs EXCEPT ![root].injob = TRUE]
  PROVE  WInv' /\ Kept /\ DOMAIN procs' = DOMAIN procs /\ procs'[root].injob
<1>1. procs \in Seq(Processes) /\ root \in Index /\ procs[root] \in Processes /\ root \in DOMAIN procs
  BY ProcessTypes DEF WInv, Index
<1>2. PICK a : a = [procs[root] EXCEPT !.injob = TRUE]
  OBVIOUS
<1>3. a \in Processes /\ Like(a, procs[root]) /\ a.exit = procs[root].exit /\ a.injob
      /\ a.dying = procs[root].dying
  BY <1>1, <1>2, AssignRecord
<1>4. PICK b : b = [a EXCEPT !.running = TRUE]
  OBVIOUS
<1>5. b \in Processes /\ Like(b, a) /\ b.exit = a.exit /\ b.injob = a.injob /\ b.dying = a.dying
  BY <1>3, <1>4, ResumeRecord
<1>6. procs' = [procs EXCEPT ![root] = a] \/ procs' = [procs EXCEPT ![root] = b]
  <2>1. CASE procs' = [procs EXCEPT ![root].injob = TRUE]
    BY <1>2, <2>1
  <2>2. CASE procs' = [procs EXCEPT ![root].injob = TRUE, ![root].running = TRUE]
    <3>1. PICK c : c = [procs EXCEPT ![root] = a]
      OBVIOUS
    <3>2. procs' = [c EXCEPT ![root].running = TRUE]
      BY <1>2, <2>2, <3>1
    <3>3. c[root] = a
      BY <1>1, <3>1
    <3>4. procs' = [c EXCEPT ![root] = b]
      BY <1>4, <3>2, <3>3
    <3>5. [c EXCEPT ![root] = b] = [procs EXCEPT ![root] = b]
      BY <1>1, <3>1
    <3> QED BY <3>4, <3>5
  <2> QED BY <2>1, <2>2
<1> HIDE <1>2, <1>4
<1>7. PICK r : r \in {a, b} /\ procs' = [procs EXCEPT ![root] = r]
  BY <1>6
<1>8. r \in Processes /\ Like(r, procs[root]) /\ r.exit = procs[root].exit /\ r.injob
      /\ r.dying = procs[root].dying
  BY <1>3, <1>5, <1>7 DEF Like
<1>9. procs' \in Seq(Processes) /\ DOMAIN procs' = DOMAIN procs /\ procs'[root] = r
      /\ \A j \in DOMAIN procs : j # root => procs'[j] = procs[j]
  BY <1>1, <1>7, <1>8
<1>10. Kept
  BY <1>8, <1>9 DEF Kept, Like
<1>11. \A i \in Index : procs'[i].exit = procs[i].exit
  BY <1>8, <1>9 DEF Index
<1>12. WInv'
  BY <1>8, <1>9, <1>10, <1>11, WorldChanges
<1> QED BY <1>8, <1>9, <1>10, <1>12

\* The root is pinned, assigned and resumed, or the run fails on the way.
LEMMA AssignStep == ASSUME PSInv, AssignThenResume, UNCHANGED strict PROVE PSInv'
<1>1. pc = "suspended" /\ root # 0 /\ root \in Index /\ ~assigned /\ DOMAIN owned = {} /\ seen = {}
      /\ UNCHANGED <<now, root, ancestry, seen, gaps, drained>> /\ status = "PARTIAL"
  BY DEF PSInv, PInv, WInv, AssignThenResume, Beginning, Ending
<1>2. CASE /\ image_identity(root, FALSE).verified
           /\ assigned' = TRUE
           /\ procs' = [procs EXCEPT ![root].injob = TRUE, ![root].running = TRUE]
           /\ owned' = IF strict
                         THEN [p \in {procs[root].pid} |->
                                 [proc |-> root, parent_pid |-> None, verified |-> TRUE]]
                         ELSE owned
           /\ pc' = "poll"
           /\ UNCHANGED <<status, todo, faults>>
  <2>1. WInv' /\ Kept /\ DOMAIN procs' = DOMAIN procs /\ procs'[root].injob
    BY <1>1, <1>2, RootAssigned DEF PSInv
  <2>2. procs[root].pinned
    BY <1>2 DEF image_identity
  <2>3. procs'[root].pid = procs[root].pid /\ procs'[root].pinned
    BY <1>1, <2>1, <2>2 DEF Kept, Like, Index
  <2>4. procs[root].pid \in Pids
    BY <1>1, ProcessTypes DEF PSInv
  <2>5. ASSUME NEW p \in DOMAIN owned'
        PROVE  /\ owned'[p].proc = root /\ p = procs[root].pid /\ owned'[p].parent_pid # p
    <3>1. strict /\ p = procs[root].pid
      BY <1>1, <1>2
    <3>2. owned'[p] = [proc |-> root, parent_pid |-> None, verified |-> TRUE]
      BY <1>2, <3>1
    <3> QED BY <2>4, <3>1, <3>2, PidsAssumption
  <2>6. OInv'
    BY <1>1, <2>1, <2>3, <2>5 DEF OInv, PSInv, Index
  <2>7. SInv'
    BY <1>1 DEF SInv
  <2>8. PInv'
    BY <1>1, <1>2, <2>1 DEF PSInv, PInv, Beginning, Polling, Ending
  <2> QED BY <2>1, <2>6, <2>7, <2>8 DEF PSInv
<1>3. CASE Raise /\ UNCHANGED <<procs, assigned, owned, faults>>
  <2>1. WInv' /\ Kept /\ Index' = Index /\ Handles'
    BY <1>1, <1>3, NothingHappens, HandlesKept DEF PSInv
  <2>2. faults' \in Nat /\ ~assigned'
    BY <1>1, <1>3 DEF PSInv, PInv
  <2> QED BY <1>1, <1>3, <2>1, <2>2, Raised
<1>4. CASE /\ Raise /\ Fault
           /\ \/ UNCHANGED <<procs, assigned>>
              \/ assigned' = TRUE /\ procs' = [procs EXCEPT ![root].injob = TRUE]
           /\ UNCHANGED owned
  <2>1. faults' \in Nat
    BY <1>4 DEF PSInv, PInv, Fault
  <2>2. CASE UNCHANGED <<procs, assigned>>
    <3>1. WInv' /\ Kept /\ Index' = Index /\ Handles' /\ ~assigned'
      BY <1>1, <1>4, <2>2, NothingHappens, HandlesKept DEF PSInv
    <3> QED BY <1>1, <1>4, <2>1, <3>1, Raised
  <2>3. CASE assigned' = TRUE /\ procs' = [procs EXCEPT ![root].injob = TRUE]
    <3>1. WInv' /\ Kept /\ procs'[root].injob
      BY <1>1, <2>3, RootAssigned DEF PSInv
    <3>2. Handles'
      BY <1>4, <3>1, HandlesKept DEF PSInv
    <3> QED BY <1>1, <1>4, <2>1, <3>1, <3>2, Raised
  <2> QED BY <1>4, <2>2, <2>3
<1> QED BY <1>2, <1>3, <1>4 DEF AssignThenResume

\* In the parent table no identifier is its own parent.
LEMMA ParentsDiffer ==
  ASSUME WInv, NEW p \in DOMAIN parents
  PROVE  parents[p] # p
<1>1. p \in {procs[i].pid : i \in {j \in Index : Alive(j)}}
  BY DEF parents
<1>2. PICK i : i = CHOOSE j \in Index : Alive(j) /\ procs[j].pid = p
  OBVIOUS
<1>3. i \in Index /\ procs[i].pid = p
  BY <1>1, <1>2
<1>4. parents[p] = IF procs[i].parent = 0 THEN None ELSE procs[procs[i].parent].pid
  BY <1>1, <1>2 DEF parents
<1>5. p # None
  BY <1>3, ProcessTypes, PidsAssumption
<1>6. procs[i].parent # 0 => procs[procs[i].parent].pid # procs[i].pid
  BY <1>3 DEF WInv
<1> QED BY <1>3, <1>4, <1>5, <1>6

\* The members are listed and the parent table is taken.
LEMMA PollStep == ASSUME PSInv, Poll, UNCHANGED strict PROVE PSInv'
<1> USE DEF Poll
<1>1. WInv' /\ Kept /\ Index' = Index
  BY NothingHappens
<1>2. OInv'
  <2>1. \A p \in DOMAIN ancestry' : ancestry'[p] # p
    BY ParentsDiffer DEF PSInv
  <2> QED BY <1>1, <2>1 DEF PSInv, OInv, Polling
<1>3. SInv'
  <2>1. members \subseteq Index
    BY DEF members
  <2>2. \A i \in seen : procs[i].pid \in DOMAIN owned \cup gaps
    BY DEF PSInv, SInv, Polling
  <2>3. \A i \in members : procs[i].pid \in todo'
    OBVIOUS
  <2> QED BY <1>1, <2>1, <2>2, <2>3 DEF PSInv, SInv
<1>4. PInv'
  BY DEF PSInv, PInv, Beginning, Polling, Ending
<1> QED BY <1>1, <1>2, <1>3, <1>4 DEF PSInv

\* A listed identifier is visited: sampled, opened, noted as gone, or lost while it is opened.
LEMMA VisitStep == ASSUME PSInv, Visit, UNCHANGED strict PROVE PSInv'
<1>1. /\ pc = "visit" /\ UNCHANGED <<root, assigned, ancestry, seen, drained, strict>>
      /\ assigned /\ root # 0 /\ root \in Index /\ procs[root].injob /\ faults \in Nat
  BY DEF PSInv, PInv, WInv, Visit, Polling
<1>2. \A p \in DOMAIN owned : procs[owned[p].proc].injob /\ (strict => procs[owned[p].proc].pinned)
                              /\ owned[p].proc \in Index
  BY <1>1 DEF PSInv, OInv, Polling
<1>3. PICK pid \in todo :
         \/ /\ pid \in DOMAIN owned
            /\ IF same_identity(pid)
                 THEN todo' = todo \ {pid} /\ UNCHANGED <<pc, status>>
                 ELSE Raise
            /\ UNCHANGED <<world, owned, gaps, faults>>
         \/ /\ pid \notin DOMAIN owned
            /\ \/ /\ IF strict THEN VerifyChild(pid) ELSE ObserveChild(pid)
                  /\ UNCHANGED <<world, faults>>
               \/ LostWhileOpening(pid)
  BY DEF Visit
<1>4. ASSUME Kept PROVE assigned' => root # 0 /\ procs'[root].injob
  BY <1>1, <1>4 DEF Kept, Index
<1>5. CASE UNCHANGED <<procs, now, faults, owned>> /\ Raise
  <2>1. WInv' /\ Kept /\ Handles' /\ faults' \in Nat
    BY <1>1, <1>5, NothingHappens, HandlesKept DEF PSInv
  <2> QED BY <1>1, <1>4, <1>5, <2>1, Raised
<1>6. CASE /\ pid \in DOMAIN owned \cup gaps' /\ UNCHANGED <<procs, now, owned, faults, pc, status>>
           /\ todo' = todo \ {pid} /\ gaps \subseteq gaps'
  <2>1. WInv' /\ Kept /\ Handles' /\ faults' \in Nat
    BY <1>1, <1>6, NothingHappens, HandlesKept DEF PSInv
  <2> QED BY <1>1, <1>2, <1>6, <2>1, Visited
<1>7. ASSUME NEW i \in Holder(pid), NEW v, Own(pid, i, v), Kept, WInv', faults' \in Nat,
             Raise
      PROVE  PSInv'
  <2>1. Handles'
    BY <1>7, HandleOpened DEF PSInv
  <2> QED BY <1>1, <1>4, <1>7, <2>1, Raised
<1>8. ASSUME NEW i \in Holder(pid), NEW v, Own(pid, i, v), Kept, WInv', faults' \in Nat,
             todo' = todo \ {pid}, UNCHANGED <<pc, status>>, gaps \subseteq gaps',
             procs[i].injob, strict => procs[i].pinned
      PROVE  PSInv'
  <2>1. /\ Handles' /\ DOMAIN owned' = DOMAIN owned \cup {pid}
        /\ owned'[pid].proc = i /\ \A p \in DOMAIN owned : p # pid => owned'[p] = owned[p]
    BY <1>8, HandleOpened DEF PSInv
  <2>2. ASSUME NEW p \in DOMAIN owned'
        PROVE  procs'[owned'[p].proc].injob /\ (strict => procs'[owned'[p].proc].pinned)
    <3>1. owned'[p].proc \in Index /\ procs[owned'[p].proc].injob
          /\ (strict => procs[owned'[p].proc].pinned)
      BY <1>2, <1>8, <2>1 DEF Holder
    <3> QED BY <1>8, <3>1 DEF Kept, Like, Index
  <2> QED BY <1>1, <1>8, <2>1, <2>2, Visited
<1>9. CASE pid \in DOMAIN owned /\ UNCHANGED <<world, owned, gaps, faults>>
           /\ IF same_identity(pid)
                THEN todo' = todo \ {pid} /\ UNCHANGED <<pc, status>>
                ELSE Raise
  BY <1>5, <1>6, <1>9 DEF world
<1>10. CASE strict /\ VerifyChild(pid) /\ UNCHANGED <<world, faults>>
  <2>1. WInv' /\ Kept /\ faults' \in Nat /\ UNCHANGED <<procs, now>>
    BY <1>1, <1>10, NothingHappens DEF world
  <2>2. CASE Raise /\ UNCHANGED <<owned, gaps>>
    BY <1>5, <1>10, <2>2 DEF world
  <2>3. ASSUME NEW i \in Holder(pid),
               LET image == image_identity(i, FALSE)
               IN  /\ Own(pid, i, image.verified)
                   /\ IF procs[i].injob /\ image.verified
                        THEN todo' = todo \ {pid} /\ UNCHANGED <<pc, status>>
                        ELSE Raise
                   /\ UNCHANGED gaps
        PROVE  PSInv'
    <3>1. image_identity(i, FALSE).verified => procs[i].pinned
      BY DEF image_identity
    <3>2. CASE procs[i].injob /\ image_identity(i, FALSE).verified
      BY <1>8, <2>1, <2>3, <3>1, <3>2
    <3>3. CASE ~(procs[i].injob /\ image_identity(i, FALSE).verified)
      BY <1>7, <2>1, <2>3, <3>3
    <3> QED BY <3>2, <3>3
  <2> QED BY <1>10, <2>2, <2>3 DEF VerifyChild
<1>11. CASE ~strict /\ ObserveChild(pid) /\ UNCHANGED <<world, faults>>
  <2>1. WInv' /\ Kept /\ faults' \in Nat /\ UNCHANGED <<procs, now>>
    BY <1>1, <1>11, NothingHappens DEF world
  <2>2. CASE /\ Holder(pid) = {}
             /\ gaps' = gaps \cup {pid}
             /\ IF \E i \in members : procs[i].pid = pid
                  THEN Raise
                  ELSE todo' = todo \ {pid} /\ UNCHANGED <<pc, status>>
             /\ UNCHANGED owned
    BY <1>5, <1>6, <1>11, <2>2 DEF world
  <2>3. ASSUME NEW i \in Holder(pid),
               LET image == inspect_image(i)
               IN  IF ~procs[i].injob
                     THEN Raise /\ UNCHANGED <<owned, gaps>>
                     ELSE /\ Own(pid, i, image.verified)
                          /\ IF image.verified
                               THEN todo' = todo \ {pid} /\ UNCHANGED <<pc, status>>
                               ELSE Raise
                          /\ UNCHANGED gaps
        PROVE  PSInv'
    <3>1. CASE ~procs[i].injob
      BY <1>5, <1>11, <2>3, <3>1 DEF world
    <3>2. CASE procs[i].injob /\ inspect_image(i).verified
      BY <1>8, <1>11, <2>1, <2>3, <3>2
    <3>3. CASE procs[i].injob /\ ~inspect_image(i).verified
      BY <1>7, <2>1, <2>3, <3>3
    <3> QED BY <3>1, <3>2, <3>3
  <2> QED BY <1>11, <2>2, <2>3 DEF ObserveChild
<1>12. CASE LostWhileOpening(pid)
  <2>1. PICK i \in Holder(pid) :
          /\ Fault
          /\ procs' = [procs EXCEPT ![i].exit = now]
          /\ now' = now + 1
          /\ IF procs[i].injob
               THEN Own(pid, i, FALSE)
               ELSE UNCHANGED owned
          /\ IF strict \/ ~procs[i].injob
               THEN Raise /\ UNCHANGED gaps
               ELSE /\ gaps' = gaps \cup {pid}
                    /\ todo' = todo \ {pid}
                    /\ UNCHANGED <<pc, status>>
    BY <1>12 DEF LostWhileOpening
  <2>2. i \in Index /\ Alive(i)
    BY DEF Holder
  <2>3. WInv' /\ Kept
    BY <1>1, <2>1, <2>2, WorldExits DEF PSInv
  <2>4. faults' \in Nat
    BY <1>1, <2>1 DEF Fault
  <2>5. CASE ~procs[i].injob
    <3>1. Handles'
      BY <2>1, <2>3, <2>5, HandlesKept DEF PSInv
    <3> QED BY <1>1, <1>4, <2>1, <2>3, <2>4, <2>5, <3>1, Raised
  <2>6. CASE procs[i].injob /\ strict
    BY <1>7, <2>1, <2>3, <2>4, <2>6
  <2>7. CASE procs[i].injob /\ ~strict
    BY <1>8, <2>1, <2>3, <2>4, <2>7
  <2> QED BY <2>5, <2>6, <2>7
<1> QED BY <1>3, <1>9, <1>10, <1>11, <1>12

\* The run goes from one place to the next: handles and listed members stay accounted for.
LEMMA Onward ==
  ASSUME PSInv, WInv', Kept, UNCHANGED <<root, assigned, ancestry, owned, gaps, seen, strict>>,
         pc' \in Polling \/ status' = "COMPLETE" => pc \in Polling \/ status = "COMPLETE",
         pc = "visit" => todo = {}
  PROVE  /\ OInv' /\ SInv'
         /\ root # 0 => /\ root \in Index /\ (procs[root].injob => procs'[root].injob)
                        /\ (procs[root].dying => procs'[root].dying)
                        /\ (procs[root].exit # 0 => procs'[root].exit # 0)
<1>1. OInv'
  <2>1. Handles'
    BY HandlesKept DEF PSInv
  <2>2. ASSUME NEW p \in DOMAIN owned, pc \in Polling \/ status = "COMPLETE"
        PROVE  procs'[owned[p].proc].injob /\ (strict => procs'[owned[p].proc].pinned)
    <3>1. /\ owned[p].proc \in Index /\ procs[owned[p].proc].injob
          /\ (strict => procs[owned[p].proc].pinned)
      BY <2>2 DEF PSInv, OInv
    <3> QED BY <3>1 DEF Kept, Like, Index
  <2> QED BY <2>1, <2>2 DEF PSInv, OInv, Handles
<1>2. SInv'
  <2>1. seen' \subseteq Index'
    BY DEF PSInv, SInv, Kept, Index
  <2>2. ASSUME NEW i \in seen, pc \in Polling \/ status = "COMPLETE"
        PROVE  procs'[i].pid \in DOMAIN owned \cup gaps
    <3>1. procs[i].pid \in DOMAIN owned \cup gaps /\ procs'[i].pid = procs[i].pid
      BY <2>2 DEF PSInv, SInv, Kept, Like, Index
    <3> QED BY <3>1
  <2> QED BY <2>1, <2>2 DEF SInv
<1>3. root # 0 => /\ root \in Index /\ (procs[root].injob => procs'[root].injob)
                  /\ (procs[root].dying => procs'[root].dying)
                  /\ (procs[root].exit # 0 => procs'[root].exit # 0)
  BY DEF PSInv, WInv, Kept, Index
<1> QED BY <1>1, <1>2, <1>3

\* A round ends.
LEMMA RoundEndStep == ASSUME PSInv, RoundEnd, UNCHANGED strict PROVE PSInv'
<1>1. /\ pc = "visit" /\ todo = {} /\ assigned /\ root # 0 /\ procs[root].injob
      /\ UNCHANGED <<now, root, assigned, ancestry, owned, gaps, seen, strict, faults, drained>>
      /\ pc' \in {"cleanup", "poll"} /\ (pc' = "poll" => UNCHANGED status)
      /\ (pc' = "cleanup" => status' = "COMPLETE") /\ procs' \in {procs, Terminated}
  BY DEF PSInv, PInv, RoundEnd, Polling
<1>2. WInv' /\ Kept
  <2>1. CASE procs' = procs
    BY <1>1, <2>1, NothingHappens
  <2>2. CASE procs' = Terminated
    BY <1>1, <2>2, WorldTerminated DEF PSInv
  <2> QED BY <1>1, <2>1, <2>2
<1>3. OInv' /\ SInv' /\ procs'[root].injob
  BY <1>1, <1>2, Onward DEF Polling
<1>4. PInv'
  BY <1>1, <1>3 DEF PSInv, PInv, Beginning, Polling, Ending
<1> QED BY <1>2, <1>3, <1>4 DEF PSInv

\* The entry of one process is replaced.
LEMMA Replaced ==
  ASSUME procs \in Seq(Processes), NEW i \in DOMAIN procs, NEW r \in Processes
  PROVE  LET s == [procs EXCEPT ![i] = r]
         IN  /\ s \in Seq(Processes) /\ DOMAIN s = DOMAIN procs /\ s[i] = r
             /\ \A j \in DOMAIN procs : j # i => s[j] = procs[j]
OBVIOUS

\* The root, never assigned, is told to end through its handle.
LEMMA RootKilled ==
  ASSUME WInv, root # 0, UNCHANGED <<now, root>>, procs' = [procs EXCEPT ![root].dying = TRUE]
  PROVE  WInv' /\ Kept /\ procs'[root].dying
<1>1. procs \in Seq(Processes) /\ root \in Index /\ procs[root] \in Processes /\ root \in DOMAIN procs
  BY ProcessTypes DEF WInv, Index
<1>2. PICK r : r = [procs[root] EXCEPT !.dying = TRUE]
  OBVIOUS
<1>3. r \in Processes /\ Like(r, procs[root]) /\ r.exit = procs[root].exit /\ r.dying
      /\ r.injob = procs[root].injob /\ r.running = procs[root].running
  BY <1>1, <1>2, DyingRecord
<1>4. procs' = [procs EXCEPT ![root] = r]
  BY <1>2
<1> HIDE <1>2
<1>5. procs' \in Seq(Processes) /\ DOMAIN procs' = DOMAIN procs /\ procs'[root] = r
      /\ \A j \in DOMAIN procs : j # root => procs'[j] = procs[j]
  <2>1. r \in Processes
    BY <1>3
  <2>2. PICK s : s = [procs EXCEPT ![root] = r]
    OBVIOUS
  <2>3. s \in Seq(Processes) /\ DOMAIN s = DOMAIN procs /\ s[root] = r
        /\ \A j \in DOMAIN procs : j # root => s[j] = procs[j]
    <3> HIDE <1>4
    <3> QED BY <1>1, <2>1, <2>2, Replaced
  <2>4. procs' = s
    BY <1>4, <2>2, Zenon
  <2> QED BY <2>3, <2>4, Zenon
<1>6. Kept
  BY <1>3, <1>5 DEF Kept, Like
<1>7. \A i \in Index : procs'[i].exit = procs[i].exit
  BY <1>3, <1>5 DEF Index
<1>8. procs'[root].running => procs'[root].injob
  BY <1>3, <1>5 DEF WInv
<1>9. WInv'
  BY <1>5, <1>6, <1>7, <1>8, WorldChanges
<1> QED BY <1>3, <1>5, <1>6, <1>9

\* What is left is told to end.
LEMMA CleanupStep == ASSUME PSInv, Cleanup, UNCHANGED strict PROVE PSInv'
<1>1. /\ pc = "cleanup" /\ faults \in Nat
      /\ UNCHANGED <<now, root, assigned, ancestry, owned, gaps, seen, strict, drained>>
  BY DEF PSInv, PInv, Cleanup
<1>2. CASE /\ procs' = IF assigned THEN Terminated
                       ELSE IF root # 0 THEN [procs EXCEPT ![root].dying = TRUE]
                       ELSE procs
           /\ pc' = "draining"
           /\ UNCHANGED <<status, faults>>
  <2>1. WInv' /\ Kept /\ (root # 0 /\ ~assigned => procs'[root].dying)
    <3>1. CASE assigned
      BY <1>1, <1>2, <3>1, WorldTerminated DEF PSInv
    <3>2. CASE ~assigned /\ root # 0
      BY <1>1, <1>2, <3>2, RootKilled DEF PSInv
    <3>3. CASE ~assigned /\ root = 0
      BY <1>1, <1>2, <3>3, NothingHappens
    <3> QED BY <3>1, <3>2, <3>3
  <2>2. OInv' /\ SInv' /\ (root # 0 => (procs[root].injob => procs'[root].injob))
    BY <1>1, <1>2, <2>1, Onward DEF Polling
  <2>3. PInv'
    BY <1>1, <1>2, <2>1, <2>2 DEF PSInv, PInv, Beginning, Polling, Ending
  <2> QED BY <2>1, <2>2, <2>3 DEF PSInv
<1>3. CASE /\ root # 0 /\ ~assigned
           /\ Fault /\ status' = "SUPERVISION_FAILED"
           /\ pc' = "final"
           /\ UNCHANGED procs
  <2>1. WInv' /\ Kept
    BY <1>1, <1>3, NothingHappens
  <2>2. OInv' /\ SInv'
    BY <1>1, <1>3, <2>1, Onward DEF Polling
  <2>3. faults' \in Nat /\ faults' > 0
    BY <1>1, <1>3 DEF Fault
  <2>4. PInv'
    BY <1>1, <1>3, <2>1, <2>2, <2>3 DEF PSInv, PInv, Beginning, Polling, Ending
  <2> QED BY <2>1, <2>2, <2>4 DEF PSInv
<1> QED BY <1>2, <1>3 DEF Cleanup

\* The job has drained, or the wait is over.
LEMMA DrainStep == ASSUME PSInv, Drain \/ DrainTimeout, UNCHANGED strict PROVE PSInv'
<1>1. /\ pc = "draining" /\ pc' = "final" /\ faults' \in Nat /\ faults' >= faults /\ faults \in Nat
      /\ UNCHANGED <<procs, now, root, assigned, ancestry, owned, gaps, seen, strict>>
      /\ status' \in {status, "SUPERVISION_FAILED"}
      /\ drained' = (assigned /\ members = {})
  BY DEF PSInv, PInv, Drain, DrainTimeout, DrainEnd, Fault
<1>2. WInv' /\ Kept
  BY <1>1, NothingHappens
<1>3. OInv' /\ SInv'
  BY <1>1, <1>2, Onward DEF Polling
<1>4. strict /\ status' = "COMPLETE" => drained'
  <2>1. CASE Drain
    <3>1. status' = status /\ members = {}
      BY <2>1 DEF Drain, StillThere
    <3>2. status = "COMPLETE" => assigned
      BY DEF PSInv, PInv
    <3> QED BY <1>1, <3>1, <3>2
  <2>2. CASE DrainTimeout
    BY <2>2 DEF DrainTimeout
  <2> QED BY <2>1, <2>2
<1>5. PInv'
  <2>1. faults > 0 => faults' > 0
    BY <1>1
  <2> QED BY <1>1, <1>4, <2>1 DEF PSInv, PInv, Beginning, Polling, Ending
<1> QED BY <1>2, <1>3, <1>5 DEF PSInv

\* A lineage that was validated is one.
LEMMA LineageDescends ==
  ASSUME WInv, Handles, NEW p \in DOMAIN owned, Lineage(p)
  PROVE  Descends(p)
<1> DEFINE q == owned[p].proc
           s == owned[p].parent_pid
           k == owned[s].proc
<1>1. SUFFICES ASSUME q # root
               PROVE  \E r \in DOMAIN owned :
                        /\ procs[owned[r].proc].creation < procs[q].creation
                        /\ ~(procs[owned[r].proc].exit \in 1..procs[q].creation)
  BY DEF Descends
<1>2. s \in DOMAIN owned /\ validate_lineage(owned[p], owned[s])
  BY <1>1 DEF Lineage
<1>3. /\ procs[k].creation <= procs[q].creation
      /\ procs[k].exit = 0 \/ procs[q].creation <= procs[k].exit
  BY <1>2 DEF validate_lineage
<1>4. q \in Index /\ k \in Index /\ procs[q].pid = p /\ procs[k].pid = s /\ s # p
  BY <1>2 DEF Handles
<1>5. q # k
  BY <1>4
<1>6. procs[k].creation # procs[q].creation /\ procs[k].exit # procs[q].creation
  BY <1>4, <1>5 DEF WInv
<1>7. /\ procs[k].creation \in Nat /\ procs[q].creation \in Nat /\ procs[k].exit \in Nat
  BY <1>4, ProcessTypes
<1> HIDE DEF q, k, s
<1>8. procs[k].creation < procs[q].creation /\ ~(procs[k].exit \in 1..procs[q].creation)
  BY <1>3, <1>6, <1>7
<1> QED BY <1>2, <1>8 DEF q, k

\* Lineage is settled, the job closed and the receipt written.
LEMMA FinishStep == ASSUME PSInv, Finish, UNCHANGED strict PROVE PSInv'
<1>1. /\ pc = "final" /\ pc' = "done" /\ procs' = Terminated
      /\ status' = IF strict /\ status = "COMPLETE" /\ \E p \in DOMAIN owned : ~Lineage(p)
                     THEN "SUPERVISION_FAILED" ELSE status
      /\ UNCHANGED <<now, root, assigned, ancestry, owned, gaps, seen, strict, drained, faults>>
  BY DEF Finish
<1>2. /\ WInv' /\ Kept /\ DOMAIN procs' = DOMAIN procs
      /\ \A i \in Index : procs'[i].injob /\ procs'[i].exit = 0 => procs'[i].dying
  BY <1>1, WorldTerminated DEF PSInv
<1>3. /\ OInv' /\ SInv'
      /\ root # 0 => /\ root \in Index /\ (procs[root].injob => procs'[root].injob)
                     /\ (procs[root].dying => procs'[root].dying)
                     /\ (procs[root].exit # 0 => procs'[root].exit # 0)
  BY <1>1, <1>2, Onward DEF Polling
<1>4. strict /\ status' = "COMPLETE" => \A p \in DOMAIN owned : Descends(p)'
  <2>1. SUFFICES ASSUME strict, status' = "COMPLETE", NEW p \in DOMAIN owned PROVE Descends(p)'
    OBVIOUS
  <2>2. Lineage(p)
    BY <1>1, <2>1
  <2>3. Handles /\ WInv /\ OInv
    BY DEF PSInv, OInv, Handles
  <2>4. Descends(p)
    BY <2>2, <2>3, LineageDescends
  <2> QED BY <1>1, <1>2, <2>3, <2>4, DescendsKept
<1>5. \A i \in Index' : procs'[i].injob /\ Alive(i)' => procs'[i].dying
  BY <1>2 DEF Index, Alive
<1>6. PInv'
  BY <1>1, <1>3, <1>4, <1>5 DEF PSInv, PInv, Beginning, Polling, Ending
<1> QED BY <1>2, <1>3, <1>6 DEF PSInv

-----------------------------------------------------------------------------
(* The theorems.                                                             *)

\* Before a call nothing is there.
LEMMA PSInvInit == Init => PSInv
<1> SUFFICES ASSUME Init PROVE PSInv
  OBVIOUS
<1> USE DEF Init
<1>1. Index = {} /\ procs \in Seq(Processes)
  BY DEF Index
<1>2. WInv
  BY <1>1 DEF WInv
<1>3. DOMAIN owned = {} /\ DOMAIN ancestry = {}
  OBVIOUS
<1>4. OInv /\ SInv
  BY <1>1, <1>3 DEF OInv, SInv
<1>5. PInv
  BY <1>3 DEF PInv, Beginning, Polling, Ending
<1> QED BY <1>2, <1>4, <1>5 DEF PSInv

\* Every step keeps the invariant.
LEMMA PSInvNext == PSInv /\ [Next]_vars => PSInv'
<1> SUFFICES ASSUME PSInv, [Next]_vars PROVE PSInv'
  OBVIOUS
<1>1. CASE UNCHANGED vars
  <2>1. WInv' /\ Kept /\ Index' = Index
    BY <1>1, NothingHappens DEF vars
  <2>2. pc = "done" => \A i \in Index' : procs'[i].injob /\ procs'[i].exit = 0 => procs'[i].dying
    BY <1>1, <2>1 DEF PSInv, PInv, Alive, vars
  <2> QED BY <1>1, <2>1, <2>2, Around DEF vars
<1>2. CASE Next
  <2>1. UNCHANGED strict
    BY <1>2 DEF Next
  <2>2. CASE Supervise
    BY <2>1, <2>2, CreateJobStep, CreateSuspendedStep, AssignStep, PollStep, VisitStep,
       RoundEndStep, CleanupStep, DrainStep, FinishStep DEF Supervise
  <2>3. CASE Refuse \/ RivalCall
    BY <2>1, <2>3, RefuseStep, RivalStep
  <2>4. CASE Spawn \/ ForeignStart \/ BudgetSpent
    BY <2>1, <2>4, SpawnStep, ForeignStep, BudgetStep
  <2>5. CASE \E i \in Index : Exit(i)
    BY <2>1, <2>5, ExitStep
  <2> QED BY <1>2, <2>2, <2>3, <2>4, <2>5 DEF Next
<1> QED BY <1>1, <1>2

\* The inductive invariant: whatever the system does between two steps of run(), a handle stays
\* the one of a member that was verified when it was opened, and every listed member is
\* accounted for.
THEOREM SupervisionInductive == Spec => []PSInv
BY PSInvInit, PSInvNext, PTL DEF Spec

\* For any number of processes, reused identifiers and failing calls: nothing of the tree runs
\* outside the job, a completed run owned members of its job only and has accounted for every
\* member it listed, nothing is left running when run() is over, and the strict supervisor
\* completes only with an empty job and a verified lineage.
THEOREM SupervisionIsSound == Spec => []SupervisionSound
<1>1. PSInv => SupervisionSound
  <2> SUFFICES ASSUME PSInv PROVE SupervisionSound
    OBVIOUS
  <2>1. WInv /\ OInv /\ SInv /\ PInv
    BY DEF PSInv
  <2>2. TypeOK
    BY <2>1, ProcessTypes DEF TypeOK, WInv, OInv, PInv, same_identity
  <2>3. RunsOnlyInJob
    <3>1. ASSUME NEW i \in Index, i = root, procs[i].running PROVE procs[i].injob
      BY <2>1, <3>1, ProcessTypes DEF WInv
    <3>2. ASSUME NEW i \in Index, procs[i].parent # 0 PROVE procs[i].injob
      BY <2>1, <3>2 DEF WInv
    <3> QED BY <3>1, <3>2 DEF RunsOnlyInJob
  <2>4. OwnsOnlyMembers
    BY <2>1 DEF OwnsOnlyMembers, OInv
  <2>5. NothingLeftRunning
    <3>1. SUFFICES ASSUME pc = "done", NEW i \in Index, i = root \/ procs[i].injob, Alive(i),
                          ~procs[i].dying
                   PROVE  ~procs[i].running /\ faults > 0 /\ status = "SUPERVISION_FAILED"
      BY DEF NothingLeftRunning
    <3>2. ~procs[i].injob
      BY <2>1, <3>1 DEF PInv
    <3>3. i = root /\ root # 0
      BY <2>1, <3>1, <3>2, ProcessTypes
    <3>4. faults > 0 /\ status = "SUPERVISION_FAILED"
      BY <2>1, <3>1, <3>2, <3>3 DEF PInv, Alive
    <3>5. ~procs[i].running
      BY <2>1, <3>2, <3>3 DEF WInv
    <3> QED BY <3>4, <3>5
  <2>6. SeenAccounted
    BY <2>1 DEF SeenAccounted, SInv
  <2>7. CompleteMeansVerified
    BY <2>1 DEF CompleteMeansVerified, OInv, PInv, Descends
  <2> QED BY <2>2, <2>3, <2>4, <2>5, <2>6, <2>7 DEF SupervisionSound
<1> QED BY <1>1, SupervisionInductive, PTL

\* A receipt of the strict supervisor is created exclusively: neither this call nor another one
\* with its label ever replaces it.
THEOREM ReceiptIsFinal == Spec => ReceiptStands
<1>1. [Next]_vars => [strict /\ receipt # NoReceipt => receipt' = receipt]_vars
  <2> SUFFICES ASSUME [Next]_vars, strict, receipt # NoReceipt PROVE receipt' = receipt
    OBVIOUS
  <2>1. CASE UNCHANGED vars
    BY <2>1 DEF vars
  <2>2. CASE Supervise
    <3>1. CASE Finish
      BY <3>1 DEF Finish
    <3>2. CASE CreateJob \/ CreateSuspended \/ AssignThenResume \/ Poll \/ Visit \/ RoundEnd
               \/ Cleanup \/ Drain \/ DrainTimeout
      BY <3>2 DEF CreateJob, CreateSuspended, AssignThenResume, Poll, Visit, RoundEnd, Cleanup,
                  Drain, DrainTimeout, DrainEnd
    <3> QED BY <2>2, <3>1, <3>2 DEF Supervise
  <2>3. CASE RivalCall
    BY <2>3 DEF RivalCall
  <2>4. CASE Refuse \/ Spawn \/ ForeignStart \/ BudgetSpent \/ \E i \in Index : Exit(i)
    BY <2>4 DEF Refuse, Spawn, ForeignStart, BudgetSpent, Exit
  <2> QED BY <2>1, <2>2, <2>3, <2>4 DEF Next
<1> QED BY <1>1, PTL DEF Spec, ReceiptStands

-----------------------------------------------------------------------------
(***************************************************************************)
(* The acquisition of artifacts.  A verdict rests on one reading of the    *)
(* files; what the invariant adds to AcquisitionSound is what the files    *)
(* can hold: finitely many observations, decisions and receipts with times *)
(* that are numbers.                                                       *)
(***************************************************************************)
IsReceipt(r) ==
  /\ DOMAIN r = {"artifact", "packet", "decision", "start", "end", "bytes", "complete", "sequence"}
  /\ r.artifact \in Artifacts

Contents == {"absent", "exact", "edited"}

\* The files.
HeldInv ==
  /\ clock \in Times
  /\ evidence \subseteq Observations /\ custody \subseteq evidence /\ IsFiniteSet(evidence)
  /\ \A p \in Packets : packets[p] = Packet(packets[p].ledger, packets[p].content)
  /\ packets = [p \in Packets |-> packets[p]]
  /\ \A p \in Packets : packets[p].content \in Contents
  /\ trusted \subseteq decisions
  /\ \A d \in trusted : d.issued \in Nat /\ d.expires \in Nat
  /\ files \in [0..N -> {"absent", "expected", "other"}]
  /\ \A t \in transfer : t.artifact \in Artifacts /\ t.start \in Nat
  /\ \A r \in receipts \cup trusted_receipts : IsReceipt(r)
  /\ \A r \in trusted_receipts : r.start \in Nat /\ r.end \in Nat

\* The last verdict.
VerdictInv ==
  /\ \A g, h \in granted : g = h
  /\ \A c, e \in certified : c = e
  /\ GrantIsOwners /\ GrantIsAttested /\ InstallNeedsItsOwn /\ CertifiedBytesAreDownloads

AInv == HeldInv /\ VerdictInv

\* A non-empty set of checks has a first one.
LEMMA FirstCheck ==
  ASSUME NEW S \in SUBSET Nat, S # {}
  PROVE  Min(S) \in S
<1>1. IsWellFoundedOn(OpToRel(<, Nat), Nat)
  BY NatLessThanWellFounded
<1> DEFINE R == OpToRel(<, Nat)
<1>2. \A x, y \in Nat : <<y, x>> \in R <=> y < x
  BY DEF OpToRel
<1> HIDE DEF R
<1>3. \E x \in S : \A y \in S : <<y, x>> \notin R
  BY <1>1, WFMin DEF R
<1>4. PICK x \in S : \A y \in S : <<y, x>> \notin R
  BY <1>3
<1>5. \A y \in S : ~(y < x)
  <2> TAKE y \in S
  <2>1. <<y, x>> \in R <=> y < x
    BY <1>2
  <2> QED BY <1>4, <2>1
<1>6. \A y \in S : x <= y
  BY <1>5
<1> QED BY <1>6 DEF Min

\* An observation that compare lets through is in custody and nothing is wrong with it.
LEMMA MatchIsClean ==
  ASSUME NEW e \in Observations, NEW reviewed, compare(e, reviewed) = MATCH
  PROVE  e \in reviewed /\ e.faults = {}
<1> DEFINE wrong == e.faults \cup (IF e \in reviewed THEN {} ELSE {"custody"})
           failing == {i \in DOMAIN Comparison : Comparison[i][1] \in wrong}
<1>1. FirstFailing(Comparison, wrong) = MATCH
  BY DEF compare
<1>2. DOMAIN Comparison = 1..12 /\ \A i \in DOMAIN Comparison : Comparison[i][2] # MATCH
  BY DEF Comparison, MATCH
<1>3. failing = {}
  <2>1. SUFFICES ASSUME failing # {} PROVE FALSE
    OBVIOUS
  <2>2. Min(failing) \in failing
    <3>1. failing \in SUBSET Nat
      BY <1>2
    <3> HIDE DEF failing
    <3> QED BY <2>1, <3>1, FirstCheck
  <2>3. Comparison[Min(failing)][2] = MATCH
    BY <1>1, <2>1 DEF FirstFailing
  <2> QED BY <1>2, <2>2, <2>3
<1>4. Comparison[2][1] = "custody" /\ 2 \in DOMAIN Comparison
  BY DEF Comparison
<1>5. e \in reviewed
  BY <1>3, <1>4
<1>6. \A f \in e.faults : \E i \in DOMAIN Comparison : Comparison[i][1] = f
  BY AcquisitionAssumption DEF Observations
<1> QED BY <1>3, <1>5, <1>6

\* One observation each, and it matches.
LEMMA AllAttested ==
  ASSUME HeldInv, Evaluable, Eligible(evaluate), NEW a \in Artifacts
  PROVE  \E e \in custody : /\ e = [artifact |-> a, faults |-> {}]
                            /\ {x \in evidence : x.artifact = a} = {e}
<1> DEFINE S == Supplied(a)
<1>1. S = {x \in evidence : x.artifact = a} /\ IsFiniteSet(S)
  <2>1. S \in SUBSET evidence /\ IsFiniteSet(evidence)
    BY DEF HeldInv, Supplied
  <2> QED BY <2>1, FS_Subset DEF Supplied
<1>2. evaluate[a] = MATCH
  BY DEF Eligible
<1>3. S # {} /\ compare(CHOOSE e \in S : TRUE, custody) = MATCH
  <2>1. evaluate[a] = IF S = {} THEN "METADATA_UNAVAILABLE" ELSE compare(CHOOSE e \in S : TRUE, custody)
    BY DEF evaluate
  <2> HIDE DEF S
  <2> QED BY <1>2, <2>1 DEF MATCH
<1>4. Cardinality(S) <= 1
  BY DEF Evaluable
<1> HIDE DEF S
<1>5. PICK e : S = {e}
  <2>1. Cardinality(S) \in Nat /\ Cardinality(S) # 0
    BY <1>1, <1>3, FS_CardinalityType, FS_EmptySet
  <2>2. Cardinality(S) = 1
    BY <1>4, <2>1
  <2> QED BY <1>1, <2>2, FS_Singleton
<1>6. compare(e, custody) = MATCH
  <2>1. (CHOOSE x \in S : TRUE) = e
    BY <1>5
  <2> QED BY <1>3, <2>1
<1>7. e \in Observations /\ e.artifact = a
  BY <1>1, <1>5 DEF HeldInv
<1>8. e \in custody /\ e.faults = {}
  BY <1>6, <1>7, MatchIsClean
<1>9. e = [artifact |-> a, faults |-> {}]
  BY <1>7, <1>8 DEF Observations
<1> QED BY <1>1, <1>5, <1>8, <1>9

\* Every check ends with the owner's approval of the packet on file, which is as built.
LEMMA ApprovalOfPacket ==
  ASSUME NEW p \in Packets, NEW d, Authorized(p, d)
  PROVE  Approves(d, p) /\ packets[p].content = "exact"
<1>1. p \in {"lock", "attested", "acquire", "retry", "install"}
  BY AcquisitionAssumption DEF AllPackets
<1>2. Built(p).content = "exact"
  BY <1>1 DEF Built, Packet
<1>3. CASE p = "lock"
  BY <1>2, <1>3 DEF Authorized, LockAuthorized
<1>4. CASE p = "attested"
  BY <1>2, <1>4 DEF Authorized, AttestedAuthorized
<1>5. CASE p = "acquire"
  BY <1>5 DEF Authorized, AcquireAuthorized, Packet
<1>6. CASE p = "retry"
  BY <1>6 DEF Authorized, RetryAuthorized, Packet
<1>7. CASE p = "install"
  BY <1>7 DEF Authorized, InstallAuthorized, Packet
<1> QED BY <1>1, <1>3, <1>4, <1>5, <1>6, <1>7

LEMMA AuthorizeStep ==
  ASSUME HeldInv, NEW p \in Packets, NEW d \in decisions, Authorize(p, d)
  PROVE  VerdictInv'
<1> DEFINE g == [packet |-> p, decision |-> d, at |-> clock, scope |-> packets[p],
                 evidence |-> evidence, custody |-> custody]
<1>1. /\ granted' = {g} /\ certified' = {} /\ Authorized(p, d)
      /\ trusted' = trusted
  BY DEF Authorize
<1>2. Approves(d, p) /\ packets[p].content = "exact"
  BY <1>1, ApprovalOfPacket
<1>3. GrantIsOwners'
  <2>1. d \in trusted /\ d.issued \in Nat /\ d.expires \in Nat /\ clock \in Nat /\ Day \in Nat
    BY <1>2, AcquisitionAssumption DEF HeldInv, Approves, Times
  <2>2. d.issued <= clock /\ clock < d.expires /\ d.expires - d.issued <= Day
    BY <1>2 DEF Approves, InWindow
  <2>3. clock \in d.issued..(d.expires - 1) /\ clock - d.issued < Day
    BY <2>1, <2>2
  <2>4. d.status = "APPROVED" /\ d.of = p /\ d.scope = packets[p]
    BY <1>2 DEF Approves
  <2> QED BY <1>1, <1>2, <2>1, <2>3, <2>4 DEF GrantIsOwners
<1>4. GrantIsAttested'
  <2>1. CASE p \in {"lock", "attested"}
    <3>1. Evaluable /\ Eligible(evaluate)
      BY <1>1, <2>1 DEF Authorized, LockAuthorized, AttestedAuthorized
    <3>2. \A a \in Artifacts :
            \E e \in custody : /\ e = [artifact |-> a, faults |-> {}]
                               /\ {x \in evidence : x.artifact = a} = {e}
      BY <3>1, AllAttested
    <3> QED BY <1>1, <3>2 DEF GrantIsAttested
  <2>2. CASE p \notin {"lock", "attested"}
    BY <1>1, <2>2 DEF GrantIsAttested
  <2> QED BY <2>1, <2>2
<1>5. InstallNeedsItsOwn'
  <2>1. p = "install" => d.of = "install" /\ \E e \in custody : e.artifact = 1 /\ e.faults = {}
    BY <1>1, <1>2 DEF Authorized, InstallAuthorized, InstallerAttested, Approves
  <2> QED BY <1>1, <2>1 DEF InstallNeedsItsOwn
<1>6. CertifiedBytesAreDownloads'
  BY <1>1 DEF CertifiedBytesAreDownloads
<1> QED BY <1>1, <1>3, <1>4, <1>5, <1>6 DEF VerdictInv

LEMMA CertifyStep ==
  ASSUME HeldInv, NEW p \in Packets, NEW d \in decisions, Certify(p, d)
  PROVE  VerdictInv'
<1> DEFINE c == [packet |-> p, decision |-> d, at |-> clock, receipts |-> receipts,
                 files |-> files]
<1>1. /\ certified' = {c} /\ granted' = {} /\ verify_quarantine(p, d)
      /\ trusted_receipts' = trusted_receipts
  BY DEF Certify
<1>2. ASSUME NEW a \in Artifacts
      PROVE  \E r \in trusted_receipts :
               /\ r.artifact = a /\ r.decision = d /\ r.packet = p
               /\ r.complete /\ r.bytes = "expected" /\ files[a] = "expected"
               /\ r.start >= d.issued /\ r.end < d.expires
               /\ r.end - r.start <= Timeout
               /\ r.sequence <= N
               /\ files[0] = "expected"
  <2> DEFINE r == ReceiptFor(a)
  <2>1. r \in receipts /\ r.artifact = a
    <3>1. \E q \in receipts : q.artifact = a
      BY <1>1 DEF verify_quarantine
    <3> QED BY <3>1 DEF ReceiptFor
  <2>2. ReceiptHolds(r, p, d) /\ files[a] = "expected" /\ r.bytes = files[a]
        /\ files[0] = "expected" /\ Sequenced(p) /\ Authorized(p, d)
    BY <1>1 DEF verify_quarantine
  <2> HIDE DEF r
  <2>3. r \in trusted_receipts /\ r.packet = p /\ r.decision = d /\ r.complete
        /\ d.issued <= r.start /\ r.end < d.expires /\ r.end - r.start <= Timeout
    BY <2>2 DEF ReceiptHolds
  <2>4. d.issued \in Nat /\ r.start \in Nat
    BY <2>2, <2>3, ApprovalOfPacket DEF HeldInv, Approves
  <2>5. r.sequence \in 1..N
    <3>1. CASE p = "retry"
      BY <2>1, <2>2, <3>1 DEF Sequenced, Artifacts
    <3>2. CASE p # "retry"
      BY <2>1, <2>2, <3>2 DEF Sequenced, Artifacts
    <3> QED BY <3>1, <3>2
  <2>6. r.start >= d.issued /\ r.sequence <= N
    BY <2>3, <2>4, <2>5, AcquisitionAssumption
  <2> QED BY <2>1, <2>2, <2>3, <2>6
<1>3. CertifiedBytesAreDownloads'
  BY <1>1, <1>2 DEF CertifiedBytesAreDownloads
<1>4. GrantIsOwners' /\ GrantIsAttested' /\ InstallNeedsItsOwn'
  BY <1>1 DEF GrantIsOwners, GrantIsAttested, InstallNeedsItsOwn
<1> QED BY <1>1, <1>3, <1>4 DEF VerdictInv

\* What a change leaves alone keeps its part of the invariant.
EvidenceHeld == evidence \subseteq Observations /\ custody \subseteq evidence /\ IsFiniteSet(evidence)

PacketsHeld ==
  /\ \A p \in Packets : packets[p] = Packet(packets[p].ledger, packets[p].content)
  /\ packets = [p \in Packets |-> packets[p]]
  /\ \A p \in Packets : packets[p].content \in Contents

DecisionsHeld ==
  trusted \subseteq decisions /\ \A d \in trusted : d.issued \in Nat /\ d.expires \in Nat

DownloadsHeld ==
  /\ files \in [0..N -> {"absent", "expected", "other"}]
  /\ \A t \in transfer : t.artifact \in Artifacts /\ t.start \in Nat
  /\ \A r \in receipts \cup trusted_receipts : IsReceipt(r)
  /\ \A r \in trusted_receipts : r.start \in Nat /\ r.end \in Nat

LEMMA HeldParts ==
  HeldInv <=> clock \in Times /\ EvidenceHeld /\ PacketsHeld /\ DecisionsHeld /\ DownloadsHeld
BY DEF HeldInv, EvidenceHeld, PacketsHeld, DecisionsHeld, DownloadsHeld

LEMMA EvidenceStays == ASSUME EvidenceHeld, UNCHANGED <<evidence, custody>> PROVE EvidenceHeld'
BY DEF EvidenceHeld

LEMMA PacketsStay == ASSUME PacketsHeld, UNCHANGED packets PROVE PacketsHeld'
BY DEF PacketsHeld

LEMMA DecisionsStay == ASSUME DecisionsHeld, UNCHANGED <<decisions, trusted>> PROVE DecisionsHeld'
BY DEF DecisionsHeld

LEMMA DownloadsStay ==
  ASSUME DownloadsHeld, UNCHANGED <<files, transfer, receipts, trusted_receipts>>
  PROVE  DownloadsHeld'
BY DEF DownloadsHeld

LEMMA ObserveHeld ==
  ASSUME EvidenceHeld, NEW a \in Artifacts, NEW F \in SUBSET MetaFaults, Observe(a, F)
  PROVE  EvidenceHeld'
<1>1. evidence' = evidence \cup {[artifact |-> a, faults |-> F]} /\ custody' = custody
  BY DEF Observe
<1>2. [artifact |-> a, faults |-> F] \in Observations
  BY DEF Observations
<1>3. IsFiniteSet(evidence')
  BY <1>1, FS_AddElement DEF EvidenceHeld
<1> QED BY <1>1, <1>2, <1>3 DEF EvidenceHeld

LEMMA PrepareHeld ==
  ASSUME PacketsHeld, NEW p \in Packets, Prepare(p)
  PROVE  PacketsHeld'
<1>1. packets' = [packets EXCEPT ![p] = Built(p)]
  BY DEF Prepare
<1>2. Built(p) = Packet(Built(p).ledger, "exact") /\ Built(p).content = "exact"
  BY DEF Built, Packet
<1>3. packets'[p] = Built(p) /\ \A q \in Packets : q # p => packets'[q] = packets[q]
  BY <1>1 DEF PacketsHeld
<1>4. packets' = [q \in Packets |-> packets'[q]]
  BY <1>1 DEF PacketsHeld
<1> HIDE DEF Built
<1>5. \A q \in Packets : /\ packets'[q] = Packet(packets'[q].ledger, packets'[q].content)
                         /\ packets'[q].content \in Contents
  BY <1>2, <1>3 DEF PacketsHeld, Contents
<1> QED BY <1>4, <1>5 DEF PacketsHeld

LEMMA EditHeld ==
  ASSUME PacketsHeld, NEW p \in Packets, EditPacket(p)
  PROVE  PacketsHeld'
<1> DEFINE new == Packet(packets[p].ledger, "edited")
<1>1. packets' = [packets EXCEPT ![p].content = "edited"]
  BY DEF EditPacket
<1>2. packets[p] = Packet(packets[p].ledger, packets[p].content)
  BY DEF PacketsHeld
<1>3. packets'[p] = [packets[p] EXCEPT !.content = "edited"]
      /\ \A q \in Packets : q # p => packets'[q] = packets[q]
  BY <1>1 DEF PacketsHeld
<1>4. packets'[p] = new /\ new.content = "edited" /\ new.ledger = packets[p].ledger
  BY <1>2, <1>3 DEF Packet
<1>5. packets' = [q \in Packets |-> packets'[q]]
  BY <1>1 DEF PacketsHeld
<1>6. packets'[p] = Packet(packets'[p].ledger, packets'[p].content)
      /\ packets'[p].content \in Contents
  BY <1>4 DEF Contents
<1>7. \A q \in Packets : /\ packets'[q] = Packet(packets'[q].ledger, packets'[q].content)
                         /\ packets'[q].content \in Contents
  BY <1>3, <1>6 DEF PacketsHeld
<1> QED BY <1>5, <1>7 DEF PacketsHeld

LEMMA FinishHeld ==
  ASSUME DownloadsHeld, clock \in Times, NEW b \in {"expected", "other"}, NEW complete,
         FinishTransfer(b, complete)
  PROVE  DownloadsHeld'
<1>1. PICK t \in transfer :
        LET r == [artifact |-> t.artifact, packet |-> t.packet, decision |-> t.decision,
                  start |-> t.start, end |-> clock, bytes |-> b, complete |-> complete,
                  sequence |-> Cardinality(trusted_receipts) + 1]
        IN  /\ files' = [files EXCEPT ![t.artifact] = b]
            /\ receipts' = {q \in receipts : q.artifact # t.artifact} \cup {r}
            /\ trusted_receipts' = trusted_receipts \cup {r}
            /\ transfer' = {}
  BY DEF FinishTransfer
<1> DEFINE r == [artifact |-> t.artifact, packet |-> t.packet, decision |-> t.decision,
                 start |-> t.start, end |-> clock, bytes |-> b, complete |-> complete,
                 sequence |-> Cardinality(trusted_receipts) + 1]
<1>2. t.artifact \in Artifacts /\ t.start \in Nat /\ clock \in Nat
  BY DEF DownloadsHeld, Times
<1>3. IsReceipt(r) /\ r.start \in Nat /\ r.end \in Nat
  BY <1>2 DEF IsReceipt
<1>4. /\ files' = [files EXCEPT ![t.artifact] = b]
      /\ receipts' \subseteq receipts \cup {r} /\ trusted_receipts' = trusted_receipts \cup {r}
      /\ transfer' = {}
  BY <1>1
<1> HIDE DEF r
<1>5. files' \in [0..N -> {"absent", "expected", "other"}]
  BY <1>4 DEF DownloadsHeld
<1> QED BY <1>3, <1>4, <1>5 DEF DownloadsHeld

LEMMA ForgedHeld ==
  ASSUME DownloadsHeld, NEW r \in receipts, NEW d, ForgeReceipt(r, d)
  PROVE  DownloadsHeld'
<1> DEFINE new == [r EXCEPT !.decision = d, !.packet = d.of, !.start = d.issued,
                            !.end = d.issued, !.bytes = "expected"]
<1>1. receipts' = (receipts \ {r}) \cup {new} /\ UNCHANGED <<files, transfer, trusted_receipts>>
  BY DEF ForgeReceipt
<1>2. IsReceipt(r)
  BY DEF DownloadsHeld
<1>3. IsReceipt(new)
  BY <1>2 DEF IsReceipt
<1> HIDE DEF new
<1> QED BY <1>1, <1>3 DEF DownloadsHeld

LEMMA ChangeHeld ==
  ASSUME HeldInv, Change
  PROVE  HeldInv'
<1>0. clock \in Times /\ EvidenceHeld /\ PacketsHeld /\ DecisionsHeld /\ DownloadsHeld
  BY HeldParts
<1>a. SUFFICES (clock \in Times)' /\ EvidenceHeld' /\ PacketsHeld' /\ DecisionsHeld' /\ DownloadsHeld'
  BY DEF HeldInv, EvidenceHeld, PacketsHeld, DecisionsHeld, DownloadsHeld
<1> DEFINE Goal == /\ (clock \in Times)' /\ EvidenceHeld' /\ PacketsHeld' /\ DecisionsHeld'
                   /\ DownloadsHeld'
<1>1. ASSUME NEW a \in Artifacts, NEW F \in SUBSET MetaFaults, Observe(a, F) PROVE Goal
  BY <1>0, <1>1, ObserveHeld, PacketsStay, DecisionsStay, DownloadsStay DEF Observe, Times
<1>2. ASSUME NEW e \in evidence, Review(e) \/ Withdraw(e) PROVE Goal
  <2>1. evidence' = evidence /\ custody' \subseteq evidence
    BY <1>0, <1>2 DEF Review, Withdraw, EvidenceHeld
  <2>2. EvidenceHeld'
    BY <1>0, <2>1 DEF EvidenceHeld
  <2> QED BY <1>0, <1>2, <2>2, PacketsStay, DecisionsStay, DownloadsStay DEF Review, Withdraw, Times
<1>3. ASSUME NEW p \in Packets, Prepare(p) PROVE Goal
  BY <1>0, <1>3, PrepareHeld, EvidenceStays, DecisionsStay, DownloadsStay DEF Prepare, Times
<1>4. ASSUME NEW p \in Packets, NEW s, NEW n \in 1..(Day + 1), Decide(p, s, n) PROVE Goal
  <2> DEFINE d == [of |-> p, scope |-> packets[p], status |-> s, issued |-> clock,
                   expires |-> clock + n]
  <2>1. decisions' = decisions \cup {d} /\ trusted' = trusted \cup {d}
    BY <1>4 DEF Decide
  <2>2. d.issued \in Nat /\ d.expires \in Nat
    BY <1>0, AcquisitionAssumption DEF Times
  <2> HIDE DEF d
  <2>3. DecisionsHeld'
    BY <1>0, <2>1, <2>2 DEF DecisionsHeld
  <2> QED BY <1>0, <1>4, <2>3, EvidenceStays, PacketsStay, DownloadsStay DEF Decide, Times
<1>5. ASSUME NEW d \in decisions, ForgeDecision(d) PROVE Goal
  <2>1. decisions \subseteq decisions' /\ trusted' = trusted
    BY <1>5 DEF ForgeDecision
  <2>2. DecisionsHeld'
    BY <1>0, <2>1 DEF DecisionsHeld
  <2> QED BY <1>0, <1>5, <2>2, EvidenceStays, PacketsStay, DownloadsStay DEF ForgeDecision, Times
<1>6. ASSUME NEW p \in Packets, EditPacket(p) PROVE Goal
  BY <1>0, <1>6, EditHeld, EvidenceStays, DecisionsStay, DownloadsStay DEF EditPacket, Times
<1>7. ASSUME NEW a \in Artifacts, NEW d \in trusted, StartTransfer(a, d) PROVE Goal
  <2> DEFINE t == [artifact |-> a, packet |-> d.of, decision |-> d, start |-> clock]
  <2>1. transfer' = {t} /\ UNCHANGED <<files, receipts, trusted_receipts>>
    BY <1>7 DEF StartTransfer
  <2>2. t.artifact \in Artifacts /\ t.start \in Nat
    BY <1>0 DEF Times
  <2> HIDE DEF t
  <2>3. DownloadsHeld'
    BY <1>0, <2>1, <2>2 DEF DownloadsHeld
  <2> QED BY <1>0, <1>7, <2>3, EvidenceStays, PacketsStay, DecisionsStay DEF StartTransfer, Times
<1>8. ASSUME NEW b \in {"expected", "other"}, NEW complete, FinishTransfer(b, complete) PROVE Goal
  BY <1>0, <1>8, FinishHeld, EvidenceStays, PacketsStay, DecisionsStay DEF FinishTransfer, Times
<1>9. ASSUME NEW r \in receipts, NEW d \in decisions, ForgeReceipt(r, d) PROVE Goal
  BY <1>0, <1>9, ForgedHeld, EvidenceStays, PacketsStay, DecisionsStay DEF ForgeReceipt, Times
<1>10. ASSUME NEW a \in 0..N, AlterFile(a) PROVE Goal
  <2>1. DownloadsHeld'
    BY <1>0, <1>10 DEF AlterFile, DownloadsHeld
  <2> QED BY <1>0, <1>10, <2>1, EvidenceStays, PacketsStay, DecisionsStay DEF AlterFile, Times
<1>11. CASE Tick
  <2>1. (clock \in Times)'
    BY <1>0, <1>11, AcquisitionAssumption DEF Tick, Times
  <2> QED BY <1>0, <1>11, <2>1, EvidenceStays, PacketsStay, DecisionsStay, DownloadsStay DEF Tick
<1>12. \A f \in MetaFaults : {f} \in SUBSET MetaFaults
  OBVIOUS
<1>13. {} \in SUBSET MetaFaults /\ custody \subseteq evidence
  BY <1>0 DEF EvidenceHeld
<1> QED BY <1>1, <1>2, <1>3, <1>4, <1>5, <1>6, <1>7, <1>8, <1>9, <1>10, <1>11, <1>12, <1>13
        DEF Change

LEMMA AInvInit == AcquisitionInit => AInv
<1> SUFFICES ASSUME AcquisitionInit PROVE AInv
  OBVIOUS
<1>1. clock \in Times /\ EvidenceHeld /\ DecisionsHeld
  BY AcquisitionAssumption, FS_EmptySet DEF AcquisitionInit, Times, EvidenceHeld, DecisionsHeld
<1>2. PacketsHeld
  BY DEF AcquisitionInit, PacketsHeld, Packet, Contents
<1>3. DownloadsHeld
  BY DEF AcquisitionInit, DownloadsHeld
<1>4. VerdictInv
  BY DEF AcquisitionInit, VerdictInv, GrantIsOwners, GrantIsAttested, InstallNeedsItsOwn,
         CertifiedBytesAreDownloads
<1> QED BY <1>1, <1>2, <1>3, <1>4, HeldParts DEF AInv

LEMMA AInvNext == AInv /\ [AcquisitionNext]_acquisitionVars => AInv'
<1> SUFFICES ASSUME AInv, [AcquisitionNext]_acquisitionVars PROVE AInv'
  OBVIOUS
<1>0. HeldInv /\ VerdictInv
  BY DEF AInv
<1>1. CASE Change /\ granted' = {} /\ certified' = {}
  <2>1. VerdictInv'
    BY <1>1 DEF VerdictInv, GrantIsOwners, GrantIsAttested, InstallNeedsItsOwn,
                CertifiedBytesAreDownloads
  <2> QED BY <1>0, <1>1, <2>1, ChangeHeld DEF AInv
<1>2. ASSUME UNCHANGED <<clock, evidence, custody, packets, decisions, trusted, transfer, files,
                         receipts, trusted_receipts>>
      PROVE  HeldInv'
  BY <1>0, <1>2 DEF HeldInv, Times
<1>3. ASSUME NEW p \in Packets, NEW d \in decisions, Authorize(p, d) PROVE AInv'
  <2>1. HeldInv'
    BY <1>2, <1>3 DEF Authorize
  <2> QED BY <1>0, <1>3, <2>1, AuthorizeStep DEF AInv
<1>4. ASSUME NEW p \in Packets, NEW d \in decisions, Certify(p, d) PROVE AInv'
  <2>1. HeldInv'
    BY <1>2, <1>4 DEF Certify
  <2> QED BY <1>0, <1>4, <2>1, CertifyStep DEF AInv
<1>5. CASE UNCHANGED acquisitionVars
  <2>1. HeldInv'
    BY <1>2, <1>5 DEF acquisitionVars
  <2>a. granted' = granted /\ certified' = certified /\ trusted' = trusted
        /\ trusted_receipts' = trusted_receipts
    BY <1>5 DEF acquisitionVars
  <2>b. GrantIsOwners'
    BY <1>0, <2>a DEF VerdictInv, GrantIsOwners
  <2>c. GrantIsAttested' /\ InstallNeedsItsOwn'
    BY <1>0, <2>a DEF VerdictInv, GrantIsAttested, InstallNeedsItsOwn
  <2>d. CertifiedBytesAreDownloads'
    BY <1>0, <2>a DEF VerdictInv, CertifiedBytesAreDownloads
  <2>2. VerdictInv'
    BY <1>0, <2>a, <2>b, <2>c, <2>d DEF VerdictInv
  <2> QED BY <2>1, <2>2 DEF AInv
<1> QED BY <1>1, <1>3, <1>4, <1>5 DEF AcquisitionNext

LEMMA AInvSound == AInv => AcquisitionSound
<1> SUFFICES ASSUME AInv PROVE AcquisitionSound
  OBVIOUS
<1>1. HeldInv /\ VerdictInv
  BY DEF AInv
<1>2. ASSUME NEW S, \A x, y \in S : x = y
      PROVE  Cardinality(S) <= 1
  <2>1. CASE S = {}
    BY <2>1, FS_EmptySet
  <2>2. ASSUME NEW x \in S PROVE Cardinality(S) <= 1
    <3>1. S = {x} /\ Cardinality({x}) = 1
      BY <1>2, FS_Singleton
    <3> QED BY <3>1
  <2> QED BY <2>1, <2>2
<1>3. Cardinality(granted) <= 1 /\ Cardinality(certified) <= 1
  BY <1>1, <1>2 DEF VerdictInv
<1>4. AcquisitionTypeOK
  BY <1>1, <1>3 DEF HeldInv, AcquisitionTypeOK, Contents, IsReceipt
<1> QED BY <1>1, <1>4 DEF VerdictInv, AcquisitionSound

\* Whatever changes in the files between two calls, for any number of artifacts and any bounds:
\* what authorize accepts the owner approved, with this content and not longer ago than a day;
\* the lock and the attested packet only over one clean, reviewed observation of every
\* artifact; the installer only with an approval of its own; and certified bytes are those of
\* one timely, complete download each (artifacts.authorize, attestation.authorize,
\* acquisition.authorize, verify_quarantine, certify, approval).
THEOREM AcquisitionIsSound == AcquisitionSpec => []AcquisitionSound
<1>1. AcquisitionSpec => []AInv
  BY AInvInit, AInvNext, PTL DEF AcquisitionSpec
<1> QED BY <1>1, AInvSound, PTL

-----------------------------------------------------------------------------
(***************************************************************************)
(* The alert ledger.  Whoever is past the lock owns it alone (LockedInv),  *)
(* so what its search found is still so when its record is renamed         *)
(* (SearchedInv); an owner that dies leaves a ledger nobody extends as     *)
(* long as a record is pending.                                            *)
(***************************************************************************)
Incidents == UNION Truths
AlertEvents == [id : {i.id : i \in Incidents}, category : {i.category : i \in Incidents},
                occurred : {i.start : i \in Incidents}, accepted : Nat, evidence : {"right", "wrong"}]
LedgerAlerts == [n : Nat, id : {i.id : i \in Incidents}, event : AlertEvents,
                 reason : {i.category : i \in Incidents}, at : Nat]
LedgerRows == [event : AlertEvents, halt : {TRUE}, alert : LedgerAlerts]
LockedPlaces == {"locked", "new", "renaming", "recorded"}
AcceptCalls == [at : {"called"} \cup LockedPlaces, event : AlertEvents, head : Nat]

AlertShape ==
  /\ truth \in Truths /\ instant \in 0..MaxTime /\ returned \subseteq AlertEvents
  /\ ledger \in [rows : Seq(LedgerRows), pending : BOOLEAN, owner : Callers \cup {Nobody, Orphan}]
  /\ call \in [Callers -> {Idle} \cup AcceptCalls]

\* The caller past the lock is the owner.
LockedInv == \A c \in Callers : call[c].at \in LockedPlaces => ledger.owner = c

\* What the owner found when it searched, and what it has written.
SearchedInv ==
  \A c \in Callers :
    /\ call[c].at \in {"new", "renaming"} =>
         /\ Len(ledger.rows) < MaxIncidents
         /\ \A j \in 1..Len(ledger.rows) : ledger.rows[j].event.id # call[c].event.id
    /\ call[c].at = "recorded" => \E j \in 1..Len(ledger.rows) : ledger.rows[j].event = call[c].event

RecordedInv ==
  /\ Len(ledger.rows) <= MaxIncidents
  /\ \A e \in returned : \E j \in 1..Len(ledger.rows) : ledger.rows[j].event = e
  /\ \A i, j \in 1..Len(ledger.rows) : i # j => ledger.rows[i].event.id # ledger.rows[j].event.id

AlertInv == AlertShape /\ LockedInv /\ SearchedInv /\ RecordedInv

\* A call in progress has an event.
LEMMA CallFields ==
  ASSUME AlertShape, NEW c \in Callers, call[c].at # "idle"
  PROVE  call[c] \in AcceptCalls
  BY DEF AlertShape, Idle

\* A step of one caller that leaves the rows alone.
LEMMA CallerKeeps ==
  ASSUME AssuranceAssumption, AlertInv, NEW c \in Callers, NEW k \in {Idle} \cup AcceptCalls,
         NEW o \in Callers \cup {Nobody, Orphan}, NEW p \in BOOLEAN,
         call' = [call EXCEPT ![c] = k], ledger' = [rows |-> ledger.rows, pending |-> p, owner |-> o],
         truth' = truth, instant' = instant,
         ledger.owner \in {c, o, Nobody},
         k.at \in LockedPlaces => o = c,
         k.at \in {"new", "renaming"} =>
           /\ Len(ledger.rows) < MaxIncidents
           /\ \A j \in 1..Len(ledger.rows) : ledger.rows[j].event.id # k.event.id,
         k.at = "recorded" => \E j \in 1..Len(ledger.rows) : ledger.rows[j].event = k.event,
         returned' \subseteq AlertEvents,
         \A e \in returned' \ returned : \E j \in 1..Len(ledger.rows) : ledger.rows[j].event = e
  PROVE  AlertInv'
<1> USE DEF AlertInv
<1>1. ledger'.rows = ledger.rows /\ ledger'.owner = o
  OBVIOUS
<1>2. call'[c] = k /\ \A d \in Callers \ {c} : call'[d] = call[d]
  BY DEF AlertShape
<1>3. AlertShape'
  <2>1. ledger.rows \in Seq(LedgerRows)
    BY DEF AlertShape
  <2>2. ledger' \in [rows : Seq(LedgerRows), pending : BOOLEAN, owner : Callers \cup {Nobody, Orphan}]
    BY <2>1
  <2>3. call' \in [Callers -> {Idle} \cup AcceptCalls]
    BY DEF AlertShape
  <2> QED BY <2>2, <2>3 DEF AlertShape
<1>4. LockedInv'
  <2> SUFFICES ASSUME NEW d \in Callers, call'[d].at \in LockedPlaces PROVE o = d
    BY <1>1 DEF LockedInv
  <2>1. CASE d = c
    BY <1>2, <2>1
  <2>2. CASE d # c
    <3>1. ledger.owner = d
      BY <1>2, <2>2 DEF LockedInv
    <3>2. d # Nobody
      BY DEF AssuranceAssumption
    <3> QED BY <2>2, <3>1, <3>2
  <2> QED BY <2>1, <2>2
<1>5. SearchedInv'
  <2> SUFFICES ASSUME NEW d \in Callers
               PROVE  /\ call'[d].at \in {"new", "renaming"} =>
                           /\ Len(ledger.rows) < MaxIncidents
                           /\ \A j \in 1..Len(ledger.rows) : ledger.rows[j].event.id # call'[d].event.id
                      /\ call'[d].at = "recorded" =>
                           \E j \in 1..Len(ledger.rows) : ledger.rows[j].event = call'[d].event
    BY <1>1 DEF SearchedInv
  <2>1. CASE d = c
    BY <1>2, <2>1
  <2>2. CASE d # c
    BY <1>2, <2>2 DEF SearchedInv
  <2> QED BY <2>1, <2>2
<1>6. RecordedInv'
  BY <1>1 DEF RecordedInv
<1> QED BY <1>3, <1>4, <1>5, <1>6

\* A record of an incident that has none.
LEMMA RecordKeeps ==
  ASSUME AssuranceAssumption, AlertInv, NEW c \in Callers, AppendRecord(c)
  PROVE  AlertInv'
<1> USE DEF AlertInv
<1> DEFINE e == call[c].event
           n == Len(ledger.rows)
           row == [event |-> e, halt |-> TRUE, alert |-> emitted(e, n + 1)]
<1>1. call[c].at = "renaming" /\ call[c] \in AcceptCalls
  BY CallFields DEF AppendRecord, At
<1>2. e \in AlertEvents /\ n \in Nat
  BY <1>1 DEF AlertShape, AcceptCalls
<1>3. emitted(e, n + 1) \in LedgerAlerts
  BY <1>2 DEF emitted, LedgerAlerts, AlertEvents
<1>4. row \in LedgerRows /\ row.event = e
  BY <1>2, <1>3 DEF LedgerRows
<1>5. ledger' = [rows |-> Append(ledger.rows, row), pending |-> FALSE, owner |-> ledger.owner]
  BY DEF AppendRecord, RenamePending, AlertShape
<1> HIDE DEF row
<1>6. ledger.rows \in Seq(LedgerRows) /\ ledger.owner \in Callers \cup {Nobody, Orphan}
  BY DEF AlertShape
<1>7. /\ ledger'.rows \in Seq(LedgerRows) /\ Len(ledger'.rows) = n + 1 /\ ledger'.rows[n + 1] = row
      /\ \A j \in 1..n : ledger'.rows[j] = ledger.rows[j]
  BY <1>4, <1>5, <1>6
<1>8. ledger'.owner = ledger.owner
      /\ ledger' \in [rows : Seq(LedgerRows), pending : BOOLEAN, owner : Callers \cup {Nobody, Orphan}]
  <2>1. Append(ledger.rows, row) \in Seq(LedgerRows)
    BY <1>5, <1>7
  <2> QED BY <1>5, <1>6, <2>1
<1>9. /\ call'[c] = [call[c] EXCEPT !.at = "recorded"] /\ call'[c] \in AcceptCalls
      /\ call' \in [Callers -> {Idle} \cup AcceptCalls]
      /\ \A d \in Callers \ {c} : call'[d] = call[d]
  <2>1. [call[c] EXCEPT !.at = "recorded"] \in AcceptCalls
    BY <1>1 DEF AcceptCalls, LockedPlaces
  <2> QED BY <2>1 DEF AppendRecord, Goto, AlertShape
<1>10. call'[c].at = "recorded" /\ call'[c].event = e
  BY <1>1, <1>9 DEF AcceptCalls
<1>11. n < MaxIncidents /\ \A j \in 1..n : ledger.rows[j].event.id # e.id
  BY <1>1 DEF SearchedInv
<1>12. MaxIncidents \in Nat
  BY DEF AssuranceAssumption
<1> HIDE DEF n, e
<1>13. \A j \in 1..(n + 1) : j \in 1..n \/ j = n + 1
  BY <1>2
<1>14. \A j \in 1..n : j \in 1..(n + 1) /\ j # n + 1
  BY <1>2
<1>15. n + 1 \in 1..(n + 1)
  BY <1>2
<1>16. AlertShape'
  BY <1>8, <1>9 DEF AlertShape, AppendRecord
<1>17. LockedInv'
  <2>1. ledger.owner = c
    BY <1>1 DEF LockedInv, LockedPlaces
  <2> QED BY <1>8, <1>9, <2>1 DEF LockedInv
<1>18. SearchedInv'
  <2> SUFFICES ASSUME NEW d \in Callers
               PROVE  /\ call'[d].at \in {"new", "renaming"} =>
                           /\ Len(ledger'.rows) < MaxIncidents
                           /\ \A j \in 1..Len(ledger'.rows) : ledger'.rows[j].event.id # call'[d].event.id
                      /\ call'[d].at = "recorded" =>
                           \E j \in 1..Len(ledger'.rows) : ledger'.rows[j].event = call'[d].event
    BY DEF SearchedInv
  <2>1. CASE d = c
    BY <1>4, <1>7, <1>10, <1>15, <2>1
  <2>2. CASE d # c
    <3>1. call'[d].at \notin LockedPlaces
      BY <1>1, <1>9, <2>2 DEF LockedInv, LockedPlaces
    <3> QED BY <3>1 DEF LockedPlaces
  <2> QED BY <2>1, <2>2
<1>19. RecordedInv'
  <2>1. n + 1 <= MaxIncidents
    BY <1>2, <1>11, <1>12
  <2>2. ASSUME NEW x \in returned'
        PROVE  \E j \in 1..(n + 1) : ledger'.rows[j].event = x
    <3>1. PICK j \in 1..n : ledger.rows[j].event = x
      BY DEF RecordedInv, AppendRecord, n
    <3> QED BY <1>7, <1>14, <3>1
  <2>3. ASSUME NEW i \in 1..(n + 1), NEW j \in 1..(n + 1), i # j
        PROVE  ledger'.rows[i].event.id # ledger'.rows[j].event.id
    <3>1. CASE i \in 1..n /\ j \in 1..n
      BY <1>7, <2>3, <3>1 DEF RecordedInv, n
    <3>2. CASE i \in 1..n /\ j = n + 1
      BY <1>4, <1>7, <1>11, <3>2
    <3>3. CASE i = n + 1 /\ j \in 1..n
      BY <1>4, <1>7, <1>11, <3>3
    <3> QED BY <1>13, <2>3, <3>1, <3>2, <3>3
  <2> QED BY <1>7, <2>1, <2>2, <2>3 DEF RecordedInv
<1> QED BY <1>16, <1>17, <1>18, <1>19

LEMMA LookKeeps ==
  ASSUME AssuranceAssumption, AlertInv, NEW c \in Callers, Look(c)
  PROVE  AlertInv'
<1> USE DEF AlertInv
<1> DEFINE k == call[c]
           known == Recorded(ledger, k.event.id)
<1>1. k.at = "locked" /\ k \in AcceptCalls /\ ledger.owner = c
  BY CallFields DEF Look, At, LockedInv, LockedPlaces
<1>2. ledger = [rows |-> ledger.rows, pending |-> ledger.pending, owner |-> ledger.owner]
      /\ ledger.pending \in BOOLEAN /\ DOMAIN ledger.rows = 1..Len(ledger.rows)
  BY DEF AlertShape
<1>3. truth' = truth /\ instant' = instant /\ returned \subseteq AlertEvents /\ k.event \in AlertEvents
  BY <1>1 DEF Look, AlertShape, AcceptCalls
<1>4. ASSUME NEW x \in known PROVE \E j \in 1..Len(ledger.rows) : ledger.rows[j].event = x
  BY <1>2, <1>4 DEF Recorded
<1>5. CASE snapshot(ledger, k.head) /\ known = {} /\ Len(ledger.rows) < MaxIncidents
  <2>1. call' = [call EXCEPT ![c] = [k EXCEPT !.at = "new"]] /\ ledger' = ledger /\ returned' = returned
    BY <1>5 DEF Look, Goto
  <2>2. [k EXCEPT !.at = "new"] \in AcceptCalls /\ [k EXCEPT !.at = "new"].at = "new"
        /\ [k EXCEPT !.at = "new"].event = k.event
    BY <1>1 DEF AcceptCalls, LockedPlaces
  <2>3. \A j \in 1..Len(ledger.rows) : ledger.rows[j].event.id # k.event.id
    BY <1>2, <1>5 DEF Recorded
  <2> HIDE DEF k, known
  <2> QED BY <1>1, <1>2, <1>3, <1>5, <2>1, <2>2, <2>3, CallerKeeps
<1>6. CASE ~(snapshot(ledger, k.head) /\ known = {} /\ Len(ledger.rows) < MaxIncidents)
  <2>1. /\ call' = [call EXCEPT ![c] = Idle] /\ ledger' = Disown(ledger)
        /\ returned' = IF snapshot(ledger, k.head) /\ known = {k.event}
                       THEN returned \cup {k.event} ELSE returned
    BY <1>6 DEF Look, Leave
  <2>2. ledger' = [rows |-> ledger.rows, pending |-> ledger.pending, owner |-> Nobody]
    BY <1>2, <2>1 DEF Disown
  <2>3. \A e \in returned' \ returned : e \in known /\ e \in AlertEvents
    BY <1>3, <2>1
  <2>4. returned' \subseteq AlertEvents
    BY <1>3, <2>1
  <2>5. Idle.at = "idle"
    BY DEF Idle
  <2>6. \A e \in returned' \ returned : \E j \in 1..Len(ledger.rows) : ledger.rows[j].event = e
    BY <1>4, <2>3
  <2>7. call' = [call EXCEPT ![c] = Idle] /\ Idle \in {Idle} \cup AcceptCalls
    BY <2>1
  <2>8. Idle.at \notin LockedPlaces
    BY <2>5 DEF LockedPlaces
  <2> HIDE DEF k, known, AlertInv
  <2> QED BY <1>1, <1>2, <1>3, <2>2, <2>4, <2>5, <2>6, <2>7, <2>8, CallerKeeps
<1> QED BY <1>5, <1>6

\* The other steps of a caller.
LEMMA CallerStep ==
  ASSUME AssuranceAssumption, AlertInv, NEW c \in Callers,
         \/ Notice(c) \/ Lock(c) \/ Look(c) \/ AppendPending(c)
         \/ AppendRecord(c) \/ Return(c) \/ Interrupt(c) \/ Kill(c)
  PROVE  AlertInv'
<1> USE DEF AlertInv
<1>0. ledger = [rows |-> ledger.rows, pending |-> ledger.pending, owner |-> ledger.owner]
      /\ ledger.pending \in BOOLEAN /\ ledger.owner \in Callers \cup {Nobody, Orphan}
      /\ returned \subseteq AlertEvents
  BY DEF AlertShape
<1>1. Idle.at = "idle" /\ Idle \in {Idle} \cup AcceptCalls
  BY DEF Idle
<1>2. ASSUME call' = [call EXCEPT ![c] = Idle], ledger.owner = c, NEW o \in {Nobody, Orphan},
             ledger' = [ledger EXCEPT !.owner = o], truth' = truth, instant' = instant,
             returned' \subseteq AlertEvents,
             \A e \in returned' \ returned : \E j \in 1..Len(ledger.rows) : ledger.rows[j].event = e
      PROVE  AlertInv'
  <2>1. ledger' = [rows |-> ledger.rows, pending |-> ledger.pending, owner |-> o]
    BY <1>0, <1>2
  <2> QED BY <1>0, <1>1, <1>2, <2>1, CallerKeeps DEF LockedPlaces
<1>3. CASE Notice(c)
  <2>1. PICK i \in truth, ev \in {"right", "wrong"}, head \in 0..HeadOf(ledger), at \in 0..instant :
          call' = [call EXCEPT ![c] = [at |-> "called", event |-> Event(i, at, ev), head |-> head]]
    BY <1>3 DEF Notice
  <2> DEFINE k == [at |-> "called", event |-> Event(i, at, ev), head |-> head]
  <2>2. at \in Nat /\ head \in Nat
    BY DEF AlertShape, HeadOf
  <2>3. i \in Incidents
    BY DEF AlertShape, Incidents
  <2>4. Event(i, at, ev) \in AlertEvents
    BY <2>2, <2>3 DEF Event, AlertEvents
  <2>5. k \in AcceptCalls /\ k.at = "called"
    BY <2>2, <2>4 DEF AcceptCalls
  <2>6. ledger' = ledger /\ truth' = truth /\ instant' = instant /\ returned' = returned
    BY <1>3 DEF Notice
  <2>7. call' = [call EXCEPT ![c] = k]
    BY <2>1
  <2> HIDE DEF k
  <2> QED BY <1>0, <2>5, <2>6, <2>7, CallerKeeps DEF LockedPlaces
<1>4. CASE Lock(c)
  <2>1. call[c].at = "called" /\ call[c] \in AcceptCalls
    BY <1>4, CallFields DEF Lock, At
  <2>2. truth' = truth /\ instant' = instant /\ returned' = returned
    BY <1>4 DEF Lock
  <2>3. CASE CanOwn(ledger)
    <3> DEFINE k == [call[c] EXCEPT !.at = "locked"]
    <3>1. call' = [call EXCEPT ![c] = k] /\ ledger' = OwnedBy(ledger, c)
      BY <1>4, <2>3 DEF Lock, Goto
    <3>2. ledger' = [rows |-> ledger.rows, pending |-> ledger.pending, owner |-> c]
      BY <1>0, <3>1 DEF OwnedBy
    <3>3. k \in AcceptCalls /\ k.at = "locked"
      BY <2>1 DEF AcceptCalls, LockedPlaces
    <3>4. ledger.owner = Nobody
      BY <2>3 DEF CanOwn
    <3> HIDE DEF k
    <3> QED BY <1>0, <2>2, <3>1, <3>2, <3>3, <3>4, CallerKeeps
  <2>4. CASE ~CanOwn(ledger)
    <3>1. call' = [call EXCEPT ![c] = Idle] /\ ledger' = ledger
      BY <1>4, <2>4 DEF Lock
    <3> QED BY <1>0, <1>1, <2>2, <3>1, CallerKeeps DEF LockedPlaces
  <2> QED BY <2>3, <2>4
<1>5. CASE AppendPending(c)
  <2> DEFINE k == [call[c] EXCEPT !.at = "renaming"]
  <2>1. call[c].at = "new" /\ call[c] \in AcceptCalls /\ ledger.owner = c
    BY <1>5, CallFields DEF AppendPending, At, LockedInv, LockedPlaces
  <2>2. k \in AcceptCalls /\ k.at = "renaming" /\ k.event = call[c].event
    BY <2>1 DEF AcceptCalls, LockedPlaces
  <2>3. call' = [call EXCEPT ![c] = k] /\ ledger' = WritePending(ledger) /\ truth' = truth
        /\ instant' = instant /\ returned' = returned
    BY <1>5 DEF AppendPending, Goto
  <2>4. ledger' = [rows |-> ledger.rows, pending |-> TRUE, owner |-> ledger.owner]
    BY <1>0, <2>3 DEF WritePending
  <2>5. /\ Len(ledger.rows) < MaxIncidents
        /\ \A j \in 1..Len(ledger.rows) : ledger.rows[j].event.id # k.event.id
    BY <2>1, <2>2 DEF SearchedInv
  <2> HIDE DEF k
  <2> QED BY <1>0, <2>1, <2>2, <2>3, <2>4, <2>5, CallerKeeps
<1>6. CASE Return(c)
  <2>1. call[c].at = "recorded" /\ call[c] \in AcceptCalls /\ ledger.owner = c
    BY <1>6, CallFields DEF Return, At, LockedInv, LockedPlaces
  <2>2. call[c].event \in AlertEvents
        /\ \E j \in 1..Len(ledger.rows) : ledger.rows[j].event = call[c].event
    BY <2>1 DEF AcceptCalls, SearchedInv
  <2>3. /\ call' = [call EXCEPT ![c] = Idle] /\ ledger' = [ledger EXCEPT !.owner = Nobody]
        /\ truth' = truth /\ instant' = instant /\ returned' = returned \cup {call[c].event}
    BY <1>6 DEF Return, Leave, Disown
  <2> QED BY <1>0, <1>2, <2>1, <2>2, <2>3
<1>7. CASE Interrupt(c)
  <2>1. ledger.owner = c
    BY <1>7 DEF Interrupt, LockedInv, LockedPlaces
  <2> QED BY <1>0, <1>2, <1>7, <2>1 DEF Interrupt, Leave, Disown
<1>8. CASE Kill(c)
  BY <1>0, <1>2, <1>8 DEF Kill, OwnedBy
<1> QED BY <1>3, <1>4, <1>5, <1>6, <1>7, <1>8, LookKeeps, RecordKeeps

LEMMA AlertStep ==
  ASSUME AssuranceAssumption, AlertInv, [AlertNext]_alertVars
  PROVE  AlertInv'
<1> USE DEF AlertInv
<1>1. ASSUME UNCHANGED <<truth, call, returned>>, instant' \in 0..MaxTime, NEW o \in {ledger.owner, Nobody},
             ledger' = [rows |-> ledger.rows, pending |-> ledger.pending, owner |-> o],
             o = Nobody => ledger.owner \in {Nobody, Orphan}
      PROVE  AlertInv'
  <2>1. ledger'.rows = ledger.rows /\ ledger'.owner = o
    BY <1>1
  <2>2. ledger' \in [rows : Seq(LedgerRows), pending : BOOLEAN, owner : Callers \cup {Nobody, Orphan}]
    BY <1>1 DEF AlertShape
  <2>3. AlertShape'
    BY <1>1, <2>2 DEF AlertShape
  <2>4. LockedInv'
    <3> SUFFICES ASSUME NEW d \in Callers, call[d].at \in LockedPlaces PROVE o = d
      BY <1>1, <2>1 DEF LockedInv
    <3>1. ledger.owner = d /\ d \notin {Nobody, Orphan}
      BY DEF LockedInv, AssuranceAssumption
    <3> QED BY <1>1, <3>1
  <2>5. SearchedInv'
    BY <1>1, <2>1 DEF SearchedInv
  <2>6. RecordedInv'
    BY <1>1, <2>1 DEF RecordedInv
  <2> QED BY <2>3, <2>4, <2>5, <2>6
<1>2. ledger = [rows |-> ledger.rows, pending |-> ledger.pending, owner |-> ledger.owner]
      /\ instant \in 0..MaxTime /\ MaxTime \in Nat
  BY DEF AlertShape, AssuranceAssumption
<1>3. CASE UNCHANGED <<truth, ledger, call, returned, instant>>
  <2>1. ledger.owner = Nobody => ledger.owner \in {Nobody, Orphan}
    OBVIOUS
  <2> QED BY <1>1, <1>2, <1>3, <2>1
<1>4. CASE RemoveLock
  <2>1. ledger.owner = Orphan /\ ledger' = Disown(ledger) /\ UNCHANGED <<truth, call, returned, instant>>
    BY <1>4 DEF RemoveLock
  <2>2. ledger' = [rows |-> ledger.rows, pending |-> ledger.pending, owner |-> Nobody]
    BY <1>2, <2>1 DEF Disown
  <2> QED BY <1>1, <1>2, <2>1, <2>2
<1>5. CASE InstantPasses
  <2>1. instant' \in 0..MaxTime /\ UNCHANGED <<truth, ledger, call, returned>>
    BY <1>2, <1>5 DEF InstantPasses
  <2> QED BY <1>1, <1>2, <2>1
<1>6. CASE \E c \in Callers : \/ Notice(c) \/ Lock(c) \/ Look(c) \/ AppendPending(c)
                              \/ AppendRecord(c) \/ Return(c) \/ Interrupt(c) \/ Kill(c)
  BY <1>6, CallerStep
<1>7. CASE Assure \/ Monitor
  BY <1>3, <1>7 DEF Assure, Monitor
<1> QED BY <1>3, <1>4, <1>5, <1>6, <1>7 DEF AlertNext, Work, alertVars

\* AlertLedger.accept of phase1426/alerts.py: what was acknowledged is on record, an incident
\* has one record and the budget is kept, whoever is interrupted or killed where and however
\* often an accept is repeated; for any number of processes and incidents.
THEOREM RecordingIsSound == AssuranceAssumption => (AlertSpec => []RecordingSound)
<1> SUFFICES ASSUME AssuranceAssumption PROVE AlertSpec => []RecordingSound
  OBVIOUS
<1>1. AlertInit => AlertInv
  <2> SUFFICES ASSUME AlertInit PROVE AlertInv
    OBVIOUS
  <2>1. ledger = [rows |-> <<>>, pending |-> FALSE, owner |-> Nobody] /\ ledger.rows = <<>>
        /\ Len(ledger.rows) = 0 /\ <<>> \in Seq(LedgerRows)
    BY DEF AlertInit, Empty
  <2>2. \A c \in Callers : call[c].at = "idle"
    BY DEF AlertInit, Idle
  <2>3. MaxTime \in Nat /\ MaxIncidents \in Nat
    BY DEF AssuranceAssumption
  <2>4. AlertShape
    BY <2>1, <2>3 DEF AlertInit, AlertShape
  <2>5. LockedInv /\ SearchedInv
    BY <2>2 DEF LockedInv, SearchedInv, LockedPlaces
  <2>6. RecordedInv
    BY <2>1, <2>3 DEF AlertInit, RecordedInv
  <2> QED BY <2>4, <2>5, <2>6 DEF AlertInv
<1>2. AlertInv /\ [AlertNext]_alertVars => AlertInv'
  BY AlertStep
<1>3. AlertInv => RecordingSound
  <2> SUFFICES ASSUME AlertInv PROVE RecordingSound
    OBVIOUS
  <2>1. DOMAIN ledger.rows = 1..Len(ledger.rows) /\ \A i \in 1..Len(ledger.rows) : ledger.rows[i] \in LedgerRows
    BY DEF AlertInv, AlertShape
  <2>2. \A i \in 1..Len(ledger.rows) : ledger.rows[i].halt
    BY <2>1 DEF LedgerRows
  <2>3. AlertTypeOK
    BY <2>1, <2>2 DEF AlertInv, AlertShape, RecordedInv, AlertTypeOK
  <2>4. AcknowledgedIsRecorded
    BY <2>1 DEF AlertInv, RecordedInv, AcknowledgedIsRecorded, Accepted
  <2>5. OneRecordEach
    BY <2>1 DEF AlertInv, RecordedInv, OneRecordEach
  <2> QED BY <2>3, <2>4, <2>5 DEF RecordingSound
<1> QED BY <1>1, <1>2, <1>3, PTL DEF AlertSpec

=============================================================================
