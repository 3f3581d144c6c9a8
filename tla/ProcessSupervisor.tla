-------------------------- MODULE ProcessSupervisor --------------------------
(***************************************************************************)
(* The two Windows process supervisors of phase 14.44E: run() creates a    *)
(* job that kills its members when it is closed, launches a suspended      *)
(* process, pins its image, assigns it to the job, resumes it, and polls   *)
(* the job until it is empty or the budget is spent.  Every poll works on  *)
(* a list of process identifiers and a parent table that were taken        *)
(* before, while the processes go on spawning and exiting and the system   *)
(* gives identifiers of exited processes to new ones.  strict tells the    *)
(* second supervisor (E-F), which fails where the first (E-E) notes a gap. *)
(*                                                                         *)
(* The operating system is part of the model: an identifier is free once   *)
(* its process has exited and no handle to it is open; a member of the job *)
(* starts its children in the job; times are distinct.                     *)
(***************************************************************************)
EXTENDS Integers, Sequences, FiniteSets

CONSTANTS
    Pids,           \* process identifiers
    MaxProcs,       \* bound on the processes ever created
    MaxFaults       \* bound on failing system calls

None == "none"      \* no identifier

ASSUME PidsAssumption == None \notin Pids /\ {MaxProcs, MaxFaults} \subseteq Nat

VARIABLES
    procs,          \* every process ever, in order of creation
    now,            \* the system's clock
    pc,             \* where run() is
    root,           \* index of the launched process, 0 before
    assigned,       \* the root was assigned to the job
    todo,           \* identifiers of the current poll still to visit
    empty,          \* the current poll found the job empty
    ancestry,       \* the parent table taken with the current poll
    owned,          \* processes[pid]: the handle and what is known of it
    gaps,           \* coverage_gaps
    seen,           \* members any poll listed (history)
    spent,          \* the budget is used up
    status, drained, \* record["status"], record["job_empty_after_cleanup"]
    receipt,        \* the receipt on disk
    rival, faults,
    strict          \* TRUE for phase1444ef, FALSE for phase1444ee

world == <<procs, now>>
record == <<root, assigned, todo, empty, ancestry, owned, gaps, seen, status, drained>>
vars == <<procs, now, pc, root, assigned, todo, empty, ancestry, owned, gaps, seen, spent,
          status, drained, receipt, rival, faults, strict>>

NoReceipt == [status |-> "none"]

Index == DOMAIN procs
Alive(i) == procs[i].exit = 0

\* info: creation and exit time; running is FALSE while the first thread is suspended and
\* dying TRUE once the process was terminated.
Processes ==
    [pid : Pids, parent : Nat, creation : Nat, exit : Nat, injob : BOOLEAN,
     running : BOOLEAN, dying : BOOLEAN, pinned : BOOLEAN]

\* members: the processes of the job that have not exited.
members == {i \in Index : Alive(i) /\ procs[i].injob}

\* parents: the identifiers of the parents of everything alive.
parents == [p \in {procs[i].pid : i \in {j \in Index : Alive(j)}} |->
              LET i == CHOOSE j \in Index : Alive(j) /\ procs[j].pid = p
              IN  IF procs[i].parent = 0 THEN None ELSE procs[procs[i].parent].pid]

Held(i) == i = root \/ \E p \in DOMAIN owned : owned[p].proc = i

FreePids == Pids \ {procs[i].pid : i \in {j \in Index : Alive(j) \/ Held(j)}}

\* classify_query: exit comes first, whatever else the query said.
classify_query(i, error) ==
    IF ~Alive(i) THEN "PROCESS_EXITED"
    ELSE IF error THEN "PROCESS_IMAGE_QUERY_FAILED"
    ELSE IF ~procs[i].pinned THEN "PROCESS_IDENTITY_UNVERIFIED"
    ELSE "PROCESS_IDENTITY_VERIFIED"

\* validate_lineage, over the times of the handles.
validate_lineage(child, parent) ==
    LET c == procs[child.proc]
        p == procs[parent.proc]
    IN  /\ child.parent_pid = p.pid
        /\ p.creation <= c.creation
        /\ (p.exit = 0 \/ c.creation <= p.exit)

\* inspect_image of the first supervisor: the image is hashed while the process is alive
\* and compared with the pins.
inspect_image(i) ==
    [state |-> classify_query(i, FALSE), verified |-> Alive(i) /\ procs[i].pinned]

\* image_identity of the strict supervisor; verified also asks that the query succeeded.
image_identity(i, error) ==
    [state |-> classify_query(i, error), verified |-> Alive(i) /\ procs[i].pinned /\ ~error]

Init ==
    /\ procs = <<>> /\ now = 1
    /\ pc = "start" /\ root = 0 /\ assigned = FALSE
    /\ todo = {} /\ empty = FALSE
    /\ ancestry = [p \in {} |-> None] /\ owned = [p \in {} |-> None]
    /\ gaps = {} /\ seen = {} /\ spent = FALSE
    /\ status = "PARTIAL" /\ drained = FALSE
    /\ receipt = NoReceipt /\ rival = FALSE /\ faults = 0
    /\ strict \in BOOLEAN

NewProcess(pid, parent, injob, running, pinned) ==
    /\ Len(procs) < MaxProcs
    /\ procs' = Append(procs, [pid |-> pid, parent |-> parent, creation |-> now, exit |-> 0,
                               injob |-> injob, running |-> running, dying |-> FALSE,
                               pinned |-> pinned])
    /\ now' = now + 1

\* An exception of the try block: the status is set and cleanup begins.
Raise ==
    /\ status' = "SUPERVISION_FAILED"
    /\ pc' = "cleanup"
    /\ todo' = {}

Fault == faults < MaxFaults /\ faults' = faults + 1

\* The checks before anything is created: label, custody, frozen command list, pins, and
\* no receipt or output under this label yet.
Refuse ==
    /\ pc = "start"
    /\ pc' = "refused"
    /\ UNCHANGED <<world, record, spent, receipt, rival, faults>>

\* The job, which kills its members when it is closed.
CreateJob ==
    /\ pc = "start"
    /\ \/ pc' = "job" /\ UNCHANGED <<status, todo, faults>>
       \/ Raise /\ Fault
    /\ UNCHANGED <<world, root, assigned, empty, ancestry, owned, gaps, seen, spent, drained,
                   receipt, rival>>

\* The output streams, created exclusively, and CreateProcessW with CREATE_SUSPENDED.
CreateSuspended ==
    /\ pc = "job"
    /\ \/ \E pid \in FreePids, pinned \in BOOLEAN :
            /\ NewProcess(pid, 0, FALSE, FALSE, pinned)
            /\ root' = Len(procs) + 1
            /\ pc' = "suspended"
            /\ UNCHANGED <<status, todo, faults>>
       \/ Raise /\ Fault /\ UNCHANGED <<procs, now, root>>
    /\ UNCHANGED <<assigned, empty, ancestry, owned, gaps, seen, spent, drained, receipt, rival>>

\* The image is pinned, the process assigned and only then resumed; any failure leaves it
\* suspended, assigned or not.
AssignThenResume ==
    /\ pc = "suspended"
    /\ \/ /\ image_identity(root, FALSE).verified
          /\ assigned' = TRUE
          /\ procs' = [procs EXCEPT ![root].injob = TRUE, ![root].running = TRUE]
          /\ owned' = IF strict
                        THEN [p \in {procs[root].pid} |->
                                [proc |-> root, parent_pid |-> None, verified |-> TRUE]]
                        ELSE owned
          /\ pc' = "poll"
          /\ UNCHANGED <<status, todo, faults>>
       \/ /\ ~image_identity(root, FALSE).verified
          /\ Raise
          /\ UNCHANGED <<procs, assigned, owned, faults>>
       \/ /\ Raise /\ Fault
          /\ \/ UNCHANGED <<procs, assigned>>
             \/ assigned' = TRUE /\ procs' = [procs EXCEPT ![root].injob = TRUE]
          /\ UNCHANGED owned
    /\ UNCHANGED <<now, root, empty, ancestry, gaps, seen, spent, drained, receipt, rival>>

\* members(job) and parents() at the head of the loop.
Poll ==
    /\ pc = "poll"
    /\ todo' = {procs[i].pid : i \in members}
    /\ empty' = (members = {})
    /\ ancestry' = parents
    /\ seen' = seen \cup members
    /\ pc' = "visit"
    /\ UNCHANGED <<procs, now, root, assigned, owned, gaps, spent, status, drained, receipt,
                   rival, faults>>

Holder(pid) == {i \in Index : Alive(i) /\ procs[i].pid = pid}

\* The handle is retained with the parent the poll's table gives.
Own(pid, i, verified) ==
    owned' = [p \in DOMAIN owned \cup {pid} |->
                IF p # pid THEN owned[p]
                ELSE [proc |-> i, parent_pid |-> IF pid \in DOMAIN ancestry THEN ancestry[pid] ELSE None,
                      verified |-> verified]]

VerifyChildUnchecked(pid) ==
    \/ /\ Holder(pid) = {}
       /\ Raise /\ UNCHANGED <<owned, gaps>>
    \/ \E i \in Holder(pid) :
         /\ Own(pid, i, TRUE)
         /\ todo' = todo \ {pid}
         /\ UNCHANGED <<pc, status, gaps>>

\* The strict supervisor: a listed process that cannot be opened, is not in the job, or
\* whose image is not verified ends the run.
VerifyChild(pid) ==
    \/ /\ Holder(pid) = {}
       /\ Raise /\ UNCHANGED <<owned, gaps>>
    \/ \E i \in Holder(pid) :
         LET image == image_identity(i, FALSE)
         IN  /\ Own(pid, i, image.verified)
             /\ IF procs[i].injob /\ image.verified
                  THEN todo' = todo \ {pid} /\ UNCHANGED <<pc, status>>
                  ELSE Raise
             /\ UNCHANGED gaps

\* The first supervisor: one that has gone meanwhile is a coverage gap; one that cannot be
\* verified ends the run only while it is alive.
ObserveChild(pid) ==
    \/ /\ Holder(pid) = {}
       /\ gaps' = gaps \cup {pid}
       /\ IF \E i \in members : procs[i].pid = pid
            THEN Raise
            ELSE todo' = todo \ {pid} /\ UNCHANGED <<pc, status>>
       /\ UNCHANGED owned
    \/ \E i \in Holder(pid) :
         LET image == inspect_image(i)
         IN  IF ~procs[i].injob
               THEN Raise /\ UNCHANGED <<owned, gaps>>
               ELSE /\ Own(pid, i, image.verified)
                    /\ IF image.verified
                         THEN todo' = todo \ {pid} /\ UNCHANGED <<pc, status>>
                         ELSE Raise
                    /\ UNCHANGED gaps

\* A process exits between OpenProcess and the query of its image.
LostWhileOpening(pid) ==
    \E i \in Holder(pid) :
        /\ Fault
        /\ procs' = [procs EXCEPT ![i].exit = now]
        /\ now' = now + 1
        /\ IF procs[i].injob
             THEN Own(pid, i, FALSE)
             ELSE UNCHANGED owned
        /\ IF strict \/ ~procs[i].injob
             THEN Raise /\ UNCHANGED gaps
             ELSE /\ gaps' = gaps \cup {pid}
                  /\ todo' = todo \ {pid}
                  /\ UNCHANGED <<pc, status>>

\* A listed identifier whose handle is retained is sampled again: same_identity holds
\* because the system keeps the identifier while a handle is open.
same_identity(pid) == procs[owned[pid].proc].pid = pid

Visit ==
    /\ pc = "visit"
    /\ \E pid \in todo :
         \/ /\ pid \in DOMAIN owned
            /\ IF same_identity(pid)
                 THEN todo' = todo \ {pid} /\ UNCHANGED <<pc, status>>
                 ELSE Raise
            /\ UNCHANGED <<world, owned, gaps, faults>>
         \/ /\ pid \notin DOMAIN owned
            /\ \/ /\ IF strict THEN VerifyChild(pid) ELSE ObserveChild(pid)
                  /\ UNCHANGED <<world, faults>>
               \/ LostWhileOpening(pid)
    /\ UNCHANGED <<root, assigned, empty, ancestry, seen, spent, drained, receipt, rival>>

\* terminatejob: every member is terminated; none of them spawns any more.
Terminated == [i \in Index |-> IF i \in members THEN [procs[i] EXCEPT !.dying = TRUE,
                                                      !.running = FALSE] ELSE procs[i]]

\* The end of one round: leave when the job was empty, terminate it when the budget is
\* spent, else sleep and poll again.
RoundEnd ==
    /\ pc = "visit" /\ todo = {}
    /\ \/ /\ empty
          /\ status' = "COMPLETE" /\ pc' = "cleanup"
          /\ UNCHANGED procs
       \/ /\ ~empty /\ spent
          /\ procs' = Terminated
          /\ status' = "COMPLETE" /\ pc' = "cleanup"
       \/ /\ ~empty /\ ~spent
          /\ pc' = "poll"
          /\ UNCHANGED <<procs, status>>
    /\ UNCHANGED <<now, root, assigned, todo, empty, ancestry, owned, gaps, seen, spent,
                   drained, receipt, rival, faults>>

\* Cleanup terminates through the retained job, or the retained handle of a process that
\* was never assigned (if that fails, nothing is waited for); no identifier is ever turned
\* into a termination.
Cleanup ==
    /\ pc = "cleanup"
    /\ \/ /\ procs' = IF assigned THEN Terminated
                      ELSE IF root # 0 THEN [procs EXCEPT ![root].dying = TRUE]
                      ELSE procs
          /\ pc' = "draining"
          /\ UNCHANGED <<status, faults>>
       \/ /\ root # 0 /\ ~assigned
          /\ Fault /\ status' = "SUPERVISION_FAILED"
          /\ pc' = "final"
          /\ UNCHANGED procs
    /\ UNCHANGED <<now, root, assigned, todo, empty, ancestry, owned, gaps, seen, spent,
                   drained, receipt, rival>>

StillThere == members # {} \/ (root # 0 /\ Alive(root))

DrainEnd ==
    /\ pc' = "final"
    /\ drained' = (assigned /\ members = {})
    /\ UNCHANGED <<procs, now, root, assigned, todo, empty, ancestry, owned, gaps, seen, spent,
                   receipt, rival>>

\* The members and the root are gone.
Drain ==
    /\ pc = "draining"
    /\ ~StillThere
    /\ DrainEnd
    /\ UNCHANGED <<status, faults>>

\* Ten seconds have passed and they are not: OWNED_JOB_CLEANUP_INCOMPLETE and
\* ROOT_EXIT_UNVERIFIED of the strict supervisor; the other one only notes it.
DrainTimeout ==
    /\ pc = "draining"
    /\ StillThere
    /\ Fault
    /\ DrainEnd
    /\ status' = IF strict THEN "SUPERVISION_FAILED" ELSE status

Lineage(pid) ==
    \/ owned[pid].proc = root
    \/ /\ owned[pid].parent_pid \in DOMAIN owned
       /\ validate_lineage(owned[pid], owned[owned[pid].parent_pid])

TreeVerified ==
    DOMAIN owned # {} /\ \A pid \in DOMAIN owned : owned[pid].verified /\ Lineage(pid)

\* Lineage is settled, the handles and the job are closed (which kills what is left of
\* it), and the receipt is written; the strict supervisor creates it exclusively and
\* fails a complete run whose lineage is not verified.
Finish ==
    /\ pc = "final"
    /\ LET result == IF strict /\ status = "COMPLETE" /\ \E pid \in DOMAIN owned : ~Lineage(pid)
                       THEN "SUPERVISION_FAILED" ELSE status
       IN  /\ status' = result
           /\ receipt' = IF strict /\ receipt # NoReceipt THEN receipt
                         ELSE [status |-> result, drained |-> drained, tree |-> TreeVerified]
    /\ procs' = Terminated
    /\ pc' = "done"
    /\ UNCHANGED <<now, root, assigned, todo, empty, ancestry, owned, gaps, seen, spent,
                   drained, rival, faults>>

OverwriteReceipt ==
    /\ ~rival /\ pc \notin {"start", "refused"}
    /\ rival' = TRUE
    /\ receipt' = [status |-> "SUPERVISION_FAILED", drained |-> FALSE, tree |-> FALSE]
    /\ UNCHANGED <<procs, now, pc, root, assigned, todo, empty, ancestry, owned, gaps, seen,
                   spent, status, drained, faults>>

\* A second call with the same label that looked before this one had written anything: the
\* output streams exist already, so it fails and writes a receipt of its own.
RivalCall ==
    /\ ~rival /\ pc \notin {"start", "refused", "done"}
    /\ rival' = TRUE
    /\ receipt' = IF strict /\ receipt # NoReceipt THEN receipt
                  ELSE [status |-> "SUPERVISION_FAILED", drained |-> FALSE, tree |-> FALSE]
    /\ UNCHANGED <<procs, now, pc, root, assigned, todo, empty, ancestry, owned, gaps, seen,
                   spent, status, drained, faults>>

\* The system: a member spawns a child in the job, something else starts elsewhere, a
\* process exits, the budget runs out.
Spawn ==
    /\ pc # "done"
    /\ \E i \in members, pid \in FreePids, pinned \in BOOLEAN :
         /\ procs[i].running
         /\ NewProcess(pid, i, TRUE, TRUE, pinned)
    /\ UNCHANGED <<pc, record, spent, receipt, rival, faults>>

ForeignStart ==
    /\ pc \in {"poll", "visit"}
    /\ \E pid \in FreePids : NewProcess(pid, 0, FALSE, TRUE, TRUE)
    /\ UNCHANGED <<pc, record, spent, receipt, rival, faults>>

Exit(i) ==
    /\ Alive(i) /\ (procs[i].running \/ procs[i].dying)
    /\ procs' = [procs EXCEPT ![i].exit = now]
    /\ now' = now + 1
    /\ UNCHANGED <<pc, record, spent, receipt, rival, faults>>

BudgetSpent ==
    /\ ~spent /\ pc \in {"poll", "visit"}
    /\ spent' = TRUE
    /\ UNCHANGED <<world, pc, record, receipt, rival, faults>>

Supervise ==
    CreateJob \/ CreateSuspended \/ AssignThenResume \/ Poll \/ Visit \/ RoundEnd
    \/ Cleanup \/ Drain \/ DrainTimeout \/ Finish

Next ==
    /\ \/ Supervise \/ Refuse \/ RivalCall
       \/ Spawn \/ ForeignStart \/ BudgetSpent
       \/ \E i \in Index : Exit(i)
    /\ UNCHANGED strict

Spec == Init /\ [][Next]_vars

-----------------------------------------------------------------------------

\* Types, and that handles, identifiers and the list of the poll stay consistent.
TypeOK ==
    /\ \A i \in Index : procs[i] \in Processes
    /\ status \in {"PARTIAL", "COMPLETE", "SUPERVISION_FAILED"}
    /\ \A i, j \in Index : i # j /\ Alive(i) /\ Alive(j) => procs[i].pid # procs[j].pid
    /\ \A p \in DOMAIN owned : same_identity(p)

\* Nothing of the tree runs outside the job: the root executes no instruction before it
\* was assigned, and every process it starts is a member.
RunsOnlyInJob ==
    \A i \in Index : (i = root \/ procs[i].parent # 0) /\ procs[i].running => procs[i].injob

\* Although identifiers are listed first and opened later, a foreign process that got the
\* identifier of a member meanwhile is never taken for one: a run that completes has only
\* ever owned members of its job.
OwnsOnlyMembers ==
    status = "COMPLETE" => \A p \in DOMAIN owned : procs[owned[p].proc].injob

\* When run() is over, what is left of the tree is being terminated; the only exception is
\* a process that was never resumed and that the system failed to terminate, and then the
\* run counts as failed.
NothingLeftRunning ==
    pc = "done" =>
        \A i \in Index : (i = root \/ procs[i].injob) /\ Alive(i) /\ ~procs[i].dying =>
            ~procs[i].running /\ faults > 0 /\ status = "SUPERVISION_FAILED"

\* Every identifier that a poll listed is accounted for: it is owned, noted as a gap, or
\* the run did not complete.
SeenAccounted ==
    (pc = "done" /\ status = "COMPLETE") =>
        \A i \in seen : procs[i].pid \in DOMAIN owned \cup gaps

\* The strict supervisor completes only with an empty job and a verified tree: every
\* owned process has a pinned image, is a member, and its parent was alive when it started.
CompleteMeansVerified ==
    (strict /\ pc = "done" /\ status = "COMPLETE") =>
        /\ drained
        /\ \A p \in DOMAIN owned :
             LET q == owned[p].proc
             IN  /\ procs[q].pinned /\ procs[q].injob
                 /\ q # root => \E r \in DOMAIN owned :
                        /\ procs[owned[r].proc].creation < procs[q].creation
                        /\ ~(procs[owned[r].proc].exit \in 1..procs[q].creation)

\* Nothing of a supervised tree runs outside its job, a foreign process that got the
\* identifier of a member is never owned by a completed run, nothing is left running, every
\* listed member is accounted for, and a strict run completes only with a verified tree.
SupervisionSound ==
    /\ TypeOK /\ RunsOnlyInJob /\ OwnsOnlyMembers
    /\ NothingLeftRunning /\ SeenAccounted /\ CompleteMeansVerified

\* A receipt of the strict supervisor is never replaced, even by another call with its label.
ReceiptStands ==
    [][strict /\ receipt # NoReceipt => receipt' = receipt]_vars

=============================================================================
