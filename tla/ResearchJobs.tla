---------------------------- MODULE ResearchJobs ----------------------------
(***************************************************************************)
(* phase1416: local market data imported into an isolated store            *)
(* (imports.py), and the single-worker job that evaluates the whole family *)
(* of symbols over it (jobs.py), one checkpoint file per symbol, then the  *)
(* reports and the completion summary, in a directory guarded by run.lock. *)
(*                                                                         *)
(* Workers are processes started on the same directory with any job.  A    *)
(* worker may be killed between any two writes, and in the middle of one:  *)
(* its lock and the .pending file then stay.  A request says what its      *)
(* files contain:                                                          *)
(*   [symbol, window, class, marked, wellFormed, permitted, calendar,      *)
(*    actions, mapping, complete, expires, performs]                       *)
(* where marked means the source or a calendar names itself synthetic and  *)
(* performs whether its trades meet the qualification policy.              *)
(***************************************************************************)
EXTENDS Naturals, Sequences, FiniteSets, FiniteSetsExt, SequencesExt

CONSTANTS
  Family,              \* the symbols of the family, in order
  Windows,             \* the research windows (6 and 12 months)
  Requests,            \* import requests an operator may make
  Selections,          \* jobs: functions from some (symbol, window) to a request
  Workers,
  MaxAttempts, MaxDeaths, LastTime

NoJob == <<>>
Unlocked == "free"

ASSUME JobsAssumption ==
  /\ IsInjective(Family) /\ Family \in Seq(Range(Family)) /\ IsFiniteSet(Windows)
  /\ {MaxAttempts, MaxDeaths, LastTime} \subseteq Nat /\ Unlocked \notin Workers
  /\ \A r \in Requests : {r.marked, r.permitted, r.calendar, r.actions, r.mapping, r.complete,
                            r.performs} \subseteq BOOLEAN
  /\ \A job \in Selections :
       DOMAIN job \subseteq Range(Family) \X Windows /\ \A p \in DOMAIN job : job[p] \in Requests

VARIABLES
  now,
  store,               \* published import records, by their request
  directory,           \* the job directory
  worker,              \* worker -> [pc, job, at, next]
  attempts, deaths

researchVars == <<now, store, directory, worker, attempts, deaths>>

----------------------------------------------------------------------------
(* import_local                                                              *)

\* The reasons that quarantine an import.  A synthetic fixture skips the
\* evidence; anything else needs all of it.
Unless(holds, reason) == IF holds THEN {} ELSE {reason}

QuarantineReasons(r) ==
  (IF r.class = "SYNTHETIC_FIXTURE" THEN {}
   ELSE Unless(~r.marked, "SYNTHETIC_SOURCE_CANNOT_BE_PROMOTED")
        \cup Unless(r.class = "AUTHORIZED_LOCAL_EXPORT" /\ r.permitted,
                    "SOURCE_PERMISSION_UNVERIFIED")
        \cup Unless(r.calendar, "CALENDAR_INCOMPLETE")
        \cup Unless(r.actions, "CORPORATE_ACTION_UNCERTAINTY")
        \cup Unless(r.mapping, "MAPPING_UNVERIFIED"))
  \cup Unless(r.complete, "INCOMPLETE_MANDATORY_SESSIONS")

Classification(r) ==
  IF r.class # "SYNTHETIC_FIXTURE" /\ "SOURCE_PERMISSION_UNVERIFIED" \in QuarantineReasons(r)
  THEN "UNVERIFIED_LOCAL_DATA" ELSE r.class

Imported(r) ==
  [symbol |-> r.symbol, window |-> r.window, class |-> Classification(r),
   status |-> IF QuarantineReasons(r) = {} THEN "READY" ELSE "DATA_QUARANTINED",
   reasons |-> QuarantineReasons(r), expires |-> r.expires]

\* A malformed request (window, identity, fingerprint, size, future cutoff) or an
\* expired one raises; any other is published under its content hash.
import_local(r) ==
  /\ r.wellFormed /\ now < r.expires
  /\ store' = store \cup {r}
  /\ UNCHANGED <<now, directory, worker, attempts, deaths>>

\* Stored data is deleted once its retention period is over.
Purge(r) ==
  /\ r \in store /\ now >= r.expires
  /\ store' = store \ {r}
  /\ UNCHANGED <<now, directory, worker, attempts, deaths>>

----------------------------------------------------------------------------
(* jobs.py                                                                   *)

\* load(): the record is the file the job names, of the symbol and window it is
\* selected for, within retention, and consistent in itself.
LoadFault(pair, r, at) ==
  CASE r \notin store -> "INPUT_FILE_LIMIT_OR_TYPE"
    [] r \in store /\ <<r.symbol, r.window>> # pair -> "REPLAY_REJECTED:DATASET_IDENTITY"
    [] r \in store /\ <<r.symbol, r.window>> = pair ->
         IF at >= Imported(r).expires THEN "RETENTION_EXPIRED" ELSE "none"

ReadyClasses(job) ==
  {Imported(job[p]).class : p \in {q \in DOMAIN job : Imported(job[q]).status = "READY"}}

\* validate(): every selected record loads, and the accepted ones are of one
\* source class.
Validates(job, at) ==
  /\ \A p \in DOMAIN job : LoadFault(p, job[p], at) = "none"
  /\ Cardinality(ReadyClasses(job)) <= 1

\* evaluate() behind the job: no dataset is UNAVAILABLE, a quarantined record
\* keeps its reasons, and a synthetic series is simulated but never qualifies.
evaluate(job, pair) ==
  IF pair \notin DOMAIN job
  THEN [status |-> "UNAVAILABLE", qualified |-> FALSE]
  ELSE LET i == Imported(job[pair])
       IN  IF i.status = "DATA_QUARANTINED" THEN [status |-> "QUARANTINED", qualified |-> FALSE]
           ELSE IF i.class = "SYNTHETIC_FIXTURE" THEN [status |-> "SYNTHETIC", qualified |-> FALSE]
           ELSE [status |-> "LOCAL_VERIFIED", qualified |-> job[pair].performs]

CheckpointRows(job, s) == [w \in Windows |-> evaluate(job, <<s, w>>)]

\* checkpoint_rows(): the stored rows are of this run and of the whole partition.
CheckpointFault(job, s) ==
  IF directory.checkpoints[s].job # job THEN "REPLAY_REJECTED:CHECKPOINT_HASH" ELSE "none"

\* The rows of a status, and the rows that qualify.
RowsWith(checkpoints, st) ==
  {p \in (DOMAIN checkpoints) \X Windows : checkpoints[p[1]].rows[p[2]].status = st}

Statuses(checkpoints) ==
  [st \in {"UNAVAILABLE", "QUARANTINED", "SYNTHETIC", "LOCAL_VERIFIED"} |->
     Cardinality(RowsWith(checkpoints, st))]

Qualified(checkpoints) ==
  {p \in (DOMAIN checkpoints) \X Windows : checkpoints[p[1]].rows[p[2]].qualified}

Put(f, k, v) == [x \in DOMAIN f \cup {k} |-> IF x = k THEN v ELSE f[x]]

ResearchInit ==
  /\ now = 0 /\ store = {} /\ attempts = 0 /\ deaths = 0
  /\ directory = [lock |-> Unlocked, plan |-> NoJob, bound |-> FALSE, checkpoints |-> << >>,
            pending |-> {}, failures |-> {}, drafts |-> FALSE, reports |-> FALSE,
            summary |-> <<>>]
  /\ worker = [w \in Workers |-> [pc |-> "idle", job |-> NoJob, at |-> 0, next |-> 1]]

\* execute() up to the lock: a job that does not validate, or finds the lock
\* taken, raises before it has written anything.
\* Mutant of LockFree: the lock file is created whether it exists or not.
LockIgnored == TRUE

LockFree == directory.lock = Unlocked

BeginJob(w, job) ==
  /\ worker[w].pc = "idle" /\ attempts < MaxAttempts
  /\ attempts' = attempts + 1
  /\ IF Validates(job, now) /\ LockFree
     THEN /\ worker' = [worker EXCEPT ![w] = [pc |-> "plan", job |-> job, at |-> now, next |-> 1]]
          /\ directory' = [directory EXCEPT !.lock = w]
     ELSE UNCHANGED <<worker, directory>>
  /\ UNCHANGED <<now, store, deaths>>

GoOn(w, pc) == worker' = [worker EXCEPT ![w].pc = pc]

\* The handler of execute(): the failure is published beside earlier ones and
\* the lock is released.
FailJob(w, why) ==
  /\ worker' = [worker EXCEPT ![w].pc = "idle"]
  /\ directory' = [directory EXCEPT !.failures = @ \cup {why}, !.lock = Unlocked]

\* publish(): refused by other content and by a leftover .pending file.
Publish(w, name, conflict, written, pc) ==
  IF conflict THEN FailJob(w, "CONTENT_CONFLICT")
  ELSE IF name \in directory.pending THEN FailJob(w, "FileExistsError")
  ELSE directory' = written /\ GoOn(w, pc)

PublishPlan(w) ==
  /\ worker[w].pc = "plan"
  /\ Publish(w, "job-plan", directory.bound /\ directory.plan # worker[w].job,
             [directory EXCEPT !.plan = worker[w].job, !.bound = TRUE], "symbols")

\* One symbol of the loop: the time limit, an existing checkpoint verified and
\* skipped, or its rows evaluated from freshly loaded data and published.
CheckSymbol(w) ==
  LET job == worker[w].job
      s   == Family[worker[w].next]
      faults == {LoadFault(p, job[p], worker[w].at) : p \in {q \in DOMAIN job : q[1] = s}} \ {"none"}
      advance == worker' = [worker EXCEPT ![w].next = @ + 1]
  IN  /\ worker[w].pc = "symbols" /\ worker[w].next <= Len(Family)
      /\ \/ FailJob(w, "EXECUTION_TIME_LIMIT")
         \/ IF s \in DOMAIN directory.checkpoints
            THEN IF CheckpointFault(job, s) # "none" THEN FailJob(w, CheckpointFault(job, s))
                 ELSE advance /\ UNCHANGED directory
            ELSE IF faults # {} THEN \E f \in faults : FailJob(w, f)
            ELSE IF s \in directory.pending THEN FailJob(w, "FileExistsError")
            ELSE /\ directory' = [directory EXCEPT !.checkpoints =
                              Put(@, s, [job |-> job, rows |-> CheckpointRows(job, s)])]
                 /\ advance

SymbolsDone(w) == worker[w].next > Len(Family)

\* report(): a finished directory is verified and returned; otherwise the draft
\* directory is created, which an interrupted report leaves behind.
OpenReport(w) ==
  /\ worker[w].pc = "symbols" /\ SymbolsDone(w)
  /\ IF directory.summary # <<>>
     THEN GoOn(w, "finished") /\ UNCHANGED directory
     ELSE IF directory.drafts THEN FailJob(w, "FileExistsError")
     ELSE directory' = [directory EXCEPT !.drafts = TRUE] /\ GoOn(w, "drafting")

\* The rows of every checkpoint, verified again, and the ledger of the imports,
\* loaded again; then the reports are published to the job directory.
DraftReports(w) ==
  LET job == worker[w].job
      gone == {p \in DOMAIN job : LoadFault(p, job[p], worker[w].at) # "none"}
  IN  /\ worker[w].pc = "drafting"
      /\ IF gone # {} THEN \E p \in gone : FailJob(w, LoadFault(p, job[p], worker[w].at))
         ELSE Publish(w, "reports", FALSE, [directory EXCEPT !.reports = TRUE], "summing")

PublishSummary(w) ==
  /\ worker[w].pc = "summing"
  /\ Publish(w, "run-summary", FALSE,
             [directory EXCEPT !.summary = [job |-> worker[w].job,
                                      statuses |-> Statuses(directory.checkpoints),
                                      qualified |-> Cardinality(Qualified(directory.checkpoints))]],
             "finished")

Finish(w) ==
  /\ worker[w].pc = "finished"
  /\ GoOn(w, "idle") /\ directory' = [directory EXCEPT !.lock = Unlocked]

StepJob(w) ==
  /\ \/ PublishPlan(w) \/ CheckSymbol(w) \/ OpenReport(w) \/ DraftReports(w)
     \/ PublishSummary(w) \/ Finish(w)
  /\ UNCHANGED <<now, store, attempts, deaths>>

\* The file the worker is writing when it is killed.
Target(w) ==
  CASE worker[w].pc = "plan" -> "job-plan"
    [] worker[w].pc = "symbols" /\ ~SymbolsDone(w) -> Family[worker[w].next]
    [] worker[w].pc = "drafting" -> "reports"
    [] OTHER -> "run-summary"

KillWorker(w) ==
  /\ worker[w].pc \notin {"idle", "dead"} /\ deaths < MaxDeaths
  /\ deaths' = deaths + 1
  /\ GoOn(w, "dead")
  /\ \E half \in {{}, {Target(w)}} : directory' = [directory EXCEPT !.pending = @ \cup half]
  /\ UNCHANGED <<now, store, attempts>>

\* The operator inspects what a killed worker left: its lock is removed, and so
\* are its half-written files and its draft directory.
Review(w) ==
  /\ worker[w].pc = "dead"
  /\ GoOn(w, "idle")
  /\ \E clean \in BOOLEAN :
       directory' = [directory EXCEPT !.lock = IF @ = w THEN Unlocked ELSE @,
                          !.pending = IF clean THEN {} ELSE @,
                          !.drafts = @ /\ ~clean]
  /\ UNCHANGED <<now, store, attempts, deaths>>

TimePasses ==
  /\ now < LastTime /\ now' = now + 1
  /\ UNCHANGED <<store, directory, worker, attempts, deaths>>

ResearchNext ==
  \/ \E r \in Requests : import_local(r) \/ Purge(r)
  \/ \E w \in Workers : StepJob(w) \/ KillWorker(w) \/ Review(w)
  \/ \E w \in Workers, j \in Selections : BeginJob(w, j)
  \/ TimePasses

ResearchSpec == ResearchInit /\ [][ResearchNext]_researchVars

----------------------------------------------------------------------------
ResearchTypeOK ==
  /\ now \in 0 .. LastTime /\ store \subseteq Requests /\ attempts \in 0 .. MaxAttempts
  /\ directory.lock \in Workers \cup {Unlocked}
  /\ DOMAIN directory.checkpoints \subseteq Range(Family)
  /\ \A s \in DOMAIN directory.checkpoints : DOMAIN directory.checkpoints[s].rows = Windows
  /\ \A w \in Workers : worker[w].next \in 1 .. Len(Family) + 1

\* Two workers started on one directory, with deaths and reviews between, never
\* write to it at the same time.
ExclusiveOwner ==
  \A w \in Workers : worker[w].pc \notin {"idle", "dead"} => directory.lock = w

\* Whatever jobs were started on the directory, every checkpoint in it is of the
\* job its plan names.
CheckpointsOfPlan ==
  \A s \in DOMAIN directory.checkpoints : directory.bound /\ directory.checkpoints[s].job = directory.plan

\* The rows of one directory never mix synthetic and genuine performance, even
\* when its checkpoints come from several attempts.
OneSourceClass ==
  ~\E s, t \in DOMAIN directory.checkpoints : \E v, w \in Windows :
     /\ directory.checkpoints[s].rows[v].status = "SYNTHETIC"
     /\ directory.checkpoints[t].rows[w].status = "LOCAL_VERIFIED"

\* A summary counts every symbol and window of the family once, from checkpoints
\* that exist.
SummaryCoversFamily ==
  directory.summary # <<>> =>
    /\ directory.summary.job = directory.plan
    /\ DOMAIN directory.checkpoints = Range(Family)
    /\ directory.summary.statuses = Statuses(directory.checkpoints)
    /\ LET n == directory.summary.statuses
       IN  n.UNAVAILABLE + n.QUARANTINED + n.SYNTHETIC + n.LOCAL_VERIFIED
             = Len(Family) * Cardinality(Windows)

\* A qualified pair rests on data that is authorised, fully evidenced, complete
\* and nowhere marked synthetic.
QualifiedIsGenuine ==
  \A p \in Qualified(directory.checkpoints) :
    LET r == directory.checkpoints[p[1]].job[p]
    IN  /\ r.class = "AUTHORIZED_LOCAL_EXPORT" /\ ~r.marked /\ r.complete
        /\ r.permitted /\ r.calendar /\ r.actions /\ r.mapping

\* One writer, one job and one source class per directory; its summary covers the family, and
\* what qualifies is genuine.
JobDirectorySound ==
  /\ ResearchTypeOK /\ ExclusiveOwner /\ CheckpointsOfPlan /\ OneSourceClass
  /\ SummaryCoversFamily /\ QualifiedIsGenuine

=============================================================================
