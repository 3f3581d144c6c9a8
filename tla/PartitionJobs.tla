--------------------------- MODULE PartitionJobs ---------------------------
(***************************************************************************)
(* phase1415/jobs.py and hardening.py: a job evaluates every (symbol,      *)
(* window, strategy) of its partition, one checkpoint file each, in a      *)
(* directory guarded by job.lock; export() draws the results one by one,   *)
(* writes them out and, when the partition is complete, writes the         *)
(* manifest.  run() is a generator: it goes on only when export() asks,    *)
(* and its lock is released when it is exhausted, raises or is closed.     *)
(*                                                                         *)
(* A key is <<symbol, window, strategy>>.  A job is                        *)
(*   [keys, expected, family]                                              *)
(* keys: what run() evaluates, in its order; expected: what export() was   *)
(* told to expect; family: the family binding, of one software version.    *)
(* A result carries its key, its family and the data it was computed from. *)
(***************************************************************************)
EXTENDS Naturals, Sequences, FiniteSets, SequencesExt

CONSTANTS
  Processes, Outputs,
  FullKeys,           \* every key of the family
  Jobs,
  Softwares,          \* versions of the source files a binding may name
  MaxChanges,         \* changes of the data or the software
  MaxKills, MaxStarts

VARIABLES
  dir,         \* job directory: [lock, config, done, pending]
  out,         \* output directory -> [exists, rows, manifest, job]; job: whose export opened it
  process,     \* process -> the export in progress
  data,        \* symbol -> version of its local data
  software,    \* version of the source files
  changes, kills, starts

partitionVars == <<dir, out, process, data, software, changes, kills, starts>>

Nobody == "nobody"
Orphan == "orphan"
Absent == [is |-> "absent"]
Torn == [is |-> "torn"]
Idle == [at |-> "idle"]
NoRows == [exists |-> FALSE, rows |-> <<>>, manifest |-> "none", job |-> Absent]

Symbols == {k[1] : k \in FullKeys}
AllKeys == FullKeys \cup UNION {ToSet(j.keys) \cup ToSet(j.expected) : j \in Jobs}
SamePair(k, l) == k[1] = l[1] /\ k[2] = l[2]

\* A job's keys are those of run()'s loops over symbols, windows and strategies, so the keys
\* of one symbol and window stand together.
ASSUME PartitionAssumption ==
  /\ {MaxChanges, MaxKills, MaxStarts} \subseteq Nat
  /\ {Nobody, Orphan} \cap Processes = {}
  /\ \A j \in Jobs :
       /\ j.family \in Softwares
       /\ j.keys \in Seq(AllKeys) /\ j.expected \in Seq(AllKeys)
       /\ \A a, b, c \in DOMAIN j.keys :
            a < b /\ b < c /\ SamePair(j.keys[a], j.keys[c]) => SamePair(j.keys[b], j.keys[c])

\* configuration.json: everything the job is made of, expected keys of export() apart.
Config(j) == [is |-> "config", keys |-> j.keys, family |-> j.family]

ResultOf(key, family, version) == [key |-> key, family |-> family, data |-> version]

\* partition_keys(): symbols, strategies and windows of the family, each once.
partition_keys(j) == j.keys # <<>> /\ IsInjective(j.keys) /\ ToSet(j.keys) \subseteq FullKeys

\* The inventory of source files, read again at every call.
dependencies == software

\* family_binding(): the universe, the registry, the windows and the policy are one value
\* here; what varies is the inventory.
family_binding == dependencies

\* verify_family() in run() and verify_identity() in export().
verify_family(f) == f = family_binding

verify_identity(f) == f = family_binding

\* The inventory export() accepts.
Inventory(j) == j.expected # <<>> /\ IsInjective(j.expected) /\ ToSet(j.expected) \subseteq FullKeys

At(p, place) == process[p].at = place
Goto(p, place) == process' = [process EXCEPT ![p].at = place]
Unlock == dir' = [dir EXCEPT !.lock = Nobody]
Fail(p) == process' = [process EXCEPT ![p] = Idle]

\* Mutant of Open: the files of an output that is there are opened again.
OpenAgain(p) ==
  /\ At(p, "idle") /\ starts < MaxStarts
  /\ starts' = starts + 1
  /\ \E j \in Jobs, o \in Outputs :
       /\ verify_identity(j.family) /\ Inventory(j)
       /\ out' = [out EXCEPT ![o] = [NoRows EXCEPT !.exists = TRUE, !.job = j]]
       /\ process' = [process EXCEPT ![p] = [at |-> "opened", job |-> j, out |-> o, next |-> 1,
                                             loaded |-> 0, result |-> Absent]]
  /\ UNCHANGED <<dir, data, software, changes, kills>>

(***************************************************************************)
(* export() opens its files before it asks for the first result.           *)
(***************************************************************************)
Open(p) ==
  /\ At(p, "idle") /\ starts < MaxStarts
  /\ starts' = starts + 1
  /\ \E j \in Jobs, o \in Outputs :
       /\ ~out[o].exists
       /\ verify_identity(j.family) /\ Inventory(j)
       /\ out' = [out EXCEPT ![o].exists = TRUE, ![o].job = j]
       /\ process' = [process EXCEPT ![p] = [at |-> "opened", job |-> j, out |-> o, next |-> 1,
                                             loaded |-> 0, result |-> Absent]]
  /\ UNCHANGED <<dir, data, software, changes, kills>>

\* The first next(): the family is verified again, then O_EXCL on job.lock.
Begin(p) ==
  LET j == process[p].job IN
  /\ At(p, "opened")
  /\ IF verify_family(j.family) /\ partition_keys(j) /\ dir.lock = Nobody
     THEN dir' = [dir EXCEPT !.lock = p] /\ Goto(p, "configuring")
     ELSE Fail(p) /\ UNCHANGED dir
  /\ UNCHANGED <<out, data, software, changes, kills, starts>>

Configure(p) ==
  LET c == Config(process[p].job) IN
  /\ At(p, "configuring")
  /\ IF dir.config \in {Absent, c}
     THEN dir' = [dir EXCEPT !.config = c] /\ Goto(p, "loading")
     ELSE Fail(p) /\ Unlock
  /\ UNCHANGED <<out, data, software, changes, kills, starts>>

\* Mutant of Load: the data is read again for every strategy.
LoadEach(p) ==
  LET x == process[p]
  IN  /\ At(p, "loading")
      /\ process' = [process EXCEPT ![p].at = "visiting", ![p].loaded = data[x.job.keys[x.next][1]]]
      /\ UNCHANGED <<dir, out, data, software, changes, kills, starts>>

\* The data is loaded once for a symbol and a window and serves all strategies.
Load(p) ==
  LET x == process[p]
      k == x.job.keys[x.next]
      again == x.next > 1 /\ SamePair(x.job.keys[x.next - 1], k)
  IN  /\ At(p, "loading")
      /\ process' = [process EXCEPT ![p].at = "visiting",
                                    ![p].loaded = IF again THEN @ ELSE data[k[1]]]
      /\ UNCHANGED <<dir, out, data, software, changes, kills, starts>>

\* Checkpoint files carry the digest of the configuration in their name: only those of
\* this configuration are found.
Found(c, k) == {d \in dir.done : d.config = c /\ d.key = k}

\* What an existing checkpoint must agree with: the input now loaded, and the identity.
Reusable(d, x) ==
  /\ d.input = x.loaded
  /\ d.result = ResultOf(x.job.keys[x.next], x.job.family, x.loaded)

\* One turn of the innermost loop: the checkpoint is read, or computed and written to a
\* pending file opened exclusively.
Visit(p) ==
  LET x == process[p]
      k == x.job.keys[x.next]
      c == Config(x.job)
      found == Found(c, k)
      name == [config |-> c, key |-> k]
  IN  /\ At(p, "visiting")
      /\ \/ /\ found # {} /\ \A d \in found : Reusable(d, x)
            /\ process' = [process EXCEPT ![p].at = "yielded",
                                          ![p].result = (CHOOSE d \in found : TRUE).result]
            /\ UNCHANGED dir
         \/ /\ found # {} /\ \E d \in found : ~Reusable(d, x)
            /\ Fail(p) /\ Unlock
         \/ /\ found = {} /\ name \in dir.pending
            /\ Fail(p) /\ Unlock
         \/ /\ found = {} /\ name \notin dir.pending
            /\ dir' = [dir EXCEPT !.pending = @ \cup {name}]
            /\ Goto(p, "replacing")
      /\ UNCHANGED <<out, data, software, changes, kills, starts>>

Replace(p) ==
  LET x == process[p]
      k == x.job.keys[x.next]
      c == Config(x.job)
      r == ResultOf(k, x.job.family, x.loaded)
  IN  /\ At(p, "replacing")
      /\ dir' = [dir EXCEPT !.pending = @ \ {[config |-> c, key |-> k]},
                            !.done = @ \cup {[config |-> c, key |-> k, input |-> x.loaded, result |-> r]}]
      /\ process' = [process EXCEPT ![p].at = "yielded", ![p].result = r]
      /\ UNCHANGED <<out, data, software, changes, kills, starts>>

\* export() takes the result; when it refuses it the generator is closed and the lock goes.
Take(p) ==
  LET x == process[p]
      seen == {out[x.out].rows[i].key : i \in DOMAIN out[x.out].rows}
  IN  /\ At(p, "yielded")
      /\ IF /\ x.result.key \in ToSet(x.job.expected) \ seen
            /\ x.result.family = x.job.family
         THEN /\ out' = [out EXCEPT ![x.out].rows = Append(@, x.result)]
              /\ process' = [process EXCEPT ![p].next = @ + 1,
                               ![p].at = IF x.next = Len(x.job.keys) THEN "exhausted" ELSE "loading"]
              /\ UNCHANGED dir
         ELSE Fail(p) /\ Unlock /\ UNCHANGED out
      /\ UNCHANGED <<data, software, changes, kills, starts>>

\* The generator ends: finally unlinks the lock, whatever file is there.
Exhaust(p) ==
  /\ At(p, "exhausted")
  /\ Unlock
  /\ Goto(p, "closing")
  /\ UNCHANGED <<out, data, software, changes, kills, starts>>

Complete(p) ==
  LET x == process[p]
      seen == {out[x.out].rows[i].key : i \in DOMAIN out[x.out].rows}
  IN  /\ At(p, "closing")
      /\ out' = IF seen = ToSet(x.job.expected)
                THEN [out EXCEPT ![x.out].manifest = IF seen = FullKeys THEN "FULL_FAMILY" ELSE "PARTITION"]
                ELSE out
      /\ Fail(p)
      /\ UNCHANGED <<dir, data, software, changes, kills, starts>>

(***************************************************************************)
(* The surroundings: kills, changed files, and an operator who removes a   *)
(* stale lock and unfinished files.                                        *)
(***************************************************************************)
Kill(p) ==
  /\ ~At(p, "idle") /\ kills < MaxKills
  /\ kills' = kills + 1
  /\ Fail(p)
  /\ LET held == [dir EXCEPT !.lock = IF @ = p THEN Orphan ELSE @]
     IN  dir' \in {held} \cup (IF At(p, "configuring") /\ dir.config = Absent
                               THEN {[held EXCEPT !.config = Torn]} ELSE {})
  /\ UNCHANGED <<out, data, software, changes, starts>>

Clean ==
  /\ dir.lock = Orphan
  /\ \E keep \in BOOLEAN :
       dir' = [dir EXCEPT !.lock = Nobody, !.pending = IF keep THEN @ ELSE {},
                          !.config = IF @ = Torn /\ ~keep THEN Absent ELSE @]
  /\ UNCHANGED <<out, process, data, software, changes, kills, starts>>

ChangeData ==
  /\ changes < MaxChanges
  /\ changes' = changes + 1
  /\ \E s \in Symbols : data' = [data EXCEPT ![s] = @ + 1]
  /\ UNCHANGED <<dir, out, process, software, kills, starts>>

ChangeSoftware ==
  /\ changes < MaxChanges
  /\ changes' = changes + 1
  /\ software' \in Softwares \ {software}
  /\ UNCHANGED <<dir, out, process, data, kills, starts>>

PartitionInit ==
  /\ dir = [lock |-> Nobody, config |-> Absent, done |-> {}, pending |-> {}]
  /\ out = [o \in Outputs |-> NoRows]
  /\ process = [p \in Processes |-> Idle]
  /\ data = [s \in Symbols |-> 1]
  /\ software \in Softwares
  /\ changes = 0 /\ kills = 0 /\ starts = 0

Step(p) ==
  \/ Begin(p) \/ Configure(p) \/ Load(p) \/ Visit(p) \/ Replace(p) \/ Take(p)
  \/ Exhaust(p) \/ Complete(p)

PartitionNext ==
  \/ \E p \in Processes : Open(p) \/ Step(p) \/ Kill(p)
  \/ Clean \/ ChangeData \/ ChangeSoftware

PartitionSpec == PartitionInit /\ [][PartitionNext]_partitionVars

-----------------------------------------------------------------------------
Places == {"idle", "opened", "configuring", "loading", "visiting", "replacing", "yielded",
           "exhausted", "closing"}

\* Types; the lock names the only process inside run(), so a checkpoint has one content.
PartitionTypeOK ==
  /\ dir.lock \in Processes \cup {Nobody, Orphan}
  /\ dir.config.is \in {"absent", "torn", "config"}
  /\ \A p \in Processes :
       /\ process[p].at \in Places
       /\ process[p].at \notin {"idle", "opened", "closing"} => dir.lock = p
  /\ \A d, e \in dir.done : d.config = e.config /\ d.key = e.key => d = e

\* A manifest stands for a complete partition: every key of it exactly once, all of one
\* family, and FULL_FAMILY only for the whole family - across interrupted, resumed and
\* competing jobs.
ManifestComplete ==
  \A o \in Outputs : out[o].manifest # "none" =>
    LET rows == out[o].rows
        keys == {rows[i].key : i \in DOMAIN rows}
    IN  /\ keys = ToSet(out[o].job.expected)
        /\ \A i \in DOMAIN rows : rows[i].family = out[o].job.family
        /\ Cardinality(keys) = Len(rows)
        /\ out[o].manifest = "FULL_FAMILY" => keys = FullKeys

\* All results of one symbol and window in an output come from one version of the data,
\* although some were computed in earlier attempts: a checkpoint of other data is refused,
\* never mixed in.
OneDataPerPair ==
  \A o \in Outputs : \A i, j \in DOMAIN out[o].rows :
    SamePair(out[o].rows[i].key, out[o].rows[j].key) => out[o].rows[i].data = out[o].rows[j].data

\* What is exported is what the checkpoint of that key holds, so two exports of one job
\* directory agree wherever both have a row.
ExportsAgree ==
  \A o, q \in Outputs : \A i \in DOMAIN out[o].rows, j \in DOMAIN out[q].rows :
    out[o].rows[i].key = out[q].rows[j].key /\ out[o].rows[i].family = out[q].rows[j].family
      => out[o].rows[i].data = out[q].rows[j].data

\* A manifest, and every row behind it, can be relied on.
ExportsSound == PartitionTypeOK /\ ManifestComplete /\ OneDataPerPair /\ ExportsAgree

\* A finished output is never written again, neither by its own export nor by a later one.
FinishedIsFinal ==
  [][\A o \in Outputs : out[o].manifest # "none" => out'[o] = out[o]]_partitionVars

=============================================================================
