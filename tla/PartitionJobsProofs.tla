------------------------- MODULE PartitionJobsProofs -------------------------
(***************************************************************************)
(* Proofs about the jobs that own a directory, for any number of           *)
(* processes, outputs, families and jobs, and any bounds: partition jobs   *)
(* with their exports, and research jobs; and about the protocol of the    *)
(* experiments, for any specifications.                                    *)
(***************************************************************************)
EXTENDS PartitionJobs, ResearchJobs, ResearchExperiments, FiniteSetTheorems, TLAPS

Configs == {Config(j) : j \in Jobs}
Results == [key : AllKeys, family : Softwares, data : Nat]
Checkpoints == [config : Configs, key : AllKeys, input : Nat, result : Results]
Exporting == [at : Places \ {"idle"}, job : Jobs, out : Outputs, next : Nat, loaded : Nat,
              result : Results \cup {Absent}]

TypeInv ==
  /\ dir \in [lock : Processes \cup {Nobody, Orphan}, config : {Absent, Torn} \cup Configs,
              done : SUBSET Checkpoints, pending : SUBSET [config : Configs, key : AllKeys]]
  /\ out \in [Outputs -> [exists : BOOLEAN, rows : Seq(Results),
                          manifest : {"none", "FULL_FAMILY", "PARTITION"}, job : Jobs \cup {Absent}]]
  /\ process \in [Processes -> {Idle} \cup Exporting]
  /\ data \in [Symbols -> Nat]

Looping == {"loading", "visiting", "replacing", "yielded"}
Running == {"configuring", "exhausted"} \cup Looping

\* Whoever is inside run() holds the lock of the directory.
LockInv == \A p \in Processes : process[p].at \in Running => dir.lock = p

\* What run() checked of its job, and where it is in it.
JobInv ==
  \A p \in Processes :
    /\ process[p].at \in Running \cup {"closing"} => partition_keys(process[p].job)
    /\ process[p].at \in {"opened", "configuring"} => process[p].next = 1
    /\ process[p].at \in Looping => process[p].next \in 1..Len(process[p].job.keys)

\* The directory belongs to the configuration of the job that runs in it.
ConfigInv ==
  \A p \in Processes :
    process[p].at \in Looping \cup {"exhausted"} => dir.config = Config(process[p].job)

\* A checkpoint is of the directory's configuration, and the only one of its key.
DoneInv ==
  /\ \A d \in dir.done : d.config = dir.config /\ d.result.key = d.key
  /\ \A d, e \in dir.done : d.key = e.key => d = e

\* A pending checkpoint is of a key that has none.
FreshInv ==
  \A p \in Processes : process[p].at = "replacing" =>
    \A d \in dir.done : d.key # process[p].job.keys[process[p].next]

\* A yielded result is a checkpoint's, of the key and the data at hand.
YieldInv ==
  \A p \in Processes : process[p].at = "yielded" =>
    /\ process[p].result = ResultOf(process[p].job.keys[process[p].next], process[p].job.family,
                                    process[p].loaded)
    /\ \E d \in dir.done : d.result = process[p].result

\* An unfinished output belongs to one export; an output nobody opened is empty.
OwnInv ==
  /\ \A o \in Outputs : ~out[o].exists => out[o].rows = <<>> /\ out[o].manifest = "none"
  /\ \A p \in Processes : process[p].at # "idle" =>
       /\ out[process[p].out].exists /\ out[process[p].out].job = process[p].job
       /\ out[process[p].out].manifest = "none"
  /\ \A p, q \in Processes :
       process[p].at # "idle" /\ process[q].at # "idle" /\ process[p].out = process[q].out => p = q

\* An export has a row for every key run() has passed, in that order.
RowsOf(n, keys, rows) ==
  n = Len(rows) + 1 /\ \A i \in 1..Len(rows) : rows[i].key = keys[i]

RowsInv ==
  \A p \in Processes : process[p].at # "idle" =>
    RowsOf(process[p].next, process[p].job.keys, out[process[p].out].rows)

\* The data at hand is that of the last row, as long as the symbol and window are the same.
LoadedOf(at, n, keys, loaded, rows) ==
  n > 1 /\ (at = "loading" \/ SamePair(keys[n - 1], keys[n])) => rows[n - 1].data = loaded

LoadedInv ==
  \A p \in Processes : process[p].at \in Looping =>
    LoadedOf(process[p].at, process[p].next, process[p].job.keys, process[p].loaded,
             out[process[p].out].rows)

\* Every row is a checkpoint's result.
SourceInv ==
  \A o \in Outputs : \A i \in 1..Len(out[o].rows) : \E d \in dir.done : d.result = out[o].rows[i]

\* No output has two rows of one key, or a row of another family.
DistinctInv ==
  \A o \in Outputs :
    /\ \A i, j \in 1..Len(out[o].rows) : i # j => out[o].rows[i].key # out[o].rows[j].key
    /\ \A i \in 1..Len(out[o].rows) : out[o].rows[i].family = out[o].job.family

\* A manifest is written when the keys are those expected.
FinishedInv ==
  \A o \in Outputs : out[o].manifest # "none" =>
    LET keys == {out[o].rows[i].key : i \in DOMAIN out[o].rows}
    IN  keys = ToSet(out[o].job.expected) /\ (out[o].manifest = "FULL_FAMILY" => keys = FullKeys)

IInv ==
  /\ TypeInv /\ LockInv /\ JobInv /\ ConfigInv /\ DoneInv /\ FreshInv /\ YieldInv
  /\ OwnInv /\ RowsInv /\ LoadedInv /\ SourceInv /\ DistinctInv /\ FinishedInv /\ OneDataPerPair

LEMMA Fields ==
  ASSUME TypeInv, NEW p \in Processes
  PROVE  /\ process[p].at \in Places
         /\ process[p].at # "idle" =>
              /\ process[p] \in Exporting /\ process[p].job \in Jobs /\ process[p].out \in Outputs
              /\ process[p].next \in Nat /\ process[p].loaded \in Nat
BY DEF TypeInv, Idle, Exporting, Places

LEMMA JobFields ==
  ASSUME NEW j \in Jobs
  PROVE  /\ j.family \in Softwares /\ j.keys \in Seq(AllKeys) /\ j.expected \in Seq(AllKeys)
         /\ Config(j) \in Configs /\ Config(j) \notin {Absent, Torn}
BY PartitionAssumption DEF Configs, Config, Absent, Torn

\* more is rows and one result r behind them.
Grown(rows, more, r) ==
  /\ Len(rows) \in Nat /\ Len(more) = Len(rows) + 1
  /\ DOMAIN rows = 1..Len(rows) /\ DOMAIN more = 1..Len(more)
  /\ more[Len(rows) + 1] = r /\ \A i \in 1..Len(rows) : more[i] = rows[i]
  /\ \A i \in 1..Len(more) : i \in 1..Len(rows) \/ i = Len(rows) + 1

LEMMA AppendGrows ==
  ASSUME NEW S, NEW rows \in Seq(S), NEW r \in S
  PROVE  Append(rows, r) \in Seq(S) /\ Grown(rows, Append(rows, r), r)
BY DEF Grown

\* Nobody and Orphan are no processes, so a lock names the one process inside run().
LEMMA Alone ==
  ASSUME LockInv, NEW p \in Processes, NEW q \in Processes,
         process[p].at \in Running, process[q].at \in Running
  PROVE  p = q
BY DEF LockInv

-----------------------------------------------------------------------------
(* What each step does to the directory, the outputs and the exports.        *)

Others(p) == \A q \in Processes : q # p => process'[q] = process[q]

\* Export p goes on at another place of its code.
Moves(p, place) ==
  /\ Others(p) /\ process'[p].at = place
  /\ process'[p].job = process[p].job /\ process'[p].out = process[p].out

\* Export p ends; whatever it held of run() it gives back.
Ends(p) ==
  /\ Others(p) /\ process'[p].at = "idle"
  /\ dir'.config = dir.config /\ dir'.done = dir.done

Keeps(p) ==
  /\ process'[p].next = process[p].next /\ process'[p].loaded = process[p].loaded
  /\ process'[p].result = process[p].result

SameFiles == dir'.config = dir.config /\ dir'.done = dir.done

LEMMA UpdateAt ==
  ASSUME TypeInv, NEW p \in Processes, process[p].at # "idle", NEW place,
         process' = [process EXCEPT ![p].at = place]
  PROVE  Moves(p, place) /\ Keeps(p)
<1>1. process[p] \in Exporting
  BY Fields
<1>2. process'[p] = [process[p] EXCEPT !.at = place]
  BY DEF TypeInv
<1>3. Others(p)
  BY DEF TypeInv, Others
<1> QED BY <1>1, <1>2, <1>3 DEF Moves, Keeps, Exporting

LEMMA FailEffect ==
  ASSUME TypeInv, NEW p \in Processes, Fail(p)
  PROVE  Others(p) /\ process'[p].at = "idle"
BY DEF Fail, TypeInv, Others, Idle

LEMMA UnlockEffect ==
  ASSUME TypeInv, Unlock
  PROVE  dir'.lock = Nobody /\ SameFiles /\ dir'.pending = dir.pending
BY DEF Unlock, TypeInv, SameFiles

LEMMA OpenEffect ==
  ASSUME TypeInv, NEW p \in Processes, Open(p)
  PROVE  /\ process[p].at = "idle" /\ Others(p) /\ dir' = dir
         /\ \E j \in Jobs, o \in Outputs :
              /\ ~out[o].exists
              /\ process'[p].at = "opened" /\ process'[p].job = j /\ process'[p].out = o
              /\ process'[p].next = 1
              /\ \A q \in Outputs : q # o => out'[q] = out[q]
              /\ out'[o].exists /\ out'[o].job = j
              /\ out'[o].rows = out[o].rows /\ out'[o].manifest = out[o].manifest
<1>1. PICK j \in Jobs, o \in Outputs :
        /\ ~out[o].exists
        /\ out' = [out EXCEPT ![o].exists = TRUE, ![o].job = j]
        /\ process' = [process EXCEPT ![p] = [at |-> "opened", job |-> j, out |-> o, next |-> 1,
                                              loaded |-> 0, result |-> Absent]]
  BY DEF Open
<1>2. process[p].at = "idle" /\ dir' = dir
  BY DEF Open, At
<1>3. Others(p) /\ process'[p] = [at |-> "opened", job |-> j, out |-> o, next |-> 1, loaded |-> 0,
                                  result |-> Absent]
  BY <1>1 DEF TypeInv, Others
<1>4. \A q \in Outputs : q # o => out'[q] = out[q]
  BY <1>1 DEF TypeInv
<1>5. out'[o] = [out[o] EXCEPT !.exists = TRUE, !.job = j]
  BY <1>1 DEF TypeInv
<1>6. out[o] \in [exists : BOOLEAN, rows : Seq(Results),
                  manifest : {"none", "FULL_FAMILY", "PARTITION"}, job : Jobs \cup {Absent}]
  BY DEF TypeInv
<1>7. out'[o].exists /\ out'[o].job = j /\ out'[o].rows = out[o].rows
      /\ out'[o].manifest = out[o].manifest
  BY <1>5, <1>6
<1>8. process'[p].at = "opened" /\ process'[p].job = j /\ process'[p].out = o
      /\ process'[p].next = 1
  BY <1>3
<1> QED BY <1>1, <1>2, <1>3, <1>4, <1>7, <1>8

LEMMA BeginEffect ==
  ASSUME TypeInv, NEW p \in Processes, Begin(p)
  PROVE  /\ process[p].at = "opened" /\ SameFiles /\ out' = out
         /\ \/ /\ partition_keys(process[p].job) /\ dir.lock = Nobody /\ dir'.lock = p
               /\ Moves(p, "configuring") /\ Keeps(p)
            \/ Ends(p) /\ dir' = dir
<1>1. process[p].at = "opened" /\ out' = out
  BY DEF Begin, At
<1>2. CASE verify_family(process[p].job.family) /\ partition_keys(process[p].job) /\ dir.lock = Nobody
  <2>1. dir' = [dir EXCEPT !.lock = p] /\ process' = [process EXCEPT ![p].at = "configuring"]
    BY <1>2 DEF Begin, Goto
  <2>2. dir'.lock = p /\ SameFiles
    BY <2>1 DEF TypeInv, SameFiles
  <2> QED BY <1>1, <1>2, <2>1, <2>2, UpdateAt
<1>3. CASE ~(verify_family(process[p].job.family) /\ partition_keys(process[p].job) /\ dir.lock = Nobody)
  <2>1. Fail(p) /\ dir' = dir
    BY <1>3 DEF Begin
  <2> QED BY <1>1, <2>1, FailEffect DEF Ends, SameFiles
<1> QED BY <1>2, <1>3

LEMMA ConfigureEffect ==
  ASSUME TypeInv, NEW p \in Processes, Configure(p)
  PROVE  /\ process[p].at = "configuring" /\ dir'.done = dir.done /\ out' = out
         /\ \/ /\ dir.config \in {Absent, Config(process[p].job)}
               /\ dir'.config = Config(process[p].job) /\ dir'.lock = dir.lock
               /\ Moves(p, "loading") /\ Keeps(p)
            \/ Ends(p) /\ dir'.lock = Nobody
<1>1. process[p].at = "configuring" /\ out' = out
  BY DEF Configure, At
<1>2. CASE dir.config \in {Absent, Config(process[p].job)}
  <2>1. dir' = [dir EXCEPT !.config = Config(process[p].job)]
        /\ process' = [process EXCEPT ![p].at = "loading"]
    BY <1>2 DEF Configure, Goto
  <2>2. dir'.config = Config(process[p].job) /\ dir'.done = dir.done /\ dir'.lock = dir.lock
    BY <2>1 DEF TypeInv
  <2> QED BY <1>1, <1>2, <2>1, <2>2, UpdateAt
<1>3. CASE dir.config \notin {Absent, Config(process[p].job)}
  <2>1. Fail(p) /\ Unlock
    BY <1>3 DEF Configure
  <2> QED BY <1>1, <2>1, FailEffect, UnlockEffect DEF Ends, SameFiles
<1> QED BY <1>2, <1>3

LEMMA LoadEffect ==
  ASSUME TypeInv, NEW p \in Processes, Load(p)
  PROVE  /\ process[p].at = "loading" /\ dir' = dir /\ out' = out
         /\ Moves(p, "visiting") /\ process'[p].next = process[p].next
         /\ process'[p].result = process[p].result
         /\ LET x == process[p]
                k == x.job.keys[x.next]
            IN  process'[p].loaded = IF x.next > 1 /\ SamePair(x.job.keys[x.next - 1], k)
                                     THEN x.loaded ELSE data[k[1]]
<1> DEFINE x == process[p]
           k == x.job.keys[x.next]
           new == IF x.next > 1 /\ SamePair(x.job.keys[x.next - 1], k) THEN x.loaded ELSE data[k[1]]
<1>1. process[p].at = "loading" /\ dir' = dir /\ out' = out
      /\ process' = [process EXCEPT ![p].at = "visiting", ![p].loaded = new]
  BY DEF Load, At
<1>2. process[p] \in Exporting
  BY <1>1, Fields
<1> HIDE DEF new
<1>3. process'[p] = [process[p] EXCEPT !.at = "visiting", !.loaded = new] /\ Others(p)
  BY <1>1 DEF TypeInv, Others
<1>4. /\ process'[p].at = "visiting" /\ process'[p].job = process[p].job
      /\ process'[p].out = process[p].out /\ process'[p].next = process[p].next
      /\ process'[p].result = process[p].result /\ process'[p].loaded = new
  BY <1>2, <1>3 DEF Exporting
<1> QED BY <1>1, <1>3, <1>4 DEF Moves, new

LEMMA VisitEffect ==
  ASSUME TypeInv, NEW p \in Processes, Visit(p)
  PROVE  LET x == process[p]
             k == x.job.keys[x.next]
             found == Found(Config(x.job), k)
         IN  /\ x.at = "visiting" /\ SameFiles /\ out' = out
             /\ \/ /\ Moves(p, "yielded") /\ dir' = dir
                   /\ process'[p].next = x.next /\ process'[p].loaded = x.loaded
                   /\ \E d \in found : Reusable(d, x) /\ process'[p].result = d.result
                \/ Ends(p) /\ dir'.lock = Nobody
                \/ /\ found = {} /\ dir'.lock = dir.lock
                   /\ Moves(p, "replacing") /\ Keeps(p)
<1> DEFINE x == process[p]
           k == x.job.keys[x.next]
           c == Config(x.job)
           found == Found(c, k)
           name == [config |-> c, key |-> k]
<1>1. x.at = "visiting" /\ out' = out /\ x \in Exporting
  BY Fields DEF Visit, At
<1> HIDE DEF found, name
<1>2. CASE /\ found # {} /\ \A d \in found : Reusable(d, x)
           /\ process' = [process EXCEPT ![p].at = "yielded",
                                         ![p].result = (CHOOSE d \in found : TRUE).result]
           /\ UNCHANGED dir
  <2> DEFINE new == CHOOSE d \in found : TRUE
  <2>1. new \in found
    BY <1>2
  <2> HIDE DEF new
  <2>2. process'[p] = [x EXCEPT !.at = "yielded", !.result = new.result] /\ Others(p)
    BY <1>2 DEF TypeInv, Others, new
  <2>3. /\ process'[p].at = "yielded" /\ process'[p].job = x.job /\ process'[p].out = x.out
        /\ process'[p].next = x.next /\ process'[p].loaded = x.loaded
        /\ process'[p].result = new.result
    BY <1>1, <2>2 DEF Exporting
  <2> QED BY <1>1, <1>2, <2>1, <2>2, <2>3 DEF Moves, SameFiles, found
<1>3. CASE Fail(p) /\ Unlock
  BY <1>1, <1>3, FailEffect, UnlockEffect DEF Ends, SameFiles
<1>4. CASE /\ found = {}
           /\ dir' = [dir EXCEPT !.pending = @ \cup {name}]
           /\ Goto(p, "replacing")
  <2>1. dir'.lock = dir.lock /\ SameFiles
    BY <1>4 DEF TypeInv, SameFiles
  <2> QED BY <1>1, <1>4, <2>1, UpdateAt DEF Goto, found
<1>5. \/ /\ found # {} /\ \A d \in found : Reusable(d, x)
         /\ process' = [process EXCEPT ![p].at = "yielded",
                                       ![p].result = (CHOOSE d \in found : TRUE).result]
         /\ UNCHANGED dir
      \/ Fail(p) /\ Unlock
      \/ /\ found = {}
         /\ dir' = [dir EXCEPT !.pending = @ \cup {name}]
         /\ Goto(p, "replacing")
  BY DEF Visit, found, name
<1> QED BY <1>2, <1>3, <1>4, <1>5

LEMMA ReplaceEffect ==
  ASSUME TypeInv, NEW p \in Processes, Replace(p)
  PROVE  LET x == process[p]
             k == x.job.keys[x.next]
             r == ResultOf(k, x.job.family, x.loaded)
         IN  /\ x.at = "replacing" /\ out' = out
             /\ dir'.lock = dir.lock /\ dir'.config = dir.config
             /\ dir'.done = dir.done \cup {[config |-> Config(x.job), key |-> k, input |-> x.loaded,
                                            result |-> r]}
             /\ Moves(p, "yielded") /\ process'[p].next = x.next /\ process'[p].loaded = x.loaded
             /\ process'[p].result = r
<1> DEFINE x == process[p]
           k == x.job.keys[x.next]
           r == ResultOf(k, x.job.family, x.loaded)
           made == [config |-> Config(x.job), key |-> k, input |-> x.loaded, result |-> r]
           name == [config |-> Config(x.job), key |-> k]
<1>1. x.at = "replacing" /\ out' = out /\ x \in Exporting
  BY Fields DEF Replace, At
<1>2. /\ dir' = [dir EXCEPT !.pending = @ \ {name}, !.done = @ \cup {made}]
      /\ process' = [process EXCEPT ![p].at = "yielded", ![p].result = r]
  BY DEF Replace
<1> HIDE DEF r, made, name
<1>3. dir'.lock = dir.lock /\ dir'.config = dir.config /\ dir'.done = dir.done \cup {made}
  BY <1>2 DEF TypeInv
<1>4. process'[p] = [x EXCEPT !.at = "yielded", !.result = r] /\ Others(p)
  BY <1>2 DEF TypeInv, Others
<1>5. /\ process'[p].at = "yielded" /\ process'[p].job = x.job /\ process'[p].out = x.out
      /\ process'[p].next = x.next /\ process'[p].loaded = x.loaded /\ process'[p].result = r
  BY <1>1, <1>4 DEF Exporting
<1> QED BY <1>1, <1>3, <1>4, <1>5 DEF Moves, made, r

LEMMA TakeEffect ==
  ASSUME TypeInv, NEW p \in Processes, Take(p)
  PROVE  LET x == process[p]
             rows == out[x.out].rows
         IN  /\ x.at = "yielded" /\ SameFiles
             /\ \/ /\ x.result.key \notin {rows[i].key : i \in DOMAIN rows}
                   /\ x.result.family = x.job.family /\ dir' = dir
                   /\ \A q \in Outputs : q # x.out => out'[q] = out[q]
                   /\ out'[x.out].exists = out[x.out].exists /\ out'[x.out].job = out[x.out].job
                   /\ out'[x.out].manifest = out[x.out].manifest
                   /\ out'[x.out].rows = Append(rows, x.result)
                   /\ Moves(p, IF x.next = Len(x.job.keys) THEN "exhausted" ELSE "loading")
                   /\ process'[p].next = x.next + 1 /\ process'[p].loaded = x.loaded
                \/ Ends(p) /\ dir'.lock = Nobody /\ out' = out
<1> DEFINE x == process[p]
           rows == out[x.out].rows
           seen == {rows[i].key : i \in DOMAIN rows}
           place == IF x.next = Len(x.job.keys) THEN "exhausted" ELSE "loading"
<1>1. x.at = "yielded" /\ x \in Exporting /\ x.out \in Outputs
  BY Fields DEF Take, At
<1>2. CASE x.result.key \in ToSet(x.job.expected) \ seen /\ x.result.family = x.job.family
  <2>1. /\ out' = [out EXCEPT ![x.out].rows = Append(@, x.result)]
        /\ process' = [process EXCEPT ![p].next = @ + 1, ![p].at = place]
        /\ dir' = dir
    BY <1>2 DEF Take
  <2> HIDE DEF place
  <2>2. process'[p] = [x EXCEPT !.next = x.next + 1, !.at = place] /\ Others(p)
    BY <2>1 DEF TypeInv, Others
  <2>3. /\ process'[p].at = place /\ process'[p].job = x.job /\ process'[p].out = x.out
        /\ process'[p].next = x.next + 1 /\ process'[p].loaded = x.loaded
    BY <1>1, <2>2 DEF Exporting
  <2>4. \A q \in Outputs : q # x.out => out'[q] = out[q]
    BY <2>1 DEF TypeInv
  <2>5. out'[x.out] = [out[x.out] EXCEPT !.rows = Append(rows, x.result)]
    BY <1>1, <2>1 DEF TypeInv
  <2>6. out[x.out] \in [exists : BOOLEAN, rows : Seq(Results),
                        manifest : {"none", "FULL_FAMILY", "PARTITION"}, job : Jobs \cup {Absent}]
    BY <1>1 DEF TypeInv
  <2>7. /\ out'[x.out].exists = out[x.out].exists /\ out'[x.out].job = out[x.out].job
        /\ out'[x.out].manifest = out[x.out].manifest
        /\ out'[x.out].rows = Append(rows, x.result)
    BY <2>5, <2>6
  <2> QED BY <1>1, <1>2, <2>1, <2>2, <2>3, <2>4, <2>7 DEF Moves, SameFiles, place
<1>3. CASE ~(x.result.key \in ToSet(x.job.expected) \ seen /\ x.result.family = x.job.family)
  <2>1. Fail(p) /\ Unlock /\ out' = out
    BY <1>3 DEF Take
  <2> QED BY <1>1, <2>1, FailEffect, UnlockEffect DEF Ends, SameFiles
<1> QED BY <1>2, <1>3

LEMMA ExhaustEffect ==
  ASSUME TypeInv, NEW p \in Processes, Exhaust(p)
  PROVE  /\ process[p].at = "exhausted" /\ SameFiles /\ dir'.lock = Nobody /\ out' = out
         /\ Moves(p, "closing") /\ Keeps(p)
<1>1. process[p].at = "exhausted" /\ Unlock /\ out' = out
      /\ process' = [process EXCEPT ![p].at = "closing"]
  BY DEF Exhaust, At, Goto
<1> QED BY <1>1, UpdateAt, UnlockEffect

LEMMA CompleteEffect ==
  ASSUME TypeInv, NEW p \in Processes, Complete(p)
  PROVE  LET x == process[p]
             rows == out[x.out].rows
             seen == {rows[i].key : i \in DOMAIN rows}
         IN  /\ x.at = "closing" /\ Ends(p) /\ dir' = dir /\ x.out \in Outputs
             /\ \A q \in Outputs : q # x.out => out'[q] = out[q]
             /\ out'[x.out].exists = out[x.out].exists /\ out'[x.out].job = out[x.out].job
             /\ out'[x.out].rows = rows
             /\ out'[x.out].manifest # out[x.out].manifest =>
                  /\ seen = ToSet(x.job.expected)
                  /\ out'[x.out].manifest = IF seen = FullKeys THEN "FULL_FAMILY" ELSE "PARTITION"
<1> DEFINE x == process[p]
           rows == out[x.out].rows
           seen == {rows[i].key : i \in DOMAIN rows}
           new == IF seen = FullKeys THEN "FULL_FAMILY" ELSE "PARTITION"
<1>1. x.at = "closing" /\ x.out \in Outputs /\ dir' = dir /\ Fail(p)
  BY Fields DEF Complete, At
<1>2. Ends(p)
  BY <1>1, FailEffect DEF Ends
<1>3. out' = IF seen = ToSet(x.job.expected) THEN [out EXCEPT ![x.out].manifest = new] ELSE out
  BY DEF Complete
<1>4. out[x.out] \in [exists : BOOLEAN, rows : Seq(Results),
                      manifest : {"none", "FULL_FAMILY", "PARTITION"}, job : Jobs \cup {Absent}]
  BY <1>1 DEF TypeInv
<1> HIDE DEF new, seen
<1>5. CASE seen = ToSet(x.job.expected)
  <2>1. out'[x.out] = [out[x.out] EXCEPT !.manifest = new]
        /\ \A q \in Outputs : q # x.out => out'[q] = out[q]
    BY <1>1, <1>3, <1>5 DEF TypeInv
  <2>2. out'[x.out].exists = out[x.out].exists /\ out'[x.out].job = out[x.out].job
        /\ out'[x.out].rows = rows /\ out'[x.out].manifest = new
    BY <1>4, <2>1
  <2> QED BY <1>1, <1>2, <1>5, <2>1, <2>2 DEF new, seen
<1>6. CASE seen # ToSet(x.job.expected)
  <2>1. out' = out
    BY <1>3, <1>6
  <2> QED BY <1>1, <1>2, <2>1
<1> QED BY <1>5, <1>6

LEMMA KillEffect ==
  ASSUME TypeInv, NEW p \in Processes, Kill(p)
  PROVE  /\ process[p].at # "idle" /\ Others(p) /\ process'[p].at = "idle" /\ out' = out
         /\ dir'.done = dir.done /\ (dir.lock # p => dir'.lock = dir.lock)
         /\ dir'.config = dir.config \/ (dir.config = Absent /\ process[p].at = "configuring")
         /\ dir' \in [lock : Processes \cup {Nobody, Orphan}, config : {Absent, Torn} \cup Configs,
                      done : SUBSET Checkpoints, pending : SUBSET [config : Configs, key : AllKeys]]
<1>1. process[p].at # "idle" /\ Fail(p) /\ out' = out
  BY DEF Kill, At
<1>2. Others(p) /\ process'[p].at = "idle"
  BY <1>1, FailEffect
<1> DEFINE held == [dir EXCEPT !.lock = IF @ = p THEN Orphan ELSE @]
<1>3. /\ held \in [lock : Processes \cup {Nobody, Orphan}, config : {Absent, Torn} \cup Configs,
                   done : SUBSET Checkpoints, pending : SUBSET [config : Configs, key : AllKeys]]
      /\ held.done = dir.done /\ held.config = dir.config /\ (dir.lock # p => held.lock = dir.lock)
  BY DEF TypeInv
<1>4. dir' = held \/ (dir' = [held EXCEPT !.config = Torn] /\ dir.config = Absent
                      /\ process[p].at = "configuring")
  BY DEF Kill, At
<1> HIDE DEF held
<1>5. CASE dir' = held
  BY <1>1, <1>2, <1>3, <1>5
<1>6. CASE dir' = [held EXCEPT !.config = Torn] /\ dir.config = Absent
           /\ process[p].at = "configuring"
  BY <1>1, <1>2, <1>3, <1>6
<1> QED BY <1>4, <1>5, <1>6

LEMMA CleanEffect ==
  ASSUME TypeInv, Clean
  PROVE  /\ dir.lock = Orphan /\ dir'.done = dir.done /\ UNCHANGED <<out, process, data>>
         /\ dir'.config = dir.config \/ dir.config = Torn
         /\ dir' \in [lock : Processes \cup {Nobody, Orphan}, config : {Absent, Torn} \cup Configs,
                      done : SUBSET Checkpoints, pending : SUBSET [config : Configs, key : AllKeys]]
<1>1. PICK keep \in BOOLEAN :
        dir' = [dir EXCEPT !.lock = Nobody, !.pending = IF keep THEN @ ELSE {},
                           !.config = IF @ = Torn /\ ~keep THEN Absent ELSE @]
  BY DEF Clean
<1>2. CASE keep
  <2>1. dir' = [dir EXCEPT !.lock = Nobody, !.pending = dir.pending, !.config = dir.config]
    BY <1>1, <1>2, Zenon
  <2> QED BY <2>1 DEF TypeInv, Clean
<1>3. CASE ~keep
  <2>1. dir' = [dir EXCEPT !.lock = Nobody, !.pending = {},
                           !.config = IF dir.config = Torn THEN Absent ELSE dir.config]
    BY <1>1, <1>3, Zenon
  <2> QED BY <2>1 DEF TypeInv, Clean
<1> QED BY <1>2, <1>3

-----------------------------------------------------------------------------
(* The invariants, step by step.                                             *)

\* The lock goes only with the export that holds it.
LEMMA LockStep ==
  ASSUME IInv, [PartitionNext]_partitionVars
  PROVE  LockInv'
<1>0. TypeInv /\ LockInv /\ {Nobody, Orphan} \cap Processes = {}
  BY PartitionAssumption DEF IInv
<1>1. ASSUME NEW p \in Processes, Open(p) PROVE LockInv'
  BY <1>0, <1>1, OpenEffect DEF LockInv, Running, Looping, Moves, Ends, Others, Keeps, SameFiles
<1>2. ASSUME NEW p \in Processes, Begin(p) PROVE LockInv'
  BY <1>0, <1>2, BeginEffect DEF LockInv, Running, Looping, Moves, Ends, Others, Keeps, SameFiles
<1>3. ASSUME NEW p \in Processes, Configure(p) PROVE LockInv'
  BY <1>0, <1>3, ConfigureEffect DEF LockInv, Running, Looping, Moves, Ends, Others, Keeps, SameFiles
<1>4. ASSUME NEW p \in Processes, Load(p) PROVE LockInv'
  BY <1>0, <1>4, LoadEffect DEF LockInv, Running, Looping, Moves, Ends, Others, Keeps, SameFiles
<1>5. ASSUME NEW p \in Processes, Visit(p) PROVE LockInv'
  BY <1>0, <1>5, VisitEffect DEF LockInv, Running, Looping, Moves, Ends, Others, Keeps, SameFiles
<1>6. ASSUME NEW p \in Processes, Replace(p) PROVE LockInv'
  BY <1>0, <1>6, ReplaceEffect DEF LockInv, Running, Looping, Moves, Ends, Others, Keeps, SameFiles
<1>7. ASSUME NEW p \in Processes, Take(p) PROVE LockInv'
  BY <1>0, <1>7, TakeEffect DEF LockInv, Running, Looping, Moves, Ends, Others, Keeps, SameFiles
<1>8. ASSUME NEW p \in Processes, Exhaust(p) PROVE LockInv'
  BY <1>0, <1>8, ExhaustEffect DEF LockInv, Running, Looping, Moves, Ends, Others, Keeps, SameFiles
<1>9. ASSUME NEW p \in Processes, Complete(p) PROVE LockInv'
  BY <1>0, <1>9, CompleteEffect DEF LockInv, Running, Looping, Moves, Ends, Others, Keeps, SameFiles
<1>10. ASSUME NEW p \in Processes, Kill(p) PROVE LockInv'
  BY <1>0, <1>10, KillEffect DEF LockInv, Running, Looping, Moves, Ends, Others, Keeps, SameFiles
<1>11. CASE Clean
  BY <1>0, <1>11, CleanEffect DEF LockInv, Running, Looping, Moves, Ends, Others, Keeps, SameFiles
<1>12. CASE ChangeData \/ ChangeSoftware
  BY <1>0, <1>12 DEF ChangeData, ChangeSoftware, LockInv, Running, Looping, Moves, Ends, Others, Keeps, SameFiles
<1>13. CASE UNCHANGED partitionVars
  BY <1>0, <1>13 DEF partitionVars, LockInv, Running, Looping, Moves, Ends, Others, Keeps, SameFiles
<1> QED BY <1>1, <1>2, <1>3, <1>4, <1>5, <1>6, <1>7, <1>8, <1>9, <1>10, <1>11, <1>12, <1>13
        DEF PartitionNext, Step

\* While a job runs nobody replaces its configuration: a torn or absent one is not that of a job.
LEMMA ConfigStep ==
  ASSUME IInv, [PartitionNext]_partitionVars
  PROVE  ConfigInv'
<1>0. TypeInv /\ LockInv /\ ConfigInv
  BY PartitionAssumption DEF IInv
<1>1. ASSUME NEW p \in Processes, Open(p) PROVE ConfigInv'
  BY <1>0, <1>1, OpenEffect DEF ConfigInv, LockInv, Running, Looping, Moves, Ends, Others, Keeps, SameFiles
<1>2. ASSUME NEW p \in Processes, Begin(p) PROVE ConfigInv'
  BY <1>0, <1>2, BeginEffect DEF ConfigInv, LockInv, Running, Looping, Moves, Ends, Others, Keeps, SameFiles
<1>3. ASSUME NEW p \in Processes, Configure(p) PROVE ConfigInv'
  BY <1>0, <1>3, ConfigureEffect, Fields, JobFields DEF ConfigInv, LockInv, Running, Looping, Moves, Ends, Others, Keeps, SameFiles
<1>4. ASSUME NEW p \in Processes, Load(p) PROVE ConfigInv'
  BY <1>0, <1>4, LoadEffect DEF ConfigInv, LockInv, Running, Looping, Moves, Ends, Others, Keeps, SameFiles
<1>5. ASSUME NEW p \in Processes, Visit(p) PROVE ConfigInv'
  BY <1>0, <1>5, VisitEffect DEF ConfigInv, LockInv, Running, Looping, Moves, Ends, Others, Keeps, SameFiles
<1>6. ASSUME NEW p \in Processes, Replace(p) PROVE ConfigInv'
  BY <1>0, <1>6, ReplaceEffect DEF ConfigInv, LockInv, Running, Looping, Moves, Ends, Others, Keeps, SameFiles
<1>7. ASSUME NEW p \in Processes, Take(p) PROVE ConfigInv'
  BY <1>0, <1>7, TakeEffect DEF ConfigInv, LockInv, Running, Looping, Moves, Ends, Others, Keeps, SameFiles
<1>8. ASSUME NEW p \in Processes, Exhaust(p) PROVE ConfigInv'
  BY <1>0, <1>8, ExhaustEffect DEF ConfigInv, LockInv, Running, Looping, Moves, Ends, Others, Keeps, SameFiles
<1>9. ASSUME NEW p \in Processes, Complete(p) PROVE ConfigInv'
  BY <1>0, <1>9, CompleteEffect DEF ConfigInv, LockInv, Running, Looping, Moves, Ends, Others, Keeps, SameFiles
<1>10. ASSUME NEW p \in Processes, Kill(p) PROVE ConfigInv'
  BY <1>0, <1>10, KillEffect, Fields, JobFields DEF ConfigInv, LockInv, Running, Looping, Moves, Ends, Others, Keeps, SameFiles
<1>11. CASE Clean
  BY <1>0, <1>11, CleanEffect, Fields, JobFields DEF ConfigInv, Looping
<1>12. CASE ChangeData \/ ChangeSoftware
  BY <1>0, <1>12 DEF ChangeData, ChangeSoftware, ConfigInv, LockInv, Running, Looping, Moves, Ends, Others, Keeps, SameFiles
<1>13. CASE UNCHANGED partitionVars
  BY <1>0, <1>13 DEF partitionVars, ConfigInv, LockInv, Running, Looping, Moves, Ends, Others, Keeps, SameFiles
<1> QED BY <1>1, <1>2, <1>3, <1>4, <1>5, <1>6, <1>7, <1>8, <1>9, <1>10, <1>11, <1>12, <1>13
        DEF PartitionNext, Step

LEMMA JobStep ==
  ASSUME IInv, [PartitionNext]_partitionVars
  PROVE  JobInv'
<1>0. TypeInv /\ JobInv
  BY PartitionAssumption DEF IInv
<1>1. ASSUME NEW p \in Processes, Open(p) PROVE JobInv'
  BY <1>0, <1>1, OpenEffect DEF JobInv, Running, Looping, partition_keys, Moves, Ends, Others, Keeps, SameFiles
<1>2. ASSUME NEW p \in Processes, Begin(p) PROVE JobInv'
  BY <1>0, <1>2, BeginEffect DEF JobInv, Running, Looping, partition_keys, Moves, Ends, Others, Keeps, SameFiles
<1>3. ASSUME NEW p \in Processes, Configure(p) PROVE JobInv'
  BY <1>0, <1>3, ConfigureEffect, Fields, JobFields DEF JobInv, Running, Looping, partition_keys, Moves, Ends, Others, Keeps, SameFiles
<1>4. ASSUME NEW p \in Processes, Load(p) PROVE JobInv'
  BY <1>0, <1>4, LoadEffect DEF JobInv, Running, Looping, partition_keys, Moves, Ends, Others, Keeps, SameFiles
<1>5. ASSUME NEW p \in Processes, Visit(p) PROVE JobInv'
  BY <1>0, <1>5, VisitEffect DEF JobInv, Running, Looping, partition_keys, Moves, Ends, Others, Keeps, SameFiles
<1>6. ASSUME NEW p \in Processes, Replace(p) PROVE JobInv'
  BY <1>0, <1>6, ReplaceEffect DEF JobInv, Running, Looping, partition_keys, Moves, Ends, Others, Keeps, SameFiles
<1>7. ASSUME NEW p \in Processes, Take(p) PROVE JobInv'
  BY <1>0, <1>7, TakeEffect, Fields, JobFields DEF JobInv, Running, Looping, partition_keys, Moves, Ends, Others, Keeps, SameFiles
<1>8. ASSUME NEW p \in Processes, Exhaust(p) PROVE JobInv'
  BY <1>0, <1>8, ExhaustEffect DEF JobInv, Running, Looping, partition_keys, Moves, Ends, Others, Keeps, SameFiles
<1>9. ASSUME NEW p \in Processes, Complete(p) PROVE JobInv'
  BY <1>0, <1>9, CompleteEffect DEF JobInv, Running, Looping, partition_keys, Moves, Ends, Others, Keeps, SameFiles
<1>10. ASSUME NEW p \in Processes, Kill(p) PROVE JobInv'
  BY <1>0, <1>10, KillEffect DEF JobInv, Running, Looping, partition_keys, Moves, Ends, Others, Keeps, SameFiles
<1>11. CASE Clean
  BY <1>0, <1>11, CleanEffect DEF JobInv, Running, Looping, partition_keys, Moves, Ends, Others, Keeps, SameFiles
<1>12. CASE ChangeData \/ ChangeSoftware
  BY <1>0, <1>12 DEF ChangeData, ChangeSoftware, JobInv, Running, Looping, partition_keys, Moves, Ends, Others, Keeps, SameFiles
<1>13. CASE UNCHANGED partitionVars
  BY <1>0, <1>13 DEF partitionVars, JobInv, Running, Looping, partition_keys, Moves, Ends, Others, Keeps, SameFiles
<1> QED BY <1>1, <1>2, <1>3, <1>4, <1>5, <1>6, <1>7, <1>8, <1>9, <1>10, <1>11, <1>12, <1>13
        DEF PartitionNext, Step

LEMMA FreshStep ==
  ASSUME IInv, [PartitionNext]_partitionVars
  PROVE  FreshInv'
<1>0. TypeInv /\ LockInv /\ DoneInv /\ ConfigInv /\ FreshInv
  BY PartitionAssumption DEF IInv
<1>1. ASSUME NEW p \in Processes, Open(p) PROVE FreshInv'
  BY <1>0, <1>1, OpenEffect DEF FreshInv, LockInv, Running, Looping, Moves, Ends, Others, Keeps, SameFiles
<1>2. ASSUME NEW p \in Processes, Begin(p) PROVE FreshInv'
  BY <1>0, <1>2, BeginEffect DEF FreshInv, LockInv, Running, Looping, Moves, Ends, Others, Keeps, SameFiles
<1>3. ASSUME NEW p \in Processes, Configure(p) PROVE FreshInv'
  BY <1>0, <1>3, ConfigureEffect DEF FreshInv, LockInv, Running, Looping, Moves, Ends, Others, Keeps, SameFiles
<1>4. ASSUME NEW p \in Processes, Load(p) PROVE FreshInv'
  BY <1>0, <1>4, LoadEffect DEF FreshInv, LockInv, Running, Looping, Moves, Ends, Others, Keeps, SameFiles
<1>5. ASSUME NEW p \in Processes, Visit(p) PROVE FreshInv'
  <2>1. CASE process'[p].at = "replacing"
    <3>1. Found(Config(process[p].job), process[p].job.keys[process[p].next]) = {}
      BY <1>0, <1>5, <2>1, VisitEffect DEF Moves, Ends
    <3>2. \A d \in dir.done : d.key # process[p].job.keys[process[p].next]
      BY <1>0, <1>5, <3>1, VisitEffect DEF Found, DoneInv, ConfigInv, Looping
    <3> QED BY <1>0, <1>5, <2>1, <3>2, VisitEffect DEF FreshInv, Moves, Ends, Others, Keeps, SameFiles
  <2>2. CASE process'[p].at # "replacing"
    BY <1>0, <1>5, <2>2, VisitEffect DEF FreshInv, Moves, Ends, Others, SameFiles
  <2> QED BY <2>1, <2>2
<1>6. ASSUME NEW p \in Processes, Replace(p) PROVE FreshInv'
  BY <1>0, <1>6, ReplaceEffect DEF FreshInv, LockInv, Running, Looping, Moves, Ends, Others, Keeps, SameFiles
<1>7. ASSUME NEW p \in Processes, Take(p) PROVE FreshInv'
  BY <1>0, <1>7, TakeEffect DEF FreshInv, LockInv, Running, Looping, Moves, Ends, Others, Keeps, SameFiles
<1>8. ASSUME NEW p \in Processes, Exhaust(p) PROVE FreshInv'
  BY <1>0, <1>8, ExhaustEffect DEF FreshInv, LockInv, Running, Looping, Moves, Ends, Others, Keeps, SameFiles
<1>9. ASSUME NEW p \in Processes, Complete(p) PROVE FreshInv'
  BY <1>0, <1>9, CompleteEffect DEF FreshInv, LockInv, Running, Looping, Moves, Ends, Others, Keeps, SameFiles
<1>10. ASSUME NEW p \in Processes, Kill(p) PROVE FreshInv'
  BY <1>0, <1>10, KillEffect DEF FreshInv, LockInv, Running, Looping, Moves, Ends, Others, Keeps, SameFiles
<1>11. CASE Clean
  BY <1>0, <1>11, CleanEffect DEF FreshInv, LockInv, Running, Looping, Moves, Ends, Others, Keeps, SameFiles
<1>12. CASE ChangeData \/ ChangeSoftware
  BY <1>0, <1>12 DEF ChangeData, ChangeSoftware, FreshInv, LockInv, Running, Looping, Moves, Ends, Others, Keeps, SameFiles
<1>13. CASE UNCHANGED partitionVars
  BY <1>0, <1>13 DEF partitionVars, FreshInv, LockInv, Running, Looping, Moves, Ends, Others, Keeps, SameFiles
<1> QED BY <1>1, <1>2, <1>3, <1>4, <1>5, <1>6, <1>7, <1>8, <1>9, <1>10, <1>11, <1>12, <1>13
        DEF PartitionNext, Step
\* A checkpoint is written once, and the configuration it is of stays.
LEMMA DoneStep ==
  ASSUME IInv, [PartitionNext]_partitionVars
  PROVE  DoneInv'
<1>0. TypeInv /\ DoneInv /\ ConfigInv /\ FreshInv
  BY PartitionAssumption DEF IInv
<1>1. ASSUME NEW p \in Processes, Open(p) PROVE DoneInv'
  BY <1>0, <1>1, OpenEffect DEF DoneInv, Moves, Ends, Others, Keeps, SameFiles
<1>2. ASSUME NEW p \in Processes, Begin(p) PROVE DoneInv'
  BY <1>0, <1>2, BeginEffect DEF DoneInv, Moves, Ends, Others, Keeps, SameFiles
<1>3. ASSUME NEW p \in Processes, Configure(p) PROVE DoneInv'
  <2>1. CASE Ends(p)
    BY <1>0, <2>1 DEF DoneInv, Ends
  <2>2. CASE dir.config \in {Absent, Config(process[p].job)} /\ dir'.done = dir.done
             /\ dir'.config = Config(process[p].job)
    <3>1. \A d \in dir.done : d.config # Absent
      BY <1>0, JobFields DEF TypeInv, Checkpoints, Configs
    <3>2. \A d \in dir.done : d.config = dir'.config
      BY <1>0, <2>2, <3>1 DEF DoneInv
    <3> QED BY <1>0, <2>2, <3>2 DEF DoneInv
  <2> QED BY <1>0, <1>3, <2>1, <2>2, ConfigureEffect
<1>4. ASSUME NEW p \in Processes, Load(p) PROVE DoneInv'
  BY <1>0, <1>4, LoadEffect DEF DoneInv, Moves, Ends, Others, Keeps, SameFiles
<1>5. ASSUME NEW p \in Processes, Visit(p) PROVE DoneInv'
  BY <1>0, <1>5, VisitEffect DEF DoneInv, Moves, Ends, Others, Keeps, SameFiles
<1>6. ASSUME NEW p \in Processes, Replace(p) PROVE DoneInv'
  <2> DEFINE x == process[p]
             k == x.job.keys[x.next]
             made == [config |-> Config(x.job), key |-> k, input |-> x.loaded,
                      result |-> ResultOf(k, x.job.family, x.loaded)]
  <2>1. dir'.done = dir.done \cup {made} /\ dir'.config = dir.config /\ x.at = "replacing"
    BY <1>0, <1>6, ReplaceEffect
  <2>2. made.config = dir.config /\ made.key = k /\ made.result.key = k
    BY <1>0, <2>1 DEF ConfigInv, Looping, ResultOf
  <2>3. \A d \in dir.done : d.key # k
    BY <1>0, <2>1 DEF FreshInv
  <2> HIDE DEF made, k
  <2> QED BY <1>0, <2>1, <2>2, <2>3 DEF DoneInv
<1>7. ASSUME NEW p \in Processes, Take(p) PROVE DoneInv'
  BY <1>0, <1>7, TakeEffect DEF DoneInv, Moves, Ends, Others, Keeps, SameFiles
<1>8. ASSUME NEW p \in Processes, Exhaust(p) PROVE DoneInv'
  BY <1>0, <1>8, ExhaustEffect DEF DoneInv, Moves, Ends, Others, Keeps, SameFiles
<1>9. ASSUME NEW p \in Processes, Complete(p) PROVE DoneInv'
  BY <1>0, <1>9, CompleteEffect DEF DoneInv, Moves, Ends, Others, Keeps, SameFiles
<1>10. ASSUME NEW p \in Processes, Kill(p) PROVE DoneInv'
  BY <1>0, <1>10, KillEffect, Fields, JobFields DEF DoneInv, TypeInv, Checkpoints, Configs
<1>11. CASE Clean
  BY <1>0, <1>11, CleanEffect, JobFields DEF DoneInv, TypeInv, Checkpoints, Configs
<1>12. CASE ChangeData \/ ChangeSoftware
  BY <1>0, <1>12 DEF ChangeData, ChangeSoftware, DoneInv, Moves, Ends, Others, Keeps, SameFiles
<1>13. CASE UNCHANGED partitionVars
  BY <1>0, <1>13 DEF partitionVars, DoneInv, Moves, Ends, Others, Keeps, SameFiles
<1> QED BY <1>1, <1>2, <1>3, <1>4, <1>5, <1>6, <1>7, <1>8, <1>9, <1>10, <1>11, <1>12, <1>13
        DEF PartitionNext, Step

LEMMA YieldStep ==
  ASSUME IInv, [PartitionNext]_partitionVars
  PROVE  YieldInv'
<1>0. TypeInv /\ YieldInv
  BY PartitionAssumption DEF IInv
<1>1. ASSUME NEW p \in Processes, Open(p) PROVE YieldInv'
  BY <1>0, <1>1, OpenEffect DEF YieldInv, Moves, Ends, Others, Keeps, SameFiles
<1>2. ASSUME NEW p \in Processes, Begin(p) PROVE YieldInv'
  BY <1>0, <1>2, BeginEffect DEF YieldInv, Moves, Ends, Others, Keeps, SameFiles
<1>3. ASSUME NEW p \in Processes, Configure(p) PROVE YieldInv'
  BY <1>0, <1>3, ConfigureEffect DEF YieldInv, Moves, Ends, Others, Keeps, SameFiles
<1>4. ASSUME NEW p \in Processes, Load(p) PROVE YieldInv'
  BY <1>0, <1>4, LoadEffect DEF YieldInv, Moves, Ends, Others, Keeps, SameFiles
<1>5. ASSUME NEW p \in Processes, Visit(p) PROVE YieldInv'
  <2>1. CASE process'[p].at = "yielded"
    <3> DEFINE x == process[p]
    <3>1. PICK d \in Found(Config(x.job), x.job.keys[x.next]) :
            Reusable(d, x) /\ process'[p].result = d.result
      BY <1>0, <1>5, <2>1, VisitEffect DEF Moves, Ends
    <3>2. /\ d \in dir.done /\ dir'.done = dir.done /\ process'[p].job = x.job
          /\ process'[p].next = x.next /\ process'[p].loaded = x.loaded
      BY <1>0, <1>5, <2>1, VisitEffect DEF Found, Moves, Ends, SameFiles
    <3>3. d.result = ResultOf(x.job.keys[x.next], x.job.family, x.loaded)
      BY <3>1 DEF Reusable
    <3> QED BY <1>0, <1>5, <3>1, <3>2, <3>3, VisitEffect DEF YieldInv, Moves, Ends, Others, SameFiles
  <2>2. CASE process'[p].at # "yielded"
    BY <1>0, <1>5, <2>2, VisitEffect DEF YieldInv, Moves, Ends, Others, SameFiles
  <2> QED BY <2>1, <2>2
<1>6. ASSUME NEW p \in Processes, Replace(p) PROVE YieldInv'
  <2> DEFINE x == process[p]
             k == x.job.keys[x.next]
             r == ResultOf(k, x.job.family, x.loaded)
             made == [config |-> Config(x.job), key |-> k, input |-> x.loaded, result |-> r]
  <2>1. /\ dir'.done = dir.done \cup {made} /\ Others(p) /\ process'[p].result = r
        /\ process'[p].next = x.next /\ process'[p].loaded = x.loaded /\ process'[p].job = x.job
    BY <1>0, <1>6, ReplaceEffect DEF Moves
  <2>2. made.result = r
    OBVIOUS
  <2> HIDE DEF made
  <2>3. /\ process'[p].result = ResultOf(process'[p].job.keys[process'[p].next],
                                         process'[p].job.family, process'[p].loaded)
        /\ \E d \in dir'.done : d.result = process'[p].result
    BY <2>1, <2>2
  <2> HIDE DEF r, k
  <2> QED BY <1>0, <2>1, <2>3 DEF YieldInv, Others
<1>7. ASSUME NEW p \in Processes, Take(p) PROVE YieldInv'
  BY <1>0, <1>7, TakeEffect DEF YieldInv, Moves, Ends, Others, Keeps, SameFiles
<1>8. ASSUME NEW p \in Processes, Exhaust(p) PROVE YieldInv'
  BY <1>0, <1>8, ExhaustEffect DEF YieldInv, Moves, Ends, Others, Keeps, SameFiles
<1>9. ASSUME NEW p \in Processes, Complete(p) PROVE YieldInv'
  BY <1>0, <1>9, CompleteEffect DEF YieldInv, Moves, Ends, Others, Keeps, SameFiles
<1>10. ASSUME NEW p \in Processes, Kill(p) PROVE YieldInv'
  BY <1>0, <1>10, KillEffect DEF YieldInv, Moves, Ends, Others, Keeps, SameFiles
<1>11. CASE Clean
  BY <1>0, <1>11, CleanEffect DEF YieldInv, Moves, Ends, Others, Keeps, SameFiles
<1>12. CASE ChangeData \/ ChangeSoftware
  BY <1>0, <1>12 DEF ChangeData, ChangeSoftware, YieldInv, Moves, Ends, Others, Keeps, SameFiles
<1>13. CASE UNCHANGED partitionVars
  BY <1>0, <1>13 DEF partitionVars, YieldInv, Moves, Ends, Others, Keeps, SameFiles
<1> QED BY <1>1, <1>2, <1>3, <1>4, <1>5, <1>6, <1>7, <1>8, <1>9, <1>10, <1>11, <1>12, <1>13
        DEF PartitionNext, Step

\* An output is opened once and finished by the export that opened it.
LEMMA OwnStep ==
  ASSUME IInv, [PartitionNext]_partitionVars
  PROVE  OwnInv'
<1>0. TypeInv /\ OwnInv
  BY PartitionAssumption DEF IInv
<1>1. ASSUME NEW p \in Processes, Open(p) PROVE OwnInv'
  BY <1>0, <1>1, OpenEffect, Fields DEF OwnInv, Moves, Ends, Others, Keeps, SameFiles
<1>2. ASSUME NEW p \in Processes, Begin(p) PROVE OwnInv'
  BY <1>0, <1>2, BeginEffect, Fields DEF OwnInv, Moves, Ends, Others, Keeps, SameFiles
<1>3. ASSUME NEW p \in Processes, Configure(p) PROVE OwnInv'
  BY <1>0, <1>3, ConfigureEffect, Fields DEF OwnInv, Moves, Ends, Others, Keeps, SameFiles
<1>4. ASSUME NEW p \in Processes, Load(p) PROVE OwnInv'
  BY <1>0, <1>4, LoadEffect, Fields DEF OwnInv, Moves, Ends, Others, Keeps, SameFiles
<1>5. ASSUME NEW p \in Processes, Visit(p) PROVE OwnInv'
  BY <1>0, <1>5, VisitEffect, Fields DEF OwnInv, Moves, Ends, Others, Keeps, SameFiles
<1>6. ASSUME NEW p \in Processes, Replace(p) PROVE OwnInv'
  BY <1>0, <1>6, ReplaceEffect, Fields DEF OwnInv, Moves, Ends, Others, Keeps, SameFiles
<1>7. ASSUME NEW p \in Processes, Take(p) PROVE OwnInv'
  BY <1>0, <1>7, TakeEffect, Fields DEF OwnInv, Moves, Ends, Others, Keeps, SameFiles
<1>8. ASSUME NEW p \in Processes, Exhaust(p) PROVE OwnInv'
  BY <1>0, <1>8, ExhaustEffect, Fields DEF OwnInv, Moves, Ends, Others, Keeps, SameFiles
<1>9. ASSUME NEW p \in Processes, Complete(p) PROVE OwnInv'
  BY <1>0, <1>9, CompleteEffect, Fields DEF OwnInv, Moves, Ends, Others, Keeps, SameFiles
<1>10. ASSUME NEW p \in Processes, Kill(p) PROVE OwnInv'
  BY <1>0, <1>10, KillEffect, Fields DEF OwnInv, Moves, Ends, Others, Keeps, SameFiles
<1>11. CASE Clean
  BY <1>0, <1>11, CleanEffect DEF OwnInv, Moves, Ends, Others, Keeps, SameFiles
<1>12. CASE ChangeData \/ ChangeSoftware
  BY <1>0, <1>12 DEF ChangeData, ChangeSoftware, OwnInv, Moves, Ends, Others, Keeps, SameFiles
<1>13. CASE UNCHANGED partitionVars
  BY <1>0, <1>13 DEF partitionVars, OwnInv, Moves, Ends, Others, Keeps, SameFiles
<1> QED BY <1>1, <1>2, <1>3, <1>4, <1>5, <1>6, <1>7, <1>8, <1>9, <1>10, <1>11, <1>12, <1>13
        DEF PartitionNext, Step

\* What export() adds to its rows when it accepts a result.
Takes(p) ==
  LET x == process[p]
  IN  /\ x.at = "yielded" /\ x.out \in Outputs
      /\ out[x.out].rows \in Seq(Results) /\ out'[x.out].rows \in Seq(Results)
      /\ Grown(out[x.out].rows, out'[x.out].rows, x.result)
      /\ x.result = ResultOf(x.job.keys[x.next], x.job.family, x.loaded)
      /\ \E d \in dir.done : d.result = x.result
      /\ \A i \in 1..Len(out[x.out].rows) : x.result.key # out[x.out].rows[i].key
      /\ \A q \in Outputs : q # x.out => out'[q] = out[q]
      /\ out'[x.out].exists = out[x.out].exists /\ out'[x.out].job = out[x.out].job
      /\ out'[x.out].manifest = out[x.out].manifest
      /\ Moves(p, IF x.next = Len(x.job.keys) THEN "exhausted" ELSE "loading")
      /\ process'[p].next = x.next + 1 /\ process'[p].loaded = x.loaded /\ dir' = dir

LEMMA TakeRows ==
  ASSUME TypeInv, YieldInv, NEW p \in Processes, Take(p)
  PROVE  Takes(p) \/ (Ends(p) /\ dir'.lock = Nobody /\ out' = out /\ SameFiles)
<1> DEFINE x == process[p]
           rows == out[x.out].rows
<1>1. /\ x.at = "yielded" /\ SameFiles
      /\ \/ /\ x.result.key \notin {rows[i].key : i \in DOMAIN rows}
            /\ x.result.family = x.job.family /\ dir' = dir
            /\ \A q \in Outputs : q # x.out => out'[q] = out[q]
            /\ out'[x.out].exists = out[x.out].exists /\ out'[x.out].job = out[x.out].job
            /\ out'[x.out].manifest = out[x.out].manifest
            /\ out'[x.out].rows = Append(rows, x.result)
            /\ Moves(p, IF x.next = Len(x.job.keys) THEN "exhausted" ELSE "loading")
            /\ process'[p].next = x.next + 1 /\ process'[p].loaded = x.loaded
         \/ Ends(p) /\ dir'.lock = Nobody /\ out' = out
  BY TakeEffect
<1>2. x.out \in Outputs /\ rows \in Seq(Results)
  BY <1>1, Fields DEF TypeInv
<1>3. /\ x.result = ResultOf(x.job.keys[x.next], x.job.family, x.loaded)
      /\ \E d \in dir.done : d.result = x.result
  BY <1>1 DEF YieldInv
<1>4. x.result \in Results
  BY <1>3 DEF TypeInv, Checkpoints
<1>5. Append(rows, x.result) \in Seq(Results) /\ Grown(rows, Append(rows, x.result), x.result)
  BY <1>2, <1>4, AppendGrows
<1>6. DOMAIN rows = 1..Len(rows)
  BY <1>2
<1>7. x.result.key \notin {rows[i].key : i \in DOMAIN rows} =>
        \A i \in 1..Len(rows) : x.result.key # rows[i].key
  BY <1>6
<1> QED BY <1>1, <1>2, <1>3, <1>5, <1>7 DEF Takes

\* Only Take adds rows, Open alone sets an output's job, and no checkpoint is removed.
RowsStay ==
  /\ dir.done \subseteq dir'.done
  /\ \A o \in Outputs : /\ out'[o].rows = out[o].rows
                        /\ out[o].exists => out'[o].job = out[o].job

LEMMA OnlyTakeAddsRows ==
  ASSUME IInv, [PartitionNext]_partitionVars
  PROVE  RowsStay \/ \E p \in Processes : Takes(p)
<1>0. TypeInv /\ YieldInv
  BY DEF IInv
<1>1. ASSUME NEW p \in Processes, Open(p) PROVE RowsStay
  BY <1>0, <1>1, OpenEffect DEF RowsStay
<1>2. ASSUME NEW p \in Processes, Take(p) PROVE RowsStay \/ Takes(p)
  BY <1>0, <1>2, TakeRows DEF RowsStay, SameFiles
<1>3. ASSUME NEW p \in Processes, Complete(p) PROVE RowsStay
  BY <1>0, <1>3, CompleteEffect DEF RowsStay
<1>4. ASSUME NEW p \in Processes, Begin(p) PROVE RowsStay
  BY <1>0, <1>4, BeginEffect DEF RowsStay, SameFiles
<1>5. ASSUME NEW p \in Processes, Configure(p) PROVE RowsStay
  BY <1>0, <1>5, ConfigureEffect DEF RowsStay, SameFiles
<1>6. ASSUME NEW p \in Processes, Load(p) PROVE RowsStay
  BY <1>0, <1>6, LoadEffect DEF RowsStay, SameFiles
<1>7. ASSUME NEW p \in Processes, Visit(p) PROVE RowsStay
  BY <1>0, <1>7, VisitEffect DEF RowsStay, SameFiles
<1>8. ASSUME NEW p \in Processes, Replace(p) PROVE RowsStay
  BY <1>0, <1>8, ReplaceEffect DEF RowsStay, SameFiles
<1>9. ASSUME NEW p \in Processes, Exhaust(p) PROVE RowsStay
  BY <1>0, <1>9, ExhaustEffect DEF RowsStay, SameFiles
<1>10. ASSUME NEW p \in Processes, Kill(p) PROVE RowsStay
  BY <1>0, <1>10, KillEffect DEF RowsStay, SameFiles
<1>11. CASE Clean
  BY <1>0, <1>11, CleanEffect DEF RowsStay
<1>12. CASE ChangeData \/ ChangeSoftware \/ UNCHANGED partitionVars
  BY <1>12 DEF ChangeData, ChangeSoftware, partitionVars, RowsStay
<1> QED BY <1>1, <1>2, <1>3, <1>4, <1>5, <1>6, <1>7, <1>8, <1>9, <1>10, <1>11, <1>12
        DEF PartitionNext, Step

LEMMA SourceStep ==
  ASSUME IInv, [PartitionNext]_partitionVars
  PROVE  SourceInv'
<1>0. SourceInv
  BY DEF IInv
<1>1. CASE RowsStay
  BY <1>0, <1>1 DEF SourceInv, RowsStay
<1>2. ASSUME NEW p \in Processes, Takes(p) PROVE SourceInv'
  <2> DEFINE x == process[p]
             rows == out[x.out].rows
             more == out'[x.out].rows
  <2>1. /\ x.out \in Outputs /\ Grown(rows, more, x.result) /\ dir' = dir
        /\ \E d \in dir.done : d.result = x.result
        /\ \A q \in Outputs : q # x.out => out'[q] = out[q]
    BY <1>2 DEF Takes
  <2>2. \A i \in 1..Len(rows) : \E d \in dir.done : d.result = rows[i]
    BY <1>0, <2>1 DEF SourceInv
  <2> HIDE DEF rows, more
  <2>3. \A i \in 1..Len(more) : \E d \in dir'.done : d.result = more[i]
    BY <2>1, <2>2 DEF Grown
  <2> QED BY <1>0, <2>1, <2>3 DEF SourceInv, more
<1> QED BY <1>1, <1>2, OnlyTakeAddsRows

\* export() refuses a key it has seen and a result of another family.
LEMMA DistinctStep ==
  ASSUME IInv, [PartitionNext]_partitionVars
  PROVE  DistinctInv'
<1>0. DistinctInv /\ OwnInv
  BY DEF IInv
<1>1. CASE RowsStay
  <2> SUFFICES ASSUME NEW o \in Outputs
               PROVE  /\ \A i, j \in 1..Len(out'[o].rows) :
                           i # j => out'[o].rows[i].key # out'[o].rows[j].key
                      /\ \A i \in 1..Len(out'[o].rows) : out'[o].rows[i].family = out'[o].job.family
    BY DEF DistinctInv
  <2>1. out'[o].rows = out[o].rows
    BY <1>1 DEF RowsStay
  <2>2. CASE out[o].exists
    BY <1>0, <1>1, <2>1, <2>2 DEF DistinctInv, RowsStay
  <2>3. CASE ~out[o].exists
    <3>1. 1..Len(out'[o].rows) = {}
      BY <1>0, <2>1, <2>3 DEF OwnInv
    <3> QED BY <3>1
  <2> QED BY <2>2, <2>3
<1>2. ASSUME NEW p \in Processes, Takes(p) PROVE DistinctInv'
  <2> DEFINE x == process[p]
             rows == out[x.out].rows
             more == out'[x.out].rows
             job == out[x.out].job
             r == x.result
  <2>1. /\ x.out \in Outputs /\ Grown(rows, more, r) /\ x.at = "yielded"
        /\ \A i \in 1..Len(rows) : r.key # rows[i].key
        /\ r = ResultOf(x.job.keys[x.next], x.job.family, x.loaded)
        /\ \A q \in Outputs : q # x.out => out'[q] = out[q]
    BY <1>2 DEF Takes
  <2>2. out'[x.out].job = job
    BY <1>2 DEF Takes
  <2>3. r.family = job.family
    BY <1>0, <2>1 DEF OwnInv, ResultOf
  <2>4. /\ \A i, j \in 1..Len(rows) : i # j => rows[i].key # rows[j].key
        /\ \A i \in 1..Len(rows) : rows[i].family = job.family
    BY <1>0, <2>1 DEF DistinctInv
  <2> HIDE DEF rows, more, job, r
  <2>5. /\ \A i, j \in 1..Len(more) : i # j => more[i].key # more[j].key
        /\ \A i \in 1..Len(more) : more[i].family = job.family
    BY <2>1, <2>3, <2>4 DEF Grown
  <2>6. ASSUME NEW o \in Outputs
        PROVE  /\ \A i, j \in 1..Len(out'[o].rows) :
                    i # j => out'[o].rows[i].key # out'[o].rows[j].key
               /\ \A i \in 1..Len(out'[o].rows) : out'[o].rows[i].family = out'[o].job.family
    <3>1. CASE o = x.out
      BY <2>2, <2>5, <3>1 DEF more
    <3>2. CASE o # x.out
      BY <1>0, <2>1, <3>2 DEF DistinctInv
    <3> QED BY <3>1, <3>2
  <2> QED BY <2>6 DEF DistinctInv
<1> QED BY <1>1, <1>2, OnlyTakeAddsRows


\* The keys of one symbol and window stand together in a job, so a new row of theirs follows
\* the last of them, from the data loaded then.
LEMMA OneDataStep ==
  ASSUME IInv, [PartitionNext]_partitionVars
  PROVE  OneDataPerPair'
<1>0. TypeInv /\ OneDataPerPair /\ JobInv /\ RowsInv /\ LoadedInv
  BY DEF IInv
<1>1. CASE RowsStay
  BY <1>0, <1>1 DEF OneDataPerPair, RowsStay
<1>2. ASSUME NEW p \in Processes, Takes(p) PROVE OneDataPerPair'
  <2> DEFINE x == process[p]
             rows == out[x.out].rows
             more == out'[x.out].rows
             keys == x.job.keys
             n == x.next
             r == x.result
  <2>1. /\ x.out \in Outputs /\ Grown(rows, more, r) /\ x.at = "yielded"
        /\ r = ResultOf(keys[n], x.job.family, x.loaded)
        /\ \A q \in Outputs : q # x.out => out'[q] = out[q]
    BY <1>2 DEF Takes
  <2>2. /\ n = Len(rows) + 1 /\ \A i \in 1..Len(rows) : rows[i].key = keys[i]
        /\ n \in 1..Len(keys) /\ keys \in Seq(AllKeys) /\ x.job \in Jobs
    BY <1>0, <2>1, Fields, JobFields DEF RowsInv, RowsOf, JobInv, Looping
  <2>3. \A a, b, c \in 1..Len(keys) :
          a < b /\ b < c /\ SamePair(keys[a], keys[c]) => SamePair(keys[b], keys[c])
    <3>1. DOMAIN keys = 1..Len(keys)
      BY <2>2
    <3>2. \A a, b, c \in DOMAIN keys :
            a < b /\ b < c /\ SamePair(keys[a], keys[c]) => SamePair(keys[b], keys[c])
      BY <2>2, PartitionAssumption
    <3> HIDE DEF keys
    <3> QED BY <3>1, <3>2
  <2>4. n > 1 /\ SamePair(keys[n - 1], keys[n]) => rows[n - 1].data = r.data
    <3>1. r.data = x.loaded
      BY <2>1 DEF ResultOf
    <3>2. LoadedOf(x.at, n, keys, x.loaded, rows)
      BY <1>0, <2>1 DEF LoadedInv, Looping
    <3> QED BY <3>1, <3>2 DEF LoadedOf
  <2>5. r.key = keys[n]
    BY <2>1 DEF ResultOf
  <2>6. \A i, j \in 1..Len(rows) : SamePair(rows[i].key, rows[j].key) => rows[i].data = rows[j].data
    <3>1. \A i, j \in DOMAIN rows :
            SamePair(rows[i].key, rows[j].key) => rows[i].data = rows[j].data
      BY <1>0, <2>1 DEF OneDataPerPair
    <3> HIDE DEF rows, more
    <3> QED BY <2>1, <3>1 DEF Grown
  <2> HIDE DEF rows, more, keys, n, r
  <2>7. ASSUME NEW i \in 1..Len(rows), SamePair(keys[i], keys[n])
        PROVE  rows[i].data = r.data
    <3>1. Len(rows) \in Nat /\ Len(keys) \in Nat /\ n - 1 \in 1..Len(rows)
      BY <2>1, <2>2 DEF Grown
    <3>2. CASE i = n - 1
      BY <2>4, <2>7, <3>1, <3>2, <2>2
    <3>3. CASE i # n - 1
      <4>1. SamePair(keys[n - 1], keys[n])
        BY <2>2, <2>3, <2>7, <3>1, <3>3
      <4>2. SamePair(rows[i].key, rows[n - 1].key)
        BY <2>2, <2>7, <3>1, <4>1 DEF SamePair
      <4> QED BY <2>2, <2>4, <2>6, <3>1, <4>1, <4>2
    <3> QED BY <3>2, <3>3
  <2>8. \A i \in 1..Len(rows) :
          SamePair(rows[i].key, r.key) \/ SamePair(r.key, rows[i].key) => rows[i].data = r.data
    BY <2>2, <2>5, <2>7 DEF SamePair
  <2>9. \A i, j \in DOMAIN more : SamePair(more[i].key, more[j].key) => more[i].data = more[j].data
    BY <2>1, <2>6, <2>8 DEF Grown
  <2>10. ASSUME NEW o \in Outputs
         PROVE  \A i, j \in DOMAIN out'[o].rows :
                  SamePair(out'[o].rows[i].key, out'[o].rows[j].key) =>
                    out'[o].rows[i].data = out'[o].rows[j].data
    <3>1. CASE o = x.out
      BY <2>9, <3>1 DEF more
    <3>2. CASE o # x.out
      BY <1>0, <2>1, <3>2 DEF OneDataPerPair
    <3> QED BY <3>1, <3>2
  <2> QED BY <2>10 DEF OneDataPerPair
<1> QED BY <1>1, <1>2, OnlyTakeAddsRows

LEMMA RowsStep ==
  ASSUME IInv, [PartitionNext]_partitionVars
  PROVE  RowsInv'
<1>0. TypeInv /\ YieldInv /\ OwnInv /\ RowsInv /\ JobInv
  BY PartitionAssumption DEF IInv
<1>1. ASSUME NEW p \in Processes, Open(p) PROVE RowsInv'
  <2>1. PICK o \in Outputs :
          /\ ~out[o].exists /\ process'[p].out = o /\ process'[p].next = 1
          /\ \A q \in Outputs : out'[q].rows = out[q].rows
    BY <1>0, <1>1, OpenEffect
  <2>2. out'[o].rows = <<>>
    BY <1>0, <2>1 DEF OwnInv
  <2>3. Others(p) /\ dir' = dir
    BY <1>0, <1>1, OpenEffect
  <2>4. RowsOf(1, process'[p].job.keys, <<>>)
    BY DEF RowsOf
  <2> QED BY <1>0, <2>1, <2>2, <2>3, <2>4, Fields DEF RowsInv, Others
<1>2. ASSUME NEW p \in Processes, Begin(p) PROVE RowsInv'
  BY <1>0, <1>2, BeginEffect DEF RowsInv, Moves, Ends, Others, Keeps, SameFiles
<1>3. ASSUME NEW p \in Processes, Configure(p) PROVE RowsInv'
  BY <1>0, <1>3, ConfigureEffect DEF RowsInv, Moves, Ends, Others, Keeps, SameFiles
<1>4. ASSUME NEW p \in Processes, Load(p) PROVE RowsInv'
  BY <1>0, <1>4, LoadEffect DEF RowsInv, Moves, Ends, Others, Keeps, SameFiles
<1>5. ASSUME NEW p \in Processes, Visit(p) PROVE RowsInv'
  BY <1>0, <1>5, VisitEffect DEF RowsInv, Moves, Ends, Others, Keeps, SameFiles
<1>6. ASSUME NEW p \in Processes, Replace(p) PROVE RowsInv'
  BY <1>0, <1>6, ReplaceEffect DEF RowsInv, Moves, Ends, Others, Keeps, SameFiles
<1>7. ASSUME NEW p \in Processes, Take(p) PROVE RowsInv'
  <2>1. CASE Takes(p)
    <3> DEFINE x == process[p]
               rows == out[x.out].rows
               more == out'[x.out].rows
    <3>1. /\ x.out \in Outputs /\ Grown(rows, more, x.result) /\ x.at = "yielded" /\ Others(p)
          /\ x.result = ResultOf(x.job.keys[x.next], x.job.family, x.loaded)
          /\ process'[p].next = x.next + 1 /\ process'[p].job = x.job /\ process'[p].out = x.out
          /\ \A q \in Outputs : q # x.out => out'[q] = out[q]
      BY <2>1 DEF Takes, Moves
    <3>2. RowsOf(x.next, x.job.keys, rows)
      BY <1>0, <3>1 DEF RowsInv
    <3>3. x.result.key = x.job.keys[x.next]
      BY <3>1 DEF ResultOf
    <3>4. ASSUME NEW q \in Processes, q # p, process[q].at # "idle"
          PROVE  out'[process[q].out] = out[process[q].out]
      BY <1>0, <3>1, <3>4, Fields DEF OwnInv
    <3> HIDE DEF rows, more
    <3>5. RowsOf(x.next + 1, x.job.keys, more)
      BY <3>1, <3>2, <3>3 DEF Grown, RowsOf
    <3>6. ASSUME NEW q \in Processes, process'[q].at # "idle"
          PROVE  RowsOf(process'[q].next, process'[q].job.keys, out'[process'[q].out].rows)
      <4>1. CASE q = p
        BY <3>1, <3>5, <4>1 DEF more
      <4>2. CASE q # p
        BY <1>0, <3>1, <3>4, <3>6, <4>2 DEF RowsInv, Others
      <4> QED BY <4>1, <4>2
    <3> QED BY <3>6 DEF RowsInv
  <2>2. CASE Ends(p) /\ out' = out
    BY <1>0, <2>2 DEF RowsInv, Ends, Others
  <2> QED BY <1>0, <1>7, <2>1, <2>2, TakeRows
<1>8. ASSUME NEW p \in Processes, Exhaust(p) PROVE RowsInv'
  BY <1>0, <1>8, ExhaustEffect DEF RowsInv, Moves, Ends, Others, Keeps, SameFiles
<1>9. ASSUME NEW p \in Processes, Complete(p) PROVE RowsInv'
  <2>1. Ends(p) /\ \A q \in Outputs : out'[q].rows = out[q].rows
    BY <1>0, <1>9, CompleteEffect
  <2> QED BY <1>0, <2>1, Fields DEF RowsInv, Ends, Others
<1>10. ASSUME NEW p \in Processes, Kill(p) PROVE RowsInv'
  BY <1>0, <1>10, KillEffect DEF RowsInv, Moves, Ends, Others, Keeps, SameFiles
<1>11. CASE Clean
  BY <1>0, <1>11, CleanEffect DEF RowsInv, Moves, Ends, Others, Keeps, SameFiles
<1>12. CASE ChangeData \/ ChangeSoftware
  BY <1>0, <1>12 DEF ChangeData, ChangeSoftware, RowsInv, Moves, Ends, Others, Keeps, SameFiles
<1>13. CASE UNCHANGED partitionVars
  BY <1>0, <1>13 DEF partitionVars, RowsInv, Moves, Ends, Others, Keeps, SameFiles
<1> QED BY <1>1, <1>2, <1>3, <1>4, <1>5, <1>6, <1>7, <1>8, <1>9, <1>10, <1>11, <1>12, <1>13
        DEF PartitionNext, Step
\* Data once loaded serves every strategy of its symbol and window.
LEMMA LoadedStep ==
  ASSUME IInv, [PartitionNext]_partitionVars
  PROVE  LoadedInv'
<1>0. TypeInv /\ YieldInv /\ OwnInv /\ RowsInv /\ LoadedInv /\ JobInv
  BY PartitionAssumption DEF IInv
<1>1. ASSUME NEW p \in Processes, Open(p) PROVE LoadedInv'
  <2>1. /\ Others(p) /\ process'[p].at = "opened"
        /\ \A q \in Outputs : out'[q].rows = out[q].rows
    BY <1>0, <1>1, OpenEffect
  <2> QED BY <1>0, <2>1, Fields DEF LoadedInv, Others, Looping
<1>2. ASSUME NEW p \in Processes, Begin(p) PROVE LoadedInv'
  BY <1>0, <1>2, BeginEffect DEF LoadedInv, LoadedOf, Looping, Moves, Ends, Others, Keeps, SameFiles
<1>3. ASSUME NEW p \in Processes, Configure(p) PROVE LoadedInv'
  <2>1. Others(p) /\ out' = out
        /\ (process'[p].at \in Looping => process'[p].next = 1)
    BY <1>0, <1>3, ConfigureEffect DEF Moves, Ends, Keeps, JobInv, Looping
  <2> QED BY <1>0, <2>1 DEF LoadedInv, LoadedOf, Others
<1>4. ASSUME NEW p \in Processes, Load(p) PROVE LoadedInv'
  <2> DEFINE x == process[p]
             k == x.job.keys[x.next]
  <2>1. /\ x.at = "loading" /\ out' = out /\ Others(p)
        /\ process'[p].at = "visiting" /\ process'[p].next = x.next
        /\ process'[p].job = x.job /\ process'[p].out = x.out
        /\ process'[p].loaded = IF x.next > 1 /\ SamePair(x.job.keys[x.next - 1], k)
                                THEN x.loaded ELSE data[k[1]]
    BY <1>0, <1>4, LoadEffect DEF Moves
  <2>2. LoadedOf("loading", x.next, x.job.keys, x.loaded, out[x.out].rows)
    BY <1>0, <2>1 DEF LoadedInv, Looping
  <2>3. LoadedOf("visiting", x.next, x.job.keys, process'[p].loaded, out[x.out].rows)
    BY <2>1, <2>2 DEF LoadedOf
  <2> QED BY <1>0, <2>1, <2>3 DEF LoadedInv, Others
<1>5. ASSUME NEW p \in Processes, Visit(p) PROVE LoadedInv'
  BY <1>0, <1>5, VisitEffect DEF LoadedInv, LoadedOf, Looping, Moves, Ends, Others, Keeps, SameFiles
<1>6. ASSUME NEW p \in Processes, Replace(p) PROVE LoadedInv'
  BY <1>0, <1>6, ReplaceEffect DEF LoadedInv, LoadedOf, Looping, Moves, Ends, Others, Keeps, SameFiles
<1>7. ASSUME NEW p \in Processes, Take(p) PROVE LoadedInv'
  <2>1. CASE Takes(p)
    <3> DEFINE x == process[p]
               rows == out[x.out].rows
               more == out'[x.out].rows
    <3>1. /\ x.out \in Outputs /\ Grown(rows, more, x.result) /\ x.at = "yielded" /\ Others(p)
          /\ x.result = ResultOf(x.job.keys[x.next], x.job.family, x.loaded)
          /\ process'[p].next = x.next + 1 /\ process'[p].job = x.job /\ process'[p].out = x.out
          /\ process'[p].loaded = x.loaded
          /\ \A q \in Outputs : q # x.out => out'[q] = out[q]
      BY <2>1 DEF Takes, Moves
    <3>2. RowsOf(x.next, x.job.keys, rows)
      BY <1>0, <3>1 DEF RowsInv
    <3>3. x.result.data = x.loaded
      BY <3>1 DEF ResultOf
    <3>4. ASSUME NEW q \in Processes, q # p, process[q].at # "idle"
          PROVE  out'[process[q].out] = out[process[q].out]
      BY <1>0, <3>1, <3>4, Fields DEF OwnInv
    <3> HIDE DEF rows, more
    <3>5. more[(x.next + 1) - 1].data = x.loaded
      BY <3>1, <3>2, <3>3 DEF Grown, RowsOf
    <3>6. \A at : LoadedOf(at, x.next + 1, x.job.keys, x.loaded, more)
      BY <3>5 DEF LoadedOf
    <3>7. ASSUME NEW q \in Processes, process'[q].at \in Looping
          PROVE  LoadedOf(process'[q].at, process'[q].next, process'[q].job.keys,
                          process'[q].loaded, out'[process'[q].out].rows)
      <4>1. CASE q = p
        BY <3>1, <3>6, <4>1 DEF more
      <4>2. CASE q # p
        BY <1>0, <3>1, <3>4, <3>7, <4>2 DEF LoadedInv, Others, Looping
      <4> QED BY <4>1, <4>2
    <3> QED BY <3>7 DEF LoadedInv
  <2>2. CASE Ends(p) /\ out' = out
    BY <1>0, <2>2 DEF LoadedInv, Ends, Others, Looping
  <2> QED BY <1>0, <1>7, <2>1, <2>2, TakeRows
<1>8. ASSUME NEW p \in Processes, Exhaust(p) PROVE LoadedInv'
  BY <1>0, <1>8, ExhaustEffect DEF LoadedInv, LoadedOf, Looping, Moves, Ends, Others, Keeps, SameFiles
<1>9. ASSUME NEW p \in Processes, Complete(p) PROVE LoadedInv'
  <2>1. Ends(p) /\ \A q \in Outputs : out'[q].rows = out[q].rows
    BY <1>0, <1>9, CompleteEffect
  <2> QED BY <1>0, <2>1, Fields DEF LoadedInv, Ends, Others, Looping
<1>10. ASSUME NEW p \in Processes, Kill(p) PROVE LoadedInv'
  BY <1>0, <1>10, KillEffect DEF LoadedInv, LoadedOf, Looping, Moves, Ends, Others, Keeps, SameFiles
<1>11. CASE Clean
  BY <1>0, <1>11, CleanEffect DEF LoadedInv, LoadedOf, Looping, Moves, Ends, Others, Keeps, SameFiles
<1>12. CASE ChangeData \/ ChangeSoftware
  BY <1>0, <1>12 DEF ChangeData, ChangeSoftware, LoadedInv, LoadedOf, Looping, Moves, Ends, Others, Keeps, SameFiles
<1>13. CASE UNCHANGED partitionVars
  BY <1>0, <1>13 DEF partitionVars, LoadedInv, LoadedOf, Looping, Moves, Ends, Others, Keeps, SameFiles
<1> QED BY <1>1, <1>2, <1>3, <1>4, <1>5, <1>6, <1>7, <1>8, <1>9, <1>10, <1>11, <1>12, <1>13
        DEF PartitionNext, Step

\* What a step does to an output: nothing once it has a manifest.
LEMMA OutputStep ==
  ASSUME IInv, [PartitionNext]_partitionVars, NEW o \in Outputs
  PROVE  /\ out[o].manifest # "none" => out'[o] = out[o]
         /\ out[o].manifest = "none" /\ out'[o].manifest # "none" =>
              LET seen == {out'[o].rows[i].key : i \in DOMAIN out'[o].rows}
              IN  /\ seen = ToSet(out'[o].job.expected)
                  /\ out'[o].manifest = IF seen = FullKeys THEN "FULL_FAMILY" ELSE "PARTITION"
<1>0. TypeInv /\ OwnInv /\ YieldInv
  BY DEF IInv
<1>1. ASSUME NEW p \in Processes, Open(p)
      PROVE  (out[o].manifest # "none" => out'[o] = out[o]) /\ out'[o].manifest = out[o].manifest
  BY <1>0, <1>1, OpenEffect DEF OwnInv
<1>2. ASSUME NEW p \in Processes, Take(p)
      PROVE  (out[o].manifest # "none" => out'[o] = out[o]) /\ out'[o].manifest = out[o].manifest
  <2>1. CASE Takes(p)
    <3>1. out[process[p].out].manifest = "none"
      BY <1>0, <2>1 DEF Takes, OwnInv
    <3> QED BY <2>1, <3>1 DEF Takes
  <2> QED BY <1>0, <1>2, <2>1, TakeRows
<1>3. ASSUME NEW p \in Processes, Complete(p)
      PROVE  /\ out[o].manifest # "none" => out'[o] = out[o]
             /\ out[o].manifest = "none" /\ out'[o].manifest # "none" =>
                  LET seen == {out'[o].rows[i].key : i \in DOMAIN out'[o].rows}
                  IN  /\ seen = ToSet(out'[o].job.expected)
                      /\ out'[o].manifest = IF seen = FullKeys THEN "FULL_FAMILY" ELSE "PARTITION"
  <2>1. CASE o # process[p].out
    BY <1>0, <1>3, <2>1, CompleteEffect
  <2>2. CASE o = process[p].out
    <3>1. out[o].manifest = "none" /\ out[o].job = process[p].job
      BY <1>0, <1>3, <2>2, CompleteEffect DEF OwnInv
    <3>2. out'[o].rows = out[o].rows /\ out'[o].job = out[o].job
      BY <1>0, <1>3, <2>2, CompleteEffect
    <3>3. LET seen == {out[o].rows[i].key : i \in DOMAIN out[o].rows}
          IN  out'[o].manifest # out[o].manifest =>
                /\ seen = ToSet(out[o].job.expected)
                /\ out'[o].manifest = IF seen = FullKeys THEN "FULL_FAMILY" ELSE "PARTITION"
      <4> DEFINE q == process[p].out
                 seen == {out[q].rows[i].key : i \in DOMAIN out[q].rows}
      <4>1. out'[q].manifest # out[q].manifest =>
              /\ seen = ToSet(process[p].job.expected)
              /\ out'[q].manifest = IF seen = FullKeys THEN "FULL_FAMILY" ELSE "PARTITION"
        BY <1>0, <1>3, CompleteEffect
      <4> QED BY <2>2, <3>1, <4>1
    <3> QED BY <3>1, <3>2, <3>3, Zenon
  <2> QED BY <2>1, <2>2
<1>4. ASSUME NEW p \in Processes, Begin(p) PROVE out' = out
  BY <1>0, <1>4, BeginEffect
<1>5. ASSUME NEW p \in Processes, Configure(p) PROVE out' = out
  BY <1>0, <1>5, ConfigureEffect
<1>6. ASSUME NEW p \in Processes, Load(p) PROVE out' = out
  BY <1>0, <1>6, LoadEffect
<1>7. ASSUME NEW p \in Processes, Visit(p) PROVE out' = out
  BY <1>0, <1>7, VisitEffect
<1>8. ASSUME NEW p \in Processes, Replace(p) PROVE out' = out
  BY <1>0, <1>8, ReplaceEffect
<1>9. ASSUME NEW p \in Processes, Exhaust(p) PROVE out' = out
  BY <1>0, <1>9, ExhaustEffect
<1>10. ASSUME NEW p \in Processes, Kill(p) PROVE out' = out
  BY <1>0, <1>10, KillEffect
<1>11. CASE Clean \/ ChangeData \/ ChangeSoftware \/ UNCHANGED partitionVars
  <2>1. out' = out
    BY <1>11 DEF Clean, ChangeData, ChangeSoftware, partitionVars
  <2> QED BY <2>1
<1> QED BY <1>1, <1>2, <1>3, <1>4, <1>5, <1>6, <1>7, <1>8, <1>9, <1>10, <1>11
        DEF PartitionNext, Step

LEMMA FinishedStep ==
  ASSUME IInv, [PartitionNext]_partitionVars
  PROVE  FinishedInv'
<1>0. FinishedInv
  BY DEF IInv
<1> SUFFICES ASSUME NEW o \in Outputs, out'[o].manifest # "none"
             PROVE  LET keys == {out'[o].rows[i].key : i \in DOMAIN out'[o].rows}
                    IN  /\ keys = ToSet(out'[o].job.expected)
                        /\ out'[o].manifest = "FULL_FAMILY" => keys = FullKeys
  BY DEF FinishedInv
<1>1. CASE out[o].manifest # "none"
  <2>1. out'[o] = out[o]
    BY <1>1, OutputStep
  <2> QED BY <1>0, <1>1, <2>1 DEF FinishedInv
<1>2. CASE out[o].manifest = "none"
  <2>1. LET seen == {out'[o].rows[i].key : i \in DOMAIN out'[o].rows}
        IN  /\ seen = ToSet(out'[o].job.expected)
            /\ out'[o].manifest = IF seen = FullKeys THEN "FULL_FAMILY" ELSE "PARTITION"
    BY <1>2, OutputStep, Zenon
  <2> QED BY <2>1
<1> QED BY <1>1, <1>2

DirType == [lock : Processes \cup {Nobody, Orphan}, config : {Absent, Torn} \cup Configs,
            done : SUBSET Checkpoints, pending : SUBSET [config : Configs, key : AllKeys]]
OutType == [exists : BOOLEAN, rows : Seq(Results), manifest : {"none", "FULL_FAMILY", "PARTITION"},
            job : Jobs \cup {Absent}]

LEMMA FailTyped ==
  ASSUME TypeInv, NEW p \in Processes, Fail(p)
  PROVE  process' \in [Processes -> {Idle} \cup Exporting]
BY DEF TypeInv, Fail

LEMMA UnlockTyped ==
  ASSUME TypeInv, Unlock
  PROVE  dir' \in DirType
BY DEF TypeInv, Unlock, DirType

LEMMA MoveTyped ==
  ASSUME TypeInv, NEW p \in Processes, process[p].at # "idle", NEW place \in Places \ {"idle"},
         process' = [process EXCEPT ![p].at = place]
  PROVE  process' \in [Processes -> {Idle} \cup Exporting]
<1>1. process[p] \in Exporting
  BY Fields
<1>2. [process[p] EXCEPT !.at = place] \in Exporting
  BY <1>1 DEF Exporting
<1> QED BY <1>2 DEF TypeInv

LEMMA AdvanceTyped ==
  ASSUME NEW x \in Exporting, NEW n \in Nat, NEW place \in Places \ {"idle"}
  PROVE  [x EXCEPT !.next = n, !.at = place] \in Exporting
BY DEF Exporting

\* The key at hand, and the result computed for it.
LEMMA CurrentTyped ==
  ASSUME TypeInv, JobInv, NEW p \in Processes, process[p].at \in Looping
  PROVE  LET x == process[p]
             k == x.job.keys[x.next]
         IN  /\ k \in AllKeys /\ k[1] \in Symbols
             /\ ResultOf(k, x.job.family, x.loaded) \in Results
<1> DEFINE x == process[p]
           k == x.job.keys[x.next]
<1>1. x.job \in Jobs /\ x.loaded \in Nat /\ x.next \in 1..Len(x.job.keys)
      /\ partition_keys(x.job)
  BY Fields DEF JobInv, Running, Looping
<1>2. x.job.keys \in Seq(AllKeys) /\ x.job.family \in Softwares
  BY <1>1, JobFields
<1>3. k \in AllKeys
  BY <1>1, <1>2
<1>4. k \in ToSet(x.job.keys)
  BY <1>1, <1>2 DEF ToSet
<1>5. k \in FullKeys
  BY <1>1, <1>4 DEF partition_keys
<1> QED BY <1>1, <1>2, <1>3, <1>5 DEF Symbols, ResultOf, Results

LEMMA TypeStep ==
  ASSUME IInv, [PartitionNext]_partitionVars
  PROVE  TypeInv'
<1>0. TypeInv /\ JobInv /\ YieldInv
  BY DEF IInv
<1>a. SUFFICES /\ dir' \in DirType
               /\ out' \in [Outputs -> OutType]
               /\ process' \in [Processes -> {Idle} \cup Exporting]
               /\ data' \in [Symbols -> Nat]
  BY DEF TypeInv, DirType, OutType
<1> DEFINE Goal == /\ dir' \in DirType
                   /\ out' \in [Outputs -> OutType]
                   /\ process' \in [Processes -> {Idle} \cup Exporting]
                   /\ data' \in [Symbols -> Nat]
<1>b. dir \in DirType /\ out \in [Outputs -> OutType] /\ data \in [Symbols -> Nat]
      /\ process \in [Processes -> {Idle} \cup Exporting]
  BY <1>0 DEF TypeInv, DirType, OutType
<1>1. ASSUME NEW p \in Processes, Open(p) PROVE Goal
  <2>1. PICK j \in Jobs, o \in Outputs :
          /\ out' = [out EXCEPT ![o].exists = TRUE, ![o].job = j]
          /\ process' = [process EXCEPT ![p] = [at |-> "opened", job |-> j, out |-> o, next |-> 1,
                                                loaded |-> 0, result |-> Absent]]
    BY <1>1 DEF Open
  <2>2. dir' = dir /\ data' = data
    BY <1>1 DEF Open
  <2>3. [at |-> "opened", job |-> j, out |-> o, next |-> 1, loaded |-> 0, result |-> Absent] \in Exporting
    BY DEF Exporting, Places
  <2>4. process' \in [Processes -> {Idle} \cup Exporting]
    BY <1>b, <2>1, <2>3
  <2>5. out' \in [Outputs -> OutType]
    BY <1>b, <2>1 DEF OutType
  <2> QED BY <1>b, <2>2, <2>4, <2>5
<1>2. ASSUME NEW p \in Processes, Begin(p) PROVE Goal
  <2>1. out' = out /\ data' = data /\ process[p].at = "opened"
    BY <1>2 DEF Begin, At
  <2>2. CASE dir' = [dir EXCEPT !.lock = p] /\ process' = [process EXCEPT ![p].at = "configuring"]
    <3>1. dir' \in DirType
      BY <1>b, <2>2 DEF DirType
    <3>2. process' \in [Processes -> {Idle} \cup Exporting]
      BY <1>0, <2>1, <2>2, MoveTyped DEF Places
    <3> QED BY <1>b, <2>1, <3>1, <3>2
  <2>3. CASE Fail(p) /\ dir' = dir
    BY <1>0, <1>b, <2>1, <2>3, FailTyped
  <2> QED BY <1>2, <2>2, <2>3 DEF Begin, Goto
<1>3. ASSUME NEW p \in Processes, Configure(p) PROVE Goal
  <2>1. out' = out /\ data' = data /\ process[p].at = "configuring"
    BY <1>3 DEF Configure, At
  <2>2. CASE dir' = [dir EXCEPT !.config = Config(process[p].job)]
             /\ process' = [process EXCEPT ![p].at = "loading"]
    <3>1. Config(process[p].job) \in Configs
      BY <1>0, <2>1, Fields, JobFields
    <3>2. dir' \in DirType
      BY <1>b, <2>2, <3>1 DEF DirType
    <3>3. process' \in [Processes -> {Idle} \cup Exporting]
      BY <1>0, <2>1, <2>2, MoveTyped DEF Places
    <3> QED BY <1>b, <2>1, <3>2, <3>3
  <2>3. CASE Fail(p) /\ Unlock
    BY <1>0, <1>b, <2>1, <2>3, FailTyped, UnlockTyped
  <2> QED BY <1>3, <2>2, <2>3 DEF Configure, Goto
<1>4. ASSUME NEW p \in Processes, Load(p) PROVE Goal
  <2> DEFINE x == process[p]
             k == x.job.keys[x.next]
             new == IF x.next > 1 /\ SamePair(x.job.keys[x.next - 1], k) THEN x.loaded ELSE data[k[1]]
  <2>1. /\ x.at = "loading" /\ UNCHANGED <<dir, out, data>>
        /\ process' = [process EXCEPT ![p].at = "visiting", ![p].loaded = new]
    BY <1>4 DEF Load, At
  <2>2. new \in Nat /\ x \in Exporting
    <3>1. x.loaded \in Nat /\ x \in Exporting
      BY <1>0, <2>1, Fields
    <3>2. k[1] \in Symbols
      BY <1>0, <2>1, CurrentTyped DEF Looping
    <3> QED BY <1>b, <3>1, <3>2
  <2> HIDE DEF new
  <2>3. [x EXCEPT !.at = "visiting", !.loaded = new] \in Exporting
    BY <2>2 DEF Exporting, Places
  <2>4. process' \in [Processes -> {Idle} \cup Exporting]
    BY <1>b, <2>1, <2>3
  <2> QED BY <1>b, <2>1, <2>4
<1>5. ASSUME NEW p \in Processes, Visit(p) PROVE Goal
  <2> DEFINE x == process[p]
             k == x.job.keys[x.next]
             c == Config(x.job)
             found == Found(c, k)
             name == [config |-> c, key |-> k]
  <2>1. x.at = "visiting" /\ out' = out /\ data' = data
    BY <1>5 DEF Visit, At
  <2>2. CASE /\ found # {}
             /\ process' = [process EXCEPT ![p].at = "yielded",
                                           ![p].result = (CHOOSE d \in found : TRUE).result]
             /\ UNCHANGED dir
    <3> DEFINE new == CHOOSE d \in found : TRUE
    <3>1. new \in dir.done
      BY <2>2 DEF Found
    <3>2. new.result \in Results
      BY <1>0, <3>1 DEF TypeInv, Checkpoints
    <3>3. x \in Exporting
      BY <1>0, <2>1, Fields
    <3> HIDE DEF new
    <3>4. [x EXCEPT !.at = "yielded", !.result = new.result] \in Exporting
      BY <3>2, <3>3 DEF Exporting, Places
    <3>5. process' \in [Processes -> {Idle} \cup Exporting]
      BY <1>b, <2>2, <3>4 DEF new
    <3> QED BY <1>b, <2>1, <2>2, <3>5
  <2>3. CASE Fail(p) /\ Unlock
    BY <1>0, <1>b, <2>1, <2>3, FailTyped, UnlockTyped
  <2>4. CASE dir' = [dir EXCEPT !.pending = @ \cup {name}] /\ Goto(p, "replacing")
    <3>1. name \in [config : Configs, key : AllKeys]
      BY <1>0, <2>1, Fields, JobFields, CurrentTyped DEF Looping
    <3> HIDE DEF name
    <3>2. dir' \in DirType
      BY <1>b, <2>4, <3>1 DEF DirType
    <3>3. process' \in [Processes -> {Idle} \cup Exporting]
      BY <1>0, <2>1, <2>4, MoveTyped DEF Places, Goto
    <3> QED BY <1>b, <2>1, <3>2, <3>3
  <2> QED BY <1>5, <2>2, <2>3, <2>4 DEF Visit
<1>6. ASSUME NEW p \in Processes, Replace(p) PROVE Goal
  <2> DEFINE x == process[p]
             k == x.job.keys[x.next]
             r == ResultOf(k, x.job.family, x.loaded)
             made == [config |-> Config(x.job), key |-> k, input |-> x.loaded, result |-> r]
             name == [config |-> Config(x.job), key |-> k]
  <2>1. /\ x.at = "replacing" /\ out' = out /\ data' = data
        /\ dir' = [dir EXCEPT !.pending = @ \ {name}, !.done = @ \cup {made}]
        /\ process' = [process EXCEPT ![p].at = "yielded", ![p].result = r]
    BY <1>6 DEF Replace, At
  <2>2. x \in Exporting /\ x.loaded \in Nat /\ Config(x.job) \in Configs /\ k \in AllKeys /\ r \in Results
    BY <1>0, <2>1, Fields, JobFields, CurrentTyped DEF Looping
  <2> HIDE DEF r, k
  <2>3. made \in Checkpoints
    BY <2>2 DEF Checkpoints
  <2> HIDE DEF made, name
  <2>4. dir' \in DirType
    BY <1>b, <2>1, <2>3 DEF DirType
  <2>5. [x EXCEPT !.at = "yielded", !.result = r] \in Exporting
    BY <2>2 DEF Exporting, Places
  <2>6. process' \in [Processes -> {Idle} \cup Exporting]
    BY <1>b, <2>1, <2>5
  <2> QED BY <1>b, <2>1, <2>4, <2>6
<1>7. ASSUME NEW p \in Processes, Take(p) PROVE Goal
  <2> DEFINE x == process[p]
             rows == out[x.out].rows
             place == IF x.next = Len(x.job.keys) THEN "exhausted" ELSE "loading"
  <2>1. x.at = "yielded" /\ data' = data /\ x \in Exporting /\ x.out \in Outputs
    BY <1>0, <1>7, Fields DEF Take, At
  <2>2. CASE /\ out' = [out EXCEPT ![x.out].rows = Append(@, x.result)]
             /\ process' = [process EXCEPT ![p].next = @ + 1, ![p].at = place]
             /\ UNCHANGED dir
    <3>1. x.result \in Results
      BY <1>0, <2>1 DEF YieldInv, TypeInv, Checkpoints
    <3>2. Append(rows, x.result) \in Seq(Results)
      BY <1>b, <2>1, <3>1 DEF OutType
    <3>3. [out[x.out] EXCEPT !.rows = Append(rows, x.result)] \in OutType
      <4> DEFINE more == Append(rows, x.result)
      <4>1. out[x.out] \in OutType /\ more \in Seq(Results)
        BY <1>b, <2>1, <3>2
      <4> HIDE DEF more
      <4>2. [out[x.out] EXCEPT !.rows = more] \in OutType
        BY <4>1 DEF OutType
      <4> QED BY <4>2 DEF more
    <3>4. out' \in [Outputs -> OutType]
      BY <1>b, <2>1, <2>2, <3>3
    <3>5. [x EXCEPT !.next = x.next + 1, !.at = place] \in Exporting
      <4>1. place \in Places \ {"idle"} /\ x.next + 1 \in Nat
        BY <1>0, <2>1, Fields DEF Places
      <4> QED BY <2>1, <4>1, AdvanceTyped
    <3>6. process' \in [Processes -> {Idle} \cup Exporting]
      BY <1>b, <2>2, <3>5
    <3> QED BY <1>b, <2>1, <2>2, <3>4, <3>6
  <2>3. CASE Fail(p) /\ Unlock /\ UNCHANGED out
    BY <1>0, <1>b, <2>1, <2>3, FailTyped, UnlockTyped
  <2> QED BY <1>7, <2>2, <2>3 DEF Take
<1>8. ASSUME NEW p \in Processes, Exhaust(p) PROVE Goal
  <2>1. process[p].at = "exhausted" /\ Unlock /\ UNCHANGED <<out, data>>
        /\ process' = [process EXCEPT ![p].at = "closing"]
    BY <1>8 DEF Exhaust, At, Goto
  <2>2. process' \in [Processes -> {Idle} \cup Exporting]
    BY <1>0, <2>1, MoveTyped DEF Places
  <2> QED BY <1>0, <1>b, <2>1, <2>2, UnlockTyped
<1>9. ASSUME NEW p \in Processes, Complete(p) PROVE Goal
  <2> DEFINE x == process[p]
             seen == {out[x.out].rows[i].key : i \in DOMAIN out[x.out].rows}
             new == IF seen = FullKeys THEN "FULL_FAMILY" ELSE "PARTITION"
  <2>1. x.out \in Outputs /\ Fail(p) /\ UNCHANGED <<dir, data>>
    BY <1>0, <1>9, Fields DEF Complete, At
  <2>2. out' = [out EXCEPT ![x.out].manifest = new] \/ out' = out
    BY <1>9 DEF Complete
  <2>3. new \in {"none", "FULL_FAMILY", "PARTITION"}
    OBVIOUS
  <2> HIDE DEF new
  <2>4. out' \in [Outputs -> OutType]
    BY <1>b, <2>1, <2>2, <2>3 DEF OutType
  <2> QED BY <1>0, <1>b, <2>1, <2>4, FailTyped
<1>10. ASSUME NEW p \in Processes, Kill(p) PROVE Goal
  BY <1>0, <1>b, <1>10, KillEffect, FailTyped DEF Kill, DirType
<1>11. CASE Clean
  BY <1>0, <1>b, <1>11, CleanEffect DEF DirType
<1>12. CASE ChangeData
  BY <1>b, <1>12 DEF ChangeData
<1>13. CASE ChangeSoftware \/ UNCHANGED partitionVars
  BY <1>b, <1>13 DEF ChangeSoftware, partitionVars
<1> QED BY <1>1, <1>2, <1>3, <1>4, <1>5, <1>6, <1>7, <1>8, <1>9, <1>10, <1>11, <1>12, <1>13
        DEF PartitionNext, Step

-----------------------------------------------------------------------------
LEMMA InitInv ==
  ASSUME PartitionInit
  PROVE  IInv
<1>1. dir.lock = Nobody /\ dir.config = Absent /\ dir.done = {} /\ dir.pending = {}
  BY DEF PartitionInit
<1>2. \A o \in Outputs : ~out[o].exists /\ out[o].rows = <<>> /\ out[o].manifest = "none"
  BY DEF PartitionInit, NoRows
<1>3. \A p \in Processes : process[p].at = "idle"
  BY DEF PartitionInit, Idle
<1>4. TypeInv
  <2>1. dir \in [lock : Processes \cup {Nobody, Orphan}, config : {Absent, Torn} \cup Configs,
                 done : SUBSET Checkpoints, pending : SUBSET [config : Configs, key : AllKeys]]
    BY DEF PartitionInit
  <2>2. out \in [Outputs -> [exists : BOOLEAN, rows : Seq(Results),
                             manifest : {"none", "FULL_FAMILY", "PARTITION"},
                             job : Jobs \cup {Absent}]]
    BY DEF PartitionInit, NoRows
  <2> QED BY <2>1, <2>2 DEF TypeInv, PartitionInit
<1>5. \A o \in Outputs : 1..Len(out[o].rows) = {} /\ DOMAIN out[o].rows = {}
  BY <1>2
<1>6. LockInv /\ JobInv /\ ConfigInv /\ FreshInv /\ YieldInv /\ RowsInv /\ LoadedInv
  BY <1>3 DEF LockInv, JobInv, ConfigInv, FreshInv, YieldInv, RowsInv, LoadedInv, Running, Looping
<1>7. DoneInv
  BY <1>1 DEF DoneInv
<1>8. OwnInv
  BY <1>2, <1>3 DEF OwnInv
<1>9. SourceInv /\ DistinctInv /\ OneDataPerPair
  BY <1>5 DEF SourceInv, DistinctInv, OneDataPerPair
<1>10. FinishedInv
  BY <1>2 DEF FinishedInv
<1> QED BY <1>4, <1>6, <1>7, <1>8, <1>9, <1>10 DEF IInv

LEMMA IInvStep ==
  ASSUME IInv, [PartitionNext]_partitionVars
  PROVE  IInv'
BY TypeStep, LockStep, JobStep, ConfigStep, DoneStep, FreshStep, YieldStep, OwnStep, RowsStep,
   LoadedStep, SourceStep, DistinctStep, FinishedStep, OneDataStep DEF IInv

\* As many different keys as rows.
LEMMA KeysCounted ==
  ASSUME NEW rows \in Seq(Results),
         \A i, j \in 1..Len(rows) : i # j => rows[i].key # rows[j].key
  PROVE  Cardinality({rows[i].key : i \in DOMAIN rows}) = Len(rows)
<1> DEFINE n == Len(rows)
           keys == {rows[i].key : i \in DOMAIN rows}
           f == [i \in 1..n |-> rows[i].key]
<1>1. n \in Nat /\ DOMAIN rows = 1..n
  OBVIOUS
<1>2. f \in [1..n -> keys] /\ \A t \in keys : \E i \in 1..n : f[i] = t
  BY <1>1
<1>3. IsInjective(f)
  BY <1>1 DEF IsInjective
<1>4. f \in Bijection(1..n, keys)
  BY <1>2, <1>3 DEF Bijection, Injection, Surjection
<1>5. ExistsBijection(1..n, keys)
  BY <1>4 DEF ExistsBijection
<1> HIDE DEF keys, n
<1>6. Cardinality(keys) = n
  BY <1>1, <1>5, FS_CountingElements
<1> QED BY <1>6 DEF keys, n

LEMMA IInvSound ==
  ASSUME IInv
  PROVE  ExportsSound
<1>0. TypeInv /\ LockInv /\ DoneInv /\ SourceInv /\ DistinctInv /\ FinishedInv /\ OneDataPerPair
  BY DEF IInv
<1>d. \A o \in Outputs : out[o].rows \in Seq(Results) /\ DOMAIN out[o].rows = 1..Len(out[o].rows)
  BY <1>0 DEF TypeInv
<1>1. PartitionTypeOK
  <2>1. dir.lock \in Processes \cup {Nobody, Orphan}
        /\ dir.config.is \in {"absent", "torn", "config"}
    BY <1>0 DEF TypeInv, Configs, Config, Absent, Torn
  <2>2. \A p \in Processes : /\ process[p].at \in Places
                             /\ process[p].at \notin {"idle", "opened", "closing"} => dir.lock = p
    BY <1>0, Fields DEF LockInv, Running, Looping, Places
  <2>3. \A d, e \in dir.done : d.config = e.config /\ d.key = e.key => d = e
    BY <1>0 DEF DoneInv
  <2> QED BY <2>1, <2>2, <2>3 DEF PartitionTypeOK
<1>2. ManifestComplete
  <2> SUFFICES ASSUME NEW o \in Outputs, out[o].manifest # "none"
               PROVE  LET rows == out[o].rows
                          keys == {rows[i].key : i \in DOMAIN rows}
                      IN  /\ keys = ToSet(out[o].job.expected)
                          /\ \A i \in DOMAIN rows : rows[i].family = out[o].job.family
                          /\ Cardinality(keys) = Len(rows)
                          /\ out[o].manifest = "FULL_FAMILY" => keys = FullKeys
    BY DEF ManifestComplete
  <2> DEFINE rows == out[o].rows
             keys == {rows[i].key : i \in DOMAIN rows}
  <2>1. keys = ToSet(out[o].job.expected) /\ (out[o].manifest = "FULL_FAMILY" => keys = FullKeys)
    BY <1>0 DEF FinishedInv
  <2>2. \A i \in DOMAIN rows : rows[i].family = out[o].job.family
    BY <1>0, <1>d DEF DistinctInv
  <2>3. Cardinality(keys) = Len(rows)
    <3>1. rows \in Seq(Results) /\ \A i, j \in 1..Len(rows) : i # j => rows[i].key # rows[j].key
      BY <1>0, <1>d DEF DistinctInv
    <3> QED BY <3>1, KeysCounted
  <2> QED BY <2>1, <2>2, <2>3
<1>3. ExportsAgree
  <2> SUFFICES ASSUME NEW o \in Outputs, NEW q \in Outputs,
                      NEW i \in DOMAIN out[o].rows, NEW j \in DOMAIN out[q].rows,
                      out[o].rows[i].key = out[q].rows[j].key
               PROVE  out[o].rows[i].data = out[q].rows[j].data
    BY DEF ExportsAgree
  <2>1. PICK d \in dir.done : d.result = out[o].rows[i]
    BY <1>0, <1>d DEF SourceInv
  <2>2. PICK e \in dir.done : e.result = out[q].rows[j]
    BY <1>0, <1>d DEF SourceInv
  <2>3. d = e
    BY <1>0, <2>1, <2>2 DEF DoneInv
  <2> QED BY <2>1, <2>2, <2>3
<1> QED BY <1>0, <1>1, <1>2, <1>3 DEF ExportsSound

THEOREM IInvHolds == PartitionSpec => []IInv
<1>1. IInv /\ [PartitionNext]_partitionVars => IInv'
  BY IInvStep
<1> QED BY <1>1, InitInv, PTL DEF PartitionSpec

\* Whatever processes compete for the job directory, are killed and start again, and whenever
\* data and software change between two attempts: a manifest stands for a complete export, all
\* results of a symbol and window come from one version of the data, and no two exports of the
\* directory disagree about a key (phase1415/jobs.py run(), hardening.py export()).
THEOREM ExportsAreSound == PartitionSpec => []ExportsSound
BY IInvHolds, IInvSound, PTL

\* An output that has its manifest is never written again.
THEOREM FinishedExportsAreFinal == PartitionSpec => FinishedIsFinal
<1> DEFINE Final == \A o \in Outputs : out[o].manifest # "none" => out'[o] = out[o]
<1>1. IInv /\ [PartitionNext]_partitionVars => [Final]_partitionVars
  BY OutputStep
<1>2. [][Final]_partitionVars => FinishedIsFinal
  BY DEF FinishedIsFinal
<1> HIDE DEF Final
<1> QED BY <1>1, <1>2, IInvHolds, PTL DEF PartitionSpec

-----------------------------------------------------------------------------
(***************************************************************************)
(* Research jobs.  The lock makes the busy worker the only one, so a step  *)
(* of a worker concerns that worker and the directory alone.  Checkpoints  *)
(* are determined by the plan (RowsInv): what holds of the rows of one job *)
(* holds of the rows of the directory, whichever attempts wrote them.      *)
(***************************************************************************)
Busy == {"plan", "symbols", "drafting", "summing", "finished"}
WorkerStates == [pc : Busy \cup {"idle", "dead"}, job : Selections \cup {NoJob}, at : Nat,
                 next : 1..(Len(Family) + 1)]

\* A directory has the nine entries execute() reads and writes.
DirectoryShape ==
  directory = [lock |-> directory.lock, plan |-> directory.plan, bound |-> directory.bound,
               checkpoints |-> directory.checkpoints, pending |-> directory.pending,
               failures |-> directory.failures, drafts |-> directory.drafts,
               reports |-> directory.reports, summary |-> directory.summary]

ResearchTypeInv ==
  /\ now \in 0..LastTime /\ store \subseteq Requests /\ attempts \in 0..MaxAttempts
  /\ DirectoryShape /\ directory.lock \in Workers \cup {Unlocked} /\ directory.bound \in BOOLEAN
  /\ worker \in [Workers -> WorkerStates]

OneClass(job) == job \in Selections /\ Cardinality(ReadyClasses(job)) <= 1

\* A busy worker has the lock and a job it validated.
OwnerOf(w) == worker[w].pc \in Busy => directory.lock = w /\ OneClass(worker[w].job)

\* Past its plan, the worker's job is the directory's, and the symbols it passed have checkpoints;
\* it sums up only what is not summed up.
PassedOf(w) ==
  /\ worker[w].pc = "plan" => worker[w].next = 1
  /\ worker[w].pc \in Busy \ {"plan"} =>
       /\ directory.bound /\ directory.plan = worker[w].job
       /\ \A i \in 1..(worker[w].next - 1) : Family[i] \in DOMAIN directory.checkpoints
  /\ worker[w].pc \in {"drafting", "summing"} =>
       worker[w].next = Len(Family) + 1 /\ directory.summary = <<>>

PlanInv == directory.bound => OneClass(directory.plan)

CheckpointInv ==
  \A s \in DOMAIN directory.checkpoints :
    /\ directory.bound /\ s \in Range(Family)
    /\ directory.checkpoints[s] = [job |-> directory.plan, rows |-> CheckpointRows(directory.plan, s)]

SummaryInv ==
  directory.summary # <<>> =>
    /\ directory.bound /\ directory.summary.job = directory.plan
    /\ DOMAIN directory.checkpoints = Range(Family)
    /\ directory.summary.statuses = Statuses(directory.checkpoints)

ContentInv == PlanInv /\ CheckpointInv /\ SummaryInv

ResearchInv ==
  /\ ResearchTypeInv /\ ContentInv
  /\ \A w \in Workers : OwnerOf(w) /\ PassedOf(w)

LEMMA ResearchInvInit == ResearchInit => ResearchInv
<1> SUFFICES ASSUME ResearchInit PROVE ResearchInv
  OBVIOUS
<1>1. DOMAIN directory.checkpoints = {} /\ directory.summary = <<>> /\ ~directory.bound
  BY DEF ResearchInit
<1>2. ContentInv
  BY <1>1 DEF ContentInv, PlanInv, CheckpointInv, SummaryInv
<1>3. Len(Family) \in Nat
  BY JobsAssumption
<1>4. worker \in [Workers -> WorkerStates]
  BY <1>3 DEF ResearchInit, WorkerStates
<1>5. ResearchTypeInv
  BY <1>4, JobsAssumption DEF ResearchInit, ResearchTypeInv, DirectoryShape
<1>6. \A w \in Workers : OwnerOf(w) /\ PassedOf(w)
  BY DEF ResearchInit, OwnerOf, PassedOf, Busy
<1> QED BY <1>2, <1>5, <1>6 DEF ResearchInv

\* Only one worker is busy.
LEMMA BusyAlone ==
  ASSUME ResearchInv, NEW w \in Workers, NEW v \in Workers, worker[w].pc \in Busy, worker[v].pc \in Busy
  PROVE  v = w
BY DEF ResearchInv, OwnerOf

\* Content that does not change stays sound.
LEMMA ContentKept ==
  ASSUME ContentInv, directory'.plan = directory.plan, directory'.bound = directory.bound,
         directory'.checkpoints = directory.checkpoints, directory'.summary = directory.summary
  PROVE  ContentInv'
<1>1. PlanInv'
  BY DEF ContentInv, PlanInv, OneClass
<1>2. CheckpointInv'
  BY DEF ContentInv, CheckpointInv
<1>3. SummaryInv'
  BY DEF ContentInv, SummaryInv
<1> QED BY <1>1, <1>2, <1>3 DEF ContentInv

\* A step of the busy worker concerns nobody else.
LEMMA BusyStep ==
  ASSUME ResearchInv, NEW w \in Workers, worker[w].pc \in Busy,
         UNCHANGED <<now, store, attempts>>,
         worker' \in [Workers -> WorkerStates], \A v \in Workers : v # w => worker'[v] = worker[v],
         DirectoryShape', directory'.lock \in Workers \cup {Unlocked}, directory'.bound \in BOOLEAN,
         ContentInv', OwnerOf(w)', PassedOf(w)'
  PROVE  ResearchInv'
<1>1. ASSUME NEW v \in Workers PROVE OwnerOf(v)' /\ PassedOf(v)'
  <2>1. CASE v = w
    BY <2>1
  <2>2. CASE v # w
    <3>1. worker[v].pc \notin Busy /\ worker'[v] = worker[v]
      BY <2>2, BusyAlone
    <3> QED BY <3>1 DEF OwnerOf, PassedOf, Busy
  <2> QED BY <2>1, <2>2
<1>2. ResearchTypeInv'
  BY DEF ResearchInv, ResearchTypeInv
<1> QED BY <1>1, <1>2 DEF ResearchInv

\* A worker that gives up leaves the content and the lock alone.
LEMMA FailKeeps ==
  ASSUME ResearchInv, NEW w \in Workers, worker[w].pc \in Busy, NEW why, FailJob(w, why),
         UNCHANGED <<now, store, attempts>>
  PROVE  ResearchInv'
<1>1. ResearchTypeInv /\ ContentInv
  BY DEF ResearchInv
<1>2. DirectoryShape' /\ directory'.lock = Unlocked /\ directory'.bound = directory.bound
      /\ directory'.plan = directory.plan /\ directory'.checkpoints = directory.checkpoints
      /\ directory'.summary = directory.summary
  BY <1>1 DEF FailJob, ResearchTypeInv, DirectoryShape
<1>3. worker' \in [Workers -> WorkerStates] /\ worker'[w].pc = "idle"
      /\ \A v \in Workers : v # w => worker'[v] = worker[v]
  BY <1>1 DEF FailJob, ResearchTypeInv, WorkerStates
<1>4. ContentInv'
  BY <1>1, <1>2, ContentKept
<1>5. OwnerOf(w)' /\ PassedOf(w)'
  BY <1>3 DEF OwnerOf, PassedOf, Busy
<1> QED BY <1>1, <1>2, <1>3, <1>4, <1>5, BusyStep DEF ResearchTypeInv

\* What GoOn does to the workers.
LEMMA GoOnMoves ==
  ASSUME ResearchInv, NEW w \in Workers, NEW pc \in Busy \cup {"idle", "dead"}, GoOn(w, pc)
  PROVE  /\ worker' \in [Workers -> WorkerStates] /\ worker'[w].pc = pc
         /\ worker'[w].job = worker[w].job /\ worker'[w].next = worker[w].next
         /\ \A v \in Workers : v # w => worker'[v] = worker[v]
BY DEF ResearchInv, ResearchTypeInv, GoOn, WorkerStates

LEMMA PublishPlanKeeps ==
  ASSUME ResearchInv, NEW w \in Workers, PublishPlan(w), UNCHANGED <<now, store, attempts>>
  PROVE  ResearchInv'
<1>1. ResearchTypeInv /\ ContentInv /\ OwnerOf(w) /\ PassedOf(w)
      /\ worker[w].pc = "plan" /\ worker[w].pc \in Busy
  BY DEF ResearchInv, PublishPlan, Busy
<1>2. CASE \E why : FailJob(w, why)
  BY <1>1, <1>2, FailKeeps
<1>3. CASE /\ ~(directory.bound /\ directory.plan # worker[w].job)
           /\ directory' = [directory EXCEPT !.plan = worker[w].job, !.bound = TRUE]
           /\ GoOn(w, "symbols")
  <2>1. DirectoryShape' /\ directory'.lock = directory.lock /\ directory'.bound = TRUE
        /\ directory'.plan = worker[w].job /\ directory'.checkpoints = directory.checkpoints
        /\ directory'.summary = directory.summary
    BY <1>1, <1>3 DEF ResearchTypeInv, DirectoryShape
  <2>2. ASSUME directory.bound PROVE ContentInv'
    BY <1>1, <1>3, <2>1, <2>2, ContentKept DEF ResearchTypeInv
  <2>3. ASSUME ~directory.bound PROVE ContentInv'
    <3>1. PlanInv'
      BY <1>1, <2>1 DEF OwnerOf, PlanInv, OneClass
    <3>2. CheckpointInv' /\ SummaryInv'
      BY <1>1, <2>1, <2>3 DEF ContentInv, CheckpointInv, SummaryInv
    <3> QED BY <3>1, <3>2 DEF ContentInv
  <2>4. worker' \in [Workers -> WorkerStates] /\ worker'[w].pc = "symbols"
        /\ worker'[w].job = worker[w].job /\ worker'[w].next = worker[w].next
        /\ \A v \in Workers : v # w => worker'[v] = worker[v]
    BY <1>3, GoOnMoves DEF Busy
  <2>5. OwnerOf(w)'
    BY <1>1, <2>1, <2>4 DEF OwnerOf, OneClass
  <2>6. worker[w].next = 1
    BY <1>1 DEF PassedOf
  <2>7. PassedOf(w)'
    BY <2>1, <2>4, <2>6 DEF PassedOf
  <2> QED BY <1>1, <2>1, <2>2, <2>3, <2>4, <2>5, <2>7, BusyStep DEF ResearchTypeInv
<1> QED BY <1>2, <1>3 DEF PublishPlan, Publish

LEMMA CheckSymbolKeeps ==
  ASSUME ResearchInv, NEW w \in Workers, CheckSymbol(w), UNCHANGED <<now, store, attempts>>
  PROVE  ResearchInv'
<1> DEFINE s == Family[worker[w].next]
           job == worker[w].job
<1>1. /\ ResearchTypeInv /\ ContentInv /\ OwnerOf(w) /\ PassedOf(w)
      /\ worker[w].pc = "symbols" /\ worker[w].pc \in Busy /\ worker[w].next <= Len(Family)
  BY DEF ResearchInv, CheckSymbol, Busy
<1>2. worker[w].next \in 1..Len(Family) /\ Len(Family) \in Nat
  BY <1>1, JobsAssumption DEF ResearchTypeInv, WorkerStates
<1>3. s \in Range(Family)
  BY <1>2, JobsAssumption DEF Range
<1>4. CASE \E why : FailJob(w, why)
  BY <1>1, <1>4, FailKeeps
<1>5. ASSUME worker' = [worker EXCEPT ![w].next = @ + 1]
      PROVE  /\ worker' \in [Workers -> WorkerStates] /\ worker'[w].pc = "symbols"
             /\ worker'[w].job = job /\ worker'[w].next = worker[w].next + 1
             /\ \A v \in Workers : v # w => worker'[v] = worker[v]
             /\ \A i \in 1..(worker'[w].next - 1) : i \in 1..(worker[w].next - 1) \/ i = worker[w].next
  <2>1. worker[w].next + 1 \in 1..(Len(Family) + 1)
    BY <1>2
  <2>2. worker[w] \in WorkerStates /\ worker \in [Workers -> WorkerStates]
    BY <1>1 DEF ResearchTypeInv
  <2>3. worker' = [worker EXCEPT ![w] = [worker[w] EXCEPT !.next = worker[w].next + 1]]
    BY <1>5, <2>2
  <2>4. [worker[w] EXCEPT !.next = worker[w].next + 1] \in WorkerStates
    BY <2>1, <2>2 DEF WorkerStates
  <2>5. worker'[w] = [worker[w] EXCEPT !.next = worker[w].next + 1]
        /\ worker' \in [Workers -> WorkerStates]
        /\ \A v \in Workers : v # w => worker'[v] = worker[v]
    BY <2>2, <2>3, <2>4
  <2>6. worker'[w].pc = "symbols" /\ worker'[w].job = job /\ worker'[w].next = worker[w].next + 1
    BY <1>1, <2>2, <2>5 DEF WorkerStates
  <2>7. \A i \in 1..(worker'[w].next - 1) : i \in 1..(worker[w].next - 1) \/ i = worker[w].next
    BY <1>2, <2>6
  <2> QED BY <2>5, <2>6, <2>7
<1>6. CASE /\ s \in DOMAIN directory.checkpoints /\ UNCHANGED directory
           /\ worker' = [worker EXCEPT ![w].next = @ + 1]
  <2>1. ContentInv'
    BY <1>1, <1>6, ContentKept
  <2>2. OwnerOf(w)' /\ PassedOf(w)'
    BY <1>1, <1>5, <1>6 DEF OwnerOf, PassedOf, OneClass, Busy
  <2>3. DirectoryShape' /\ directory'.lock \in Workers \cup {Unlocked} /\ directory'.bound \in BOOLEAN
    BY <1>1, <1>6 DEF ResearchTypeInv, DirectoryShape
  <2> QED BY <1>1, <1>5, <1>6, <2>1, <2>2, <2>3, BusyStep
<1>7. CASE /\ s \notin DOMAIN directory.checkpoints
           /\ directory' = [directory EXCEPT !.checkpoints =
                              Put(@, s, [job |-> job, rows |-> CheckpointRows(job, s)])]
           /\ worker' = [worker EXCEPT ![w].next = @ + 1]
  <2> DEFINE c == [job |-> job, rows |-> CheckpointRows(job, s)]
  <2>1. DirectoryShape' /\ directory'.lock = directory.lock /\ directory'.bound = directory.bound
        /\ directory'.plan = directory.plan /\ directory'.summary = directory.summary
        /\ directory'.checkpoints = Put(directory.checkpoints, s, c)
    BY <1>1, <1>7 DEF ResearchTypeInv, DirectoryShape
  <2>2. /\ DOMAIN directory'.checkpoints = DOMAIN directory.checkpoints \cup {s}
        /\ directory'.checkpoints[s] = c
        /\ \A x \in DOMAIN directory.checkpoints :
             x # s => directory'.checkpoints[x] = directory.checkpoints[x]
    <3> DEFINE f == directory.checkpoints
               g == directory'.checkpoints
    <3>1. g = Put(f, s, c)
      BY <2>1
    <3> HIDE DEF s, c, f, g
    <3>2. DOMAIN g = DOMAIN f \cup {s} /\ g[s] = c /\ \A x \in DOMAIN f : x # s => g[x] = f[x]
      BY <3>1 DEF Put
    <3> QED BY <3>2 DEF f, g
  <2>3. directory.bound /\ directory.plan = job
    BY <1>1 DEF PassedOf, Busy
  <2>4. PlanInv'
    BY <1>1, <2>1 DEF ContentInv, PlanInv, OneClass
  <2>5. CheckpointInv'
    <3> SUFFICES ASSUME NEW x \in DOMAIN directory'.checkpoints
                 PROVE  /\ directory'.bound /\ x \in Range(Family)
                        /\ directory'.checkpoints[x] =
                             [job |-> directory'.plan, rows |-> CheckpointRows(directory'.plan, x)]
      BY DEF CheckpointInv
    <3>1. CASE x = s
      BY <1>3, <2>1, <2>2, <2>3, <3>1
    <3>2. CASE x # s
      BY <1>1, <2>1, <2>2, <3>2 DEF ContentInv, CheckpointInv
    <3> QED BY <3>1, <3>2
  <2>6. SummaryInv'
    BY <1>1, <1>3, <1>7, <2>1 DEF ContentInv, SummaryInv
  <2>7. OwnerOf(w)'
    BY <1>1, <1>5, <1>7, <2>1 DEF OwnerOf, OneClass
  <2>8. PassedOf(w)'
    BY <1>1, <1>5, <1>7, <2>1, <2>2, <2>3 DEF PassedOf, Busy
  <2>9. ContentInv'
    BY <2>4, <2>5, <2>6 DEF ContentInv
  <2> QED BY <1>1, <1>5, <1>7, <2>1, <2>7, <2>8, <2>9, BusyStep DEF ResearchTypeInv
<1> QED BY <1>4, <1>6, <1>7 DEF CheckSymbol

\* A step that moves the worker on and leaves the content alone.
LEMMA QuietStep ==
  ASSUME ResearchInv, NEW w \in Workers, worker[w].pc \in Busy,
         NEW pc \in Busy \cup {"idle", "dead"}, GoOn(w, pc), UNCHANGED <<now, store, attempts>>,
         DirectoryShape', directory'.plan = directory.plan, directory'.bound = directory.bound,
         directory'.checkpoints = directory.checkpoints, directory'.summary = directory.summary,
         directory'.lock \in Workers \cup {Unlocked}, pc \in Busy => directory'.lock = directory.lock,
         pc # "plan", pc \in Busy => worker[w].pc # "plan",
         pc \in {"drafting", "summing"} =>
           worker[w].next = Len(Family) + 1 /\ directory.summary = <<>>
  PROVE  ResearchInv'
<1>1. ResearchTypeInv /\ ContentInv /\ OwnerOf(w) /\ PassedOf(w)
  BY DEF ResearchInv
<1>2. worker' \in [Workers -> WorkerStates] /\ worker'[w].pc = pc
      /\ worker'[w].job = worker[w].job /\ worker'[w].next = worker[w].next
      /\ \A v \in Workers : v # w => worker'[v] = worker[v]
  BY GoOnMoves
<1>3. ContentInv'
  BY <1>1, ContentKept
<1>4. OwnerOf(w)'
  BY <1>1, <1>2 DEF OwnerOf, OneClass
<1>5. PassedOf(w)'
  BY <1>1, <1>2 DEF PassedOf, Busy
<1> QED BY <1>1, <1>2, <1>3, <1>4, <1>5, BusyStep DEF ResearchTypeInv

LEMMA ReportKeeps ==
  ASSUME ResearchInv, NEW w \in Workers, OpenReport(w) \/ DraftReports(w) \/ Finish(w),
         UNCHANGED <<now, store, attempts>>
  PROVE  ResearchInv'
<1>1. ResearchTypeInv /\ PassedOf(w) /\ worker[w].pc \in Busy /\ worker[w].pc # "plan"
  BY DEF ResearchInv, OpenReport, DraftReports, Finish, Busy
<1>2. CASE \E why : FailJob(w, why)
  BY <1>1, <1>2, FailKeeps
<1>3. directory.lock \in Workers \cup {Unlocked} /\ Unlocked \in Workers \cup {Unlocked}
  BY <1>1 DEF ResearchTypeInv
<1>4. ASSUME NEW pc \in {"finished", "drafting", "summing"}, GoOn(w, pc),
             pc # "finished" => worker[w].next = Len(Family) + 1 /\ directory.summary = <<>>,
             \/ UNCHANGED directory
             \/ directory' = [directory EXCEPT !.drafts = TRUE]
             \/ directory' = [directory EXCEPT !.reports = TRUE]
      PROVE  ResearchInv'
  <2>1. /\ DirectoryShape' /\ directory'.plan = directory.plan
        /\ directory'.bound = directory.bound /\ directory'.lock = directory.lock
        /\ directory'.checkpoints = directory.checkpoints /\ directory'.summary = directory.summary
    BY <1>1, <1>4 DEF ResearchTypeInv, DirectoryShape
  <2> QED BY <1>1, <1>3, <1>4, <2>1, QuietStep DEF Busy
<1>5. CASE GoOn(w, "idle") /\ directory' = [directory EXCEPT !.lock = Unlocked]
  <2>1. /\ DirectoryShape' /\ directory'.plan = directory.plan
        /\ directory'.bound = directory.bound /\ directory'.lock = Unlocked
        /\ directory'.checkpoints = directory.checkpoints /\ directory'.summary = directory.summary
    BY <1>1, <1>5 DEF ResearchTypeInv, DirectoryShape
  <2> QED BY <1>1, <1>3, <1>5, <2>1, QuietStep DEF Busy
<1>6. CASE OpenReport(w)
  <2>1. worker[w].next = Len(Family) + 1
    BY <1>1, <1>6, JobsAssumption DEF OpenReport, SymbolsDone, ResearchTypeInv, WorkerStates
  <2> QED BY <1>2, <1>4, <1>6, <2>1 DEF OpenReport
<1>7. CASE DraftReports(w)
  <2>1. worker[w].next = Len(Family) + 1 /\ directory.summary = <<>>
    BY <1>1, <1>7 DEF DraftReports, PassedOf
  <2> QED BY <1>2, <1>4, <1>7, <2>1 DEF DraftReports, Publish
<1> QED BY <1>5, <1>6, <1>7 DEF Finish

LEMMA SummaryKeeps ==
  ASSUME ResearchInv, NEW w \in Workers, PublishSummary(w), UNCHANGED <<now, store, attempts>>
  PROVE  ResearchInv'
<1>1. /\ ResearchTypeInv /\ ContentInv /\ OwnerOf(w) /\ PassedOf(w)
      /\ worker[w].pc = "summing" /\ worker[w].pc \in Busy
  BY DEF ResearchInv, PublishSummary, Busy
<1>2. CASE \E why : FailJob(w, why)
  BY <1>1, <1>2, FailKeeps
<1>3. CASE /\ directory' = [directory EXCEPT !.summary =
                              [job |-> worker[w].job, statuses |-> Statuses(directory.checkpoints),
                               qualified |-> Cardinality(Qualified(directory.checkpoints))]]
           /\ GoOn(w, "finished")
  <2>1. /\ DirectoryShape' /\ directory'.plan = directory.plan
        /\ directory'.bound = directory.bound /\ directory'.lock = directory.lock
        /\ directory'.checkpoints = directory.checkpoints
        /\ directory'.summary.job = worker[w].job
        /\ directory'.summary.statuses = Statuses(directory.checkpoints)
    BY <1>1, <1>3 DEF ResearchTypeInv, DirectoryShape
  <2>2. directory.bound /\ directory.plan = worker[w].job
        /\ \A i \in 1..Len(Family) : Family[i] \in DOMAIN directory.checkpoints
    BY <1>1, JobsAssumption DEF PassedOf, Busy
  <2>3. DOMAIN directory.checkpoints = Range(Family)
    <3>1. Range(Family) \subseteq DOMAIN directory.checkpoints
      BY <2>2, JobsAssumption DEF Range
    <3> QED BY <1>1, <3>1 DEF ContentInv, CheckpointInv
  <2>4. SummaryInv'
    BY <2>1, <2>2, <2>3 DEF SummaryInv
  <2>5. PlanInv' /\ CheckpointInv'
    BY <1>1, <2>1 DEF ContentInv, PlanInv, CheckpointInv, OneClass
  <2>6. worker' \in [Workers -> WorkerStates] /\ worker'[w].pc = "finished"
        /\ worker'[w].job = worker[w].job /\ worker'[w].next = worker[w].next
        /\ \A v \in Workers : v # w => worker'[v] = worker[v]
    BY <1>3, GoOnMoves DEF Busy
  <2>7. OwnerOf(w)' /\ PassedOf(w)'
    BY <1>1, <2>1, <2>6 DEF OwnerOf, PassedOf, OneClass, Busy
  <2>8. ContentInv'
    BY <2>4, <2>5 DEF ContentInv
  <2> QED BY <1>1, <2>1, <2>6, <2>7, <2>8, BusyStep DEF ResearchTypeInv
<1> QED BY <1>2, <1>3 DEF PublishSummary, Publish

LEMMA DeathKeeps ==
  ASSUME ResearchInv, NEW w \in Workers, KillWorker(w)
  PROVE  ResearchInv'
<1>1. ResearchTypeInv /\ worker[w].pc \in Busy
  BY DEF ResearchInv, KillWorker, ResearchTypeInv, WorkerStates
<1>2. PICK half : directory' = [directory EXCEPT !.pending = @ \cup half]
  BY DEF KillWorker
<1>3. /\ DirectoryShape' /\ directory'.plan = directory.plan
      /\ directory'.bound = directory.bound /\ directory'.lock = directory.lock
      /\ directory'.checkpoints = directory.checkpoints /\ directory'.summary = directory.summary
  BY <1>1, <1>2 DEF ResearchTypeInv, DirectoryShape
<1>4. GoOn(w, "dead") /\ UNCHANGED <<now, store, attempts>>
  BY DEF KillWorker
<1> QED BY <1>1, <1>3, <1>4, QuietStep DEF Busy, ResearchTypeInv

LEMMA ReviewKeeps ==
  ASSUME ResearchInv, NEW w \in Workers, Review(w)
  PROVE  ResearchInv'
<1>1. ResearchTypeInv /\ ContentInv /\ worker[w].pc = "dead" /\ UNCHANGED <<now, store, attempts>>
  BY DEF ResearchInv, Review
<1>2. PICK clean \in BOOLEAN :
        directory' = [directory EXCEPT !.lock = IF @ = w THEN Unlocked ELSE @,
                                       !.pending = IF clean THEN {} ELSE @,
                                       !.drafts = @ /\ ~clean]
  BY DEF Review
<1>3. /\ DirectoryShape' /\ directory'.plan = directory.plan
      /\ directory'.bound = directory.bound
      /\ directory'.lock = IF directory.lock = w THEN Unlocked ELSE directory.lock
      /\ directory'.checkpoints = directory.checkpoints /\ directory'.summary = directory.summary
  BY <1>1, <1>2 DEF ResearchTypeInv, DirectoryShape
<1>4. worker' \in [Workers -> WorkerStates] /\ worker'[w].pc = "idle"
      /\ \A v \in Workers : v # w => worker'[v] = worker[v]
  BY GoOnMoves DEF Review
<1>5. ContentInv'
  BY <1>1, <1>3, ContentKept
<1>6. ASSUME NEW v \in Workers PROVE OwnerOf(v)' /\ PassedOf(v)'
  <2>1. CASE v = w
    BY <1>4, <2>1 DEF OwnerOf, PassedOf, Busy
  <2>2. CASE v # w
    BY <1>3, <1>4, <2>2 DEF ResearchInv, OwnerOf, PassedOf, OneClass
  <2> QED BY <2>1, <2>2
<1>7. ResearchTypeInv'
  BY <1>1, <1>3, <1>4 DEF ResearchTypeInv
<1> QED BY <1>5, <1>6, <1>7 DEF ResearchInv

LEMMA BeginKeeps ==
  ASSUME ResearchInv, NEW w \in Workers, NEW job \in Selections, BeginJob(w, job)
  PROVE  ResearchInv'
<1>1. /\ ResearchTypeInv /\ ContentInv /\ worker[w].pc = "idle" /\ UNCHANGED <<now, store>>
      /\ attempts < MaxAttempts /\ attempts' = attempts + 1
  BY DEF ResearchInv, BeginJob
<1>2. attempts' \in 0..MaxAttempts
  BY <1>1, JobsAssumption DEF ResearchTypeInv
<1>3. CASE UNCHANGED <<worker, directory>>
  <2>1. ResearchTypeInv'
    BY <1>1, <1>2, <1>3 DEF ResearchTypeInv, DirectoryShape
  <2>2. ContentInv'
    BY <1>1, <1>3, ContentKept
  <2>3. \A v \in Workers : OwnerOf(v)' /\ PassedOf(v)'
    BY <1>3 DEF ResearchInv, OwnerOf, PassedOf, OneClass
  <2> QED BY <2>1, <2>2, <2>3 DEF ResearchInv
<1>4. CASE /\ Validates(job, now) /\ LockFree
           /\ worker' = [worker EXCEPT ![w] = [pc |-> "plan", job |-> job, at |-> now, next |-> 1]]
           /\ directory' = [directory EXCEPT !.lock = w]
  <2>1. /\ DirectoryShape' /\ directory'.plan = directory.plan
        /\ directory'.bound = directory.bound /\ directory'.lock = w
        /\ directory'.checkpoints = directory.checkpoints /\ directory'.summary = directory.summary
    BY <1>1, <1>4 DEF ResearchTypeInv, DirectoryShape
  <2>2. [pc |-> "plan", job |-> job, at |-> now, next |-> 1] \in WorkerStates
    BY <1>1, JobsAssumption DEF ResearchTypeInv, WorkerStates, Busy
  <2>3. worker' \in [Workers -> WorkerStates] /\ worker'[w].pc = "plan" /\ worker'[w].job = job
        /\ worker'[w].next = 1 /\ \A v \in Workers : v # w => worker'[v] = worker[v]
    BY <1>1, <1>4, <2>2 DEF ResearchTypeInv
  <2>4. OneClass(job)
    BY <1>4 DEF Validates, OneClass
  <2>5. \A v \in Workers : worker[v].pc \notin Busy
    BY <1>4, JobsAssumption DEF ResearchInv, OwnerOf, LockFree
  <2>6. ASSUME NEW v \in Workers PROVE OwnerOf(v)' /\ PassedOf(v)'
    <3>1. CASE v = w
      BY <2>1, <2>3, <2>4, <3>1 DEF OwnerOf, PassedOf, OneClass
    <3>2. CASE v # w
      BY <2>3, <2>5, <3>2 DEF OwnerOf, PassedOf, Busy
    <3> QED BY <3>1, <3>2
  <2>7. ContentInv'
    BY <1>1, <2>1, ContentKept
  <2>8. ResearchTypeInv'
    BY <1>1, <1>2, <2>1, <2>3 DEF ResearchTypeInv
  <2> QED BY <2>6, <2>7, <2>8 DEF ResearchInv
<1> QED BY <1>3, <1>4 DEF BeginJob

LEMMA ResearchInductive == ResearchInv /\ [ResearchNext]_researchVars => ResearchInv'
<1> SUFFICES ASSUME ResearchInv, [ResearchNext]_researchVars PROVE ResearchInv'
  OBVIOUS
<1>1. ASSUME UNCHANGED <<directory, worker, attempts>>, now' \in 0..LastTime, store' \subseteq Requests
      PROVE  ResearchInv'
  <2>1. ResearchTypeInv'
    BY <1>1 DEF ResearchInv, ResearchTypeInv, DirectoryShape
  <2>2. ContentInv'
    BY <1>1, ContentKept DEF ResearchInv
  <2>3. \A v \in Workers : OwnerOf(v)' /\ PassedOf(v)'
    BY <1>1 DEF ResearchInv, OwnerOf, PassedOf, OneClass
  <2> QED BY <2>1, <2>2, <2>3 DEF ResearchInv
<1>2. now \in 0..LastTime /\ store \subseteq Requests /\ LastTime \in Nat
  BY JobsAssumption DEF ResearchInv, ResearchTypeInv
<1>3. CASE UNCHANGED researchVars
  BY <1>1, <1>2, <1>3 DEF researchVars
<1>4. ASSUME NEW r \in Requests, import_local(r) \/ Purge(r) PROVE ResearchInv'
  BY <1>1, <1>2, <1>4 DEF import_local, Purge
<1>5. ASSUME TimePasses PROVE ResearchInv'
  <2>1. now' \in 0..LastTime
    BY <1>2, <1>5 DEF TimePasses
  <2> QED BY <1>1, <1>2, <1>5, <2>1 DEF TimePasses
<1>6. ASSUME NEW w \in Workers, StepJob(w) PROVE ResearchInv'
  BY <1>6, PublishPlanKeeps, CheckSymbolKeeps, ReportKeeps, SummaryKeeps DEF StepJob
<1>7. ASSUME NEW w \in Workers, KillWorker(w) \/ Review(w) PROVE ResearchInv'
  BY <1>7, DeathKeeps, ReviewKeeps
<1>8. ASSUME NEW w \in Workers, NEW j \in Selections, BeginJob(w, j) PROVE ResearchInv'
  BY <1>8, BeginKeeps
<1> QED BY <1>3, <1>4, <1>5, <1>6, <1>7, <1>8 DEF ResearchNext

-----------------------------------------------------------------------------
\* The family is finite and names each symbol once.
LEMMA FamilyFinite ==
  /\ IsFiniteSet(Range(Family)) /\ Cardinality(Range(Family)) = Len(Family) /\ Len(Family) \in Nat
<1>1. Len(Family) \in Nat /\ DOMAIN Family = 1..Len(Family) /\ Family \in [1..Len(Family) -> Range(Family)]
  BY JobsAssumption
<1>2. IsFiniteSet(1..Len(Family)) /\ Cardinality(1..Len(Family)) = Len(Family)
  <2>1. Len(Family) \in Int /\ 1 \in Int
    BY <1>1
  <2>2. Cardinality(1..Len(Family)) = IF 1 > Len(Family) THEN 0 ELSE Len(Family) - 1 + 1
    BY <2>1, FS_Interval
  <2> QED BY <1>1, <2>1, <2>2, FS_Interval
<1>3. Family \in Surjection(1..Len(Family), Range(Family))
  BY <1>1 DEF Range, Surjection
<1>4. Family \in Injection(1..Len(Family), Range(Family))
  BY <1>1, JobsAssumption DEF Injection
<1> QED BY <1>1, <1>2, <1>3, <1>4, FS_Surjection

\* A job that validated has accepted records of one class only.
LEMMA OneClassOnly ==
  ASSUME NEW job, OneClass(job), NEW p \in DOMAIN job, NEW q \in DOMAIN job,
         Imported(job[p]).status = "READY", Imported(job[q]).status = "READY"
  PROVE  Imported(job[p]).class = Imported(job[q]).class
<1> DEFINE S == {r \in DOMAIN job : Imported(job[r]).status = "READY"}
           T == ReadyClasses(job)
           f == [r \in S |-> Imported(job[r]).class]
<1>1. IsFiniteSet(Range(Family) \X Windows)
  BY FamilyFinite, FS_Product, JobsAssumption
<1>2. IsFiniteSet(S)
  BY <1>1, FS_Subset, JobsAssumption DEF OneClass
<1>3. f \in Surjection(S, T)
  BY DEF Surjection, ReadyClasses
<1>4. IsFiniteSet(T)
  <2> HIDE DEF S, T, f
  <2> QED BY <1>2, <1>3, FS_Surjection
<1>5. Imported(job[p]).class \in T /\ Imported(job[q]).class \in T
  BY DEF ReadyClasses
<1>6. Cardinality(T) = 0 \/ Cardinality(T) = 1
  BY <1>4, FS_CardinalityType DEF OneClass
<1> HIDE DEF T
<1>7. T = {} \/ \E x : T = {x}
  BY <1>4, <1>6, FS_EmptySet, FS_Singleton
<1> QED BY <1>5, <1>7

\* What a row says of its dataset.
LEMMA RowMeans ==
  ASSUME NEW job \in Selections, NEW p
  PROVE  /\ evaluate(job, p).status \in {"UNAVAILABLE", "QUARANTINED", "SYNTHETIC", "LOCAL_VERIFIED"}
         /\ evaluate(job, p).status = "SYNTHETIC" =>
              /\ p \in DOMAIN job /\ Imported(job[p]).status = "READY"
              /\ Imported(job[p]).class = "SYNTHETIC_FIXTURE"
         /\ evaluate(job, p).status = "LOCAL_VERIFIED" =>
              /\ p \in DOMAIN job /\ Imported(job[p]).status = "READY"
              /\ Imported(job[p]).class # "SYNTHETIC_FIXTURE"
         /\ evaluate(job, p).qualified => evaluate(job, p).status = "LOCAL_VERIFIED"
<1>1. p \in DOMAIN job => Imported(job[p]).status \in {"READY", "DATA_QUARANTINED"}
  BY DEF Imported
<1> QED BY <1>1 DEF evaluate

\* An accepted record that is no fixture has all its evidence.
LEMMA ReadyIsGenuine ==
  ASSUME NEW r \in Requests, Imported(r).status = "READY", Imported(r).class # "SYNTHETIC_FIXTURE"
  PROVE  /\ r.class = "AUTHORIZED_LOCAL_EXPORT" /\ ~r.marked /\ r.complete
         /\ r.permitted /\ r.calendar /\ r.actions /\ r.mapping
<1>1. QuarantineReasons(r) = {}
  BY DEF Imported
<1>2. r.class # "SYNTHETIC_FIXTURE"
  BY <1>1 DEF Imported, Classification
<1>3. {r.marked, r.permitted, r.calendar, r.actions, r.mapping, r.complete} \subseteq BOOLEAN
  BY JobsAssumption
<1> QED BY <1>1, <1>2, <1>3 DEF QuarantineReasons, Unless

\* The size of a disjoint union.
LEMMA DisjointUnion ==
  ASSUME NEW S, NEW T, IsFiniteSet(S), IsFiniteSet(T), S \cap T = {}
  PROVE  IsFiniteSet(S \cup T) /\ Cardinality(S \cup T) = Cardinality(S) + Cardinality(T)
<1>1. Cardinality(S \cap T) = 0
  BY FS_EmptySet
<1>2. Cardinality(S) \in Nat /\ Cardinality(T) \in Nat
  BY FS_CardinalityType
<1>3. Cardinality(S \cup T) = Cardinality(S) + Cardinality(T) - Cardinality(S \cap T)
  BY FS_Union
<1>4. IsFiniteSet(S \cup T)
  BY FS_Union
<1> QED BY <1>1, <1>2, <1>3, <1>4

\* The rows of the family, sorted by their status.
LEMMA StatusesAddUp ==
  ASSUME NEW cps, DOMAIN cps = Range(Family), NEW job \in Selections,
         \A s \in DOMAIN cps : cps[s].rows = CheckpointRows(job, s)
  PROVE  LET n == Statuses(cps)
         IN  n.UNAVAILABLE + n.QUARANTINED + n.SYNTHETIC + n.LOCAL_VERIFIED
               = Len(Family) * Cardinality(Windows)
<1> DEFINE All == Range(Family) \X Windows
           A == RowsWith(cps, "UNAVAILABLE")
           B == RowsWith(cps, "QUARANTINED")
           C == RowsWith(cps, "SYNTHETIC")
           D == RowsWith(cps, "LOCAL_VERIFIED")
<1>1. \A p \in All : cps[p[1]].rows[p[2]].status \in
                       {"UNAVAILABLE", "QUARANTINED", "SYNTHETIC", "LOCAL_VERIFIED"}
  <2> SUFFICES ASSUME NEW s \in Range(Family), NEW w \in Windows
               PROVE  cps[s].rows[w].status \in
                        {"UNAVAILABLE", "QUARANTINED", "SYNTHETIC", "LOCAL_VERIFIED"}
    OBVIOUS
  <2>1. cps[s].rows[w] = evaluate(job, <<s, w>>)
    BY DEF CheckpointRows
  <2> QED BY <2>1, RowMeans
<1>2. All = ((A \cup B) \cup C) \cup D
  BY <1>1 DEF RowsWith
<1>3. A \cap B = {} /\ (A \cup B) \cap C = {} /\ ((A \cup B) \cup C) \cap D = {}
  BY DEF RowsWith
<1>4. /\ A \subseteq All /\ B \subseteq All /\ C \subseteq All /\ D \subseteq All
  BY DEF RowsWith
<1>6. IsFiniteSet(All) /\ Cardinality(All) = Len(Family) * Cardinality(Windows)
  BY FamilyFinite, FS_Product, JobsAssumption
<1> HIDE DEF All, A, B, C, D
<1>7. IsFiniteSet(A) /\ IsFiniteSet(B) /\ IsFiniteSet(C) /\ IsFiniteSet(D)
  BY <1>4, <1>6, FS_Subset
<1>8. Cardinality(A) \in Nat /\ Cardinality(B) \in Nat /\ Cardinality(C) \in Nat
      /\ Cardinality(D) \in Nat
  BY <1>7, FS_CardinalityType
<1>9. IsFiniteSet(A \cup B) /\ Cardinality(A \cup B) = Cardinality(A) + Cardinality(B)
  BY <1>3, <1>7, DisjointUnion
<1>10. IsFiniteSet((A \cup B) \cup C)
       /\ Cardinality((A \cup B) \cup C) = Cardinality(A \cup B) + Cardinality(C)
  BY <1>3, <1>7, <1>9, DisjointUnion
<1>11. Cardinality(All) = Cardinality((A \cup B) \cup C) + Cardinality(D)
  BY <1>2, <1>3, <1>7, <1>10, DisjointUnion
<1>12. /\ Statuses(cps).UNAVAILABLE = Cardinality(A) /\ Statuses(cps).QUARANTINED = Cardinality(B)
       /\ Statuses(cps).SYNTHETIC = Cardinality(C) /\ Statuses(cps).LOCAL_VERIFIED = Cardinality(D)
  BY DEF Statuses, A, B, C, D
<1> QED BY <1>6, <1>8, <1>9, <1>10, <1>11, <1>12

LEMMA ResearchInvSound == ResearchInv => JobDirectorySound
<1> SUFFICES ASSUME ResearchInv PROVE JobDirectorySound
  OBVIOUS
<1>1. ResearchTypeInv /\ PlanInv /\ CheckpointInv /\ SummaryInv
  BY DEF ResearchInv, ContentInv
<1> DEFINE cps == directory.checkpoints
           plan == directory.plan
<1>2. \A s \in DOMAIN cps : /\ directory.bound /\ s \in Range(Family) /\ OneClass(plan)
                            /\ plan \in Selections /\ cps[s].job = plan
                            /\ cps[s].rows = CheckpointRows(plan, s)
  <2> SUFFICES ASSUME NEW s \in DOMAIN cps
               PROVE  /\ directory.bound /\ s \in Range(Family) /\ OneClass(plan)
                      /\ plan \in Selections /\ cps[s].job = plan
                      /\ cps[s].rows = CheckpointRows(plan, s)
    OBVIOUS
  <2>1. /\ directory.bound /\ s \in Range(Family)
        /\ cps[s] = [job |-> plan, rows |-> CheckpointRows(plan, s)]
    BY <1>1 DEF CheckpointInv
  <2>2. OneClass(plan)
    BY <1>1, <2>1 DEF PlanInv
  <2>3. plan \in Selections
    BY <2>2 DEF OneClass
  <2> QED BY <2>1, <2>2, <2>3
<1>3. ResearchTypeOK
  <2>1. \A w \in Workers : worker[w].next \in 1..(Len(Family) + 1)
    BY <1>1 DEF ResearchTypeInv, WorkerStates
  <2>2. \A s \in DOMAIN cps : DOMAIN cps[s].rows = Windows
    BY <1>2 DEF CheckpointRows
  <2> QED BY <1>1, <1>2, <2>1, <2>2 DEF ResearchTypeOK, ResearchTypeInv
<1>4. ExclusiveOwner
  BY <1>1 DEF ResearchInv, OwnerOf, ExclusiveOwner, ResearchTypeInv, WorkerStates
<1>5. CheckpointsOfPlan
  BY <1>2 DEF CheckpointsOfPlan
<1>6. \A s \in DOMAIN cps, w \in Windows : cps[s].rows[w] = evaluate(plan, <<s, w>>)
  BY <1>2 DEF CheckpointRows
<1>7. OneSourceClass
  <2> SUFFICES ASSUME NEW s \in DOMAIN cps, NEW t \in DOMAIN cps, NEW v \in Windows, NEW w \in Windows,
                      cps[s].rows[v].status = "SYNTHETIC", cps[t].rows[w].status = "LOCAL_VERIFIED"
               PROVE  FALSE
    BY DEF OneSourceClass
  <2>1. /\ <<s, v>> \in DOMAIN plan /\ Imported(plan[<<s, v>>]).status = "READY"
        /\ Imported(plan[<<s, v>>]).class = "SYNTHETIC_FIXTURE"
    BY <1>2, <1>6, RowMeans
  <2>2. /\ <<t, w>> \in DOMAIN plan /\ Imported(plan[<<t, w>>]).status = "READY"
        /\ Imported(plan[<<t, w>>]).class # "SYNTHETIC_FIXTURE"
    BY <1>2, <1>6, RowMeans
  <2> QED BY <1>2, <2>1, <2>2, OneClassOnly
<1>8. SummaryCoversFamily
  <2> SUFFICES ASSUME directory.summary # <<>> PROVE SummaryCoversFamily
    BY DEF SummaryCoversFamily
  <2>1. /\ directory.bound /\ directory.summary.job = plan /\ DOMAIN cps = Range(Family)
        /\ directory.summary.statuses = Statuses(cps) /\ plan \in Selections
    BY <1>1 DEF SummaryInv, PlanInv, OneClass
  <2>2. LET n == Statuses(cps)
        IN  n.UNAVAILABLE + n.QUARANTINED + n.SYNTHETIC + n.LOCAL_VERIFIED
              = Len(Family) * Cardinality(Windows)
    BY <1>2, <2>1, StatusesAddUp
  <2> QED BY <2>1, <2>2 DEF SummaryCoversFamily
<1>9. QualifiedIsGenuine
  <2> SUFFICES ASSUME NEW s \in DOMAIN cps, NEW w \in Windows, cps[s].rows[w].qualified
               PROVE  LET r == cps[s].job[<<s, w>>]
                      IN  /\ r.class = "AUTHORIZED_LOCAL_EXPORT" /\ ~r.marked /\ r.complete
                          /\ r.permitted /\ r.calendar /\ r.actions /\ r.mapping
    BY DEF QualifiedIsGenuine, Qualified
  <2>1. evaluate(plan, <<s, w>>).qualified /\ plan \in Selections /\ cps[s].job = plan
    BY <1>2, <1>6
  <2>2. /\ <<s, w>> \in DOMAIN plan /\ Imported(plan[<<s, w>>]).status = "READY"
        /\ Imported(plan[<<s, w>>]).class # "SYNTHETIC_FIXTURE"
    BY <2>1, RowMeans
  <2>3. plan[<<s, w>>] \in Requests
    BY <2>1, <2>2, JobsAssumption
  <2> QED BY <2>1, <2>2, <2>3, ReadyIsGenuine
<1> QED BY <1>3, <1>4, <1>5, <1>7, <1>8, <1>9 DEF JobDirectorySound

\* For any family, jobs, imports and number of workers, attempts and kills: a job directory has
\* one writer at a time, holds checkpoints of one job only, never mixes synthetic with genuine
\* rows, is summed up over the whole family, and qualifies only evidenced local data
\* (phase1416 jobs.py execute(), report(), imports.py import_local()).
THEOREM JobDirectoryIsSound == ResearchSpec => []JobDirectorySound
<1>1. ResearchSpec => []ResearchInv
  BY ResearchInvInit, ResearchInductive, PTL DEF ResearchSpec
<1> QED BY <1>1, ResearchInvSound, PTL

\* What has been published in a job directory stays as it is, whoever works in it later: its
\* plan, every checkpoint and the summary (phase1416 imports.py publish() and its callers in
\* jobs.py).
THEOREM PublishedStays ==
  ResearchSpec =>
    [][/\ directory.bound => directory'.bound /\ directory'.plan = directory.plan
       /\ \A s \in DOMAIN directory.checkpoints :
            /\ s \in DOMAIN directory'.checkpoints
            /\ directory'.checkpoints[s] = directory.checkpoints[s]
       /\ directory.summary # <<>> => directory'.summary = directory.summary]_researchVars
<1> DEFINE PlanStays == directory.bound => directory'.bound /\ directory'.plan = directory.plan
           NoneLost == DOMAIN directory.checkpoints \subseteq DOMAIN directory'.checkpoints
           SummaryStays == directory.summary # <<>> => directory'.summary = directory.summary
           Kept == /\ PlanStays
                   /\ \A s \in DOMAIN directory.checkpoints :
                        /\ s \in DOMAIN directory'.checkpoints
                        /\ directory'.checkpoints[s] = directory.checkpoints[s]
                   /\ SummaryStays
           Same == /\ directory'.bound = directory.bound /\ directory'.plan = directory.plan
                   /\ directory'.checkpoints = directory.checkpoints
                   /\ directory'.summary = directory.summary
<1>1. ASSUME ResearchInv, ResearchNext PROVE PlanStays /\ NoneLost /\ SummaryStays
  <2>1. DirectoryShape
    BY <1>1 DEF ResearchInv, ResearchTypeInv
  <2>2. ASSUME NEW r \in Requests, import_local(r) \/ Purge(r) PROVE Same
    BY <2>2 DEF import_local, Purge
  <2>3. ASSUME TimePasses PROVE Same
    BY <2>3 DEF TimePasses
  <2>4. ASSUME NEW w, NEW why, FailJob(w, why) PROVE Same
    BY <2>1, <2>4 DEF FailJob, DirectoryShape
  <2>5. ASSUME NEW w \in Workers, PublishPlan(w) PROVE PlanStays /\ NoneLost /\ SummaryStays
    <3>1. \/ Same
          \/ /\ ~(directory.bound /\ directory.plan # worker[w].job)
             /\ directory' = [directory EXCEPT !.plan = worker[w].job, !.bound = TRUE]
      BY <2>4, <2>5 DEF PublishPlan, Publish
    <3> QED BY <2>1, <3>1 DEF DirectoryShape
  <2>6. ASSUME NEW w \in Workers, CheckSymbol(w) PROVE PlanStays /\ NoneLost /\ SummaryStays
    <3>1. \/ Same
          \/ \E s, c : directory' = [directory EXCEPT !.checkpoints = Put(@, s, c)]
      BY <2>4, <2>6 DEF CheckSymbol
    <3>2. ASSUME NEW s, NEW c, directory' = [directory EXCEPT !.checkpoints = Put(@, s, c)]
          PROVE  PlanStays /\ NoneLost /\ SummaryStays
      BY <2>1, <3>2 DEF DirectoryShape, Put
    <3> QED BY <3>1, <3>2
  <2>7. ASSUME NEW w \in Workers, OpenReport(w) \/ DraftReports(w) \/ Finish(w) PROVE Same
    <3>1. \/ \E why : FailJob(w, why)
          \/ UNCHANGED directory
          \/ directory' = [directory EXCEPT !.drafts = TRUE]
          \/ directory' = [directory EXCEPT !.reports = TRUE]
          \/ directory' = [directory EXCEPT !.lock = Unlocked]
      BY <2>7 DEF OpenReport, DraftReports, Publish, Finish
    <3> QED BY <2>1, <2>4, <3>1 DEF DirectoryShape
  <2>8. ASSUME NEW w \in Workers, PublishSummary(w) PROVE PlanStays /\ NoneLost /\ SummaryStays
    <3>1. directory.summary = <<>>
      BY <1>1, <2>8 DEF ResearchInv, PassedOf, PublishSummary
    <3>2. Same \/ \E x : directory' = [directory EXCEPT !.summary = x]
      BY <2>4, <2>8 DEF PublishSummary, Publish
    <3> QED BY <2>1, <3>1, <3>2 DEF DirectoryShape
  <2>9. ASSUME NEW w \in Workers, KillWorker(w) PROVE Same
    <3>1. \E half : directory' = [directory EXCEPT !.pending = @ \cup half]
      BY <2>9 DEF KillWorker
    <3> QED BY <2>1, <3>1 DEF DirectoryShape
  <2>10. ASSUME NEW w \in Workers, Review(w) PROVE Same
    <3>1. \E l, p, d : directory' = [directory EXCEPT !.lock = l, !.pending = p, !.drafts = d]
      BY <2>10 DEF Review
    <3> QED BY <2>1, <3>1 DEF DirectoryShape
  <2>11. ASSUME NEW w \in Workers, NEW j \in Selections, BeginJob(w, j) PROVE Same
    <3>1. UNCHANGED directory \/ directory' = [directory EXCEPT !.lock = w]
      BY <2>11 DEF BeginJob
    <3> QED BY <2>1, <3>1 DEF DirectoryShape
  <2>12. Same => PlanStays /\ NoneLost /\ SummaryStays
    OBVIOUS
  <2> HIDE DEF Same, PlanStays, NoneLost, SummaryStays
  <2> QED BY <1>1, <2>2, <2>3, <2>5, <2>6, <2>7, <2>8, <2>9, <2>10, <2>11, <2>12
          DEF ResearchNext, StepJob
<1>2. ASSUME ResearchInv, ResearchInv', PlanStays, NoneLost, SummaryStays PROVE Kept
  <2>1. ASSUME NEW s \in DOMAIN directory.checkpoints
        PROVE  /\ s \in DOMAIN directory'.checkpoints
               /\ directory'.checkpoints[s] = directory.checkpoints[s]
    <3>1. s \in DOMAIN directory'.checkpoints
      BY <1>2
    <3>2. directory.bound /\ directory.checkpoints[s] =
            [job |-> directory.plan, rows |-> CheckpointRows(directory.plan, s)]
      BY <1>2 DEF ResearchInv, ContentInv, CheckpointInv
    <3>3. directory'.checkpoints[s] =
            [job |-> directory'.plan, rows |-> CheckpointRows(directory'.plan, s)]
      BY <1>2, <3>1 DEF ResearchInv, ContentInv, CheckpointInv
    <3>4. directory'.plan = directory.plan
      BY <1>2, <3>2
    <3> QED BY <3>1, <3>2, <3>3, <3>4
  <2> QED BY <1>2, <2>1
<1>3. ResearchInv /\ ResearchInv' /\ [ResearchNext]_researchVars => [Kept]_researchVars
  <2> SUFFICES ASSUME ResearchInv, ResearchInv', ResearchNext PROVE Kept
    OBVIOUS
  <2> QED BY <1>1, <1>2
<1> HIDE DEF Kept
<1>4. ResearchSpec => []ResearchInv
  BY ResearchInvInit, ResearchInductive, PTL DEF ResearchSpec
<1>5. ResearchSpec => [][Kept]_researchVars
  BY <1>3, <1>4, PTL DEF ResearchSpec
<1> QED BY <1>5 DEF Kept

-----------------------------------------------------------------------------
(***************************************************************************)
(* The experiment protocol: reports are either of training and validation, *)
(* or of the test of a specification that a frozen selection names.        *)
(***************************************************************************)
ReportKinds ==
  \A r \in reports :
    \/ \E spec \in Specs : r = Development(spec)
    \/ \E selection \in selections : /\ selection.selected \in Specs
                                     /\ r = FinalTest(selection.selected, selection)

SelectionsKept ==
  \A selection \in selections :
    /\ selection.trials \subseteq reports
    /\ \A d \in selection.trials : \E spec \in Specs : d = Development(spec)
    /\ \E d \in selection.trials : d.spec = selection.selected

ComparedAlike ==
  /\ \A r \in compared : \E spec \in Specs : r = Development(spec)
  /\ \A r, s \in compared : r.spec.partitions = s.spec.partitions

ProtocolInv == ReportKinds /\ SelectionsKept /\ ComparedAlike

\* The bars of a specification's development and of its test.
LEMMA DevelopmentReads ==
  ASSUME NEW spec
  PROVE  LET d == Development(spec)
         IN  /\ d.spec = spec /\ d.selection = <<>> /\ Len(d.evaluations) = 2
             /\ d.evaluations[1].partition = "TRAIN"
             /\ Read(d) = BarsOf(spec.partitions.train) \cup BarsOf(spec.partitions.validation)
<1> DEFINE d == Development(spec)
           e1 == [partition |-> "TRAIN", bars |-> BarsOf(spec.partitions.train)]
           e2 == [partition |-> "VALIDATION", bars |-> BarsOf(spec.partitions.validation)]
<1>1. d.spec = spec /\ d.selection = <<>> /\ d.evaluations = <<e1, e2>>
  BY DEF Development
<1>2. e1.partition = "TRAIN" /\ e1.bars = BarsOf(spec.partitions.train) /\ e2.bars = BarsOf(spec.partitions.validation)
  OBVIOUS
<1> HIDE DEF d, e1, e2
<1>3. Len(d.evaluations) = 2 /\ DOMAIN d.evaluations = 1..2 /\ d.evaluations[1] = e1 /\ d.evaluations[2] = e2
  BY <1>1
<1>4. 1..2 = {1, 2}
  OBVIOUS
<1>5. Read(d) = UNION {d.evaluations[i].bars : i \in {1, 2}}
  BY <1>3, <1>4 DEF Read
<1>6. Read(d) = d.evaluations[1].bars \cup d.evaluations[2].bars
  BY <1>5
<1> QED BY <1>1, <1>2, <1>3, <1>6 DEF d

LEMMA TestReads ==
  ASSUME NEW spec, NEW selection
  PROVE  LET t == FinalTest(spec, selection)
         IN  /\ t.spec = spec /\ t.selection[1] = selection /\ Len(t.evaluations) = 1
             /\ Read(t) = BarsOf(spec.partitions.test)
<1> DEFINE t == FinalTest(spec, selection)
           e == [partition |-> "TEST", bars |-> BarsOf(spec.partitions.test)]
<1>1. t.spec = spec /\ t.selection = <<selection>> /\ t.evaluations = <<e>> /\ e.bars = BarsOf(spec.partitions.test)
  BY DEF FinalTest
<1> HIDE DEF t, e
<1>2. Len(t.evaluations) = 1 /\ DOMAIN t.evaluations = 1..1 /\ t.evaluations[1] = e /\ t.selection[1] = selection
  BY <1>1
<1>3. 1..1 = {1}
  OBVIOUS
<1>4. Read(t) = UNION {t.evaluations[i].bars : i \in {1}}
  BY <1>2, <1>3 DEF Read
<1> QED BY <1>1, <1>2, <1>4 DEF t

\* Development and test of one specification have no bar in common.
LEMMA DevelopmentBeforeTest ==
  ASSUME ProtocolAssumption, NEW spec \in Specs
  PROVE  (BarsOf(spec.partitions.train) \cup BarsOf(spec.partitions.validation))
           \cap BarsOf(spec.partitions.test) = {}
<1> DEFINE p == spec.partitions
<1>1. spec \in Offered /\ ValidPartitions(p)
  BY DEF Specs, ValidSpec
<1>2. /\ p.train.start \in Int /\ p.train.end \in Int /\ p.validation.start \in Int
      /\ p.validation.end \in Int /\ p.test.start \in Int /\ p.test.end \in Int
  BY <1>1 DEF ProtocolAssumption
<1>3. /\ p.train.end <= p.validation.start /\ p.validation.start < p.validation.end
      /\ p.validation.end <= p.test.start
  BY <1>1 DEF ValidPartitions, ValidWindow
<1> HIDE DEF p
<1>4. ASSUME NEW b \in BarsOf(p.train) \cup BarsOf(p.validation), b \in BarsOf(p.test) PROVE FALSE
  <2>1. b \in Int /\ p.test.start <= b
    BY <1>2, <1>4 DEF BarsOf
  <2>2. b < p.validation.end
    <3>1. CASE b \in BarsOf(p.train)
      BY <1>2, <1>3, <3>1 DEF BarsOf
    <3>2. CASE b \in BarsOf(p.validation)
      BY <1>2, <1>3, <3>2 DEF BarsOf
    <3> QED BY <1>4, <3>1, <3>2
  <2> QED BY <1>2, <1>3, <2>1, <2>2
<1> QED BY <1>4 DEF p

LEMMA ProtocolStep == ProtocolInv /\ [ProtocolNext]_protocolVars => ProtocolInv'
<1> SUFFICES ASSUME ProtocolInv, [ProtocolNext]_protocolVars PROVE ProtocolInv'
  OBVIOUS
<1> USE DEF ProtocolInv
<1>1. CASE compare_development
  <2>1. PICK specs \in SUBSET Specs :
          /\ Comparable(specs) /\ compared' = {Development(spec) : spec \in specs}
          /\ reports' = reports \cup compared' /\ selections' = selections
    BY <1>1 DEF compare_development, kSubset
  <2>2. ComparedAlike'
    <3>1. \A r \in compared' : \E spec \in specs : r = Development(spec) /\ r.spec = spec
      BY <2>1, DevelopmentReads
    <3>2. \A s, t \in specs : s.partitions = t.partitions
      BY <2>1 DEF Comparable
    <3> QED BY <3>1, <3>2 DEF ComparedAlike
  <2>3. ReportKinds'
    BY <2>1, <2>2 DEF ReportKinds, ComparedAlike
  <2>4. SelectionsKept'
    BY <2>1 DEF SelectionsKept
  <2> QED BY <2>2, <2>3, <2>4
<1>2. CASE evaluate_development
  <2>1. PICK spec \in Specs : reports' = reports \cup {Development(spec)} /\ UNCHANGED <<compared, selections>>
    BY <1>2 DEF evaluate_development
  <2> QED BY <2>1 DEF ReportKinds, SelectionsKept, ComparedAlike
<1>3. CASE freeze_selection
  <2>1. PICK rs \in SUBSET reports : \E id \in Ids({r.spec : r \in rs}) :
          /\ Trials(rs)
          /\ LET selected == CHOOSE r \in rs : r.spec.id = id IN
             selections' = selections \cup {[selected |-> selected.spec, trials |-> rs]}
    BY <1>3 DEF freeze_selection
  <2>2. PICK id \in Ids({r.spec : r \in rs}) :
          /\ Trials(rs)
          /\ LET selected == CHOOSE r \in rs : r.spec.id = id IN
             selections' = selections \cup {[selected |-> selected.spec, trials |-> rs]}
    BY <2>1
  <2> DEFINE selected == CHOOSE r \in rs : r.spec.id = id
             new == [selected |-> selected.spec, trials |-> rs]
  <2>3. \E r \in rs : r.spec.id = id
    BY DEF Ids
  <2>4. selected \in rs
    BY <2>3
  <2>5. UNCHANGED <<reports, compared>> /\ selections' = selections \cup {new}
    BY <1>3, <2>2 DEF freeze_selection
  <2>6. new.selected = selected.spec /\ new.trials = rs
    OBVIOUS
  <2>7. ASSUME NEW d \in rs PROVE \E spec \in Specs : d = Development(spec)
    <3>1. Len(d.evaluations) = 2
      BY <2>2 DEF Trials
    <3>2. ASSUME NEW selection, d = FinalTest(selection.selected, selection) PROVE FALSE
      BY <3>1, <3>2, TestReads
    <3>3. d \in reports
      BY <2>7
    <3> QED BY <3>2, <3>3 DEF ReportKinds
  <2> HIDE DEF new, selected
  <2>8. SelectionsKept'
    BY <2>4, <2>5, <2>6, <2>7 DEF SelectionsKept
  <2>9. ReportKinds' /\ ComparedAlike'
    BY <2>5 DEF ReportKinds, ComparedAlike
  <2> QED BY <2>8, <2>9
<1>4. CASE evaluate_final_test
  <2>1. PICK spec \in Specs, selection \in selections :
          /\ Fits(spec, selection)
          /\ reports' = reports \cup {FinalTest(spec, selection)} /\ UNCHANGED <<compared, selections>>
    BY <1>4 DEF evaluate_final_test
  <2>2. selection.selected = spec
    BY <2>1 DEF Fits
  <2>3. ReportKinds'
    BY <2>1, <2>2 DEF ReportKinds
  <2>4. SelectionsKept' /\ ComparedAlike'
    BY <2>1 DEF SelectionsKept, ComparedAlike
  <2> QED BY <2>3, <2>4
<1>5. CASE UNCHANGED protocolVars
  BY <1>5 DEF protocolVars, ReportKinds, SelectionsKept, ComparedAlike
<1> QED BY <1>1, <1>2, <1>3, <1>4, <1>5 DEF ProtocolNext

LEMMA ProtocolGives == ProtocolAssumption /\ ProtocolInv => ProtocolSound
<1> SUFFICES ASSUME ProtocolAssumption, ProtocolInv PROVE ProtocolSound
  OBVIOUS
<1>1. TestedWasSelected
  <2> SUFFICES ASSUME NEW t \in reports, t.evaluations[1].partition = "TEST"
               PROVE  /\ t.selection[1] \in selections
                      /\ \E d \in t.selection[1].trials : d.spec = t.spec /\ Read(d) \cap Read(t) = {}
                      /\ \A d \in t.selection[1].trials : d \in reports /\ d.selection = <<>>
    BY DEF TestedWasSelected
  <2>1. ASSUME NEW spec, t = Development(spec) PROVE FALSE
    BY <2>1, DevelopmentReads
  <2>2. PICK selection \in selections : /\ selection.selected \in Specs
                                        /\ t = FinalTest(selection.selected, selection)
    BY <2>1 DEF ProtocolInv, ReportKinds
  <2>3. /\ t.selection[1] = selection /\ t.spec = selection.selected
        /\ Read(t) = BarsOf(selection.selected.partitions.test)
    BY <2>2, TestReads
  <2>4. /\ selection.trials \subseteq reports
        /\ \A d \in selection.trials : \E spec \in Specs : d = Development(spec)
        /\ \E d \in selection.trials : d.spec = selection.selected
    BY DEF ProtocolInv, SelectionsKept
  <2>5. PICK d \in selection.trials : d.spec = selection.selected
    BY <2>4
  <2>6. PICK spec \in Specs : d = Development(spec)
    BY <2>4
  <2>7. d.spec = spec /\ Read(d) = BarsOf(spec.partitions.train) \cup BarsOf(spec.partitions.validation)
    BY <2>6, DevelopmentReads
  <2>8. Read(d) \cap Read(t) = {}
    BY <2>3, <2>5, <2>7, DevelopmentBeforeTest
  <2>9. \A x \in selection.trials : x \in reports /\ x.selection = <<>>
    BY <2>4, DevelopmentReads
  <2> QED BY <2>3, <2>5, <2>8, <2>9
<1>2. ComparedApart
  <2> SUFFICES ASSUME NEW r \in compared, NEW s \in compared
               PROVE  Read(r) \cap BarsOf(s.spec.partitions.test) = {}
    BY DEF ComparedApart
  <2>1. PICK spec \in Specs : r = Development(spec)
    BY DEF ProtocolInv, ComparedAlike
  <2>2. s.spec.partitions = spec.partitions
    BY <2>1, DevelopmentReads DEF ProtocolInv, ComparedAlike
  <2> QED BY <2>1, <2>2, DevelopmentReads, DevelopmentBeforeTest
<1> QED BY <1>1, <1>2 DEF ProtocolSound

\* In the experiment protocol of research/experiments.py a test partition is read only for a
\* specification whose own development is among the trials of a frozen selection, none of
\* those trials is itself a test or has seen a bar of it, and nothing in a comparison has seen
\* a bar on which any of its specifications may be tested; for any specifications whatever.
THEOREM ProtocolIsSound == ProtocolAssumption => (ProtocolSpec => []ProtocolSound)
<1> SUFFICES ASSUME ProtocolAssumption PROVE ProtocolSpec => []ProtocolSound
  OBVIOUS
<1>1. ProtocolInit => ProtocolInv
  BY DEF ProtocolInit, ProtocolInv, ReportKinds, SelectionsKept, ComparedAlike
<1>2. ProtocolInv => ProtocolSound
  BY ProtocolGives
<1>3. ProtocolSpec => []ProtocolInv
  BY <1>1, ProtocolStep, PTL DEF ProtocolSpec
<1> QED BY <1>2, <1>3, PTL
=============================================================================
