------------------------------- MODULE MCClaims -------------------------------
(***************************************************************************)
(* Instances of the programs that claim something once: the execution      *)
(* lease, the fixture verifier, and the jobs that own a directory.  part   *)
(* says which one this behaviour is about; the variables of the others     *)
(* keep initial values.                                                    *)
(***************************************************************************)
EXTENDS ExecutionLease, PartitionJobs, FixtureTrust, ResearchJobs, TLC

CONSTANTS w1, w2   \* two holders, threads, workers or processes

Actors == {w1, w2}
ActorSymmetry == Permutations(Actors)

VARIABLE part

----------------------------------------------------------------------------
(* The lease: two decisions that share a nonce, of which one opens later and *)
(* one may be withdrawn, and one whose fields do not match.                  *)
OfLease(i, n, from, till, sound) ==
  [identity |-> i, nonce |-> n, from |-> from, till |-> till, sound |-> sound]
LeaseDecisions == {OfLease("i1", "n1", 0, 2, TRUE), OfLease("i2", "n1", 1, 2, TRUE),
                   OfLease("i1", "n2", 0, 1, FALSE)}
LeaseRevocable == {OfLease("i1", "n1", 0, 2, TRUE)}
LeaseIdentities == {"i1", "i2"}
LeaseNonces == {"n1", "n2"}

----------------------------------------------------------------------------
(* The verifier: two decisions share a nonce, two an identity; one was       *)
(* altered after signing, one was signed by somebody else, one has a field   *)
(* that does not match.                                                      *)
BindingNames == {"root", "owner", "scope"}

Signed(i, n, s, b, key, shift) ==
  [canonical |-> TRUE, synthetic |-> TRUE, bindings |-> b, id |-> i, nonce |-> n,
   start |-> s + shift, end |-> s + shift + 3,
   fingerprint |-> <<TRUE, b, i, n, s + shift, s + shift + 3>>,
   signature |-> [key |-> key, payload |-> <<TRUE, b, i, n, s, s + 3>>]]
RawDecisions ==
  {Signed("d1", "n1", 1, BindingNames, "owner", 0), Signed("d2", "n1", 1, BindingNames, "owner", 0),
   Signed("d1", "n2", 2, BindingNames, "owner", 0), Signed("d3", "n3", 1, BindingNames, "owner", 1),
   Signed("d4", "n4", 1, BindingNames, "other", 0),
   Signed("d5", "n5", 1, BindingNames \ {"scope"}, "owner", 0)}

----------------------------------------------------------------------------
(* Research jobs: two symbols, two windows; a genuine, an uncertain, a       *)
(* mislabelled and a synthetic import; jobs over several of them.            *)
ResearchSymbols == <<"A", "B">>
ResearchWindows == {6, 12}

Import(s, w, c, marked, ok, expires) ==
  [symbol |-> s, window |-> w, class |-> c, marked |-> marked, wellFormed |-> TRUE,
   permitted |-> TRUE, calendar |-> TRUE, actions |-> ok, mapping |-> TRUE,
   complete |-> TRUE, expires |-> expires, performs |-> TRUE]
Genuine    == Import("A", 6, "AUTHORIZED_LOCAL_EXPORT", FALSE, TRUE, 9)
Brief      == Import("B", 6, "AUTHORIZED_LOCAL_EXPORT", FALSE, TRUE, 1)
Mislabel   == Import("A", 6, "AUTHORIZED_LOCAL_EXPORT", TRUE, TRUE, 9)
Uncertain  == Import("B", 12, "AUTHORIZED_LOCAL_EXPORT", FALSE, FALSE, 9)
Fixture    == Import("B", 12, "SYNTHETIC_FIXTURE", TRUE, TRUE, 9)
Broken     == [Genuine EXCEPT !.wellFormed = FALSE]
ResearchRequests == {Genuine, Brief, Mislabel, Uncertain, Fixture, Broken}

On(r) == <<r.symbol, r.window>>
ResearchJob(rs) == [p \in {On(r) : r \in rs} |-> CHOOSE r \in rs : On(r) = p]
ManyJobs == {ResearchJob({Genuine, Brief}), ResearchJob({Mislabel, Uncertain}),
             ResearchJob({Genuine, Fixture}), ResearchJob({Fixture})}

----------------------------------------------------------------------------
(* Partitions: the whole family, a partition, an export told to expect more  *)
(* or less than its job yields, and a job of another family.                 *)
FamilyKeys == {<<"A", 6, "S1">>, <<"A", 6, "S2">>, <<"B", 6, "S1">>}
Whole == <<<<"A", 6, "S1">>, <<"A", 6, "S2">>, <<"B", 6, "S1">>>>
Half == <<<<"A", 6, "S1">>, <<"A", 6, "S2">>>>
PartitionJob(keys, expected, f) == [keys |-> keys, expected |-> expected, family |-> f]
SomeJobs == {PartitionJob(Whole, Whole, 1), PartitionJob(Half, Half, 1), PartitionJob(Half, Whole, 1),
             PartitionJob(Whole, Half, 1), PartitionJob(Half, Half, 2)}

----------------------------------------------------------------------------
LeaseIdle ==
  /\ ledger = EmptyLedger /\ checkpoint = 0 /\ copies = {} /\ revoked = {} /\ clock = 0
  /\ lease = [h \in Holders |-> [state |-> "PENDING", decision |-> CHOOSE d \in Decisions : TRUE,
                                 read |-> 0]]
  /\ seen = [h \in Holders |-> 0] /\ spent = <<>> /\ durable = {} /\ restores = 0
PartitionIdle == PartitionInit /\ software = 1

ClaimsInit ==
  \/ part = "lease" /\ Init /\ TrustInit /\ ResearchInit /\ PartitionIdle
  \/ part = "trust" /\ TrustInit /\ LeaseIdle /\ ResearchInit /\ PartitionIdle
  \/ part = "research" /\ ResearchInit /\ LeaseIdle /\ TrustInit /\ PartitionIdle
  \/ part = "partition" /\ PartitionInit /\ LeaseIdle /\ TrustInit /\ ResearchInit

ClaimsNext ==
  /\ UNCHANGED part
  /\ \/ /\ part = "lease" /\ Next
        /\ UNCHANGED <<trustVars, researchVars, partitionVars>>
     \/ /\ part = "trust" /\ TrustNext
        /\ UNCHANGED <<vars, researchVars, partitionVars>>
     \/ /\ part = "research" /\ ResearchNext
        /\ UNCHANGED <<vars, trustVars, partitionVars>>
     \/ /\ part = "partition" /\ PartitionNext
        /\ UNCHANGED <<vars, trustVars, researchVars>>

claims == <<part, vars, trustVars, researchVars, partitionVars>>

ClaimsSpec == ClaimsInit /\ [][ClaimsNext]_claims

===============================================================================
