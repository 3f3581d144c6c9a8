----------------------------- MODULE MCLiveness -----------------------------
(***************************************************************************)
(* What must eventually happen: instances of the order path, of arming, of *)
(* the broker session and of the process supervisor under fairness.  part  *)
(* says which one this behaviour is about; variables of the same name are  *)
(* shared and those of the others are "idle".                              *)
(***************************************************************************)
EXTENDS Integers, Sequences

CONSTANTS t1, t2, o1, q1, NoOne, NoOrder, NoRequest

VARIABLES part, pc, tgt, seen, lapsed, session, spent,
          ord, decision, unclear, booked, lock, cur, posts, broker, cancels,
          epoch, arm, arms, logins, row, stage, leg, snap, perm, att, held, cand, verdict, began,
          rejected, ids, monitor, sock, rid, ans, refused, active, generation, attempts,
          initialized, unavailable, owner, booted, stored, nonces, issued, calls, requests,
          crashes, loc, validated, refreshed, wiped,
          procs, now, root, assigned, todo, empty, ancestry, owned, gaps, status, drained,
          receipt, rival, faults, strict

orderOnly == <<ord, decision, unclear, booked, lock, cur, posts, broker, cancels>>
armingOnly == <<epoch, arm, arms, logins, row, stage, leg, snap, perm, att, held, cand, verdict,
                began>>
kiteOnly == <<rejected, ids, monitor, sock, rid, ans, refused, active, generation, attempts,
              initialized, unavailable, owner, booted, stored, nonces, issued, calls, requests,
              crashes, loc, validated, refreshed, wiped>>
supervisorOnly == <<procs, now, root, assigned, todo, empty, ancestry, owned, gaps, status,
                    drained, receipt, rival, faults, strict>>

vars == <<part, pc, tgt, seen, lapsed, session, spent, orderOnly, armingOnly, kiteOnly,
          supervisorOnly>>

----------------------------------------------------------------------------
Order == INSTANCE OrderExecution WITH
           Orders <- {o1}, Workers <- {t1, t2}, Qty <- 1, MaxCancels <- 0
Arming == INSTANCE ExecutionArming WITH
            Callers <- {t1, t2}, Readers <- {}, Orders <- {o1}, MaxEpochs <- 2, MaxArms <- 1,
            MaxLogins <- 1, Lapses <- FALSE, Denials <- FALSE
Logins == INSTANCE KiteAuthentication WITH
            Operators <- {t1, t2}, Readers <- {}, Threads <- {t1, t2}, Sockets <- {},
            RequestTokens <- {q1}, MaxRemembered <- 2, MaxCalls <- 2, MaxTokens <- 1,
            MaxRequests <- 0, MaxCrashes <- 0, DatabaseFails <- FALSE
Requests == INSTANCE KiteAuthentication WITH
              Operators <- {t1}, Readers <- {t2}, Threads <- {t1, t2}, Sockets <- {},
              RequestTokens <- {q1}, MaxRemembered <- 2, MaxCalls <- 2, MaxTokens <- 1,
              MaxRequests <- 2, MaxCrashes <- 0, DatabaseFails <- FALSE
Supervisor == INSTANCE ProcessSupervisor WITH
                Pids <- {1, 2}, MaxProcs <- 3, MaxFaults <- 1

OrderIdle ==
  /\ ord = "idle" /\ decision = "idle" /\ unclear = "idle" /\ booked = "idle" /\ lock = "idle"
  /\ cur = "idle" /\ posts = "idle" /\ broker = "idle" /\ cancels = "idle"
ArmingIdle ==
  /\ epoch = "idle" /\ arm = "idle" /\ arms = "idle" /\ logins = "idle" /\ row = "idle"
  /\ stage = "idle" /\ leg = "idle" /\ snap = "idle" /\ perm = "idle" /\ att = "idle"
  /\ held = "idle" /\ cand = "idle" /\ verdict = "idle" /\ began = "idle"
KiteIdle ==
  /\ rejected = "idle" /\ ids = "idle" /\ monitor = "idle" /\ sock = "idle" /\ rid = "idle"
  /\ ans = "idle" /\ refused = "idle" /\ active = "idle" /\ generation = "idle"
  /\ attempts = "idle" /\ initialized = "idle" /\ unavailable = "idle" /\ owner = "idle"
  /\ booted = "idle" /\ stored = "idle" /\ nonces = "idle" /\ issued = "idle" /\ calls = "idle"
  /\ requests = "idle" /\ crashes = "idle" /\ loc = "idle" /\ validated = "idle"
  /\ refreshed = "idle" /\ wiped = "idle"
SupervisorIdle ==
  /\ procs = "idle" /\ now = "idle" /\ root = "idle" /\ assigned = "idle" /\ todo = "idle"
  /\ empty = "idle" /\ ancestry = "idle" /\ owned = "idle" /\ gaps = "idle" /\ status = "idle"
  /\ drained = "idle" /\ receipt = "idle" /\ rival = "idle" /\ faults = "idle"
  /\ strict = "idle"

Init ==
  \/ /\ part = "order" /\ Order!Init
     /\ ArmingIdle /\ KiteIdle /\ SupervisorIdle
     /\ lapsed = "idle" /\ session = "idle" /\ spent = "idle"
  \/ /\ part = "arming" /\ Arming!Init
     /\ OrderIdle /\ KiteIdle /\ SupervisorIdle /\ seen = "idle" /\ spent = "idle"
  \/ /\ \/ part = "logins" /\ Logins!Init
        \/ part = "requests" /\ Requests!Init
     /\ OrderIdle /\ ArmingIdle /\ SupervisorIdle /\ tgt = "idle" /\ seen = "idle"
  \/ /\ part = "supervisor" /\ Supervisor!Init
     /\ OrderIdle /\ ArmingIdle /\ KiteIdle
     /\ tgt = "idle" /\ lapsed = "idle" /\ session = "idle"

\* A step of one part leaves the others idle.
OfOrder(step) ==
  /\ part = "order" /\ step
  /\ UNCHANGED <<part, armingOnly, kiteOnly, supervisorOnly, lapsed, session, spent>>
OfArming(step) ==
  /\ part = "arming" /\ step
  /\ UNCHANGED <<part, orderOnly, kiteOnly, supervisorOnly, seen, spent>>
OfKite(p, step) ==
  /\ part = p /\ step
  /\ UNCHANGED <<part, orderOnly, armingOnly, supervisorOnly, tgt, seen>>
OfSupervisor(step) ==
  /\ part = "supervisor" /\ step
  /\ UNCHANGED <<part, orderOnly, armingOnly, kiteOnly, tgt, lapsed, session>>

Next ==
  \/ OfOrder(Order!Next) \/ OfArming(Arming!Next)
  \/ OfKite("logins", Logins!Next) \/ OfKite("requests", Requests!Next)
  \/ OfSupervisor(Supervisor!Next)

\* A thread inside a call keeps running, and nobody is obliged to call: the locks are given
\* up with the transaction, the lock timeout ends a wait for one, and every request of the
\* broker ends within the transport's timeouts.  An advisory lock that is free again and
\* again is obtained at last.  The supervisor keeps running, its budget runs out, and the
\* system carries a termination out.
Fairness ==
  /\ \A w \in {t1, t2} :
       /\ WF_(Order!vars)(part = "order" /\ Order!Step(w))
       /\ SF_(Order!vars)(part = "order" /\ Order!reconcileApply(w))
       /\ WF_(Arming!vars)(part = "arming" /\ Arming!Step(w))
       /\ WF_(Logins!vars)(part = "logins" /\ Logins!OperatorStep(w))
  /\ WF_(Requests!vars)(part = "requests" /\ Requests!OperatorStep(t1))
  /\ WF_(Requests!vars)(part = "requests" /\ Requests!ReaderStep(t2))
  /\ WF_(Supervisor!vars)(part = "supervisor" /\ Supervisor!Supervise /\ UNCHANGED strict)
  /\ WF_(Supervisor!vars)(part = "supervisor" /\ Supervisor!BudgetSpent /\ UNCHANGED strict)
  /\ WF_(Supervisor!vars)(/\ part = "supervisor"
                          /\ \E i \in 1..3 : /\ i \in Supervisor!Index /\ procs[i].dying
                                             /\ Supervisor!Exit(i) /\ UNCHANGED strict)

Spec == Init /\ [][Next]_vars /\ Fairness

----------------------------------------------------------------------------
InCall(t) == part \in {"order", "logins", "requests"} /\ pc[t] # "idle"

\* Every risk, execution and reconciliation call returns, and so does every call of the
\* authentication use case and every request: nobody waits for a lock or a monitor forever,
\* and the two monitors of the broker session are never waited for in a circle.
CallsReturn == \A t \in {t1, t2} : InCall(t) ~> ~InCall(t)

\* Every claimed permit is given back, so that arming and resuming do not stay refused; and
\* once its job exists a supervised run comes to its end and leaves a receipt, although the
\* tree may spawn without end and members may be slow to go.
ClaimsEnd ==
  \/ part = "arming" /\ arm.state = "CLAIMED"
  \/ part = "supervisor" /\ pc = "job"
  ~>
  \/ part = "arming" /\ arm.state # "CLAIMED"
  \/ part = "supervisor" /\ pc = "done" /\ receipt # Supervisor!NoReceipt

=============================================================================
