---------------------------- MODULE ExecutionArming ----------------------------
(***************************************************************************)
(* The in-process permission to execute one order: the emergency stop of    *)
(* RuntimeTradingHalt, the one-shot permit of RuntimeExecutionArming, and   *)
(* the calls of OperatorExecutionService that use them (arm, disarm, halt,  *)
(* resume, execute), any number of them at once.                            *)
(*                                                                         *)
(* The two latches are atomic references, so every read and every compare-  *)
(* and-set of them is a step.  A check of ExecutionSafetyPolicy reads them  *)
(* several times, in legs:                                                  *)
(*   leg 0  validateAdmission(): the stop, then armed()                     *)
(*   leg 1  check: the stop, then armed()                                   *)
(*   leg 2  LiveTestExecutionChecks: armed(), then the current permit's     *)
(*          order and version (its status() calls the same armed() once     *)
(*          more, with the same effect, and is not repeated here)           *)
(*   leg 3  inspect: armed(), then the stop and all remaining gates         *)
(* The durable part of an execution is in OrderExecution; here an order row *)
(* has only the states that the permit can influence.                       *)
(***************************************************************************)
EXTENDS Integers

CONSTANTS Callers,    \* threads that call OperatorExecutionService
          Readers,    \* callers that only halt: the console's terminal reader
          Orders,     \* orders awaiting execution
          NoOrder,    \* target of an idle caller
          MaxEpochs,  \* bound: changes of the halt latch
          MaxArms,    \* bound: permits installed
          MaxLogins,  \* bound: broker sessions established
          Lapses,     \* whether permits may run out of time
          Denials     \* whether the session may end and other gates may deny

ASSUME MaxEpochsAssumption == MaxEpochs \in Nat \ {0}
ASSUME MaxArmsAssumption   == MaxArms \in Nat
ASSUME MaxLoginsAssumption == MaxLogins \in Nat
ASSUME SwitchesAssumption  == Lapses \in BOOLEAN /\ Denials \in BOOLEAN
ASSUME ReadersAssumption   == Readers \subseteq Callers
ASSUME NoOrderAssumption   == NoOrder \notin Orders

VARIABLES epoch,   \* RuntimeTradingHalt.current: identity and state
          arm,     \* RuntimeExecutionArming.current
          arms,    \* nonces drawn so far
          lapsed,  \* the current permit's window is over
          session, \* identity of the broker session, 0 when there is none
          logins,  \* session identities drawn so far
          row,     \* the order rows: state and version
          pc, stage, leg, tgt, \* per caller: position, purpose and leg of a check, order
          snap,    \* per caller: the permit that armed() read
          perm,    \* per caller: the permit that claim() read or install() made
          att,     \* per caller: the nonce of the attempt it owns, 0 when there is none
          held,    \* per caller: the halt epoch captured by arm or prepareResume
          cand,    \* per caller: the order row it read
          verdict, \* per caller: what the check has found so far
          began    \* per caller: history, the halt epoch and session when its check began

latches == <<epoch, arm, arms, lapsed, session, logins>>
locals  == <<pc, stage, leg, tgt, snap, perm, att, held, cand, verdict, began>>
kept    == <<tgt, perm, att, held>>   \* what a check leaves alone
vars    == <<epoch, arm, arms, lapsed, session, logins, row,
             pc, stage, leg, tgt, snap, perm, att, held, cand, verdict, began>>

-----------------------------------------------------------------------------
(* RuntimeTradingHalt *)

Halted == epoch.state = "HALTED"

runningAt(e) == epoch.state = "RUNNING" /\ epoch.n = e

-----------------------------------------------------------------------------
(* RuntimeExecutionArming *)

NoArm == [nonce |-> 0, order |-> NoOrder, version |-> 0, session |-> 0, epoch |-> 0,
          state |-> "NONE", active |-> FALSE]

\* Arm.change.
change(a, s, on) == [nonce |-> a.nonce, order |-> a.order, version |-> a.version,
                     session |-> a.session, epoch |-> a.epoch, state |-> s, active |-> on]

\* disarm, and the compare-and-set of armed(): a claim stays with its attempt.
revoked(a) ==
  IF a.active THEN change(a, IF a.state = "CLAIMED" THEN "CLAIMED" ELSE "CONSUMED", FALSE) ELSE a

\* What armed() asks of the permit it read once the permit is active.
usable(a) == runningAt(a.epoch) /\ ~(lapsed /\ a.nonce = arm.nonce) /\ session = a.session

-----------------------------------------------------------------------------
(* Control of a caller *)

NoRow == [state |-> "NONE", version |-> 0]
NoTime == [epoch |-> 0, session |-> 0]

Goto(w, p) ==
  /\ pc' = [pc EXCEPT ![w] = p]
  /\ UNCHANGED <<stage, leg, tgt, perm, att, held, cand, verdict, began>>

Call(w, p) == pc[w] = "idle" /\ Goto(w, p)

\* Begin the check s at leg l and position p, with the order row c.
Enter(w, s, l, p, c) ==
  /\ pc' = [pc EXCEPT ![w] = p]
  /\ stage' = [stage EXCEPT ![w] = s]
  /\ leg' = [leg EXCEPT ![w] = l]
  /\ cand' = [cand EXCEPT ![w] = c]
  /\ verdict' = [verdict EXCEPT ![w] = "NONE"]
  /\ began' = [began EXCEPT ![w] = [epoch |-> epoch.n, session |-> session]]

Return(w) ==
  /\ pc' = [pc EXCEPT ![w] = "idle"]
  /\ stage' = [stage EXCEPT ![w] = "none"]
  /\ leg' = [leg EXCEPT ![w] = 0]
  /\ tgt' = [tgt EXCEPT ![w] = NoOrder]
  /\ perm' = [perm EXCEPT ![w] = NoArm]
  /\ att' = [att EXCEPT ![w] = 0]
  /\ held' = [held EXCEPT ![w] = 0]
  /\ cand' = [cand EXCEPT ![w] = NoRow]
  /\ verdict' = [verdict EXCEPT ![w] = "NONE"]
  /\ began' = [began EXCEPT ![w] = NoTime]

\* A bare armed(): no policy around it.
Bare == {"claim", "resume", "status", "armStatus"}

\* Checks made after SUBMITTING is durable.
Dispatching == {"dispatch", "transport", "final"}

\* Mutant of Chain: the evaluated order is dispatched without having been admitted.
ChainUnadmitted == [evaluate |-> "final", precheck |-> "locked", locked |-> "commit",
                    dispatch |-> "transport", transport |-> "final"]

\* The checks that follow one another, and where the others lead when they pass.
Chain == [evaluate |-> "precheck", precheck |-> "locked", locked |-> "commit",
          dispatch |-> "transport", transport |-> "final"]

Exit == [armBefore |-> "install", armAfter |-> "armEnd", preflight |-> "claimRead",
         claim |-> "claim", commit |-> "admit", final |-> "send",
         resume |-> "resumeCheck", status |-> "done", armStatus |-> "done"]

Stages == DOMAIN Chain \cup DOMAIN Exit

\* Where a denied check leads: once SUBMITTING is durable, only an emergency stop
\* leaves the row as it is.
Denied(s, reason) ==
  CASE s \in {"armBefore", "armAfter"}  -> "armUndo"
    [] s = "resume"                     -> "resumeCheck"
    [] s \in {"status", "armStatus"}    -> "done"
    [] s \in Dispatching                -> IF reason = "EMERGENCY_STOP" THEN "finDisarm" ELSE "fail"
    [] OTHER                            -> "finDisarm"

Deny(w, reason) == Goto(w, Denied(stage[w], reason))

Pass(w) ==
  IF stage[w] \in DOMAIN Chain
  THEN /\ Enter(w, Chain[stage[w]], IF stage[w] \in Dispatching THEN 1 ELSE 0, "stop", cand[w])
       /\ UNCHANGED kept
  ELSE Goto(w, Exit[stage[w]])

-----------------------------------------------------------------------------
(* One check of ExecutionSafetyPolicy *)

\* The stop, and after it authentication, open legs 0 and 1.
checkStop(w) ==
  /\ pc[w] = "stop"
  /\ \/ Halted /\ Deny(w, "EMERGENCY_STOP")
     \/ ~Halted /\ session # 0 /\ Goto(w, "read")
     \/ ~Halted /\ (Denials \/ session = 0) /\ Deny(w, "DENIED")
  /\ UNCHANGED <<latches, snap, row>>

\* armed() answered no: in inspect every gate is still read, elsewhere this is the end.
Unarmed(w) ==
  IF leg[w] \in {0, 1}
  THEN Deny(w, "DISARMED")
  ELSE /\ verdict' = [verdict EXCEPT ![w] = "DISARMED"]
       /\ leg' = [leg EXCEPT ![w] = 3]
       /\ pc' = [pc EXCEPT ![w] = IF leg[w] = 2 THEN "read" ELSE "gates"]
       /\ UNCHANGED <<stage, tgt, perm, att, held, cand, began>>

\* armed() answered yes: go on within the leg, or to the next one.
Armed(w) ==
  IF stage[w] \in Bare
  THEN Pass(w)
  ELSE /\ leg' = [leg EXCEPT ![w] = IF leg[w] < 2 THEN leg[w] + 1 ELSE leg[w]]
       /\ pc' = [pc EXCEPT ![w] = CASE leg[w] = 0 -> "stop" [] leg[w] = 1 -> "read"
                                    [] leg[w] = 2 -> "bind" [] leg[w] = 3 -> "gates"]
       /\ UNCHANGED <<stage, tgt, perm, att, held, cand, verdict, began>>

armedRead(w) ==
  /\ pc[w] = "read"
  /\ \/ /\ arm.active
        /\ snap' = [snap EXCEPT ![w] = arm]
        /\ Goto(w, "judge")
     \/ ~arm.active /\ Unarmed(w) /\ UNCHANGED snap
  /\ UNCHANGED <<latches, row>>

\* A permit that is no longer usable is revoked, unless it changed since it was read.
armedJudge(w) ==
  /\ pc[w] = "judge"
  /\ \/ usable(snap[w]) /\ Armed(w) /\ UNCHANGED arm
     \/ /\ ~usable(snap[w]) /\ Unarmed(w)
        /\ arm' = IF arm = snap[w] THEN revoked(arm) ELSE arm
  /\ snap' = [snap EXCEPT ![w] = NoArm]
  /\ UNCHANGED <<epoch, arms, lapsed, session, logins, row>>

\* The permit is read again after armed() and must name this order at this version.
bindingReason(w) ==
  /\ pc[w] = "bind"
  /\ verdict' = [verdict EXCEPT ![w] =
                   CASE ~arm.active -> "DISARMED"
                     [] arm.active /\ arm.order = tgt[w] /\ arm.version = cand[w].version -> "NONE"
                     [] OTHER -> "DENIED"]
  /\ leg' = [leg EXCEPT ![w] = 3]
  /\ pc' = [pc EXCEPT ![w] = "read"]
  /\ UNCHANGED <<latches, snap, row, stage, tgt, perm, att, held, cand, began>>

\* The other gates of inspect.  The reported reason is the first failed gate, and the
\* arm gates come before the emergency stop.  arm expects its first preflight to fail
\* at the arm gates and nowhere else (canArm).
inspectGates(w) ==
  /\ pc[w] = "gates"
  /\ LET expected == IF stage[w] = "armBefore" THEN "DISARMED" ELSE "NONE"
         clear    == verdict[w] = expected /\ ~Halted /\ cand[w].state = "RISK_APPROVED"
     IN  \/ clear /\ session # 0 /\ Pass(w)
         \/ ~clear /\ Deny(w, IF verdict[w] = "NONE" /\ Halted THEN "EMERGENCY_STOP" ELSE "DENIED")
         \/ (Denials \/ session = 0) /\ Deny(w, "DENIED")
  /\ UNCHANGED <<latches, snap, row>>

-----------------------------------------------------------------------------
(* OperatorExecutionService.halt, prepareResume, resume, disarm and status *)

disarm == arm' = revoked(arm) /\ UNCHANGED <<epoch, arms, lapsed, session, logins, snap, row>>

haltBegin(w) ==
  /\ epoch.n < MaxEpochs
  /\ Call(w, "haltDisarm")
  /\ epoch' = [n |-> epoch.n + 1, state |-> "HALTED"]
  /\ UNCHANGED <<arm, arms, lapsed, session, logins, snap, row>>

haltDisarm(w) == pc[w] = "haltDisarm" /\ disarm /\ Return(w)

disarmCall(w) == Call(w, "done") /\ disarm

statusBegin(w) ==
  /\ pc[w] = "idle"
  /\ Enter(w, "status", 1, "read", NoRow)
  /\ UNCHANGED <<latches, snap, row, tgt, perm, att, held>>

\* Mutants of resumeCas and resumeCheck: any halted epoch is resumed; an attempt in progress does not prevent a resumption.
resumeCasLatest(w) ==
  /\ pc[w] = "resumeCas"
  /\ IF Halted /\ epoch.n < MaxEpochs
     THEN epoch' = [n |-> epoch.n + 1, state |-> "RUNNING"]
     ELSE UNCHANGED epoch
  /\ Return(w)
  /\ UNCHANGED <<arm, arms, lapsed, session, logins, snap, row>>

resumeCheckBlind(w) ==
  /\ pc[w] = "resumeCheck"
  /\ Goto(w, "resumeCas")
  /\ UNCHANGED <<latches, snap, row>>

prepareResume(w) ==
  /\ pc[w] = "idle" /\ epoch.n < MaxEpochs
  /\ pc' = [pc EXCEPT ![w] = "resumeAsk"]
  /\ held' = [held EXCEPT ![w] = epoch.n]
  /\ UNCHANGED <<latches, snap, row, stage, leg, tgt, perm, att, cand, verdict, began>>

\* The confirmation arrives; without it the console only disarms.
resumeDisarm(w) ==
  /\ pc[w] = "resumeAsk"
  /\ disarm
  /\ \/ Enter(w, "resume", 1, "read", NoRow) /\ UNCHANGED kept
     \/ Goto(w, "done")

resumeCheck(w) ==
  /\ pc[w] = "resumeCheck"
  /\ Goto(w, IF arm.state = "CLAIMED" THEN "done" ELSE "resumeCas")
  /\ UNCHANGED <<latches, snap, row>>

resumeCas(w) ==
  /\ pc[w] = "resumeCas"
  /\ IF Halted /\ epoch.n = held[w] /\ epoch.n < MaxEpochs
     THEN epoch' = [n |-> epoch.n + 1, state |-> "RUNNING"]
     ELSE UNCHANGED epoch
  /\ Return(w)
  /\ UNCHANGED <<arm, arms, lapsed, session, logins, snap, row>>

done(w) == pc[w] = "done" /\ Return(w) /\ UNCHANGED <<latches, snap, row>>

-----------------------------------------------------------------------------
(* OperatorExecutionService.arm: a monitor admits one call at a time *)

Arming(w) == pc[w] \in {"armDisarm", "armGate", "install", "publish", "recheck", "armUndo", "armEnd"}
             \/ stage[w] \in {"armBefore", "armAfter", "armStatus"}

armBegin(w, o) ==
  /\ pc[w] = "idle" /\ arms < MaxArms /\ \A u \in Callers : ~Arming(u)
  /\ pc' = [pc EXCEPT ![w] = "armDisarm"]
  /\ tgt' = [tgt EXCEPT ![w] = o]
  /\ held' = [held EXCEPT ![w] = epoch.n]
  /\ UNCHANGED <<latches, snap, row, stage, leg, perm, att, cand, verdict, began>>

armDisarm(w) == pc[w] = "armDisarm" /\ disarm /\ Goto(w, "armGate")

\* The stop, the session and the configured limits, then the first preflight.
armGate(w) ==
  /\ pc[w] = "armGate"
  /\ \/ /\ ~Halted /\ session # 0
        /\ Enter(w, "armBefore", 2, "read", row[tgt[w]]) /\ UNCHANGED kept
     \/ (Halted \/ session = 0 \/ Denials) /\ Goto(w, "armUndo")
  /\ UNCHANGED <<latches, snap, row>>

\* The permit is made for the order, its version, the session and the epoch captured
\* when arm was called.
install(w) ==
  /\ pc[w] = "install"
  /\ \/ /\ runningAt(held[w]) /\ session # 0
        /\ perm' = [perm EXCEPT ![w] =
                      [nonce |-> arms + 1, order |-> tgt[w], version |-> cand[w].version,
                       session |-> session, epoch |-> held[w], state |-> "UNUSED", active |-> TRUE]]
        /\ arms' = arms + 1
        /\ pc' = [pc EXCEPT ![w] = "publish"]
        /\ UNCHANGED <<stage, leg, tgt, att, held, cand, verdict, began>>
     \/ ~(runningAt(held[w]) /\ session # 0) /\ UNCHANGED arms /\ Goto(w, "armUndo")
  /\ UNCHANGED <<epoch, arm, lapsed, session, logins, snap, row>>

\* Mutant of publish: a permit that is claimed may be replaced.
publishOverClaim(w) ==
  /\ pc[w] = "publish"
  /\ arm' = perm[w] /\ lapsed' = FALSE
  /\ Goto(w, "recheck")
  /\ UNCHANGED <<epoch, arms, session, logins, snap, row>>

\* The permit becomes visible, unless it would replace one that is claimed.
publish(w) ==
  /\ pc[w] = "publish"
  /\ \/ /\ arm.state # "CLAIMED"
        /\ arm' = perm[w] /\ lapsed' = FALSE
        /\ Goto(w, "recheck")
     \/ arm.state = "CLAIMED" /\ UNCHANGED <<arm, lapsed>> /\ Goto(w, "armUndo")
  /\ UNCHANGED <<epoch, arms, session, logins, snap, row>>

\* The halt is read again after the permit is visible, then the second preflight.
recheck(w) ==
  /\ pc[w] = "recheck"
  /\ \/ /\ runningAt(held[w])
        /\ Enter(w, "armAfter", 2, "read", row[tgt[w]]) /\ UNCHANGED kept
     \/ ~runningAt(held[w]) /\ Goto(w, "armUndo")
  /\ UNCHANGED <<latches, snap, row>>

\* A denied arm, and one that meets a halt at its end, disarms; then the status.
armUndo(w) ==
  /\ pc[w] = "armUndo" /\ disarm
  /\ Enter(w, "armStatus", 1, "read", NoRow) /\ UNCHANGED kept

armEnd(w) ==
  /\ pc[w] = "armEnd"
  /\ \/ Halted /\ Goto(w, "armUndo")
     \/ ~Halted /\ Enter(w, "armStatus", 1, "read", NoRow) /\ UNCHANGED kept
  /\ UNCHANGED <<latches, snap, row>>

-----------------------------------------------------------------------------
(* OperatorExecutionService.execute around OrderApplicationService *)

executeBegin(w, o) ==
  /\ pc[w] = "idle"
  /\ Enter(w, "preflight", 2, "read", row[o])
  /\ tgt' = [tgt EXCEPT ![w] = o]
  /\ UNCHANGED <<latches, snap, row, perm, att, held>>

\* claim: the permit is read, judged by armed(), and taken by a compare-and-set.
claimRead(w) ==
  /\ pc[w] = "claimRead"
  /\ perm' = [perm EXCEPT ![w] = arm]
  /\ Enter(w, "claim", 1, "read", cand[w])
  /\ UNCHANGED <<latches, snap, row, tgt, att, held>>

\* Mutant of claim: the permit may be taken again while it is claimed.
claimAgain(w) ==
  /\ pc[w] = "claim"
  /\ IF perm[w].order = tgt[w] /\ arm = perm[w]
     THEN /\ arm' = change(arm, "CLAIMED", TRUE)
          /\ att' = [att EXCEPT ![w] = arm.nonce]
          /\ Enter(w, "evaluate", 1, "stop", row[tgt[w]]) /\ UNCHANGED <<tgt, perm, held>>
     ELSE UNCHANGED arm /\ Goto(w, "finDisarm")
  /\ UNCHANGED <<epoch, arms, lapsed, session, logins, snap, row>>

\* A successful claim goes on to executeRiskApproved, which reads the order again.
claim(w) ==
  /\ pc[w] = "claim"
  /\ IF perm[w].order = tgt[w] /\ perm[w].state = "UNUSED" /\ arm = perm[w]
     THEN /\ arm' = change(arm, "CLAIMED", TRUE)
          /\ att' = [att EXCEPT ![w] = arm.nonce]
          /\ Enter(w, "evaluate", 1, "stop", row[tgt[w]]) /\ UNCHANGED <<tgt, perm, held>>
     ELSE UNCHANGED arm /\ Goto(w, "finDisarm")
  /\ UNCHANGED <<epoch, arms, lapsed, session, logins, snap, row>>

\* The commit of SUBMITTING; a lost compare-and-set ends the call.
admit(w) ==
  /\ pc[w] = "admit"
  /\ IF row[tgt[w]] = cand[w]
     THEN /\ row' = [row EXCEPT ![tgt[w]] = [state |-> "SUBMITTING", version |-> cand[w].version + 1]]
          /\ Enter(w, "dispatch", 1, "stop", cand[w]) /\ UNCHANGED kept
     ELSE UNCHANGED row /\ Goto(w, "finDisarm")
  /\ UNCHANGED <<latches, snap>>

\* Past the last check nothing stops the request; the answer may be lost.
send(w) ==
  /\ pc[w] = "send"
  /\ \/ \E s \in {"SUBMITTED", "REFUSED"} :
          row' = [row EXCEPT ![tgt[w]] = [state |-> s, version |-> cand[w].version + 2]]
     \/ UNCHANGED row
  /\ Goto(w, "finDisarm")
  /\ UNCHANGED <<latches, snap>>

\* PRE_DISPATCH_DENIED, unless the audit record or the update itself fails.
fail(w) ==
  /\ pc[w] = "fail"
  /\ \/ row' = [row EXCEPT ![tgt[w]] = [state |-> "DENIED", version |-> cand[w].version + 2]]
     \/ Denials /\ UNCHANGED row
  /\ Goto(w, "finDisarm")
  /\ UNCHANGED <<latches, snap>>

finDisarm(w) == pc[w] = "finDisarm" /\ disarm /\ Goto(w, "complete")

\* Mutant of complete: a permit that was revoked meanwhile is not consumed.
completeActiveOnly(w) ==
  /\ pc[w] = "complete"
  /\ arm' = IF arm.nonce = att[w] /\ arm.active THEN change(arm, "CONSUMED", FALSE) ELSE arm
  /\ Return(w)
  /\ UNCHANGED <<epoch, arms, lapsed, session, logins, snap, row>>

complete(w) ==
  /\ pc[w] = "complete"
  /\ arm' = IF att[w] # 0 /\ arm.nonce = att[w] THEN change(arm, "CONSUMED", FALSE) ELSE arm
  /\ Return(w)
  /\ UNCHANGED <<epoch, arms, lapsed, session, logins, snap, row>>

-----------------------------------------------------------------------------
(* The surroundings *)

\* A login replaces the session, a logout or an invalid token ends it.
login ==
  /\ logins < MaxLogins
  /\ logins' = logins + 1 /\ session' = logins + 1
  /\ UNCHANGED <<epoch, arm, arms, lapsed, row, locals>>

logout ==
  /\ Denials /\ session # 0
  /\ session' = 0
  /\ UNCHANGED <<epoch, arm, arms, lapsed, logins, row, locals>>

\* The window of the permit ends.
lapse ==
  /\ Lapses /\ arm.active /\ ~lapsed
  /\ lapsed' = TRUE
  /\ UNCHANGED <<epoch, arm, arms, session, logins, row, locals>>

\* Another process on the same database admits the order.
admittedElsewhere(o) ==
  /\ row[o].state = "RISK_APPROVED"
  /\ row' = [row EXCEPT ![o] = [state |-> "SUBMITTING", version |-> row[o].version + 1]]
  /\ UNCHANGED <<latches, locals>>

-----------------------------------------------------------------------------
Init ==
  /\ epoch = [n |-> 1, state |-> "HALTED"]
  /\ arm = NoArm /\ arms = 0 /\ lapsed = FALSE
  /\ session = 0 /\ logins = 0
  /\ row = [o \in Orders |-> [state |-> "RISK_APPROVED", version |-> 2]]
  /\ pc = [w \in Callers |-> "idle"] /\ stage = [w \in Callers |-> "none"]
  /\ leg = [w \in Callers |-> 0] /\ tgt = [w \in Callers |-> NoOrder]
  /\ snap = [w \in Callers |-> NoArm] /\ perm = [w \in Callers |-> NoArm]
  /\ att = [w \in Callers |-> 0] /\ held = [w \in Callers |-> 0]
  /\ cand = [w \in Callers |-> NoRow]
  /\ verdict = [w \in Callers |-> "NONE"] /\ began = [w \in Callers |-> NoTime]

Begin(w) ==
  \/ haltBegin(w)
  \/ /\ w \notin Readers
     /\ \/ disarmCall(w) \/ statusBegin(w) \/ prepareResume(w)
        \/ \E o \in Orders : armBegin(w, o) \/ executeBegin(w, o)

Step(w) ==
  \/ checkStop(w) \/ armedRead(w) \/ armedJudge(w) \/ bindingReason(w) \/ inspectGates(w)
  \/ haltDisarm(w) \/ resumeDisarm(w) \/ resumeCheck(w) \/ resumeCas(w) \/ done(w)
  \/ armDisarm(w) \/ armGate(w) \/ install(w) \/ publish(w) \/ recheck(w) \/ armUndo(w) \/ armEnd(w)
  \/ claimRead(w) \/ claim(w) \/ admit(w) \/ send(w) \/ fail(w) \/ finDisarm(w) \/ complete(w)

Next ==
  \/ \E w \in Callers : Begin(w) \/ Step(w)
  \/ login \/ logout \/ lapse
  \/ \E o \in Orders : admittedElsewhere(o)

Spec == Init /\ [][Next]_vars

-----------------------------------------------------------------------------
(* Properties *)

Permit == [nonce : 1..arms, order : Orders, version : Nat, session : 1..logins,
           epoch : 1..epoch.n, state : {"UNUSED", "CLAIMED", "CONSUMED"}, active : BOOLEAN]

\* The types of the latches, of the order rows and of every caller's locals.
TypeOK ==
  /\ epoch.n \in 1..MaxEpochs /\ epoch.state \in {"HALTED", "RUNNING"}
  /\ arms \in 0..MaxArms /\ lapsed \in BOOLEAN /\ logins \in 0..MaxLogins /\ session \in 0..logins
  /\ arm \in Permit \cup {NoArm}
  /\ \A w \in Callers :
       /\ stage[w] \in Stages \cup {"none"} /\ leg[w] \in 0..3
       /\ tgt[w] \in Orders \cup {NoOrder}
       /\ snap[w] \in Permit \cup {NoArm} /\ perm[w] \in Permit \cup {NoArm}
       /\ att[w] \in 0..arms /\ held[w] \in 0..epoch.n
       /\ began[w] \in [epoch : 0..epoch.n, session : 0..logins]
       /\ verdict[w] \in {"NONE", "DISARMED", "DENIED"}

\* A caller that owns an attempt.
InFlight(w) == att[w] # 0

\* The permit of an attempt stays claimed, by the same nonce, until the attempt ends:
\* no halt, disarm, expiry, new arm or second execution takes it away or replaces it,
\* so an attempt is never authorised by somebody else's permit.
OwnPermit == \A w \in Callers : InFlight(w) => arm.nonce = att[w] /\ arm.state = "CLAIMED"

\* A permit is claimed once: there is never a second attempt in flight.
SingleAttempt == \A u, w \in Callers : InFlight(u) /\ InFlight(w) => u = w

\* No attempt survives a halt and the following resumption: whenever trading runs while
\* a permit is claimed, it runs in the epoch in which that permit was requested.
NoAttemptSurvivesResume == arm.state = "CLAIMED" /\ ~Halted => arm.epoch = epoch.n

\* The request of an order leaves only under a permit for that order at the version the
\* caller read, and only if no HALT and no other login came between the operator's arm
\* request and the beginning of the caller's last check.
SendAuthorised ==
  \A w \in Callers : pc[w] = "send" =>
    /\ arm.nonce = att[w]
    /\ arm.order = tgt[w] /\ arm.version = cand[w].version
    /\ began[w] = [epoch |-> arm.epoch, session |-> arm.session]
    /\ row[tgt[w]].state = "SUBMITTING" /\ row[tgt[w]].version = arm.version + 1

\* Trading is resumed only from the halted epoch that the operator saw before
\* confirming: a HALT in between wins.
ResumeSeesHalt ==
  [][~Halted' /\ Halted => \E w \in Callers : pc[w] = "resumeCas" /\ held[w] = epoch.n]_vars

\* ADR-019: "HALT after committed admission retains SUBMITTING."  Stated for a runtime in
\* which nothing but the HALT speaks against the request (no Lapses, no Denials).
HaltRetainsSubmitting ==
  [][\A o \in Orders : Halted /\ row[o].state = "SUBMITTING" => row'[o].state # "DENIED"]_vars

=============================================================================
