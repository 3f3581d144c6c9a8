---------------------------- MODULE OrderExecution ----------------------------
(***************************************************************************)
(* The order path of the trading core: durable order records guarded by    *)
(* optimistic versions, the account-wide advisory lock shared by the risk  *)
(* decision and the admission of a submission, the two-phase dispatch to   *)
(* the broker, and reconciliation of broker observations.                  *)
(*                                                                         *)
(* A worker is a thread of some process running one call of RiskService,   *)
(* OrderApplicationService or OrderReconciliationService.  Every database  *)
(* statement or transaction that other workers can observe, and every      *)
(* broker exchange, is a step of its own.  The volatile gates of           *)
(* ExecutionSafetyPolicy (halt, arm, session, market data, freshness,      *)
(* account capacity) are an environment that may deny at any check; the    *)
(* durable gates are modelled exactly.                                     *)
(***************************************************************************)
EXTENDS Integers, FiniteSets

CONSTANTS Orders,      \* orders, each with its own idempotency key and correlation id
          Workers,     \* threads of any process sharing the database
          Qty,         \* the quantity of an order, filled one unit per trade
          MaxCancels,  \* bound: cancellation requests the broker meets per order
          NoOne,       \* nobody holds the advisory lock
          NoOrder      \* target of an idle worker

ASSUME QtyAssumption == Qty \in Nat \ {0}
ASSUME MaxCancelsAssumption == MaxCancels \in Nat
ASSUME NoOneAssumption == NoOne \notin Workers
ASSUME NoOrderAssumption == NoOrder \notin Orders

VARIABLES ord,      \* trading.orders: state, version, whether broker_order_id is set
          decision, \* trading.risk_decisions: outcome and the order version it judged
          unclear,  \* some trading.reconciliation_decisions row blocks live execution
          booked,   \* units of trading.reconciliation_trades per order
          lock,     \* holder of pg_advisory_xact_lock(606001)
          pc, tgt, cur, seen, \* per worker: position, order, record read, broker state read
          posts,    \* HTTP POSTs ever sent for an order
          broker,   \* external: what the broker knows of the request and of its fills
          cancels   \* external: cancellation requests met so far (bounded)

durable == <<ord, decision, unclear, booked>>
local   == <<pc, tgt, cur, seen>>
remote  == <<posts, broker, cancels>>
vars    == <<ord, decision, unclear, booked, lock, pc, tgt, cur, seen, posts, broker, cancels>>

-----------------------------------------------------------------------------
(* Order lifecycle *)

OrderState == {"CREATED", "VALIDATED", "RISK_APPROVED", "SUBMITTING", "SUBMITTED",
               "ACKNOWLEDGED", "OPEN", "PARTIALLY_FILLED", "FILLED", "CANCEL_PENDING",
               "CANCELLED", "REJECTED", "FAILED"}

Terminal == {"FILLED", "CANCELLED", "REJECTED", "FAILED"}

\* OrderState.allowed: the states reachable in one transition.
Allowed(s) ==
  CASE s = "CREATED"          -> {"VALIDATED", "REJECTED"}
    [] s = "VALIDATED"        -> {"RISK_APPROVED", "REJECTED"}
    [] s = "RISK_APPROVED"    -> {"SUBMITTING"}
    [] s = "SUBMITTING"       -> {"SUBMITTED", "REJECTED", "FAILED", "PARTIALLY_FILLED",
                                  "FILLED", "CANCELLED", "CANCEL_PENDING"}
    [] s = "SUBMITTED"        -> {"ACKNOWLEDGED", "OPEN", "PARTIALLY_FILLED", "FILLED",
                                  "CANCEL_PENDING", "CANCELLED", "REJECTED"}
    [] s = "ACKNOWLEDGED"     -> {"OPEN", "PARTIALLY_FILLED", "FILLED", "CANCEL_PENDING",
                                  "CANCELLED", "REJECTED"}
    [] s = "OPEN"             -> {"PARTIALLY_FILLED", "FILLED", "CANCEL_PENDING",
                                  "CANCELLED", "REJECTED"}
    [] s = "PARTIALLY_FILLED" -> {"FILLED", "CANCEL_PENDING", "CANCELLED"}
    [] s = "CANCEL_PENDING"   -> {"CANCELLED", "PARTIALLY_FILLED", "FILLED", "OPEN"}
    [] OTHER                  -> {}

\* The row of an order that has not been placed.
NoRecord == [state |-> "NONE", version |-> 0, bid |-> FALSE]

\* The risk query: every state that reserves the account, a bare approval included.
Reserved(o) == ord[o].state \notin {"NONE", "CREATED", "VALIDATED", "REJECTED", "CANCELLED", "FAILED"}

hasBlockingExposureExcept(o) ==
  \E p \in Orders \ {o} :
     ord[p].state \in {"SUBMITTING", "SUBMITTED", "ACKNOWLEDGED", "OPEN",
                       "PARTIALLY_FILLED", "FILLED", "CANCEL_PENDING"}

hasDangerousUnresolvedOrders == \E p \in Orders : ord[p].state = "SUBMITTING"

-----------------------------------------------------------------------------
(* Transactions and control of a worker *)

\* Positions at which a transaction holds the row lock of its order.
RowHolding == {"riskEval", "riskApprove", "riskReject", "admCommit"}

\* Positions at which a transaction holds the advisory lock.
LockHolding == RowHolding \cup {"riskRow", "admExposure", "admValidate", "admUpdate"}

PC == LockHolding \cup {"idle", "riskLock", "execEval", "admPre", "admLock", "dispatch",
                        "transport", "transportFinal", "send", "await", "attach", "fail",
                        "recOrders", "recTrades", "recApply"}

RowFree(o) == \A u \in Workers : ~(tgt[u] = o /\ pc[u] \in RowHolding)

NothingSeen == [status |-> "NONE", fills |-> 0]

Begin(w, o, p, c) ==
  /\ pc[w] = "idle"
  /\ pc' = [pc EXCEPT ![w] = p]
  /\ tgt' = [tgt EXCEPT ![w] = o]
  /\ cur' = [cur EXCEPT ![w] = c]
  /\ UNCHANGED seen

Goto(w, p) == pc' = [pc EXCEPT ![w] = p] /\ UNCHANGED <<tgt, cur, seen>>

Return(w) ==
  /\ pc' = [pc EXCEPT ![w] = "idle"]
  /\ tgt' = [tgt EXCEPT ![w] = NoOrder]
  /\ cur' = [cur EXCEPT ![w] = NoRecord]
  /\ seen' = [seen EXCEPT ![w] = NothingSeen]

\* Mutant of update: the version predicate is missing.
updateBlind(o, expected, next) == ord' = [ord EXCEPT ![o] = next]

\* UPDATE ... WHERE order_id=? AND version=? of one order row.
update(o, expected, next) ==
  IF ord[o].version = expected THEN ord' = [ord EXCEPT ![o] = next] ELSE UNCHANGED ord

-----------------------------------------------------------------------------
(* OrderApplicationService.place and createIfAbsent: one transaction.  A    *)
(* repeated key returns the stored record or fails, and changes nothing.    *)

place(o) ==
  /\ ord[o] = NoRecord
  /\ ord' = [ord EXCEPT ![o] = [state |-> "VALIDATED", version |-> 1, bid |-> FALSE]]
  /\ UNCHANGED <<decision, unclear, booked, lock, local, remote>>

-----------------------------------------------------------------------------
(* RiskService.evaluate inside the PostgresRiskDecisionStore transaction *)

riskBegin(w, o) ==
  /\ ord[o] # NoRecord
  /\ Begin(w, o, "riskLock", NoRecord)
  /\ UNCHANGED <<durable, lock, remote>>

\* Mutant of riskAcquire: the advisory lock is not waited for.
riskAcquireUnlocked(w) ==
  /\ pc[w] = "riskLock"
  /\ lock' = w
  /\ Goto(w, "riskRow")
  /\ UNCHANGED <<durable, remote>>

riskAcquire(w) ==
  /\ pc[w] = "riskLock" /\ lock = NoOne
  /\ lock' = w
  /\ Goto(w, "riskRow")
  /\ UNCHANGED <<durable, remote>>

\* The row lock, then the immutable replay of a decision, then the VALIDATED guard.
riskRead(w) ==
  /\ pc[w] = "riskRow" /\ RowFree(tgt[w])
  /\ IF decision[tgt[w]].outcome = "NONE" /\ ord[tgt[w]].state = "VALIDATED"
     THEN /\ pc' = [pc EXCEPT ![w] = "riskEval"]
          /\ cur' = [cur EXCEPT ![w] = ord[tgt[w]]]
          /\ UNCHANGED <<tgt, seen, lock>>
     ELSE Return(w) /\ lock' = NoOne
  /\ UNCHANGED <<durable, remote>>

\* Mutant of riskDecide: the query overlooks orders that are approved but not in flight.
riskDecideInFlightOnly(w) ==
  /\ pc[w] = "riskEval"
  /\ \/ ~hasBlockingExposureExcept(tgt[w]) /\ Goto(w, "riskApprove")
     \/ Goto(w, "riskReject")
  /\ UNCHANGED <<durable, lock, remote>>

\* The evaluator approves or rejects; an approval is overruled by any reservation.
riskDecide(w) ==
  /\ pc[w] = "riskEval"
  /\ \/ /\ \A p \in Orders : ~Reserved(p)
        /\ Goto(w, "riskApprove")
     \/ Goto(w, "riskReject")
  /\ UNCHANGED <<durable, lock, remote>>

riskCommit(w, outcome, target) ==
  /\ IF ord[tgt[w]].version = cur[w].version /\ ord[tgt[w]].state = "VALIDATED"
     THEN /\ ord' = [ord EXCEPT ![tgt[w]] =
                       [state |-> target, version |-> cur[w].version + 1, bid |-> cur[w].bid]]
          /\ decision' = [decision EXCEPT ![tgt[w]] =
                            [outcome |-> outcome, version |-> cur[w].version]]
     ELSE UNCHANGED <<ord, decision>>
  /\ Return(w) /\ lock' = NoOne
  /\ UNCHANGED <<unclear, booked, remote>>

riskApprove(w) == pc[w] = "riskApprove" /\ riskCommit(w, "APPROVED", "RISK_APPROVED")
riskReject(w)  == pc[w] = "riskReject"  /\ riskCommit(w, "REJECTED", "REJECTED")

-----------------------------------------------------------------------------
(* OrderApplicationService.executeRiskApproved *)

\* The durable gates of ExecutionSafetyPolicy.inspect; c is the approved snapshot.
policyAllows(o, c, dispatching) ==
  /\ c.state = "RISK_APPROVED"
  /\ decision[o] = [outcome |-> "APPROVED", version |-> c.version - 1]
  /\ dispatching \/ ~hasDangerousUnresolvedOrders
  /\ ~hasBlockingExposureExcept(o)
  /\ ~unclear

\* The row that beginSubmission writes, and the one each outcome then replaces it by.
submitting(c) == [state |-> "SUBMITTING", version |-> c.version + 1, bid |-> c.bid]
submitted(c)  == [state |-> "SUBMITTED",  version |-> c.version + 3, bid |-> TRUE]
failed(c)     == [state |-> "FAILED",     version |-> c.version + 2, bid |-> c.bid]

executeBegin(w, o) ==
  /\ ord[o] # NoRecord
  /\ Begin(w, o, "execEval", ord[o])
  /\ UNCHANGED <<durable, lock, remote>>

executeEvaluate(w) ==
  /\ pc[w] = "execEval"
  /\ \/ policyAllows(tgt[w], cur[w], FALSE) /\ Goto(w, "admPre")
     \/ Return(w)
  /\ UNCHANGED <<durable, lock, remote>>

\* validateAdmission before the admission transaction opens.
admissionPrecheck(w) ==
  /\ pc[w] = "admPre"
  /\ \/ policyAllows(tgt[w], cur[w], TRUE) /\ Goto(w, "admLock")
     \/ Return(w)
  /\ UNCHANGED <<durable, lock, remote>>

admissionAcquire(w) ==
  /\ pc[w] = "admLock" /\ lock = NoOne
  /\ lock' = w
  /\ Goto(w, "admExposure")
  /\ UNCHANGED <<durable, remote>>

admissionExposure(w) ==
  /\ pc[w] = "admExposure"
  /\ IF hasBlockingExposureExcept(tgt[w])
     THEN Return(w) /\ lock' = NoOne
     ELSE Goto(w, "admValidate") /\ UNCHANGED lock
  /\ UNCHANGED <<durable, remote>>

admissionValidate(w) ==
  /\ pc[w] = "admValidate"
  /\ \/ policyAllows(tgt[w], cur[w], TRUE) /\ Goto(w, "admUpdate") /\ UNCHANGED lock
     \/ Return(w) /\ lock' = NoOne
  /\ UNCHANGED <<durable, remote>>

\* Mutant of admissionUpdate: the row is taken without comparing versions.
admissionUpdateBlind(w) ==
  /\ pc[w] = "admUpdate" /\ RowFree(tgt[w])
  /\ Goto(w, "admCommit")
  /\ UNCHANGED <<durable, lock, remote>>

\* The CAS takes the row lock; a lost CAS ends the call with "not admitted".
admissionUpdate(w) ==
  /\ pc[w] = "admUpdate" /\ RowFree(tgt[w])
  /\ IF ord[tgt[w]].version = cur[w].version
     THEN Goto(w, "admCommit") /\ UNCHANGED lock
     ELSE Return(w) /\ lock' = NoOne
  /\ UNCHANGED <<durable, remote>>

\* beforeCommit validates once more; a denial rolls the update back.
admissionCommit(w) ==
  /\ pc[w] = "admCommit"
  /\ \/ /\ policyAllows(tgt[w], cur[w], TRUE)
        /\ ord' = [ord EXCEPT ![tgt[w]] = submitting(cur[w])]
        /\ Goto(w, "dispatch")
     \/ UNCHANGED ord /\ Return(w)
  /\ lock' = NoOne
  /\ UNCHANGED <<decision, unclear, booked, remote>>

\* ExecutionSafetyPolicy.validateDispatch: the durable row must still be ours.
dispatchAllows(w) ==
  /\ ord[tgt[w]].version = submitting(cur[w]).version
  /\ ord[tgt[w]].state = "SUBMITTING"
  /\ policyAllows(tgt[w], cur[w], TRUE)

\* A denial fails the order durably, EMERGENCY_STOP and storage failures leave it.
dispatchStep(w, from, to) ==
  /\ pc[w] = from
  /\ \/ dispatchAllows(w) /\ Goto(w, to)
     \/ Goto(w, "fail")
     \/ Return(w)
  /\ UNCHANGED <<durable, lock, remote>>

validateDispatch(w)       == dispatchStep(w, "dispatch", "transport")
validateTransport(w)      == dispatchStep(w, "transport", "transportFinal")
validateTransportFinal(w) == dispatchStep(w, "transportFinal", "send")

send(w) ==
  /\ pc[w] = "send"
  /\ posts' = [posts EXCEPT ![tgt[w]] = @ + 1]
  /\ broker' = [broker EXCEPT ![tgt[w]] = [status |-> "WIRE", fill |-> 0]]
  /\ Goto(w, "await")
  /\ UNCHANGED <<durable, lock, cancels>>

\* What the broker knows of a request it accepted.
Accepted(o) == broker[o].status \in {"OPEN", "CANCEL_PENDING", "CANCELLED", "REJECTED", "FILLED"}

\* Mutants of receive: an ambiguous outcome fails the order; no client timeout.
receiveTimeoutFails(w) ==
  /\ pc[w] = "await"
  /\ \/ Accepted(tgt[w]) /\ Goto(w, "attach")
     \/ Goto(w, "fail")
  /\ UNCHANGED <<durable, lock, remote>>

receivePatiently(w) ==
  /\ pc[w] = "await"
  /\ \/ Accepted(tgt[w]) /\ Goto(w, "attach")
     \/ broker[tgt[w]].status = "REFUSED" /\ Goto(w, "fail")
  /\ UNCHANGED <<durable, lock, remote>>

\* A success body carries the order id; 400, 401 and 403 are definite refusals;
\* everything else (timeout, 5xx, malformed body) is ambiguous and leaves the row.
receive(w) ==
  /\ pc[w] = "await"
  /\ \/ Accepted(tgt[w]) /\ Goto(w, "attach")
     \/ broker[tgt[w]].status = "REFUSED" /\ Goto(w, "fail")
     \/ Return(w)
  /\ UNCHANGED <<durable, lock, remote>>

attachBrokerOrderId(w) ==
  /\ pc[w] = "attach" /\ RowFree(tgt[w])
  /\ update(tgt[w], submitting(cur[w]).version, submitted(cur[w]))
  /\ Return(w)
  /\ UNCHANGED <<decision, unclear, booked, lock, remote>>

failSubmission(w) ==
  /\ pc[w] = "fail" /\ RowFree(tgt[w])
  /\ update(tgt[w], submitting(cur[w]).version, failed(cur[w]))
  /\ Return(w)
  /\ UNCHANGED <<decision, unclear, booked, lock, remote>>

-----------------------------------------------------------------------------
(* OrderReconciliationService.reconcile *)

\* The status the read adapter reports; an open order with fills is partially filled.
brokerStatus(o) ==
  IF ~Accepted(o) THEN "MISSING"
  ELSE IF broker[o].status = "OPEN" /\ broker[o].fill > 0 THEN "PARTIALLY_FILLED"
  ELSE broker[o].status

\* Mutant of targetState: any fill counts as complete.
targetStateFirstFill(c, status, fills) ==
  IF fills > 0 \/ status = "FILLED" THEN "FILLED"
  ELSE IF status \in {"CANCELLED", "REJECTED", "CANCEL_PENDING", "PARTIALLY_FILLED"} THEN status
  ELSE IF status = "OPEN" THEN IF c.state = "SUBMITTING" THEN "SUBMITTED" ELSE "OPEN"
  ELSE "AMBIGUOUS"

\* The target lifecycle state, "AMBIGUOUS" when the status maps to none.
targetState(c, status, fills) ==
  IF fills = Qty \/ status = "FILLED" THEN "FILLED"
  ELSE IF status = "CANCELLED" THEN "CANCELLED"
  ELSE IF fills > 0 \/ status = "PARTIALLY_FILLED" THEN "PARTIALLY_FILLED"
  ELSE IF status \in {"REJECTED", "CANCEL_PENDING"} THEN status
  ELSE IF status = "OPEN" THEN IF c.state = "SUBMITTING" THEN "SUBMITTED" ELSE "OPEN"
  ELSE "AMBIGUOUS"

\* Mutant of reconcileOutcome: a status without a target is applied.
reconcileOutcomeUnguarded(c, status, fills) ==
  IF status \in {"READ_FAILED", "MISSING", "MISMATCH"} THEN "CONFLICT" ELSE "APPLIED"

reconcileOutcome(c, status, fills) ==
  IF status = "READ_FAILED" THEN "BROKER_STATE_UNAVAILABLE"
  ELSE IF status = "MISSING" THEN "BROKER_ORDER_MISSING"
  ELSE IF status = "MISMATCH" THEN "CONFLICT"
  ELSE LET t == targetState(c, status, fills) IN
       IF t = "AMBIGUOUS" THEN "AMBIGUOUS"
       ELSE IF t = c.state \/ t \in Allowed(c.state) THEN "APPLIED"
       ELSE "FORBIDDEN"

\* transitionTo or reconcileTo: one version per change, the broker id recovered.
reconciled(c, status, fills) ==
  LET t == targetState(c, status, fills) IN
  IF reconcileOutcome(c, status, fills) = "APPLIED" /\ (t # c.state \/ ~c.bid)
  THEN [state |-> t, version |-> c.version + 1, bid |-> TRUE]
  ELSE c

reconcileBegin(w, o) ==
  /\ ord[o] # NoRecord
  /\ Begin(w, o, "recOrders", ord[o])
  /\ UNCHANGED <<durable, lock, remote>>

\* orders(): a failed read, one match, a mismatching identity, or a status without a target.
readOrders(w) ==
  /\ pc[w] = "recOrders"
  /\ \E s \in {brokerStatus(tgt[w]), "READ_FAILED"}
               \cup (IF Accepted(tgt[w]) THEN {"MISMATCH", "UNKNOWN"} ELSE {}) :
        /\ seen' = [seen EXCEPT ![w].status = s]
        /\ pc' = [pc EXCEPT ![w] = IF s = "READ_FAILED" THEN "recApply" ELSE "recTrades"]
  /\ UNCHANGED <<tgt, cur, durable, lock, remote>>

\* trades(): a later read.  The list may lag behind the fills the broker has made, but
\* never loses a trade that was already booked from it.
readTrades(w) ==
  /\ pc[w] = "recTrades"
  /\ \/ \E f \in booked[tgt[w]]..broker[tgt[w]].fill : seen' = [seen EXCEPT ![w].fills = f]
     \/ seen' = [seen EXCEPT ![w].status = "READ_FAILED"]
  /\ pc' = [pc EXCEPT ![w] = "recApply"]
  /\ UNCHANGED <<tgt, cur, durable, lock, remote>>

\* Mutant of bookedTrades: trades already stored are inserted again.
bookedTradesTwice(o, outcome, f) ==
  IF outcome \in {"APPLIED", "AMBIGUOUS", "FORBIDDEN"} THEN booked[o] + f ELSE booked[o]

\* The trade rows of the reconciled order, each stored once.
bookedTrades(o, outcome, f) ==
  IF outcome \in {"APPLIED", "AMBIGUOUS", "FORBIDDEN"} /\ f > booked[o] THEN f ELSE booked[o]

\* PostgresReconciliationStore.apply: row lock, version check, decision, trades, CAS.
reconcileApply(w) ==
  LET o == tgt[w]
      c == cur[w]
      s == seen[w].status
      f == seen[w].fills
      outcome == reconcileOutcome(c, s, f)
  IN /\ pc[w] = "recApply" /\ RowFree(o)
     /\ IF ord[o].version = c.version
        THEN /\ ord' = [ord EXCEPT ![o] = reconciled(c, s, f)]
             /\ unclear' = (unclear \/ outcome # "APPLIED")
             /\ booked' = [booked EXCEPT ![o] = bookedTrades(o, outcome, f)]
        ELSE UNCHANGED <<ord, unclear, booked>>
     /\ Return(w)
     /\ UNCHANGED <<decision, lock, remote>>

-----------------------------------------------------------------------------
(* Failures *)

\* A crash or a database failure ends a call anywhere: its transaction rolls back.
abort(w) ==
  /\ pc[w] # "idle"
  /\ Return(w)
  /\ lock' = IF lock = w THEN NoOne ELSE lock
  /\ UNCHANGED <<durable, remote>>

\* SET LOCAL lock_timeout = '5s' bounds the wait for the advisory lock.
lockTimeout(w) ==
  /\ pc[w] \in {"riskLock", "admLock"}
  /\ Return(w)
  /\ UNCHANGED <<durable, lock, remote>>

-----------------------------------------------------------------------------
(* The broker (external) *)

brokerMoves(o, from, to) ==
  /\ broker[o].status \in from
  /\ broker' = [broker EXCEPT ![o] = [status |-> to, fill |-> @.fill]]
  /\ UNCHANGED <<durable, lock, local, posts>>

brokerReceives(o)  == (\E s \in {"OPEN", "REFUSED", "LOST"} : brokerMoves(o, {"WIRE"}, s)) /\ UNCHANGED cancels
brokerRejects(o)   == broker[o].fill = 0 /\ brokerMoves(o, {"OPEN"}, "REJECTED") /\ UNCHANGED cancels
brokerCancels(o)   == brokerMoves(o, {"OPEN", "CANCEL_PENDING"}, "CANCELLED") /\ UNCHANGED cancels
brokerCancelAsk(o) == /\ cancels[o] < MaxCancels
                      /\ cancels' = [cancels EXCEPT ![o] = @ + 1]
                      /\ brokerMoves(o, {"OPEN"}, "CANCEL_PENDING")
brokerCancelNo(o)  == brokerMoves(o, {"CANCEL_PENDING"}, "OPEN") /\ UNCHANGED cancels

brokerFills(o) ==
  /\ broker[o].status \in {"OPEN", "CANCEL_PENDING"}
  /\ broker' = [broker EXCEPT ![o] =
        [status |-> IF @.fill + 1 = Qty THEN "FILLED" ELSE @.status, fill |-> @.fill + 1]]
  /\ UNCHANGED <<durable, lock, local, posts, cancels>>

-----------------------------------------------------------------------------
(* The specification *)

Init ==
  /\ ord = [o \in Orders |-> NoRecord]
  /\ decision = [o \in Orders |-> [outcome |-> "NONE", version |-> 0]]
  /\ unclear = FALSE
  /\ booked = [o \in Orders |-> 0]
  /\ lock = NoOne
  /\ pc = [w \in Workers |-> "idle"]
  /\ tgt = [w \in Workers |-> NoOrder]
  /\ cur = [w \in Workers |-> NoRecord]
  /\ seen = [w \in Workers |-> NothingSeen]
  /\ posts = [o \in Orders |-> 0]
  /\ broker = [o \in Orders |-> [status |-> "NONE", fill |-> 0]]
  /\ cancels = [o \in Orders |-> 0]

\* A new call.
Call(w, o) == riskBegin(w, o) \/ executeBegin(w, o) \/ reconcileBegin(w, o)

\* The next step of a call under way.
Step(w) ==
  \/ riskAcquire(w) \/ riskRead(w) \/ riskDecide(w) \/ riskApprove(w) \/ riskReject(w)
  \/ executeEvaluate(w) \/ admissionPrecheck(w) \/ admissionAcquire(w)
  \/ admissionExposure(w) \/ admissionValidate(w) \/ admissionUpdate(w) \/ admissionCommit(w)
  \/ validateDispatch(w) \/ validateTransport(w) \/ validateTransportFinal(w)
  \/ send(w) \/ receive(w) \/ attachBrokerOrderId(w) \/ failSubmission(w)
  \/ readOrders(w) \/ readTrades(w) \/ reconcileApply(w)
  \/ lockTimeout(w)

Broker(o) == brokerReceives(o) \/ brokerRejects(o) \/ brokerCancels(o)
             \/ brokerCancelAsk(o) \/ brokerCancelNo(o) \/ brokerFills(o)

Next ==
  \/ \E o \in Orders : place(o) \/ Broker(o)
  \/ \E w \in Workers : Step(w) \/ abort(w)
  \/ \E w \in Workers, o \in Orders : Call(w, o)

Spec == Init /\ [][Next]_vars

-----------------------------------------------------------------------------
(* Properties *)

Record == [state : OrderState \cup {"NONE"}, version : Nat, bid : BOOLEAN]

SeenStatus == {"NONE", "MISSING", "OPEN", "PARTIALLY_FILLED", "CANCEL_PENDING", "CANCELLED",
               "REJECTED", "FILLED", "READ_FAILED", "MISMATCH", "UNKNOWN"}

BrokerStatus == {"NONE", "WIRE", "LOST", "REFUSED", "OPEN", "CANCEL_PENDING", "CANCELLED",
                 "REJECTED", "FILLED"}

\* The types of the tables, of every worker's snapshot and of the broker's state.
TypeOK ==
  /\ ord \in [Orders -> Record]
  /\ decision \in [Orders -> [outcome : {"NONE", "APPROVED", "REJECTED"}, version : Nat]]
  /\ unclear \in BOOLEAN
  /\ booked \in [Orders -> 0..Qty]
  /\ lock \in Workers \cup {NoOne}
  /\ pc \in [Workers -> PC]
  /\ tgt \in [Workers -> Orders \cup {NoOrder}]
  /\ cur \in [Workers -> Record]
  /\ seen \in [Workers -> [status : SeenStatus, fills : 0..Qty]]
  /\ posts \in [Orders -> Nat]
  /\ broker \in [Orders -> [status : BrokerStatus, fill : 0..Qty]]
  /\ cancels \in [Orders -> Nat]

\* The account is reserved by at most one order at a time, from its approval to a
\* terminal state other than FILLED: two risk decisions, or an approval and an
\* admission, never both pass (PostgresRiskDecisionStore.evaluate, beginSubmission).
SingleReservation == \A o, p \in Orders : Reserved(o) /\ Reserved(p) => o = p

\* No interleaving of execution calls, crashes, lost responses and reconciliations
\* sends the HTTP POST of an order twice (executeRiskApproved).
AtMostOnePost == \A o \in Orders : posts[o] <= 1

\* An order the broker may still execute, or has filled, is never released locally:
\* late acceptance after a timeout, a lost response and a denial racing the send
\* all leave a durable state that reserves the account.
WorkingOrdersReserved ==
  \A o \in Orders : broker[o].status \in {"WIRE", "OPEN", "CANCEL_PENDING", "FILLED"} => Reserved(o)

\* A terminal local state is the truth about the broker: FAILED means that nothing was
\* accepted, FILLED and CANCELLED that the broker filled or cancelled, and REJECTED
\* that risk or the broker rejected.
TerminalAgrees ==
  \A o \in Orders :
    /\ ord[o].state = "FILLED"    => broker[o].status = "FILLED"
    /\ ord[o].state = "CANCELLED" => broker[o].status = "CANCELLED"
    /\ ord[o].state = "FAILED"    => broker[o].status \in {"NONE", "REFUSED"}
    /\ ord[o].state = "REJECTED"  => broker[o].status \in {"NONE", "REJECTED"}

\* Trades are booked only for orders that were submitted and never beyond the broker's
\* fills, although the trade list is read later than the order list.
BookedTradesReal ==
  \A o \in Orders : booked[o] > 0 =>
    booked[o] <= broker[o].fill /\ ord[o].state \notin {"NONE", "VALIDATED", "RISK_APPROVED", "FAILED", "REJECTED"}

\* Every committed change of an order row follows OrderState.transitionTo from the row
\* it replaces, bumps the version and keeps the broker order id, whatever stale record
\* the writer started from.
LifecycleStep(o) ==
  \/ ord[o] = NoRecord
  \/ /\ ord'[o].version > ord[o].version
     /\ ord'[o].state = ord[o].state \/ ord'[o].state \in Allowed(ord[o].state)
     /\ ord[o].bid => ord'[o].bid
Lifecycle == [][\A o \in Orders : ord'[o] # ord[o] => LifecycleStep(o)]_vars

\* At the instant of an HTTP POST the order is durably SUBMITTING without a broker id,
\* approved at the version before its admission, and no other order reserves the account.
FencedSend(o) ==
  /\ ord[o].state = "SUBMITTING" /\ ~ord[o].bid
  /\ decision[o] = [outcome |-> "APPROVED", version |-> ord[o].version - 2]
  /\ \A p \in Orders \ {o} : ~Reserved(p)
SendFenced == [][\A o \in Orders : posts'[o] # posts[o] => FencedSend(o)]_vars

\* Every call returns: the lock order (advisory lock, then row) cannot deadlock, and a
\* broker that never answers only makes the outcome ambiguous.
CallsReturn == \A w \in Workers : pc[w] # "idle" ~> pc[w] = "idle"

-----------------------------------------------------------------------------
(* The abstract account slot that the order path implements *)

SlotHolder == IF \E o \in Orders : Reserved(o) THEN CHOOSE o \in Orders : Reserved(o) ELSE NoOrder
SlotSent    == {o \in Orders : posts[o] > 0}
SlotExposed == {o \in Orders : broker[o].status \in {"WIRE", "OPEN", "CANCEL_PENDING", "FILLED"}}
SlotClosed  == {o \in Orders : ord[o].state \in {"REJECTED", "CANCELLED", "FAILED"}}

Slot == INSTANCE AccountSlot WITH Free <- NoOrder, holder <- SlotHolder, sent <- SlotSent,
                                  exposed <- SlotExposed, closed <- SlotClosed

\* Every step of the order path is a step of the account slot or leaves it alone: the
\* slot is taken by one approval, used for one request, and returned only after the
\* broker has given the order up.
ImplementsAccountSlot == Slot!SlotSpec

=============================================================================
