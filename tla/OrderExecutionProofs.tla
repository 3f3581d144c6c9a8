------------------------ MODULE OrderExecutionProofs ------------------------
(***************************************************************************)
(* Safety of the order path for any number of orders, workers and units.   *)
(* IInv is the inductive invariant; its parts say who owns the lock, how a *)
(* worker's snapshot relates to the row it was read from, and what has     *)
(* been sent for an order at each point of its life.                       *)
(***************************************************************************)
EXTENDS OrderExecution, TLAPS

\* Positions of an execution call before and after its admission commits.
Admitting == {"admPre", "admLock", "admExposure", "admValidate", "admUpdate", "admCommit"}
PreSend   == {"dispatch", "transport", "transportFinal", "send"}
Post      == PreSend \cup {"await", "attach", "fail"}
Deciding  == {"riskEval", "riskApprove", "riskReject"}
Reading   == {"execEval", "recOrders", "recTrades", "recApply"}
Early     == {"NONE", "CREATED", "VALIDATED", "RISK_APPROVED"}

\* A busy worker has an order, and a transaction past its lock statement owns the lock.
Owns(w) ==
  /\ pc[w] # "idle" => tgt[w] \in Orders
  /\ pc[w] \in LockHolding => lock = w

\* A record read earlier is not newer than the row, and is the row if versions agree.
Reads(w) ==
  pc[w] \in Reading =>
    /\ cur[w].version <= ord[tgt[w]].version
    /\ cur[w].version = ord[tgt[w]].version => cur[w] = ord[tgt[w]]
    /\ cur[w].state \in Early => ~cur[w].bid

\* A risk transaction works on the row itself and has seen no earlier decision.
Decides(w) ==
  pc[w] \in Deciding =>
    /\ cur[w] = ord[tgt[w]] /\ cur[w].state = "VALIDATED"
    /\ decision[tgt[w]].outcome = "NONE"
    /\ pc[w] = "riskApprove" => \A o \in Orders : ~Reserved(o)

\* An execution call holds the approved snapshot; at commit it is still the row.
Admits(w) ==
  pc[w] \in Admitting \cup Post =>
    /\ cur[w].state = "RISK_APPROVED" /\ ~cur[w].bid
    /\ decision[tgt[w]] = [outcome |-> "APPROVED", version |-> cur[w].version - 1]
    /\ cur[w].version <= ord[tgt[w]].version
    /\ cur[w].version = ord[tgt[w]].version => cur[w] = ord[tgt[w]]
    /\ pc[w] = "admCommit" => cur[w] = ord[tgt[w]]

\* After admission the row is the one this call committed, or a newer one once the
\* request is out.
Dispatches(w) ==
  pc[w] \in Post =>
    /\ ord[tgt[w]].version >= cur[w].version + 1
    /\ ord[tgt[w]].version = cur[w].version + 1 => ord[tgt[w]] = submitting(cur[w])
    /\ pc[w] \in PreSend => posts[tgt[w]] = 0 /\ ord[tgt[w]] = submitting(cur[w])
    /\ pc[w] = "attach" => Accepted(tgt[w])
    /\ pc[w] = "fail" => broker[tgt[w]].status \in {"NONE", "REFUSED"}

\* A broker state read earlier: final statuses persist and fills only grow.
Sees(w) ==
  /\ pc[w] \in {"recTrades", "recApply"} =>
       /\ seen[w].status # "NONE"
       /\ seen[w].status \notin {"MISSING", "READ_FAILED"} => Accepted(tgt[w])
       /\ seen[w].status \in {"CANCELLED", "REJECTED", "FILLED"} => broker[tgt[w]].status = seen[w].status
       /\ seen[w].fills <= broker[tgt[w]].fill
  /\ pc[w] \notin {"recTrades", "recApply"} => seen[w] = NothingSeen
  /\ pc[w] = "recTrades" => seen[w].fills = 0

WorkerInv(w) == Owns(w) /\ Reads(w) /\ Decides(w) /\ Admits(w) /\ Dispatches(w) /\ Sees(w)

\* Only one call at a time is past the admission of an order.
OneSubmitter ==
  \A u, w \in Workers : pc[u] \in Post /\ pc[w] \in Post /\ tgt[u] = tgt[w] => u = w

\* What the broker knows agrees with what was sent.
Sent(o) ==
  /\ posts[o] <= 1
  /\ posts[o] = 0 <=> broker[o].status = "NONE"
  /\ ord[o].state \in Early => posts[o] = 0 /\ ~ord[o].bid
  /\ broker[o].fill = Qty => broker[o].status = "FILLED"
  /\ broker[o].fill > 0 => broker[o].status \in {"OPEN", "CANCEL_PENDING", "CANCELLED", "FILLED"}
  /\ booked[o] <= broker[o].fill

IInv == /\ TypeOK
        /\ \A w \in Workers : WorkerInv(w)
        /\ OneSubmitter
        /\ \A o \in Orders : Sent(o)
        /\ SingleReservation
        /\ TerminalAgrees

-----------------------------------------------------------------------------
\* An empty database and idle workers satisfy the inductive invariant.
THEOREM InitIInv == Init => IInv
<1> SUFFICES ASSUME Init PROVE IInv
  OBVIOUS
<1> USE QtyAssumption DEF Init, NoRecord, NothingSeen
<1>1. TypeOK
  <2>1. unclear \in BOOLEAN
    BY Zenon
  <2>2. NoRecord \in Record /\ NothingSeen \in [status : SeenStatus, fills : 0..Qty]
    BY DEF Record, OrderState, SeenStatus
  <2> QED
    BY <2>1, <2>2 DEF TypeOK, PC, BrokerStatus
<1>2. ASSUME NEW w \in Workers PROVE WorkerInv(w)
  BY <1>2 DEF WorkerInv, Owns, Reads, Decides, Admits, Dispatches, Sees, LockHolding,
     RowHolding, Reading, Deciding, Admitting, Post, PreSend
<1>3. OneSubmitter
  BY DEF OneSubmitter, Post, PreSend
<1>4. ASSUME NEW o \in Orders PROVE Sent(o)
  BY DEF Sent, Early
<1>5. SingleReservation /\ TerminalAgrees
  BY DEF SingleReservation, TerminalAgrees, Reserved
<1> QED
  BY <1>1, <1>2, <1>3, <1>4, <1>5 DEF IInv

-----------------------------------------------------------------------------
\* A step that changes only the local state of w, and the lock only if w takes it
\* while it is free or gives its own back, keeps every other worker's invariant.
LEMMA OthersKeep ==
  ASSUME IInv, NEW w \in Workers,
         pc' = [pc EXCEPT ![w] = pc'[w]], tgt' = [tgt EXCEPT ![w] = tgt'[w]],
         cur' = [cur EXCEPT ![w] = cur'[w]], seen' = [seen EXCEPT ![w] = seen'[w]],
         lock' = lock \/ lock \in {NoOne, w},
         UNCHANGED <<ord, decision, remote>>,
         NEW u \in Workers \ {w}
  PROVE  WorkerInv(u)'
<1> WorkerInv(u) /\ pc \in [Workers -> PC]
  BY DEF IInv, TypeOK
<1>1. pc'[u] = pc[u] /\ tgt'[u] = tgt[u] /\ cur'[u] = cur[u] /\ seen'[u] = seen[u]
  BY DEF IInv, TypeOK
<1>2. pc[u] \in LockHolding => lock' = lock
  BY NoOneAssumption DEF WorkerInv, Owns
<1> QED
  BY <1>1, <1>2 DEF WorkerInv, Owns, Reads, Decides, Admits, Dispatches, Sees, remote,
     Reserved, Accepted

\* A call that ends without touching the tables or the broker.
LEMMA ReturnKeeps ==
  ASSUME IInv, NEW w \in Workers, Return(w), UNCHANGED <<durable, remote>>,
         lock' = lock \/ (lock = w /\ lock' = NoOne),
         lock = w => lock' = NoOne \/ pc[w] \notin LockHolding
  PROVE  IInv'
<1> USE DEF Return
<1>1. TypeOK'
  BY QtyAssumption DEF IInv, TypeOK, durable, remote, PC, Record, NoRecord, NothingSeen, SeenStatus
<1>2. ASSUME NEW u \in Workers PROVE WorkerInv(u)'
  <2>1. CASE u # w
    BY <2>1, OthersKeep DEF IInv, TypeOK, durable
  <2>2. CASE u = w
    BY <2>2 DEF IInv, TypeOK, WorkerInv, Owns, Reads, Decides, Admits, Dispatches, Sees,
       LockHolding, RowHolding, Reading, Deciding, Admitting, Post, PreSend
  <2> QED BY <2>1, <2>2
<1>3. OneSubmitter'
  BY DEF IInv, TypeOK, OneSubmitter, Post, PreSend
<1>4. (\A o \in Orders : Sent(o))' /\ SingleReservation' /\ TerminalAgrees'
  BY DEF IInv, Sent, SingleReservation, TerminalAgrees, Reserved, durable, remote
<1> QED
  BY <1>1, <1>2, <1>3, <1>4 DEF IInv

\* A call that moves on without touching the tables or the broker, and does not enter
\* the positions past admission.
LEMMA MoveKeeps ==
  ASSUME IInv, NEW w \in Workers,
         pc' = [pc EXCEPT ![w] = pc'[w]], tgt' = [tgt EXCEPT ![w] = tgt'[w]],
         cur' = [cur EXCEPT ![w] = cur'[w]], seen' = [seen EXCEPT ![w] = seen'[w]],
         pc'[w] \in PC, tgt'[w] \in Orders, cur'[w] \in Record,
         seen'[w] \in [status : SeenStatus, fills : 0..Qty],
         lock' = lock \/ (lock = NoOne /\ lock' = w),
         UNCHANGED <<durable, remote>>,
         pc'[w] \in Post => pc[w] \in Post /\ tgt'[w] = tgt[w],
         WorkerInv(w)'
  PROVE  IInv'
<1>1. TypeOK'
  BY DEF IInv, TypeOK, durable, remote
<1>2. ASSUME NEW u \in Workers PROVE WorkerInv(u)'
  <2>1. CASE u # w
    BY <2>1, OthersKeep DEF durable
  <2> QED BY <2>1
<1>3. OneSubmitter'
  BY DEF IInv, TypeOK, OneSubmitter
<1>4. (\A o \in Orders : Sent(o))' /\ SingleReservation' /\ TerminalAgrees'
  BY DEF IInv, Sent, SingleReservation, TerminalAgrees, Reserved, durable, remote
<1> QED
  BY <1>1, <1>2, <1>3, <1>4 DEF IInv

\* New calls start from the row as it is.
LEMMA CallKeeps ==
  ASSUME IInv, NEW w \in Workers, NEW o \in Orders, Call(w, o)
  PROVE  IInv'
<1>1. /\ pc[w] = "idle" /\ seen[w] = NothingSeen /\ ord[o] \in Record
      /\ seen[w] \in [status : SeenStatus, fills : 0..Qty]
  BY DEF Call, riskBegin, executeBegin, reconcileBegin, Begin, IInv, TypeOK, WorkerInv, Sees
<1>2. NoRecord \in Record
  BY DEF NoRecord, Record
<1>3. ASSUME NEW p \in {"riskLock", "execEval", "recOrders"},
             NEW c \in Record, p # "riskLock" => c = ord[o],
             Begin(w, o, p, c), UNCHANGED <<durable, lock, remote>>
      PROVE  IInv'
  <2>1. /\ pc' = [pc EXCEPT ![w] = p] /\ tgt' = [tgt EXCEPT ![w] = o]
        /\ cur' = [cur EXCEPT ![w] = c] /\ seen' = seen
        /\ pc'[w] = p /\ tgt'[w] = o /\ cur'[w] = c /\ seen'[w] = NothingSeen
    BY <1>1, <1>3 DEF Begin, IInv, TypeOK
  <2>2. WorkerInv(w)'
    BY <1>1, <1>3, <2>1 DEF WorkerInv, Owns, Reads, Decides, Admits, Dispatches, Sees, Sent, NothingSeen,
       LockHolding, RowHolding, Reading, Deciding, Admitting, Post, PreSend, durable, IInv, TypeOK, Record
  <2>3. p \in PC /\ p \notin Post
    BY <1>3 DEF PC, Post, PreSend
  <2> QED
    BY <1>1, <1>3, <2>1, <2>2, <2>3, MoveKeeps DEF IInv, TypeOK
<1> QED
  BY <1>1, <1>2, <1>3 DEF Call, riskBegin, executeBegin, reconcileBegin

\* The common case of MoveKeeps: only the position changes.
LEMMA GotoKeeps ==
  ASSUME IInv, NEW w \in Workers, NEW p \in PC, pc[w] # "idle", Goto(w, p),
         lock' = lock \/ (lock = NoOne /\ lock' = w),
         UNCHANGED <<durable, remote>>,
         p \in Post => pc[w] \in Post,
         WorkerInv(w)'
  PROVE  IInv'
<1>1. /\ pc' = [pc EXCEPT ![w] = p] /\ tgt' = tgt /\ cur' = cur /\ seen' = seen
      /\ pc'[w] = p /\ tgt[w] \in Orders /\ cur[w] \in Record
      /\ seen[w] \in [status : SeenStatus, fills : 0..Qty]
      /\ tgt = [tgt EXCEPT ![w] = tgt[w]] /\ cur = [cur EXCEPT ![w] = cur[w]]
      /\ seen = [seen EXCEPT ![w] = seen[w]]
  BY DEF Goto, IInv, TypeOK, WorkerInv, Owns
<1> QED
  BY <1>1, MoveKeeps

\* Risk transactions up to their commit.
LEMMA RiskKeeps ==
  ASSUME IInv, NEW w \in Workers, riskAcquire(w) \/ riskRead(w) \/ riskDecide(w)
  PROVE  IInv'
<1> USE DEF WorkerInv, Owns, Reads, Decides, Admits, Dispatches, Sees, LockHolding, RowHolding,
        Reading, Deciding, Admitting, Post, PreSend
<1>t. WorkerInv(w) /\ pc[w] \in PC /\ pc \in [Workers -> PC]
  BY DEF IInv, TypeOK
<1>1. CASE riskAcquire(w)
  <2>1. WorkerInv(w)'
    BY <1>1, <1>t DEF riskAcquire, Goto
  <2> QED
    BY <1>1, <2>1, GotoKeeps DEF riskAcquire, PC
<1>2. CASE riskRead(w)
  <2>1. CASE decision[tgt[w]].outcome = "NONE" /\ ord[tgt[w]].state = "VALIDATED"
    <3>1. /\ pc' = [pc EXCEPT ![w] = "riskEval"] /\ cur' = [cur EXCEPT ![w] = ord[tgt[w]]]
          /\ pc'[w] = "riskEval" /\ cur'[w] = ord[tgt[w]] /\ tgt' = tgt /\ seen' = seen /\ lock' = lock
          /\ ord[tgt[w]] \in Record /\ tgt[w] \in Orders
          /\ seen[w] \in [status : SeenStatus, fills : 0..Qty]
          /\ tgt = [tgt EXCEPT ![w] = tgt[w]] /\ seen = [seen EXCEPT ![w] = seen[w]]
      BY <1>2, <1>t, <2>1 DEF riskRead, IInv, TypeOK
    <3>2. WorkerInv(w)'
      BY <1>2, <1>t, <2>1, <3>1 DEF riskRead, durable
    <3> QED
      BY <1>2, <3>1, <3>2, MoveKeeps DEF riskRead, PC
  <2>2. CASE ~(decision[tgt[w]].outcome = "NONE" /\ ord[tgt[w]].state = "VALIDATED")
    BY <1>2, <1>t, <2>2, ReturnKeeps DEF riskRead
  <2> QED BY <2>1, <2>2
<1>3. CASE riskDecide(w)
  <2>1. ASSUME NEW p \in {"riskApprove", "riskReject"}, Goto(w, p),
               p = "riskApprove" => \A o \in Orders : ~Reserved(o)
        PROVE  IInv'
    <3>1. WorkerInv(w)'
      BY <1>3, <1>t, <2>1 DEF riskDecide, Goto, durable, Reserved
    <3> QED
      BY <1>3, <2>1, <3>1, GotoKeeps DEF riskDecide, PC
  <2> QED
    BY <1>3, <2>1 DEF riskDecide
<1> QED BY <1>1, <1>2, <1>3

\* Execution calls up to the commit of their admission.
LEMMA AdmissionKeeps ==
  ASSUME IInv, NEW w \in Workers,
         \/ executeEvaluate(w) \/ admissionPrecheck(w) \/ admissionAcquire(w)
         \/ admissionExposure(w) \/ admissionValidate(w) \/ admissionUpdate(w)
  PROVE  IInv'
<1> USE DEF WorkerInv, Owns, Reads, Decides, Admits, Dispatches, Sees, LockHolding, RowHolding,
        Reading, Deciding, Admitting, Post, PreSend
<1>t. /\ WorkerInv(w) /\ pc[w] \in PC /\ pc \in [Workers -> PC]
      /\ cur[w] \in Record /\ ord \in [Orders -> Record] /\ TypeOK
  BY DEF IInv, TypeOK
<1>1. CASE executeEvaluate(w)
  <2>1. CASE policyAllows(tgt[w], cur[w], FALSE) /\ Goto(w, "admPre")
    <3>1. ~cur[w].bid
      BY <1>1, <1>t, <2>1 DEF executeEvaluate, policyAllows, Early
    <3>2. WorkerInv(w)'
      BY <1>1, <1>t, <2>1, <3>1 DEF executeEvaluate, policyAllows, Goto, durable
    <3> QED
      BY <1>1, <2>1, <3>2, GotoKeeps DEF executeEvaluate, PC
  <2> QED
    BY <1>1, <1>t, <2>1, ReturnKeeps DEF executeEvaluate
<1>2. CASE admissionPrecheck(w)
  <2>1. CASE Goto(w, "admLock")
    <3>1. WorkerInv(w)'
      BY <1>2, <1>t, <2>1 DEF admissionPrecheck, Goto, durable
    <3> QED
      BY <1>2, <2>1, <3>1, GotoKeeps DEF admissionPrecheck, PC
  <2> QED
    BY <1>2, <1>t, <2>1, ReturnKeeps DEF admissionPrecheck
<1>3. CASE admissionAcquire(w)
  <2>1. WorkerInv(w)'
    BY <1>3, <1>t DEF admissionAcquire, Goto, durable
  <2> QED
    BY <1>3, <2>1, GotoKeeps DEF admissionAcquire, PC
<1>4. CASE admissionExposure(w)
  <2>1. CASE hasBlockingExposureExcept(tgt[w])
    BY <1>4, <1>t, <2>1, ReturnKeeps DEF admissionExposure
  <2>2. CASE ~hasBlockingExposureExcept(tgt[w])
    <3>1. WorkerInv(w)'
      BY <1>4, <1>t, <2>2 DEF admissionExposure, Goto, durable
    <3> QED
      BY <1>4, <2>2, <3>1, GotoKeeps DEF admissionExposure, PC
  <2> QED BY <2>1, <2>2
<1>5. CASE admissionValidate(w)
  <2>1. CASE Goto(w, "admUpdate") /\ UNCHANGED lock
    <3>1. WorkerInv(w)'
      BY <1>5, <1>t, <2>1 DEF admissionValidate, Goto, durable
    <3> QED
      BY <1>5, <2>1, <3>1, GotoKeeps DEF admissionValidate, PC
  <2> QED
    BY <1>5, <1>t, <2>1, ReturnKeeps DEF admissionValidate
<1>6. CASE admissionUpdate(w)
  <2>1. CASE ord[tgt[w]].version = cur[w].version
    <3>1. WorkerInv(w)'
      BY <1>6, <1>t, <2>1 DEF admissionUpdate, Goto, durable
    <3> QED
      BY <1>6, <2>1, <3>1, GotoKeeps DEF admissionUpdate, PC
  <2>2. CASE ord[tgt[w]].version # cur[w].version
    BY <1>6, <1>t, <2>2, ReturnKeeps DEF admissionUpdate
  <2> QED BY <2>1, <2>2
<1> QED BY <1>1, <1>2, <1>3, <1>4, <1>5, <1>6

\* Dispatch validation and the answer of the broker.
LEMMA DispatchKeeps ==
  ASSUME IInv, NEW w \in Workers,
         validateDispatch(w) \/ validateTransport(w) \/ validateTransportFinal(w) \/ receive(w)
  PROVE  IInv'
<1> USE DEF WorkerInv, Owns, Reads, Decides, Admits, Dispatches, Sees, LockHolding, RowHolding,
        Reading, Deciding, Admitting, Post, PreSend
<1>t. /\ WorkerInv(w) /\ pc[w] \in PC /\ pc \in [Workers -> PC]
      /\ cur[w] \in Record /\ ord \in [Orders -> Record]
  BY DEF IInv, TypeOK
<1>s. pc[w] # "idle" => Sent(tgt[w])
  BY <1>t DEF IInv
<1>1. ASSUME NEW from \in PreSend \ {"send"}, NEW to \in PreSend, dispatchStep(w, from, to)
      PROVE  IInv'
  <2>1. ASSUME NEW p \in PreSend \cup {"fail"}, Goto(w, p) PROVE IInv'
    <3>1. WorkerInv(w)'
      BY <1>1, <1>t, <1>s, <2>1 DEF dispatchStep, Goto, durable, remote, Accepted, Sent
    <3> QED
      BY <1>1, <2>1, <3>1, GotoKeeps DEF dispatchStep, PC
  <2> QED
    BY <1>1, <1>t, <2>1, ReturnKeeps DEF dispatchStep
<1>2. CASE receive(w)
  <2>1. CASE Accepted(tgt[w]) /\ Goto(w, "attach")
    <3>1. WorkerInv(w)'
      BY <1>2, <1>t, <2>1 DEF receive, Goto, durable, remote, Accepted
    <3> QED
      BY <1>2, <2>1, <3>1, GotoKeeps DEF receive, PC
  <2>2. CASE broker[tgt[w]].status = "REFUSED" /\ Goto(w, "fail")
    <3>1. WorkerInv(w)'
      BY <1>2, <1>t, <2>2 DEF receive, Goto, durable, remote, Accepted
    <3> QED
      BY <1>2, <2>2, <3>1, GotoKeeps DEF receive, PC
  <2> QED
    BY <1>2, <1>t, <2>1, <2>2, ReturnKeeps DEF receive
<1> QED
  BY <1>1, <1>2 DEF validateDispatch, validateTransport, validateTransportFinal

\* Broker reads of a reconciliation.
LEMMA ReadKeeps ==
  ASSUME IInv, NEW w \in Workers, readOrders(w) \/ readTrades(w)
  PROVE  IInv'
<1> USE DEF WorkerInv, Owns, Reads, Decides, Admits, Dispatches, Sees, LockHolding, RowHolding,
        Reading, Deciding, Admitting, Post, PreSend
<1>t. /\ WorkerInv(w) /\ pc[w] \in PC /\ pc \in [Workers -> PC] /\ tgt[w] \in Orders
      /\ cur[w] \in Record /\ seen \in [Workers -> [status : SeenStatus, fills : 0..Qty]]
      /\ broker \in [Orders -> [status : BrokerStatus, fill : 0..Qty]]
      /\ booked \in [Orders -> 0..Qty] /\ Sent(tgt[w]) /\ Qty \in Nat
      /\ cur = [cur EXCEPT ![w] = cur[w]] /\ tgt = [tgt EXCEPT ![w] = tgt[w]]
  BY QtyAssumption DEF IInv, TypeOK, readOrders, readTrades
<1>1. CASE readOrders(w)
  <2>1. PICK s \in {brokerStatus(tgt[w]), "READ_FAILED"}
                     \cup (IF Accepted(tgt[w]) THEN {"MISMATCH", "UNKNOWN"} ELSE {}) :
           /\ seen' = [seen EXCEPT ![w].status = s]
           /\ pc' = [pc EXCEPT ![w] = IF s = "READ_FAILED" THEN "recApply" ELSE "recTrades"]
    BY <1>1 DEF readOrders
  <2>2. /\ s \in SeenStatus /\ s # "NONE"
        /\ s \notin {"MISSING", "READ_FAILED"} => Accepted(tgt[w])
        /\ s \in {"CANCELLED", "REJECTED", "FILLED"} => broker[tgt[w]].status = s
    BY <2>1, <1>t DEF brokerStatus, Accepted, SeenStatus, BrokerStatus
  <2>3. /\ pc'[w] \in {"recApply", "recTrades"} /\ pc' = [pc EXCEPT ![w] = pc'[w]]
        /\ seen'[w] = [status |-> s, fills |-> 0] /\ seen' = [seen EXCEPT ![w] = seen'[w]]
    BY <1>1, <1>t, <2>1 DEF readOrders, NothingSeen
  <2>4. /\ tgt' = tgt /\ cur' = cur /\ lock' = lock /\ ord' = ord /\ decision' = decision
        /\ posts' = posts /\ broker' = broker /\ UNCHANGED <<durable, remote>>
    BY <1>1 DEF readOrders, durable, remote
  <2>5. WorkerInv(w)'
    BY <1>1, <1>t, <2>2, <2>3, <2>4 DEF readOrders, Accepted
  <2>6. pc'[w] \in PC /\ pc'[w] \notin Post /\ seen'[w] \in [status : SeenStatus, fills : 0..Qty]
    BY <1>t, <2>2, <2>3 DEF PC
  <2> QED
    BY <1>t, <2>3, <2>4, <2>5, <2>6, MoveKeeps
<1>2. CASE readTrades(w)
  <2>1. PICK n \in [status : SeenStatus, fills : 0..Qty] :
           /\ seen' = [seen EXCEPT ![w] = n]
           /\ n.status \in {seen[w].status, "READ_FAILED"} /\ n.fills <= broker[tgt[w]].fill
    <3>1. CASE \E f \in booked[tgt[w]]..broker[tgt[w]].fill : seen' = [seen EXCEPT ![w].fills = f]
      <4>1. PICK f \in booked[tgt[w]]..broker[tgt[w]].fill : seen' = [seen EXCEPT ![w].fills = f]
        BY <3>1
      <4>2. f \in 0..Qty /\ f <= broker[tgt[w]].fill
        BY <1>t
      <4> DEFINE m == [seen[w] EXCEPT !.fills = f]
      <4>3. /\ m \in [status : SeenStatus, fills : 0..Qty] /\ seen' = [seen EXCEPT ![w] = m]
            /\ m.status = seen[w].status /\ m.fills <= broker[tgt[w]].fill
        BY <1>t, <4>1, <4>2
      <4> QED
        BY <4>3
    <3>2. CASE seen' = [seen EXCEPT ![w].status = "READ_FAILED"]
      <4> DEFINE m == [seen[w] EXCEPT !.status = "READ_FAILED"]
      <4>1. /\ m \in [status : SeenStatus, fills : 0..Qty] /\ seen' = [seen EXCEPT ![w] = m]
            /\ m.status = "READ_FAILED" /\ m.fills <= broker[tgt[w]].fill
        BY <1>2, <1>t, <3>2 DEF readTrades, SeenStatus
      <4> QED
        BY <4>1
    <3> QED
      BY <1>2, <3>1, <3>2 DEF readTrades
  <2>2. /\ pc'[w] = "recApply" /\ pc' = [pc EXCEPT ![w] = pc'[w]]
        /\ seen'[w] = n /\ seen' = [seen EXCEPT ![w] = seen'[w]]
    BY <1>2, <1>t, <2>1 DEF readTrades
  <2>3. WorkerInv(w)'
    BY <1>2, <1>t, <2>1, <2>2 DEF readTrades, durable, remote, Accepted
  <2> QED
    BY <1>2, <1>t, <2>1, <2>2, <2>3, MoveKeeps DEF readTrades, PC
<1> QED BY <1>1, <1>2

\* Crashes and lock timeouts.
LEMMA FailureKeeps ==
  ASSUME IInv, NEW w \in Workers, abort(w) \/ lockTimeout(w)
  PROVE  IInv'
BY ReturnKeeps DEF abort, lockTimeout, LockHolding, RowHolding

-----------------------------------------------------------------------------
\* A committed change of one row keeps the invariant of every other worker, provided
\* that none of them holds the row or is about to send, and that no new reservation
\* appears while another worker is approving.
LEMMA RowChangeOthers ==
  ASSUME IInv, NEW w \in Workers, NEW o \in Orders, NEW next \in Record,
         ord' = [ord EXCEPT ![o] = next], next.version > ord[o].version,
         \A p \in Orders : decision'[p] = decision[p] \/ (p = o /\ decision[o].outcome = "NONE"),
         pc' = [pc EXCEPT ![w] = pc'[w]], tgt' = [tgt EXCEPT ![w] = tgt'[w]],
         cur' = [cur EXCEPT ![w] = cur'[w]], seen' = [seen EXCEPT ![w] = seen'[w]],
         lock' = lock \/ lock = w, UNCHANGED remote,
         \A v \in Workers \ {w} : tgt[v] = o => pc[v] \notin RowHolding \cup PreSend,
         Reserved(o)' => Reserved(o) \/ lock = w,
         NEW u \in Workers \ {w}
  PROVE  WorkerInv(u)'
<1>1. /\ pc'[u] = pc[u] /\ tgt'[u] = tgt[u] /\ cur'[u] = cur[u] /\ seen'[u] = seen[u]
      /\ WorkerInv(u) /\ cur[u] \in Record /\ ord \in [Orders -> Record]
      /\ posts' = posts /\ broker' = broker
  BY DEF IInv, TypeOK, remote
<1>2. Owns(u)' /\ Sees(u)'
  BY <1>1 DEF WorkerInv, Owns, Sees, Accepted, LockHolding, RowHolding, NothingSeen
<1>3. \A p \in Orders : ord'[p] = IF p = o THEN next ELSE ord[p]
  BY <1>1
<1>4. Reads(u)'
  BY <1>1, <1>3 DEF WorkerInv, Owns, Reads, Reading, Record
<1>5. Decides(u)'
  <2>1. CASE pc[u] \notin Deciding
    BY <1>1, <2>1 DEF Decides
  <2>2. CASE pc[u] \in Deciding
    <3>1. tgt[u] \in Orders /\ tgt[u] # o /\ lock = u
      BY <1>1, <2>2 DEF WorkerInv, Owns, Deciding, RowHolding, LockHolding
    <3>2. \A p \in Orders : Reserved(p)' => Reserved(p)
      BY <1>3, <3>1 DEF Reserved
    <3> QED
      BY <1>1, <1>3, <2>2, <3>1, <3>2 DEF WorkerInv, Decides
  <2> QED BY <2>1, <2>2
<1>6. Admits(u)'
  BY <1>1, <1>3 DEF WorkerInv, Owns, Admits, Admitting, Post, PreSend, RowHolding, Record
<1>7. Dispatches(u)'
  BY <1>1, <1>3 DEF WorkerInv, Owns, Dispatches, Post, PreSend, Record, Accepted
<1> QED
  BY <1>2, <1>4, <1>5, <1>6, <1>7 DEF WorkerInv

\* A call that ends by committing a change of one row.
LEMMA RowCommitKeeps ==
  ASSUME IInv, NEW w \in Workers, NEW o \in Orders, NEW next \in Record,
         ord' = [ord EXCEPT ![o] = next], next.version > ord[o].version,
         \A p \in Orders : decision'[p] = decision[p] \/ (p = o /\ decision[o].outcome = "NONE"),
         decision' \in [Orders -> [outcome : {"NONE", "APPROVED", "REJECTED"}, version : Nat]],
         unclear' \in BOOLEAN,
         booked' \in [Orders -> 0..Qty], \A p \in Orders : booked'[p] <= broker[p].fill,
         Return(w), lock' = lock \/ lock = w, lock' = NoOne \/ lock' = lock,
         pc[w] \in LockHolding => lock' = NoOne, UNCHANGED remote,
         \A v \in Workers \ {w} : tgt[v] = o => pc[v] \notin RowHolding \cup PreSend,
         Reserved(o)' => Reserved(o) \/ (lock = w /\ \A p \in Orders : ~Reserved(p)),
         next.state \in Early => posts[o] = 0 /\ ~next.bid,
         next.state = "FILLED" => broker[o].status = "FILLED",
         next.state = "CANCELLED" => broker[o].status = "CANCELLED",
         next.state = "FAILED" => broker[o].status \in {"NONE", "REFUSED"},
         next.state = "REJECTED" => broker[o].status \in {"NONE", "REJECTED"}
  PROVE  IInv'
<1>1. /\ pc' = [pc EXCEPT ![w] = pc'[w]] /\ tgt' = [tgt EXCEPT ![w] = tgt'[w]]
      /\ cur' = [cur EXCEPT ![w] = cur'[w]] /\ seen' = [seen EXCEPT ![w] = seen'[w]]
      /\ pc'[w] = "idle" /\ tgt'[w] = NoOrder /\ cur'[w] = NoRecord /\ seen'[w] = NothingSeen
  BY DEF Return, IInv, TypeOK
<1>2. /\ posts' = posts /\ broker' = broker /\ cancels' = cancels
      /\ \A p \in Orders : ord'[p] = IF p = o THEN next ELSE ord[p]
  BY DEF remote, IInv, TypeOK
<1>3. TypeOK'
  <2>1. /\ NoRecord \in Record /\ NothingSeen \in [status : SeenStatus, fills : 0..Qty]
        /\ "idle" \in PC
    BY QtyAssumption DEF Record, NoRecord, NothingSeen, SeenStatus, PC
  <2>2. /\ ord' \in [Orders -> Record] /\ lock' \in Workers \cup {NoOne}
        /\ pc' \in [Workers -> PC] /\ cur' \in [Workers -> Record]
        /\ tgt' \in [Workers -> Orders \cup {NoOrder}]
        /\ seen' \in [Workers -> [status : SeenStatus, fills : 0..Qty]]
    BY <2>1 DEF IInv, TypeOK, Return
  <2>3. /\ posts' \in [Orders -> Nat] /\ cancels' \in [Orders -> Nat]
        /\ broker' \in [Orders -> [status : BrokerStatus, fill : 0..Qty]]
    BY <1>2 DEF IInv, TypeOK
  <2> QED
    BY <2>2, <2>3, Zenon DEF TypeOK
<1>4. ASSUME NEW u \in Workers PROVE WorkerInv(u)'
  <2>1. CASE u # w
    BY <1>1, <2>1, RowChangeOthers
  <2>2. CASE u = w
    BY <1>1, <2>2 DEF WorkerInv, Owns, Reads, Decides, Admits, Dispatches, Sees,
       LockHolding, RowHolding, Reading, Deciding, Admitting, Post, PreSend
  <2> QED BY <2>1, <2>2
<1>5. OneSubmitter'
  BY <1>1 DEF IInv, TypeOK, OneSubmitter, Post, PreSend
<1>6. ASSUME NEW p \in Orders PROVE Sent(p)'
  BY <1>2 DEF IInv, Sent
<1>7. SingleReservation'
  BY <1>2 DEF IInv, SingleReservation, Reserved
<1>8. TerminalAgrees'
  BY <1>2 DEF IInv, TerminalAgrees
<1> QED
  BY <1>3, <1>4, <1>5, <1>6, <1>7, <1>8 DEF IInv

\* A reconciliation that records a decision and trades but leaves the row alone.
LEMMA RecordKeeps ==
  ASSUME IInv, NEW w \in Workers, Return(w), UNCHANGED <<ord, decision, lock, remote>>,
         pc[w] \notin LockHolding,
         unclear' \in BOOLEAN, booked' \in [Orders -> 0..Qty],
         \A p \in Orders : booked'[p] <= broker[p].fill
  PROVE  IInv'
<1> USE DEF Return
<1>1. TypeOK'
  <2>1. /\ NoRecord \in Record /\ NothingSeen \in [status : SeenStatus, fills : 0..Qty]
        /\ "idle" \in PC
    BY QtyAssumption DEF Record, NoRecord, NothingSeen, SeenStatus, PC
  <2>2. /\ ord' \in [Orders -> Record] /\ lock' \in Workers \cup {NoOne}
        /\ decision' \in [Orders -> [outcome : {"NONE", "APPROVED", "REJECTED"}, version : Nat]]
        /\ pc' \in [Workers -> PC] /\ cur' \in [Workers -> Record]
        /\ tgt' \in [Workers -> Orders \cup {NoOrder}]
        /\ seen' \in [Workers -> [status : SeenStatus, fills : 0..Qty]]
        /\ posts' \in [Orders -> Nat] /\ cancels' \in [Orders -> Nat]
        /\ broker' \in [Orders -> [status : BrokerStatus, fill : 0..Qty]]
    BY <2>1 DEF IInv, TypeOK, remote
  <2> QED
    BY <2>2, Zenon DEF TypeOK
<1>2. ASSUME NEW u \in Workers PROVE WorkerInv(u)'
  <2>1. CASE u # w
    BY <2>1, OthersKeep DEF IInv, TypeOK
  <2>2. CASE u = w
    BY <2>2 DEF IInv, TypeOK, WorkerInv, Owns, Reads, Decides, Admits, Dispatches, Sees,
       LockHolding, RowHolding, Reading, Deciding, Admitting, Post, PreSend
  <2> QED BY <2>1, <2>2
<1>3. OneSubmitter'
  BY DEF IInv, TypeOK, OneSubmitter, Post, PreSend
<1>4. (\A o \in Orders : Sent(o))' /\ SingleReservation' /\ TerminalAgrees'
  BY DEF IInv, Sent, SingleReservation, TerminalAgrees, Reserved, remote
<1> QED
  BY <1>1, <1>2, <1>3, <1>4 DEF IInv

-----------------------------------------------------------------------------
\* A new order.
LEMMA PlaceKeeps ==
  ASSUME IInv, NEW o \in Orders, place(o)
  PROVE  IInv'
<1> DEFINE next == [state |-> "VALIDATED", version |-> 1, bid |-> FALSE]
<1>1. /\ ord' = [ord EXCEPT ![o] = next] /\ next \in Record /\ ord[o] = NoRecord
      /\ \A p \in Orders : ord'[p] = IF p = o THEN next ELSE ord[p]
      /\ UNCHANGED <<decision, unclear, booked, lock, pc, tgt, cur, seen, posts, broker, cancels>>
  BY DEF place, local, remote, IInv, TypeOK, Record, OrderState
<1> HIDE DEF next
<1>2. TypeOK'
  BY <1>1 DEF IInv, TypeOK
<1>3. next.version = 1 /\ next.state = "VALIDATED" /\ ~next.bid
  BY DEF next
<1>4. ASSUME NEW u \in Workers PROVE WorkerInv(u)'
  <2>1. WorkerInv(u) /\ cur[u] \in Record
    BY DEF IInv, TypeOK
  <2>2. tgt[u] = o => pc[u] \notin RowHolding \cup PreSend \cup Post
    BY <1>1, <2>1 DEF WorkerInv, Decides, Admits, Dispatches, submitting, NoRecord, RowHolding,
       Deciding, Admitting, Post, PreSend, Record
  <2>3. \A p \in Orders : Reserved(p)' => Reserved(p)
    BY <1>1, <1>3 DEF Reserved
  <2>4. Owns(u)' /\ Sees(u)'
    BY <1>1, <2>1 DEF WorkerInv, Owns, Sees, Accepted
  <2>5. Reads(u)' /\ Admits(u)' /\ Dispatches(u)'
    BY <1>1, <1>3, <2>1, <2>2 DEF WorkerInv, Owns, Reads, Admits, Dispatches, Reading, Admitting, Post,
       PreSend, RowHolding, Record, NoRecord, Accepted
  <2>6. Decides(u)'
    BY <1>1, <2>1, <2>2, <2>3 DEF WorkerInv, Owns, Decides, Deciding, RowHolding
  <2> QED
    BY <2>4, <2>5, <2>6 DEF WorkerInv
<1>5. OneSubmitter'
  BY <1>1 DEF IInv, OneSubmitter
<1>6. ASSUME NEW p \in Orders PROVE Sent(p)'
  BY <1>1, <1>3 DEF IInv, Sent, NoRecord, Early
<1>7. SingleReservation' /\ TerminalAgrees'
  BY <1>1, <1>3 DEF IInv, SingleReservation, TerminalAgrees, Reserved
<1> QED
  BY <1>2, <1>4, <1>5, <1>6, <1>7 DEF IInv

\* The commit of a risk decision.
LEMMA RiskCommitKeeps ==
  ASSUME IInv, NEW w \in Workers, riskApprove(w) \/ riskReject(w)
  PROVE  IInv'
<1>o. PICK o \in Orders : o = tgt[w]
  BY DEF IInv, WorkerInv, Owns, riskApprove, riskReject
<1>t. /\ WorkerInv(w) /\ pc[w] \in Deciding /\ pc[w] \in LockHolding /\ lock = w
      /\ o \in Orders /\ ord[o] \in Record /\ cur[w] = ord[o] /\ ord[o].state = "VALIDATED"
      /\ decision[o].outcome = "NONE" /\ Sent(o)
      /\ pc[w] = "riskApprove" => \A p \in Orders : ~Reserved(p)
  BY <1>o DEF IInv, TypeOK, WorkerInv, Owns, Decides, Deciding, LockHolding, RowHolding, riskApprove, riskReject
<1>1. ASSUME NEW v \in Workers \ {w}, tgt[v] = o PROVE pc[v] \notin RowHolding \cup PreSend
  <2>1. WorkerInv(v) /\ cur[v] \in Record
    BY DEF IInv, TypeOK
  <2>2. pc[v] \notin RowHolding
    BY <1>t, <2>1 DEF WorkerInv, Owns, LockHolding
  <2>3. pc[v] \notin PreSend
    BY <1>o, <1>t, <1>1, <2>1 DEF WorkerInv, Dispatches, Post, submitting
  <2> QED BY <2>2, <2>3
<1>2. ASSUME NEW outcome \in {"APPROVED", "REJECTED"}, NEW target \in {"RISK_APPROVED", "REJECTED"},
             riskCommit(w, outcome, target),
             target = "RISK_APPROVED" => pc[w] = "riskApprove"
      PROVE  IInv'
  <2> DEFINE next == [state |-> target, version |-> cur[w].version + 1, bid |-> cur[w].bid]
  <2>1. /\ next \in Record /\ next.version > ord[o].version /\ next.state = target
        /\ next.bid = ord[o].bid
    BY <1>t DEF Record, OrderState
  <2>2. /\ ord' = [ord EXCEPT ![o] = next] /\ Return(w) /\ lock' = NoOne
        /\ decision' = [decision EXCEPT ![o] = [outcome |-> outcome, version |-> cur[w].version]]
        /\ unclear' = unclear /\ booked' = booked /\ UNCHANGED remote
    BY <1>2, <1>o, <1>t DEF riskCommit
  <2> HIDE DEF next
  <2>3. /\ decision' \in [Orders -> [outcome : {"NONE", "APPROVED", "REJECTED"}, version : Nat]]
        /\ \A p \in Orders : decision'[p] = decision[p] \/ (p = o /\ decision[o].outcome = "NONE")
        /\ booked' \in [Orders -> 0..Qty] /\ \A p \in Orders : booked'[p] <= broker[p].fill
    BY <1>t, <2>2 DEF IInv, TypeOK, Record, Sent
  <2>4. unclear' \in BOOLEAN
    BY <2>2, Zenon DEF IInv, TypeOK
  <2>5. /\ target = "REJECTED" => broker[o].status \in {"NONE", "REJECTED"}
        /\ posts[o] = 0 /\ ~next.bid
    BY <1>t, <2>1 DEF Sent, Early
  <2>6. Reserved(o)' => \A p \in Orders : ~Reserved(p)
    BY <1>2, <1>t, <2>1, <2>2 DEF Reserved, IInv, TypeOK
  <2> QED
    BY <1>t, <1>1, <1>2, <2>1, <2>2, <2>3, <2>4, <2>5, <2>6, RowCommitKeeps
<1> QED
  BY <1>2 DEF riskApprove, riskReject

\* The commit of an admission, or its rollback.
LEMMA AdmissionCommitKeeps ==
  ASSUME IInv, NEW w \in Workers, admissionCommit(w)
  PROVE  IInv'
<1>o. PICK o \in Orders : o = tgt[w]
  BY DEF IInv, WorkerInv, Owns, admissionCommit
<1> DEFINE next == submitting(cur[w])
<1>t. /\ WorkerInv(w) /\ pc[w] = "admCommit" /\ pc[w] \in LockHolding /\ lock = w
      /\ o \in Orders /\ ord[o] \in Record /\ cur[w] = ord[o] /\ ord[o].state = "RISK_APPROVED"
      /\ ~ord[o].bid /\ Sent(o) /\ posts[o] = 0
      /\ decision[o] = [outcome |-> "APPROVED", version |-> cur[w].version - 1]
  BY <1>o DEF IInv, TypeOK, WorkerInv, Owns, Admits, Admitting, LockHolding, RowHolding, admissionCommit,
     Sent, Early
<1>1. CASE UNCHANGED ord /\ Return(w)
  BY <1>1, <1>t, ReturnKeeps DEF admissionCommit, durable
<1>2. CASE ord' = [ord EXCEPT ![tgt[w]] = submitting(cur[w])] /\ Goto(w, "dispatch")
  <2>1. /\ next \in Record /\ next.version = ord[o].version + 1 /\ next.state = "SUBMITTING"
        /\ ~next.bid
    BY <1>t DEF Record, OrderState, submitting
  <2>2. /\ ord' = [ord EXCEPT ![o] = next] /\ pc' = [pc EXCEPT ![w] = "dispatch"]
        /\ tgt' = tgt /\ cur' = cur /\ seen' = seen /\ lock' = NoOne /\ UNCHANGED remote
        /\ decision' = decision /\ unclear' = unclear /\ booked' = booked
        /\ posts' = posts /\ broker' = broker /\ cancels' = cancels
    BY <1>2, <1>o DEF admissionCommit, Goto, remote
  <2> HIDE DEF next
  <2>3. /\ \A p \in Orders : ord'[p] = IF p = o THEN next ELSE ord[p]
        /\ pc'[w] = "dispatch" /\ pc' = [pc EXCEPT ![w] = pc'[w]]
        /\ tgt' = [tgt EXCEPT ![w] = tgt'[w]] /\ cur' = [cur EXCEPT ![w] = cur'[w]]
        /\ seen' = [seen EXCEPT ![w] = seen'[w]] /\ "dispatch" \in PC
    BY <2>2 DEF IInv, TypeOK, PC
  <2>4. TypeOK'
    BY <2>1, <2>2, <2>3 DEF IInv, TypeOK
  <2>5. ASSUME NEW v \in Workers \ {w}, tgt[v] = o PROVE pc[v] \notin RowHolding \cup Post
    <3>1. WorkerInv(v) /\ cur[v] \in Record
      BY DEF IInv, TypeOK
    <3>2. pc[v] \notin RowHolding
      BY <1>t, <3>1 DEF WorkerInv, Owns, LockHolding
    <3>3. pc[v] \notin Post
      BY <1>o, <1>t, <2>5, <3>1 DEF WorkerInv, Admits, Dispatches, Record
    <3> QED BY <3>2, <3>3
  <2>6. Reserved(o)' => Reserved(o)
    BY <1>t DEF Reserved
  <2>7. ASSUME NEW u \in Workers PROVE WorkerInv(u)'
    <3>1. CASE u # w
      <4>1. \A v \in Workers \ {w} : tgt[v] = o => pc[v] \notin RowHolding \cup PreSend
        BY <2>5 DEF Post
      <4>2. \A p \in Orders : decision'[p] = decision[p] \/ (p = o /\ decision[o].outcome = "NONE")
        BY <2>2
      <4>3. next.version > ord[o].version
        BY <1>t, <2>1 DEF Record
      <4> QED
        BY <1>t, <2>1, <2>2, <2>3, <2>6, <3>1, <4>1, <4>2, <4>3, RowChangeOthers
    <3>2. CASE u = w
      BY <1>o, <1>t, <2>1, <2>2, <2>3, <3>2 DEF next, WorkerInv, Owns, Reads, Decides, Admits, Dispatches,
         Sees, LockHolding, RowHolding, Reading, Deciding, Admitting, Post, PreSend, Record
    <3> QED BY <3>1, <3>2
  <2>8. OneSubmitter'
    BY <1>o, <1>t, <2>2, <2>3, <2>5 DEF IInv, TypeOK, OneSubmitter
  <2>9. ASSUME NEW p \in Orders PROVE Sent(p)'
    BY <2>1, <2>2, <2>3 DEF IInv, Sent, Early
  <2>10. SingleReservation' /\ TerminalAgrees'
    BY <1>t, <2>1, <2>2, <2>3 DEF IInv, SingleReservation, TerminalAgrees, Reserved
  <2> QED
    BY <2>4, <2>7, <2>8, <2>9, <2>10 DEF IInv
<1> QED
  BY <1>1, <1>2 DEF admissionCommit

\* The compare-and-set that ends a submission, hit or missed.
LEMMA SettleKeeps ==
  ASSUME IInv, NEW w \in Workers, attachBrokerOrderId(w) \/ failSubmission(w)
  PROVE  IInv'
<1>o. PICK o \in Orders : o = tgt[w]
  BY DEF IInv, WorkerInv, Owns, attachBrokerOrderId, failSubmission
<1>t. /\ WorkerInv(w) /\ pc[w] \in Post /\ pc[w] \notin LockHolding
      /\ ord[o] \in Record /\ cur[w] \in Record /\ ~cur[w].bid /\ Sent(o)
      /\ Return(w) /\ lock' = lock /\ decision' = decision /\ unclear' = unclear
      /\ booked' = booked /\ UNCHANGED remote /\ RowFree(o)
      /\ pc[w] = "attach" \/ (pc[w] = "fail" /\ broker[o].status \in {"NONE", "REFUSED"})
  BY <1>o DEF IInv, TypeOK, WorkerInv, Admits, Dispatches, Admitting, Post, PreSend, LockHolding,
     RowHolding, attachBrokerOrderId, failSubmission
<1>1. CASE ord[o].version # cur[w].version + 1
  <2>1. UNCHANGED ord
    BY <1>1, <1>o DEF attachBrokerOrderId, failSubmission, update, submitting
  <2> QED
    BY <1>t, <2>1, ReturnKeeps DEF durable
<1>2. CASE ord[o].version = cur[w].version + 1
  <2>1. ord[o] = submitting(cur[w])
    BY <1>2, <1>o, <1>t DEF WorkerInv, Dispatches
  <2>2. PICK next \in Record :
           /\ ord' = [ord EXCEPT ![o] = next] /\ next.version > ord[o].version
           /\ next.state = "SUBMITTED" \/ (next.state = "FAILED" /\ pc[w] = "fail")
    <3>1. CASE attachBrokerOrderId(w)
      <4>1. submitted(cur[w]) \in Record /\ submitted(cur[w]).version > ord[o].version
        BY <1>2, <1>t DEF submitted, Record, OrderState
      <4>2. ord' = [ord EXCEPT ![o] = submitted(cur[w])] /\ submitted(cur[w]).state = "SUBMITTED"
        BY <1>2, <1>o, <3>1 DEF attachBrokerOrderId, update, submitting, submitted
      <4> QED BY <4>1, <4>2
    <3>2. CASE failSubmission(w)
      <4>1. failed(cur[w]) \in Record /\ failed(cur[w]).version > ord[o].version
        BY <1>2, <1>t DEF failed, Record, OrderState
      <4>2. ord' = [ord EXCEPT ![o] = failed(cur[w])] /\ failed(cur[w]).state = "FAILED"
        BY <1>2, <1>o, <3>2 DEF failSubmission, update, submitting, failed
      <4> QED BY <3>2, <4>1, <4>2 DEF failSubmission
    <3> QED BY <3>1, <3>2
  <2>3. ASSUME NEW v \in Workers \ {w}, tgt[v] = o PROVE pc[v] \notin RowHolding \cup PreSend
    BY <1>o, <1>t, <2>3 DEF RowFree, IInv, OneSubmitter, Post
  <2>4. Reserved(o)' => Reserved(o)
    BY <2>1 DEF Reserved, submitting
  <2>5. unclear' \in BOOLEAN
    BY <1>t, Zenon DEF IInv, TypeOK
  <2>6. /\ decision' \in [Orders -> [outcome : {"NONE", "APPROVED", "REJECTED"}, version : Nat]]
        /\ \A p \in Orders : decision'[p] = decision[p]
        /\ booked' \in [Orders -> 0..Qty] /\ \A p \in Orders : booked'[p] <= broker[p].fill
    BY <1>t DEF IInv, TypeOK, Sent
  <2>7. next.state \notin Early \cup {"FILLED", "CANCELLED", "REJECTED"}
    BY <2>2 DEF Early
  <2>8. next.state = "FAILED" => broker[o].status \in {"NONE", "REFUSED"}
    BY <1>t, <2>2
  <2> QED
    BY <1>t, <2>2, <2>3, <2>4, <2>5, <2>6, <2>7, <2>8, RowCommitKeeps
<1> QED BY <1>1, <1>2

-----------------------------------------------------------------------------
\* What a reconciliation may write: never an early state, a terminal state only as the
\* broker reported it, and never a reservation where there was none.
LEMMA ReconciledFacts ==
  ASSUME NEW c \in Record, NEW s \in SeenStatus, NEW f \in 0..Qty, s # "NONE",
         c.state \notin Early, reconciled(c, s, f) # c
  PROVE  /\ reconciled(c, s, f) \in Record
         /\ reconciled(c, s, f).version > c.version
         /\ reconciled(c, s, f).state \notin Early
         /\ reconciled(c, s, f).state # "FAILED" \/ c.state = "FAILED"
         /\ reconciled(c, s, f).state = "FILLED" => s = "FILLED" \/ f = Qty
         /\ reconciled(c, s, f).state = "CANCELLED" => s = "CANCELLED"
         /\ reconciled(c, s, f).state = "REJECTED" => s = "REJECTED"
         /\ reconciled(c, s, f).state = c.state \/ c.state \notin Terminal
         /\ reconciled(c, s, f).state = c.state \/ reconciled(c, s, f).state \in Allowed(c.state)
         /\ reconciled(c, s, f).bid
         /\ s \notin {"READ_FAILED", "MISSING", "MISMATCH"}
<1> DEFINE t == targetState(c, s, f)
<1>1. /\ reconcileOutcome(c, s, f) = "APPLIED"
      /\ reconciled(c, s, f) = [state |-> t, version |-> c.version + 1, bid |-> TRUE]
  BY DEF reconciled
<1>2. s \notin {"READ_FAILED", "MISSING", "MISMATCH"} /\ t # "AMBIGUOUS" /\ (t = c.state \/ t \in Allowed(c.state))
  BY <1>1 DEF reconcileOutcome
<1>3. /\ t \in {"FILLED", "CANCELLED", "PARTIALLY_FILLED", "REJECTED", "CANCEL_PENDING", "SUBMITTED", "OPEN"}
      /\ t = "FILLED" => s = "FILLED" \/ f = Qty
      /\ t = "CANCELLED" => s = "CANCELLED"
      /\ t = "REJECTED" => s = "REJECTED"
  BY <1>2 DEF targetState
<1>4. t = c.state \/ c.state \notin Terminal
  BY <1>2 DEF Allowed, Terminal
<1> HIDE DEF t
<1>5. [state |-> t, version |-> c.version + 1, bid |-> TRUE] \in Record
  BY <1>3 DEF Record, OrderState
<1> QED
  BY <1>1, <1>2, <1>3, <1>4, <1>5 DEF Record, Early

\* The transaction that ends a reconciliation.
LEMMA ReconcileKeeps ==
  ASSUME IInv, NEW w \in Workers, reconcileApply(w)
  PROVE  IInv'
<1>o. PICK o \in Orders : o = tgt[w]
  BY DEF IInv, WorkerInv, Owns, reconcileApply
<1> DEFINE c == cur[w]
           s == seen[w].status
           f == seen[w].fills
           next == reconciled(c, s, f)
<1>t. /\ WorkerInv(w) /\ pc[w] = "recApply" /\ pc[w] \notin LockHolding /\ RowFree(o)
      /\ Return(w) /\ lock' = lock /\ decision' = decision /\ UNCHANGED remote
      /\ ord[o] \in Record /\ c \in Record /\ s \in SeenStatus /\ f \in 0..Qty
      /\ Sent(o) /\ booked[o] \in 0..Qty /\ broker[o].fill \in 0..Qty /\ Qty \in Nat
      /\ ord = [ord EXCEPT ![o] = ord[o]]
  BY <1>o, QtyAssumption DEF IInv, TypeOK, LockHolding, RowHolding, reconcileApply
<1>s. /\ s # "NONE" /\ f <= broker[o].fill
      /\ s \notin {"MISSING", "READ_FAILED"} => Accepted(o)
      /\ s \in {"CANCELLED", "REJECTED", "FILLED"} => broker[o].status = s
  BY <1>o, <1>t DEF WorkerInv, Sees
<1>1. CASE ord[o].version # c.version
  <2>1. UNCHANGED <<ord, unclear, booked>>
    BY <1>1, <1>o DEF reconcileApply
  <2> QED
    BY <1>t, <2>1, ReturnKeeps DEF durable
<1>2. CASE ord[o].version = c.version
  <2>1. c = ord[o]
    BY <1>2, <1>o, <1>t DEF WorkerInv, Reads, Reading
  <2>2. /\ ord' = [ord EXCEPT ![o] = next]
        /\ unclear' = (unclear \/ reconcileOutcome(c, s, f) # "APPLIED")
        /\ booked' = [booked EXCEPT ![o] = bookedTrades(o, reconcileOutcome(c, s, f), f)]
    BY <1>2, <1>o DEF reconcileApply
  <2>3. /\ bookedTrades(o, reconcileOutcome(c, s, f), f) \in 0..Qty
        /\ bookedTrades(o, reconcileOutcome(c, s, f), f) <= broker[o].fill
    BY <1>t, <1>s DEF bookedTrades, Sent
  <2>4. booked' \in [Orders -> 0..Qty] /\ \A p \in Orders : booked'[p] <= broker[p].fill
    BY <2>2, <2>3 DEF IInv, TypeOK, Sent
  <2>5. unclear' \in BOOLEAN
    BY <2>2, Zenon
  <2>6. CASE next = c
    BY <1>t, <2>1, <2>2, <2>4, <2>5, <2>6, RecordKeeps
  <2>7. CASE next # c
    <3>1. s \notin {"MISSING", "READ_FAILED"}
      BY <2>7 DEF reconciled, reconcileOutcome
    <3>2. Accepted(o) /\ posts[o] # 0 /\ c.state \notin Early
      BY <1>t, <1>s, <2>1, <3>1 DEF Accepted, Sent
    <3> HIDE DEF c, s, f
    <3>3. /\ next \in Record /\ next.version > c.version /\ next.state \notin Early
          /\ next.state # "FAILED" \/ c.state = "FAILED"
          /\ next.state = "FILLED" => s = "FILLED" \/ f = Qty
          /\ next.state = "CANCELLED" => s = "CANCELLED"
          /\ next.state = "REJECTED" => s = "REJECTED"
          /\ next.state = c.state \/ c.state \notin Terminal
      BY <1>t, <1>s, <2>7, <3>2, ReconciledFacts
    <3> HIDE DEF next
    <3>4. /\ next.state = "FILLED" => broker[o].status = "FILLED"
          /\ next.state = "CANCELLED" => broker[o].status = "CANCELLED"
          /\ next.state = "REJECTED" => broker[o].status \in {"NONE", "REJECTED"}
      BY <1>t, <1>s, <3>3 DEF Sent
    <3>5. next.state = "FAILED" => broker[o].status \in {"NONE", "REFUSED"}
      BY <2>1, <3>3 DEF IInv, TerminalAgrees
    <3>6. Reserved(o)' => Reserved(o)
      <4>1. ord'[o] = next
        BY <2>2 DEF IInv, TypeOK
      <4>2. c.state \in OrderState \cup {"NONE"}
        BY <1>t DEF Record
      <4> QED
        BY <2>1, <3>2, <3>3, <4>1, <4>2 DEF Reserved, Terminal, Early, OrderState
    <3>7. ASSUME NEW v \in Workers \ {w}, tgt[v] = o PROVE pc[v] \notin RowHolding \cup PreSend
      <4>1. WorkerInv(v)
        BY DEF IInv
      <4> QED
        BY <1>t, <3>2, <3>7, <4>1 DEF RowFree, WorkerInv, Dispatches, Post
    <3>8. /\ decision' \in [Orders -> [outcome : {"NONE", "APPROVED", "REJECTED"}, version : Nat]]
          /\ \A p \in Orders : decision'[p] = decision[p]
      BY <1>t DEF IInv, TypeOK
    <3> QED
      BY <1>t, <2>1, <2>2, <2>4, <2>5, <3>3, <3>4, <3>5, <3>6, <3>7, <3>8, RowCommitKeeps
  <2> QED BY <2>6, <2>7
<1> QED BY <1>1, <1>2

-----------------------------------------------------------------------------
\* The request goes out.
LEMMA SendKeeps ==
  ASSUME IInv, NEW w \in Workers, send(w)
  PROVE  IInv'
<1>o. PICK o \in Orders : o = tgt[w]
  BY DEF IInv, WorkerInv, Owns, send
<1>t. /\ WorkerInv(w) /\ pc[w] = "send" /\ Sent(o) /\ posts[o] = 0 /\ broker[o].status = "NONE"
      /\ ord[o] = submitting(cur[w]) /\ broker[o].fill = 0 /\ booked[o] = 0
  <2>1. /\ WorkerInv(w) /\ pc[w] = "send" /\ Sent(o) /\ Qty \in Nat
        /\ broker[o].fill \in 0..Qty /\ booked[o] \in 0..Qty
    BY QtyAssumption DEF IInv, TypeOK, send
  <2>2. posts[o] = 0 /\ ord[o] = submitting(cur[w])
    BY <1>o, <2>1 DEF WorkerInv, Dispatches, Post, PreSend
  <2> QED
    BY <2>1, <2>2 DEF Sent
<1>1. /\ UNCHANGED <<ord, decision, unclear, booked, lock, tgt, cur, seen, cancels>>
      /\ pc' = [pc EXCEPT ![w] = "await"] /\ posts' = [posts EXCEPT ![o] = posts[o] + 1]
      /\ broker' = [broker EXCEPT ![o] = [status |-> "WIRE", fill |-> 0]]
  BY <1>o DEF send, Goto, durable
<1>2. /\ \A p \in Orders : posts'[p] = IF p = o THEN 1 ELSE posts[p]
      /\ \A p \in Orders : broker'[p] = IF p = o THEN [status |-> "WIRE", fill |-> 0] ELSE broker[p]
      /\ \A u \in Workers : pc'[u] = IF u = w THEN "await" ELSE pc[u]
  BY <1>1, <1>t DEF IInv, TypeOK
<1>3. TypeOK'
  BY <1>1, QtyAssumption DEF IInv, TypeOK, PC, BrokerStatus
<1>4. ASSUME NEW u \in Workers PROVE WorkerInv(u)'
  <2>1. WorkerInv(u)
    BY DEF IInv
  <2>2. u # w /\ pc[u] \in Post => tgt[u] # o
    BY <1>o, <1>t DEF IInv, OneSubmitter, Post, PreSend
  <2>3. Owns(u)' /\ Reads(u)' /\ Admits(u)'
    BY <1>1, <1>2, <1>t, <2>1 DEF WorkerInv, Owns, Reads, Admits, LockHolding, RowHolding, Reading,
       Admitting, Post, PreSend
  <2>4. Decides(u)'
    BY <1>1, <1>2, <1>t, <2>1 DEF WorkerInv, Decides, Deciding, Reserved
  <2>5. Dispatches(u)'
    BY <1>o, <1>1, <1>2, <1>t, <2>1, <2>2 DEF WorkerInv, Owns, Dispatches, Post, PreSend, Accepted
  <2>6. Sees(u)'
    BY <1>1, <1>2, <1>t, <2>1 DEF WorkerInv, Owns, Sees, Accepted
  <2> QED
    BY <2>3, <2>4, <2>5, <2>6 DEF WorkerInv
<1>5. OneSubmitter'
  BY <1>1, <1>2, <1>t DEF IInv, OneSubmitter, Post, PreSend
<1>6. ASSUME NEW p \in Orders PROVE Sent(p)'
  BY <1>1, <1>2, <1>t, QtyAssumption DEF IInv, Sent, Early, submitting
<1>7. SingleReservation' /\ TerminalAgrees'
  BY <1>1, <1>2, <1>t DEF IInv, SingleReservation, TerminalAgrees, Reserved, submitting
<1> QED
  BY <1>3, <1>4, <1>5, <1>6, <1>7 DEF IInv

\* What any move of the broker does to an order it has.
BrokerStep(o, b) ==
  /\ broker' = [broker EXCEPT ![o] = b]
  /\ broker[o].status \in {"WIRE", "OPEN", "CANCEL_PENDING"}
  /\ b.status \notin {"NONE", "WIRE"}
  /\ Accepted(o) => b.status \in {"OPEN", "CANCEL_PENDING", "CANCELLED", "REJECTED", "FILLED"}
  /\ b.fill >= broker[o].fill
  /\ b.fill = Qty => b.status = "FILLED"
  /\ b.fill > 0 => b.status \in {"OPEN", "CANCEL_PENDING", "CANCELLED", "FILLED"}

\* Whatever the broker does on its own keeps the invariant: it moves an order only along
\* BrokerStep, which never revives a cancelled, rejected or refused request.
LEMMA BrokerKeeps ==
  ASSUME IInv, NEW o \in Orders, Broker(o)
  PROVE  IInv'
<1>t. /\ broker \in [Orders -> [status : BrokerStatus, fill : 0..Qty]] /\ Sent(o) /\ Qty \in Nat
      /\ broker[o].fill \in 0..Qty /\ broker[o].status \in BrokerStatus
  BY QtyAssumption DEF IInv, TypeOK
<1>1. PICK b \in [status : BrokerStatus, fill : 0..Qty] : BrokerStep(o, b)
  <2>1. ASSUME NEW from \in SUBSET {"WIRE", "OPEN", "CANCEL_PENDING"},
               NEW to \in {"OPEN", "REFUSED", "LOST", "REJECTED", "CANCELLED", "CANCEL_PENDING"},
               brokerMoves(o, from, to),
               to \in {"REFUSED", "LOST"} => from = {"WIRE"},
               to = "REJECTED" => from = {"OPEN"} /\ broker[o].fill = 0
        PROVE  \E b \in [status : BrokerStatus, fill : 0..Qty] : BrokerStep(o, b)
    <3> DEFINE b == [status |-> to, fill |-> broker[o].fill]
    <3>1. broker' = [broker EXCEPT ![o] = b] /\ broker[o].status \in from
      BY <1>t, <2>1 DEF brokerMoves
    <3>2. b \in [status : BrokerStatus, fill : 0..Qty] /\ b.status = to /\ b.fill = broker[o].fill
      BY <1>t DEF BrokerStatus
    <3> HIDE DEF b
    <3>a. /\ broker[o].status \in {"WIRE", "OPEN", "CANCEL_PENDING"}
          /\ to \in {"REFUSED", "LOST"} => broker[o].status = "WIRE"
          /\ to = "REJECTED" => broker[o].fill = 0
          /\ broker[o].fill # Qty
          /\ broker[o].status = "WIRE" => ~(broker[o].fill > 0)
      BY <1>t, <2>1, <3>1 DEF Sent
    <3>3. BrokerStep(o, b)
      BY <1>t, <3>1, <3>2, <3>a DEF BrokerStep, Accepted
    <3> QED BY <3>2, <3>3
  <2>2. ASSUME brokerFills(o)
        PROVE  \E b \in [status : BrokerStatus, fill : 0..Qty] : BrokerStep(o, b)
    <3> DEFINE st == IF broker[o].fill + 1 = Qty THEN "FILLED" ELSE broker[o].status
               b == [status |-> st, fill |-> broker[o].fill + 1]
    <3>1. broker' = [broker EXCEPT ![o] = b] /\ broker[o].status \in {"OPEN", "CANCEL_PENDING"}
      BY <1>t, <2>2 DEF brokerFills
    <3>2. /\ st \in {"FILLED", "OPEN", "CANCEL_PENDING"} /\ broker[o].fill + 1 \in 0..Qty
          /\ broker[o].fill + 1 = Qty => st = "FILLED"
      BY <1>t, <3>1 DEF Sent
    <3> HIDE DEF st
    <3>3. b \in [status : BrokerStatus, fill : 0..Qty] /\ b.status = st /\ b.fill = broker[o].fill + 1
      BY <3>2 DEF BrokerStatus
    <3> HIDE DEF b
    <3>4. BrokerStep(o, b)
      BY <1>t, <3>1, <3>2, <3>3 DEF BrokerStep, Accepted
    <3> QED BY <3>3, <3>4
  <2>3. brokerReceives(o) => \E b \in [status : BrokerStatus, fill : 0..Qty] : BrokerStep(o, b)
    BY <2>1 DEF brokerReceives
  <2>4. brokerRejects(o) => \E b \in [status : BrokerStatus, fill : 0..Qty] : BrokerStep(o, b)
    BY <2>1 DEF brokerRejects
  <2>5. brokerCancels(o) \/ brokerCancelAsk(o) \/ brokerCancelNo(o)
          => \E b \in [status : BrokerStatus, fill : 0..Qty] : BrokerStep(o, b)
    BY <2>1 DEF brokerCancels, brokerCancelAsk, brokerCancelNo
  <2> QED
    BY <2>2, <2>3, <2>4, <2>5 DEF Broker
<1>2. /\ UNCHANGED <<ord, decision, unclear, booked, lock, pc, tgt, cur, seen, posts>>
      /\ cancels' \in [Orders -> Nat]
  BY DEF Broker, brokerReceives, brokerRejects, brokerCancels, brokerCancelAsk, brokerCancelNo,
     brokerMoves, brokerFills, durable, local, IInv, TypeOK
<1> USE DEF BrokerStep
<1>3. \A p \in Orders : broker'[p] = IF p = o THEN b ELSE broker[p]
  BY <1>1, <1>t
<1>4. TypeOK'
  BY <1>1, <1>2, <1>t DEF IInv, TypeOK
<1>5. ASSUME NEW u \in Workers PROVE WorkerInv(u)'
  <2>1. WorkerInv(u) /\ seen[u] \in [status : SeenStatus, fills : 0..Qty]
    BY DEF IInv, TypeOK
  <2>2. Owns(u)' /\ Reads(u)' /\ Admits(u)' /\ Decides(u)'
    BY <1>2, <2>1 DEF WorkerInv, Owns, Reads, Admits, Decides, Reserved
  <2>3. Dispatches(u)'
    BY <1>1, <1>2, <1>3, <1>t, <2>1 DEF WorkerInv, Owns, Dispatches, Post, PreSend, Accepted
  <2>4. Sees(u)'
    BY <1>1, <1>2, <1>3, <1>t, <2>1 DEF WorkerInv, Owns, Sees, Accepted
  <2> QED
    BY <2>2, <2>3, <2>4 DEF WorkerInv
<1>6. OneSubmitter'
  BY <1>2 DEF IInv, OneSubmitter
<1>7. ASSUME NEW p \in Orders PROVE Sent(p)'
  BY <1>1, <1>2, <1>3, <1>t DEF IInv, TypeOK, Sent
<1>8. SingleReservation' /\ TerminalAgrees'
  BY <1>1, <1>2, <1>3 DEF IInv, SingleReservation, TerminalAgrees, Reserved
<1> QED
  BY <1>4, <1>5, <1>6, <1>7, <1>8 DEF IInv

-----------------------------------------------------------------------------
\* Every step of the order path preserves the inductive invariant.
THEOREM NextKeeps == IInv /\ [Next]_vars => IInv'
<1> SUFFICES ASSUME IInv, [Next]_vars PROVE IInv'
  OBVIOUS
<1>1. ASSUME NEW o \in Orders, place(o) \/ Broker(o) PROVE IInv'
  BY <1>1, PlaceKeeps, BrokerKeeps
<1>2. ASSUME NEW w \in Workers, Step(w) PROVE IInv'
  BY <1>2, RiskKeeps, RiskCommitKeeps, AdmissionKeeps, AdmissionCommitKeeps, DispatchKeeps, SendKeeps,
     SettleKeeps, ReadKeeps, ReconcileKeeps, FailureKeeps DEF Step
<1>3. ASSUME NEW w \in Workers, abort(w) PROVE IInv'
  BY <1>3, FailureKeeps
<1>4. ASSUME NEW w \in Workers, NEW o \in Orders, Call(w, o) PROVE IInv'
  BY <1>4, CallKeeps
<1>5. CASE UNCHANGED vars
  BY <1>5 DEF vars, IInv, TypeOK, WorkerInv, Owns, Reads, Decides, Admits, Dispatches, Sees, OneSubmitter,
     Sent, SingleReservation, TerminalAgrees, Reserved, Accepted
<1> QED
  BY <1>1, <1>2, <1>3, <1>4, <1>5 DEF Next

\* The inductive invariant holds in every reachable state.
THEOREM Inductive == Spec => []IInv
<1> QED
  BY InitIInv, NextKeeps, PTL DEF Spec

\* Tables, snapshots and broker state keep their types.
THEOREM TypeCorrect == Spec => []TypeOK
<1>1. IInv => TypeOK
  BY DEF IInv
<1> QED
  BY <1>1, Inductive, PTL

\* At most one order reserves the account, however many processes decide and submit.
THEOREM Reservation == Spec => []SingleReservation
<1>1. IInv => SingleReservation
  BY DEF IInv
<1> QED
  BY <1>1, Inductive, PTL

\* The HTTP POST of an order is sent at most once.
THEOREM OnePost == Spec => []AtMostOnePost
<1>1. IInv => AtMostOnePost
  BY DEF IInv, Sent, AtMostOnePost
<1> QED
  BY <1>1, Inductive, PTL

\* An order the broker can still execute, or filled, is never released locally.
THEOREM WorkingReserved == Spec => []WorkingOrdersReserved
<1>1. IInv => WorkingOrdersReserved
  <2> SUFFICES ASSUME IInv, NEW o \in Orders,
                      broker[o].status \in {"WIRE", "OPEN", "CANCEL_PENDING", "FILLED"}
               PROVE  Reserved(o)
    BY DEF WorkingOrdersReserved
  <2>1. Sent(o) /\ TerminalAgrees
    BY DEF IInv
  <2> QED
    BY <2>1 DEF Sent, TerminalAgrees, Reserved, Early
<1> QED
  BY <1>1, Inductive, PTL

\* Terminal local states agree with the broker.
THEOREM TerminalTruth == Spec => []TerminalAgrees
<1>1. IInv => TerminalAgrees
  BY DEF IInv
<1> QED
  BY <1>1, Inductive, PTL

\* Booked trades were made by the broker for an order that was submitted.
THEOREM BookedReal == Spec => []BookedTradesReal
<1>1. IInv => BookedTradesReal
  <2> SUFFICES ASSUME IInv, NEW o \in Orders, booked[o] > 0
               PROVE  /\ booked[o] <= broker[o].fill
                      /\ ord[o].state \notin {"NONE", "VALIDATED", "RISK_APPROVED", "FAILED", "REJECTED"}
    BY DEF BookedTradesReal
  <2>1. /\ Sent(o) /\ TerminalAgrees /\ Qty \in Nat
        /\ booked[o] \in 0..Qty /\ broker[o].fill \in 0..Qty
    BY QtyAssumption DEF IInv, TypeOK
  <2>2. broker[o].fill > 0
    BY <2>1 DEF Sent
  <2> QED
    BY <2>1, <2>2 DEF Sent, TerminalAgrees, Early
<1> QED
  BY <1>1, Inductive, PTL

\* At the instant of a POST the order is durably SUBMITTING at the approved version and
\* alone on the account.
THEOREM Fenced == Spec => SendFenced
<1>1. IInv /\ [Next]_vars => [\A o \in Orders : posts'[o] # posts[o] => FencedSend(o)]_vars
  <2> SUFFICES ASSUME IInv, Next, NEW o \in Orders, posts'[o] # posts[o] PROVE FencedSend(o)
    OBVIOUS
  <2>1. PICK w \in Workers : send(w) /\ tgt[w] = o
    <3>1. \/ \E w \in Workers : send(w)
          \/ posts' = posts
      BY DEF Next, place, Broker, brokerReceives, brokerRejects, brokerCancels, brokerCancelAsk,
         brokerCancelNo, brokerFills, brokerMoves, Step, riskAcquire, riskRead, riskDecide, riskApprove,
         riskReject, riskCommit, executeEvaluate, admissionPrecheck, admissionAcquire,
         admissionExposure, admissionValidate, admissionUpdate, admissionCommit, validateDispatch,
         validateTransport, validateTransportFinal, dispatchStep, receive, attachBrokerOrderId,
         failSubmission, readOrders, readTrades, reconcileApply, lockTimeout, abort, Call, riskBegin,
         executeBegin, reconcileBegin, remote
    <3> QED
      BY <3>1 DEF send, IInv, TypeOK
  <2>2. /\ WorkerInv(w) /\ pc[w] = "send" /\ cur[w] \in Record
        /\ SingleReservation
    BY <2>1 DEF IInv, TypeOK, send
  <2>3. /\ ord[o] = submitting(cur[w]) /\ ~cur[w].bid
        /\ decision[o] = [outcome |-> "APPROVED", version |-> cur[w].version - 1]
    BY <2>1, <2>2 DEF WorkerInv, Admits, Dispatches, Admitting, Post, PreSend
  <2>4. /\ ord[o].state = "SUBMITTING" /\ ~ord[o].bid /\ ord[o].version = cur[w].version + 1
    BY <2>2, <2>3 DEF submitting, Record
  <2>5. Reserved(o)
    BY <2>4 DEF Reserved
  <2>6. cur[w].version - 1 = ord[o].version - 2
    BY <2>2, <2>4 DEF Record
  <2> QED
    BY <2>2, <2>3, <2>4, <2>5, <2>6 DEF FencedSend, SingleReservation
<1> QED
  BY <1>1, Inductive, PTL DEF Spec, SendFenced

-----------------------------------------------------------------------------
(* Every change of an order row, and the account slot *)

\* What an update of a stored row does: it follows the lifecycle from the row itself,
\* and a row starts to reserve the account only when no other row does.
Advances(o, next) ==
  /\ next.version > ord[o].version
  /\ ord[o].bid => next.bid
  /\ \/ next.state = ord[o].state
     \/ Reserved(o) /\ next.state \in Allowed(ord[o].state)
     \/ ord[o].state = "VALIDATED" /\ next.state = "REJECTED"
     \/ ord[o].state = "VALIDATED" /\ next.state = "RISK_APPROVED" /\ \A p \in Orders : ~Reserved(p)

\* One row changes: it is placed, or it advances, and nothing is exchanged with the broker.
RowStep(o, next) ==
  /\ ord' = [ord EXCEPT ![o] = next]
  /\ posts' = posts /\ broker' = broker
  /\ (ord[o] = NoRecord /\ next.state = "VALIDATED") \/ Advances(o, next)

\* The commit of a risk decision advances the row it locked, if it changes one.
LEMMA RiskCommitRow ==
  ASSUME IInv, NEW w \in Workers, riskApprove(w) \/ riskReject(w)
  PROVE  \E o \in Orders, next \in Record : RowStep(o, next)
<1>o. PICK o \in Orders : o = tgt[w]
  BY DEF IInv, WorkerInv, Owns, riskApprove, riskReject
<1>t. /\ ord[o] \in Record /\ cur[w] = ord[o] /\ ord[o].state = "VALIDATED"
      /\ pc[w] = "riskApprove" => \A p \in Orders : ~Reserved(p)
  BY <1>o DEF IInv, TypeOK, WorkerInv, Decides, Deciding, riskApprove, riskReject
<1>1. ASSUME NEW outcome, NEW target \in {"RISK_APPROVED", "REJECTED"}, riskCommit(w, outcome, target),
             target = "RISK_APPROVED" => pc[w] = "riskApprove"
      PROVE  \E p \in Orders, next \in Record : RowStep(p, next)
  <2> DEFINE next == [state |-> target, version |-> cur[w].version + 1, bid |-> cur[w].bid]
  <2>1. /\ next \in Record /\ next.version > ord[o].version /\ next.state = target
        /\ next.bid = ord[o].bid
    BY <1>t DEF Record, OrderState
  <2>2. ord' = [ord EXCEPT ![o] = next] /\ posts' = posts /\ broker' = broker
    BY <1>1, <1>o, <1>t DEF riskCommit, remote
  <2> HIDE DEF next
  <2>3. RowStep(o, next)
    BY <1>1, <1>t, <2>1, <2>2 DEF RowStep, Advances
  <2> QED BY <2>1, <2>3
<1> QED
  BY <1>1 DEF riskApprove, riskReject

\* The commit of an admission advances the approved row.
LEMMA AdmissionRow ==
  ASSUME IInv, NEW w \in Workers, admissionCommit(w), ord' # ord
  PROVE  \E o \in Orders, next \in Record : RowStep(o, next)
<1>o. PICK o \in Orders : o = tgt[w]
  BY DEF IInv, WorkerInv, Owns, admissionCommit
<1> DEFINE next == submitting(cur[w])
<1>t. /\ ord[o] \in Record /\ cur[w] = ord[o] /\ ord[o].state = "RISK_APPROVED"
  BY <1>o DEF IInv, TypeOK, WorkerInv, Admits, Admitting, admissionCommit
<1>1. /\ next \in Record /\ next.version > ord[o].version /\ next.state = "SUBMITTING"
      /\ next.bid = ord[o].bid
  BY <1>t DEF Record, OrderState, submitting
<1>2. ord' = [ord EXCEPT ![o] = next] /\ posts' = posts /\ broker' = broker
  BY <1>o DEF admissionCommit, remote
<1> HIDE DEF next
<1>3. RowStep(o, next)
  BY <1>t, <1>1, <1>2 DEF RowStep, Advances, Allowed, Reserved
<1> QED BY <1>1, <1>3

\* The compare-and-set that ends a submission advances the row the call committed.
LEMMA SettleRow ==
  ASSUME IInv, NEW w \in Workers, attachBrokerOrderId(w) \/ failSubmission(w), ord' # ord
  PROVE  \E o \in Orders, next \in Record : RowStep(o, next)
<1>o. PICK o \in Orders : o = tgt[w]
  BY DEF IInv, WorkerInv, Owns, attachBrokerOrderId, failSubmission
<1>t. /\ WorkerInv(w) /\ pc[w] \in Post /\ ord[o] \in Record /\ cur[w] \in Record
      /\ posts' = posts /\ broker' = broker
  BY <1>o DEF IInv, TypeOK, Post, attachBrokerOrderId, failSubmission, remote
<1>1. ord[o].version = cur[w].version + 1
  BY <1>o DEF attachBrokerOrderId, failSubmission, update, submitting
<1>2. ord[o] = submitting(cur[w])
  BY <1>1, <1>o, <1>t DEF WorkerInv, Dispatches
<1>3. /\ ord[o].state = "SUBMITTING" /\ ord[o].bid = cur[w].bid
  BY <1>2 DEF submitting
<1>4. PICK next \in {submitted(cur[w]), failed(cur[w])} : ord' = [ord EXCEPT ![o] = next]
  BY <1>o, <1>1 DEF attachBrokerOrderId, failSubmission, update, submitting
<1>5. /\ next \in Record /\ next.version > ord[o].version /\ next.state \in {"SUBMITTED", "FAILED"}
      /\ ord[o].bid => next.bid
  <2>1. CASE next = submitted(cur[w])
    BY <1>1, <1>3, <1>t, <2>1 DEF submitted, Record, OrderState
  <2>2. CASE next = failed(cur[w])
    BY <1>1, <1>3, <1>t, <2>2 DEF failed, Record, OrderState
  <2> QED BY <2>1, <2>2
<1>6. RowStep(o, next)
  BY <1>3, <1>4, <1>5, <1>t DEF RowStep, Advances, Allowed, Reserved
<1> QED BY <1>5, <1>6

\* The transaction that ends a reconciliation advances the row it compared versions with.
LEMMA ReconcileRow ==
  ASSUME IInv, NEW w \in Workers, reconcileApply(w), ord' # ord
  PROVE  \E o \in Orders, next \in Record : RowStep(o, next)
<1>o. PICK o \in Orders : o = tgt[w]
  BY DEF IInv, WorkerInv, Owns, reconcileApply
<1> DEFINE c == cur[w]
           s == seen[w].status
           f == seen[w].fills
           next == reconciled(c, s, f)
<1>t. /\ WorkerInv(w) /\ pc[w] = "recApply" /\ posts' = posts /\ broker' = broker
      /\ ord[o] \in Record /\ c \in Record /\ s \in SeenStatus /\ f \in 0..Qty
      /\ Sent(o) /\ ord = [ord EXCEPT ![o] = ord[o]]
  BY <1>o DEF IInv, TypeOK, reconcileApply, remote
<1>s. s # "NONE" /\ (s \notin {"MISSING", "READ_FAILED"} => Accepted(o))
  BY <1>o, <1>t DEF WorkerInv, Sees
<1>1. ord[o].version = c.version /\ ord' = [ord EXCEPT ![o] = next]
  BY <1>o DEF reconcileApply
<1>2. c = ord[o]
  BY <1>1, <1>o, <1>t DEF WorkerInv, Reads, Reading
<1>3. next # c
  BY <1>1, <1>2, <1>t
<1>4. s \notin {"MISSING", "READ_FAILED"}
  BY <1>3 DEF reconciled, reconcileOutcome
<1>5. posts[o] # 0 /\ c.state \notin Early
  BY <1>2, <1>4, <1>s, <1>t DEF Accepted, Sent
<1> HIDE DEF c, s, f
<1>6. /\ next \in Record /\ next.version > c.version /\ next.bid
      /\ next.state = c.state \/ c.state \notin Terminal
      /\ next.state = c.state \/ next.state \in Allowed(c.state)
  BY <1>3, <1>5, <1>s, <1>t, ReconciledFacts
<1> HIDE DEF next
<1>7. c.state \notin Terminal => Reserved(o)
  <2>1. c.state \in OrderState \cup {"NONE"}
    BY <1>t DEF Record
  <2> QED
    BY <1>2, <1>5, <2>1 DEF Reserved, Terminal, Early, OrderState
<1>8. RowStep(o, next)
  BY <1>1, <1>2, <1>6, <1>7, <1>t DEF RowStep, Advances
<1> QED BY <1>6, <1>8

\* A step leaves the order table alone, or changes one row along the lifecycle.
LEMMA RowSteps ==
  ASSUME IInv, Next, ord' # ord
  PROVE  \E o \in Orders, next \in Record : RowStep(o, next)
<1>1. ASSUME NEW o \in Orders, place(o) PROVE \E p \in Orders, next \in Record : RowStep(p, next)
  <2> DEFINE next == [state |-> "VALIDATED", version |-> 1, bid |-> FALSE]
  <2>1. next \in Record /\ next.state = "VALIDATED"
    BY DEF Record, OrderState
  <2>2. /\ ord' = [ord EXCEPT ![o] = next] /\ ord[o] = NoRecord
        /\ posts' = posts /\ broker' = broker
    BY <1>1 DEF place, remote
  <2> HIDE DEF next
  <2> QED BY <2>1, <2>2 DEF RowStep
<1>2. \/ \E o \in Orders : place(o)
      \/ \E w \in Workers : \/ riskApprove(w) \/ riskReject(w) \/ admissionCommit(w)
                            \/ attachBrokerOrderId(w) \/ failSubmission(w) \/ reconcileApply(w)
  BY DEF Next, Broker, brokerReceives, brokerRejects, brokerCancels, brokerCancelAsk,
     brokerCancelNo, brokerFills, brokerMoves, Step, riskAcquire, riskRead, riskDecide,
     executeEvaluate, admissionPrecheck, admissionAcquire, admissionExposure, admissionValidate,
     admissionUpdate, validateDispatch, validateTransport, validateTransportFinal, dispatchStep,
     send, receive, readOrders, readTrades, lockTimeout, abort, Call, riskBegin, executeBegin,
     reconcileBegin, durable
<1> QED
  BY <1>1, <1>2, RiskCommitRow, AdmissionRow, SettleRow, ReconcileRow

\* Every committed change of a row follows OrderState.transitionTo from the row it
\* replaces, raises its version and keeps the broker order id.
THEOREM LifecycleFollowed == Spec => Lifecycle
<1>1. IInv /\ [Next]_vars => [\A o \in Orders : ord'[o] # ord[o] => LifecycleStep(o)]_vars
  <2> SUFFICES ASSUME IInv, Next, NEW o \in Orders, ord'[o] # ord[o] PROVE LifecycleStep(o)
    OBVIOUS
  <2>1. PICK p \in Orders, next \in Record : RowStep(p, next)
    BY RowSteps
  <2>2. p = o /\ ord'[o] = next
    BY <2>1 DEF RowStep, IInv, TypeOK
  <2> QED
    BY <2>1, <2>2 DEF RowStep, Advances, LifecycleStep, Allowed
<1> QED
  BY <1>1, Inductive, PTL DEF Spec, Lifecycle

\* The slot's holder is the order that reserves the account, or nobody.
LEMMA HolderIs ==
  ASSUME SingleReservation
  PROVE  /\ \A o \in Orders : Reserved(o) => SlotHolder = o
         /\ (\A o \in Orders : ~Reserved(o)) => SlotHolder = NoOrder
         /\ \A o \in Orders : SlotHolder = o => Reserved(o)
<1>1. ASSUME NEW o \in Orders, Reserved(o) PROVE SlotHolder = o
  BY <1>1 DEF SlotHolder, SingleReservation
<1>2. (\A o \in Orders : ~Reserved(o)) => SlotHolder = NoOrder
  BY DEF SlotHolder
<1> QED
  BY <1>1, <1>2, NoOrderAssumption

\* The same after a step.
LEMMA HolderIsNext ==
  ASSUME SingleReservation'
  PROVE  /\ \A o \in Orders : Reserved(o)' => SlotHolder' = o
         /\ (\A o \in Orders : ~Reserved(o)') => SlotHolder' = NoOrder
         /\ \A o \in Orders : SlotHolder' = o => Reserved(o)'
<1>1. ASSUME NEW o \in Orders, Reserved(o)' PROVE SlotHolder' = o
  BY <1>1 DEF SlotHolder, SingleReservation
<1>2. (\A o \in Orders : ~Reserved(o)') => SlotHolder' = NoOrder
  BY DEF SlotHolder
<1> QED
  BY <1>1, <1>2, NoOrderAssumption

\* A step that reserves and releases nothing keeps the holder.
LEMMA HolderKept ==
  ASSUME SingleReservation, SingleReservation', \A o \in Orders : Reserved(o)' <=> Reserved(o)
  PROVE  SlotHolder' = SlotHolder
<1>1. CASE \E o \in Orders : Reserved(o)
  BY <1>1, HolderIs, HolderIsNext
<1>2. CASE \A o \in Orders : ~Reserved(o)
  BY <1>2, HolderIs, HolderIsNext
<1> QED BY <1>1, <1>2

\* A change of an order row takes the slot, discards an order, releases the slot, or is
\* invisible to the account.
LEMMA RowStepSlot ==
  ASSUME IInv, IInv', NEW o \in Orders, NEW next \in Record, RowStep(o, next)
  PROVE  [Slot!SlotNext]_(Slot!slotVars)
<1>1. /\ posts' = posts /\ broker' = broker /\ ord'[o] = next
      /\ \A p \in Orders \ {o} : ord'[p] = ord[p]
      /\ SingleReservation /\ SingleReservation' /\ TerminalAgrees'
      /\ ord[o] \in Record
  BY DEF RowStep, IInv, TypeOK
<1>2. SlotSent' = SlotSent /\ SlotExposed' = SlotExposed
  BY <1>1 DEF SlotSent, SlotExposed
<1>3. \A p \in Orders \ {o} : (Reserved(p)' <=> Reserved(p)) /\ (p \in SlotClosed' <=> p \in SlotClosed)
  BY <1>1 DEF Reserved, SlotClosed
<1> DEFINE Gone == {"REJECTED", "CANCELLED", "FAILED"}
<1>4. o \in SlotClosed <=> ord[o].state \in Gone
  BY DEF SlotClosed
<1>5. o \in SlotClosed' <=> next.state \in Gone
  BY <1>1 DEF SlotClosed
<1>6. Reserved(o)' <=> next.state \notin {"NONE", "CREATED", "VALIDATED"} \cup Gone
  BY <1>1 DEF Reserved
<1>7. SlotClosed \subseteq Orders /\ SlotClosed' \subseteq Orders
  BY DEF SlotClosed
<1> HIDE DEF Gone
<1>a. CASE (Reserved(o)' <=> Reserved(o)) /\ (o \in SlotClosed' <=> o \in SlotClosed)
  <2>1. SlotHolder' = SlotHolder
    BY <1>1, <1>3, <1>a, HolderKept
  <2>2. SlotClosed' = SlotClosed
    BY <1>3, <1>7, <1>a
  <2> QED
    BY <1>2, <2>1, <2>2 DEF Slot!slotVars
<1>b. CASE ord[o].state = "VALIDATED" /\ next.state = "REJECTED"
  <2>1. ~Reserved(o) /\ ~Reserved(o)' /\ o \notin SlotClosed /\ o \in SlotClosed'
    BY <1>4, <1>5, <1>6, <1>b DEF Reserved, Gone
  <2>2. SlotHolder' = SlotHolder /\ SlotHolder # o
    BY <1>1, <1>3, <2>1, HolderKept, HolderIs
  <2>3. SlotClosed' = SlotClosed \cup {o}
    BY <1>3, <1>7, <2>1
  <2>4. Slot!Discard(o)
    BY <1>2, <2>1, <2>2, <2>3 DEF Slot!Discard
  <2> QED
    BY <2>4 DEF Slot!SlotNext
<1>c. CASE ord[o].state = "VALIDATED" /\ next.state = "RISK_APPROVED" /\ \A p \in Orders : ~Reserved(p)
  <2>1. Reserved(o)' /\ o \notin SlotClosed /\ o \notin SlotClosed'
    BY <1>4, <1>5, <1>6, <1>c DEF Gone
  <2>2. SlotHolder = NoOrder /\ SlotHolder' = o
    BY <1>1, <1>c, <2>1, HolderIs, HolderIsNext
  <2>3. SlotClosed' = SlotClosed
    BY <1>3, <1>7, <2>1
  <2>4. Slot!Reserve(o)
    BY <1>2, <2>1, <2>2, <2>3 DEF Slot!Reserve
  <2> QED
    BY <2>4 DEF Slot!SlotNext
<1>d. CASE Reserved(o) /\ next.state \in Allowed(ord[o].state)
  <2>1. next.state \notin {"NONE", "CREATED", "VALIDATED"} /\ ord[o].state \notin Gone
    BY <1>d DEF Reserved, Allowed, Gone
  <2>2. CASE next.state \notin Gone
    BY <1>4, <1>5, <1>6, <1>a, <1>d, <2>1, <2>2
  <2>3. CASE next.state \in Gone
    <3>1. ~Reserved(o)' /\ o \notin SlotClosed /\ o \in SlotClosed'
      BY <1>4, <1>5, <1>6, <2>1, <2>3
    <3>2. SlotHolder = o /\ \A p \in Orders : ~Reserved(p)'
      BY <1>1, <1>3, <1>d, <3>1, HolderIs DEF SingleReservation
    <3>3. SlotHolder' = NoOrder
      BY <1>1, <3>2, HolderIsNext
    <3>4. o \notin SlotExposed
      BY <1>1, <2>3 DEF Gone, TerminalAgrees, SlotExposed
    <3>5. SlotClosed' = SlotClosed \cup {o}
      BY <1>3, <1>7, <3>1
    <3>6. Slot!Release(o)
      BY <1>2, <3>2, <3>3, <3>4, <3>5 DEF Slot!Release
    <3> QED
      BY <3>6 DEF Slot!SlotNext
  <2> QED BY <2>2, <2>3
<1>e. CASE ord[o] = NoRecord /\ next.state = "VALIDATED"
  BY <1>4, <1>5, <1>6, <1>a, <1>e DEF Reserved, NoRecord, Gone
<1>f. CASE next.state = ord[o].state
  BY <1>4, <1>5, <1>6, <1>a, <1>f DEF Reserved, Gone
<1> QED
  BY <1>b, <1>c, <1>d, <1>e, <1>f DEF RowStep, Advances

\* A step that leaves the order table alone sends the holder's request, ends the broker's
\* interest in an order, or is invisible to the account.
LEMMA RemoteStepSlot ==
  ASSUME IInv, IInv', Next, ord' = ord
  PROVE  [Slot!SlotNext]_(Slot!slotVars)
<1>1. SlotHolder' = SlotHolder
  BY HolderKept DEF IInv, Reserved
<1>2. SlotClosed' = SlotClosed
  BY DEF SlotClosed
<1>3. ASSUME NEW w \in Workers, send(w) PROVE [Slot!SlotNext]_(Slot!slotVars)
  <2>1. PICK o \in Orders : o = tgt[w]
    BY <1>3 DEF IInv, WorkerInv, Owns, send
  <2>2. posts[o] = 0 /\ ord[o].state = "SUBMITTING"
    <3>1. WorkerInv(w) /\ pc[w] = "send"
      BY <1>3 DEF IInv, send
    <3>2. posts[o] = 0 /\ ord[o] = submitting(cur[w])
      BY <2>1, <3>1 DEF WorkerInv, Dispatches, Post, PreSend
    <3> QED
      BY <3>2 DEF submitting
  <2>3. /\ \A p \in Orders : posts'[p] = IF p = o THEN 1 ELSE posts[p]
        /\ \A p \in Orders \ {o} : broker'[p] = broker[p]
        /\ broker'[o].status = "WIRE"
    BY <1>3, <2>1, <2>2 DEF send, IInv, TypeOK
  <2>4. SlotHolder = o
    BY <2>2, HolderIs DEF IInv, Reserved
  <2>5. o \notin SlotSent /\ SlotSent' = SlotSent \cup {o}
    BY <2>2, <2>3 DEF SlotSent
  <2>6. SlotExposed' = SlotExposed \cup {o}
    BY <2>3 DEF SlotExposed
  <2>7. Slot!Submit(o)
    BY <1>1, <1>2, <2>4, <2>5, <2>6 DEF Slot!Submit
  <2> QED
    BY <2>7 DEF Slot!SlotNext
<1>4. ASSUME NEW o \in Orders, Broker(o) PROVE [Slot!SlotNext]_(Slot!slotVars)
  <2>1. posts' = posts /\ \A p \in Orders \ {o} : broker'[p] = broker[p]
    <3>1. posts' = posts /\ \E b : broker' = [broker EXCEPT ![o] = b]
      BY <1>4 DEF Broker, brokerReceives, brokerRejects, brokerCancels, brokerCancelAsk,
         brokerCancelNo, brokerFills, brokerMoves
    <3> QED
      BY <3>1 DEF IInv, TypeOK
  <2>2. SlotSent' = SlotSent
    BY <2>1 DEF SlotSent
  <2>3. o \in SlotExposed
    BY <1>4 DEF Broker, brokerReceives, brokerRejects, brokerCancels, brokerCancelAsk,
       brokerCancelNo, brokerFills, brokerMoves, SlotExposed
  <2>4. SlotExposed \subseteq Orders /\ SlotExposed' \subseteq Orders
    BY DEF SlotExposed
  <2>5. \A p \in Orders \ {o} : p \in SlotExposed' <=> p \in SlotExposed
    BY <2>1 DEF SlotExposed
  <2>6. CASE o \in SlotExposed'
    <3>1. SlotExposed' = SlotExposed
      BY <2>3, <2>4, <2>5, <2>6
    <3> QED
      BY <1>1, <1>2, <2>2, <3>1 DEF Slot!slotVars
  <2>7. CASE o \notin SlotExposed'
    <3>1. SlotExposed' = SlotExposed \ {o}
      BY <2>3, <2>4, <2>5, <2>7
    <3>2. Slot!Expire(o)
      BY <1>1, <1>2, <2>2, <2>3, <3>1 DEF Slot!Expire
    <3> QED
      BY <3>2 DEF Slot!SlotNext
  <2> QED BY <2>6, <2>7
<1>5. CASE posts' = posts /\ broker' = broker
  BY <1>1, <1>2, <1>5 DEF Slot!slotVars, SlotSent, SlotExposed
<1>6. \/ \E w \in Workers : send(w)
      \/ \E o \in Orders : Broker(o)
      \/ posts' = posts /\ broker' = broker
  BY DEF Next, place, Step, riskAcquire, riskRead, riskDecide, riskApprove, riskReject, riskCommit,
     executeEvaluate, admissionPrecheck, admissionAcquire, admissionExposure, admissionValidate,
     admissionUpdate, admissionCommit, validateDispatch, validateTransport, validateTransportFinal,
     dispatchStep, receive, attachBrokerOrderId, failSubmission, readOrders, readTrades,
     reconcileApply, lockTimeout, abort, Call, riskBegin, executeBegin, reconcileBegin, remote
<1> QED BY <1>3, <1>4, <1>5, <1>6

\* The order path implements the account slot: databases, versions, locks, snapshots,
\* threads and crashes never let two orders hold the account, send a request twice, or
\* give the account back while the broker may still execute the order.
THEOREM RefinesAccountSlot == Spec => ImplementsAccountSlot
<1>1. Init => Slot!SlotInit
  <2> SUFFICES ASSUME Init PROVE Slot!SlotInit
    OBVIOUS
  <2>1. \A o \in Orders : ~Reserved(o) /\ ord[o].state = "NONE"
    BY DEF Init, Reserved, NoRecord
  <2>2. SlotHolder = NoOrder
    BY <2>1 DEF SlotHolder
  <2>3. SlotSent = {} /\ SlotExposed = {} /\ SlotClosed = {}
    BY <2>1 DEF Init, SlotSent, SlotExposed, SlotClosed
  <2> QED
    BY <2>2, <2>3 DEF Slot!SlotInit
<1>2. IInv /\ IInv' /\ [Next]_vars => [Slot!SlotNext]_(Slot!slotVars)
  <2> SUFFICES ASSUME IInv, IInv', [Next]_vars PROVE [Slot!SlotNext]_(Slot!slotVars)
    OBVIOUS
  <2>1. CASE UNCHANGED vars
    BY <2>1 DEF vars, Slot!slotVars, SlotHolder, SlotSent, SlotExposed, SlotClosed, Reserved
  <2>2. CASE Next /\ ord' = ord
    BY <2>2, RemoteStepSlot
  <2>3. CASE Next /\ ord' # ord
    <3>1. PICK o \in Orders, next \in Record : RowStep(o, next)
      BY <2>3, RowSteps
    <3> QED
      BY <3>1, RowStepSlot
  <2> QED BY <2>1, <2>2, <2>3
<1> QED
  BY <1>1, <1>2, Inductive, PTL DEF Spec, ImplementsAccountSlot, Slot!SlotSpec

=============================================================================
