------------------------------ MODULE OrderProofs ------------------------------
(***************************************************************************)
(* Theorems about the order of the operations, about outcomes and about    *)
(* receipts.  If at most one resume call is made, operations are claimed   *)
(* in plan order, the status of a finished plan is final, and that of any  *)
(* plan moves along the transition table but for one step; if none is      *)
(* made, no operation is sent twice and a rejected one has no request      *)
(* under way; and with a single operation, no receipt of the holder of the *)
(* lease is refused and only what was never claimed is called retryable:   *)
(* all under every interleaving.                                           *)
(*   Ordered      what the call that holds the lease knows of the rows;    *)
(*   Claimed      which rows and snapshots show that an attempt was made;  *)
(*   Doubt        what a plan in doubt, and a reconcile call past its      *)
(*                check, exclude;                                          *)
(*   Unattempted  which rows show that none was;                           *)
(*   Awaited      in which order a reconcile call comes to the rows;       *)
(*   Tokens       whose attempt a request and a working call belong to;    *)
(*   SingleKnown  what a reconcile call knows of a plan's only operation.  *)
(***************************************************************************)
EXTENDS RefinementProofs

\* Two resume calls of one plan may undo the order (run resume_race).
SingleResumer == \A v, w \in Resumers : v = w

Unsent == {"ISSUED", "RETRYABLE_NOT_APPLIED"}
Working == {"adapter", "write", "reply", "record"}
-----------------------------------------------------------------------------
(* What the transactions do to the rows                                    *)

LEMMA ClaimRow ==
  ASSUME StoreInv, NEW w \in Worker, NEW o \in Op, ClaimOperation(w, o)
  PROVE  /\ op[o].status \in Unsent /\ op'[o].status = "EXECUTING"
         /\ op'[o].attempt = op[o].attempt + 1 /\ op'[o].token = w
         /\ \A p \in Op \ {o} : op'[p] = op[p]
         /\ leaseOwner = w /\ leaseOwner' = w /\ leaseLive /\ UNCHANGED planStatus
BY DEF ClaimOperation, CanClaimOperation, StoreInv, StoreTypeOK, OperationRow, Unsent

LEMMA ReceiptRow ==
  ASSUME StoreInv, NEW w \in Worker, NEW o \in Op, NEW n \in Nat, NEW s \in Receipt,
         RecordReceipt(w, o, n, s)
  PROVE  /\ op[o].status = "EXECUTING" /\ op[o].token = w /\ op'[o].status = s
         /\ op'[o].attempt = op[o].attempt /\ op'[o].token = op[o].token
         /\ \A p \in Op \ {o} : op'[p] = op[p]
         /\ leaseOwner = w /\ leaseOwner' \in {w, NoWorker}
         /\ leaseOwner' = w => s \in Success /\ planStatus' \in {"EXECUTING", "PARTIAL"}
         /\ planStatus' = AggregatePersisted(Statuses')
<1>1. op \in [Op -> OperationRow] /\ w # NoWorker
  BY NoWorkerAssumption DEF StoreInv, StoreTypeOK
<1>2. op' = [op EXCEPT ![o].status = s]
  BY DEF RecordReceipt
<1>3. /\ op'[o].status = s /\ op'[o].attempt = op[o].attempt /\ op'[o].token = op[o].token
      /\ \A p \in Op \ {o} : op'[p] = op[p]
  BY <1>1, <1>2 DEF OperationRow
<1>4. Statuses' = StatusesWith(o, s)
  BY <1>1, <1>3 DEF Statuses, StatusesWith
<1>5. op[o].status = "EXECUTING" /\ op[o].token = w /\ leaseOwner = w
  BY DEF RecordReceipt, CanRecordReceipt, Fenced
<1>6. /\ leaseOwner' \in {w, NoWorker}
      /\ leaseOwner' = w => s \in Success /\ planStatus' \in {"EXECUTING", "PARTIAL"}
      /\ planStatus' = AggregatePersisted(StatusesWith(o, s))
  BY <1>1, <1>5 DEF RecordReceipt
<1>7. QED
  BY <1>3, <1>4, <1>5, <1>6

LEMMA ReconciliationRow ==
  ASSUME StoreInv, NEW o \in Op, NEW s \in Evidence, RecordReconciliation(o, s)
  PROVE  /\ op[o].status \in Reconcilable /\ op'[o].status = s
         /\ op'[o].attempt = op[o].attempt /\ op'[o].token = op[o].token
         /\ \A p \in Op \ {o} : op'[p] = op[p]
         /\ leaseOwner = NoWorker /\ leaseOwner' = NoWorker
         /\ planStatus' = AggregatePersisted(Statuses')
<1>1. op \in [Op -> OperationRow]
  BY DEF StoreInv, StoreTypeOK
<1>2. op' = [op EXCEPT ![o].status = s, ![o].reconciled = TRUE]
  BY DEF RecordReconciliation
<1>3. /\ op'[o].status = s /\ op'[o].attempt = op[o].attempt /\ op'[o].token = op[o].token
      /\ \A p \in Op \ {o} : op'[p] = op[p]
  BY <1>1, <1>2 DEF OperationRow
<1>4. Statuses' = StatusesWith(o, s)
  BY <1>1, <1>3 DEF Statuses, StatusesWith
<1>5. QED
  BY <1>3, <1>4 DEF RecordReconciliation, CanRecordReconciliation
-----------------------------------------------------------------------------
(* Plan order                                                              *)

\* The call that holds the lease: what it has not on its list has succeeded,
\* but for the operation it works on.
Held(w) ==
  /\ pc[w] = "load" => IF w \in Resumers
                       THEN \A p \in Op : op[p].status \in Success \cup {"RETRYABLE_NOT_APPLIED"}
                       ELSE op = IssuedRows
  /\ pc[w] = "next" => \A p \in Op \ todo[w] : op[p].status \in Success
  /\ pc[w] \in Working => \A p \in Op \ (todo[w] \cup {cur[w]}) : op[p].status \in Success

\* A resume call that has passed its check.
Waits ==
  /\ \E p \in Op : op[p].status = "RETRYABLE_NOT_APPLIED"
  /\ \A p \in Op : op[p].status \in Success \cup {"RETRYABLE_NOT_APPLIED"}

Ordered ==
  /\ InPlanOrder
  /\ \A w \in Worker : leaseOwner = w => Held(w)
  /\ \A w \in Resumers : pc[w] = "claim" => Waits
  /\ leaseOwner \in Worker \ Resumers =>
       \A p \in Op : op[p].status # "RETRYABLE_NOT_APPLIED"

\* Only successes count, and no transaction takes one back.
LEMMA OrderKept ==
  ASSUME InPlanOrder,
         \A o \in Op : op[o].status \in Success => op'[o].status \in Success,
         \A o \in Op : op'[o].attempt = op[o].attempt
  PROVE  InPlanOrder'
BY DEF InPlanOrder

LEMMA OrderedWorker ==
  ASSUME SingleResumer, IInv, Ordered, NEW w \in Worker, WorkerStep(w)
  PROVE  Ordered'
<1>1. /\ StoreInv /\ CallsOK /\ FreshPlan /\ op \in [Op -> OperationRow]
      /\ pc \in [Worker -> WorkerPc] /\ todo \in [Worker -> SUBSET Op] /\ cur \in [Worker -> Op]
      /\ Resumers \subseteq Worker
  BY IInvParts, CallAssumption DEF StoreInv, StoreTypeOK, CallsOK
<1>2. \A v \in Worker \ {w} : pc'[v] = pc[v] /\ todo'[v] = todo[v] /\ cur'[v] = cur[v]
  BY <1>1 DEF WorkerStep, ConfirmStart, ConfirmExpire, ResumeStart, Claim, LoadOperations, ClaimNext,
     AdapterRead, AdapterWrite, AdapterVerify, Record, Goto, Return, Outcome, Refuse
<1>3. ASSUME UNCHANGED <<op, leaseOwner>>, leaseOwner = w => Held(w)',
             w \in Resumers /\ pc'[w] = "claim" => Waits
      PROVE  Ordered'
  <2>1. InPlanOrder'
    BY <1>3 DEF Ordered, InPlanOrder
  <2>2. \A v \in Worker : leaseOwner' = v => Held(v)'
    BY <1>2, <1>3 DEF Ordered, Held
  <2>3. \A v \in Resumers : pc'[v] = "claim" => Waits'
    BY <1>1, <1>2, <1>3 DEF Ordered, Waits
  <2>4. QED
    BY <1>3, <2>1, <2>2, <2>3 DEF Ordered
<1>4. ASSUME UNCHANGED <<op, leaseOwner>>, pc'[w] \in {"expire", "done"}
      PROVE  Ordered'
  BY <1>3, <1>4 DEF Held, Working
<1>5. ASSUME UNCHANGED <<op, leaseOwner>>, Return(w)
      PROVE  Ordered'
  BY <1>1, <1>4, <1>5 DEF Return, Goto
<1>6. CASE ConfirmStart(w)
  BY <1>1, <1>3, <1>6 DEF ConfirmStart, Goto, storeVars, Held, Working
<1>7. CASE ConfirmExpire(w)
  BY <1>5, <1>7 DEF ConfirmExpire, TransitionPlan, storeVars
<1>8. CASE ResumeStart(w)
  <2>1. Waits
    BY <1>1, <1>8 DEF ResumeStart, Resumable, Some, Every, Statuses, Waits
  <2>2. UNCHANGED <<op, leaseOwner>> /\ pc'[w] = "claim"
    BY <1>1, <1>8 DEF ResumeStart, Goto, storeVars
  <2>3. QED
    BY <1>3, <2>1, <2>2 DEF Held, Working
<1>9. CASE Claim(w)
  <2>1. CASE UNCHANGED storeVars /\ Return(w)
    BY <1>5, <2>1 DEF storeVars
  <2>2. CASE ClaimPlan(w, w \in Resumers) /\ Goto(w, "load")
    <3>1. UNCHANGED op /\ leaseOwner' = w /\ pc[w] = "claim" /\ pc'[w] = "load"
      BY <1>1, <1>9, <2>2 DEF Claim, ClaimPlan, Goto
    <3>2. CASE w \in Resumers
      <4>1. Waits
        BY <3>1, <3>2 DEF Ordered
      <4>2. Held(w)'
        BY <3>1, <3>2, <4>1 DEF Held, Waits, Working
      <4>3. \A v \in Resumers : pc'[v] # "claim"
        BY <3>1, <3>2 DEF SingleResumer
      <4>4. QED
        BY <3>1, <3>2, <4>2, <4>3 DEF Ordered, InPlanOrder
    <3>3. CASE w \notin Resumers
      <4>1. planStatus = "ISSUED"
        BY <2>2, <3>3 DEF ClaimPlan, CanClaimPlan, ClaimablePlan
      <4>2. op = IssuedRows
        BY <1>1, <4>1 DEF FreshPlan
      <4>3. Held(w)' /\ \A p \in Op : op'[p].status # "RETRYABLE_NOT_APPLIED"
        BY <3>1, <3>3, <4>2 DEF Held, Working, IssuedRows
      <4>4. \A v \in Resumers : pc'[v] = "claim" => Waits'
        BY <1>1, <1>2, <3>1, <3>3 DEF Ordered, Waits
      <4>5. QED
        BY <3>1, <4>3, <4>4 DEF Ordered, InPlanOrder
    <3>4. QED
      BY <3>2, <3>3
  <2>3. QED
    BY <1>9, <2>1, <2>2 DEF Claim
<1>10. CASE LoadOperations(w)
  <2>1. UNCHANGED <<op, leaseOwner>> /\ pc[w] = "load"
    BY <1>10 DEF LoadOperations, storeVars
  <2>2. CASE Return(w)
    BY <1>5, <2>1, <2>2
  <2>3. CASE ~Return(w)
    <3>1. /\ pc'[w] = "next"
          /\ todo'[w] = {o \in Op : op[o].status = IF w \in Resumers THEN "RETRYABLE_NOT_APPLIED"
                                                  ELSE "ISSUED"}
      BY <1>1, <1>10, <2>3 DEF LoadOperations, Goto
    <3>2. leaseOwner = w => Held(w)'
      BY <2>1, <3>1 DEF Ordered, Held, Working, IssuedRows
    <3>3. QED
      BY <1>3, <2>1, <3>1, <3>2
  <2>4. QED
    BY <2>2, <2>3
<1>11. CASE ClaimNext(w)
  <2>1. pc[w] = "next"
    BY <1>11 DEF ClaimNext
  <2>2. CASE UNCHANGED storeVars /\ Return(w)
    BY <1>5, <2>2 DEF storeVars
  <2>3. ASSUME NEW o \in Op, First(o, todo[w]), ClaimOperation(w, o),
               todo' = [todo EXCEPT ![w] = @ \ {o}], cur' = [cur EXCEPT ![w] = o],
               Goto(w, "adapter")
        PROVE  Ordered'
    <3>1. /\ op[o].status \in Unsent /\ op'[o].status = "EXECUTING"
          /\ \A p \in Op \ {o} : op'[p] = op[p]
          /\ leaseOwner = w /\ leaseOwner' = w
      BY <1>1, <2>3, ClaimRow
    <3>2. pc'[w] = "adapter" /\ cur'[w] = o /\ todo'[w] = todo[w] \ {o}
      BY <1>1, <2>3 DEF Goto
    <3>3. \A p \in Op \ todo[w] : op[p].status \in Success
      BY <2>1, <3>1 DEF Ordered, Held
    <3>4. InPlanOrder'
      <4>1. ASSUME NEW q \in Op, NEW p \in Op, p < q, op'[q].attempt > 0
            PROVE  op'[p].status \in Success
        <5>1. CASE q = o
          <6>1. p # o /\ p \notin todo[w]
            BY <2>3, <4>1, <5>1 DEF First, Op
          <6>2. QED
            BY <3>1, <3>3, <6>1
        <5>2. CASE q # o
          <6>1. op[p].status \in Success
            BY <3>1, <4>1, <5>2 DEF Ordered, InPlanOrder
          <6>2. p # o
            BY <3>1, <6>1 DEF Unsent, Success
          <6>3. QED
            BY <3>1, <6>1, <6>2
        <5>3. QED
          BY <5>1, <5>2
      <4>2. QED
        BY <4>1 DEF InPlanOrder
    <3>5. Held(w)'
      BY <3>1, <3>2, <3>3 DEF Held, Working
    <3>6. \A v \in Resumers : pc'[v] # "claim"
      <4>1. CASE w \in Resumers
        BY <3>2, <4>1 DEF SingleResumer
      <4>2. CASE w \notin Resumers
        BY <1>1, <1>2, <3>1, <4>2 DEF Ordered, Waits
      <4>3. QED
        BY <4>1, <4>2
    <3>7. leaseOwner' \in Worker \ Resumers =>
            \A p \in Op : op'[p].status # "RETRYABLE_NOT_APPLIED"
      BY <3>1 DEF Ordered
    <3>8. QED
      BY <3>1, <3>4, <3>5, <3>6, <3>7 DEF Ordered
  <2>4. QED
    BY <1>11, <2>2, <2>3 DEF ClaimNext
<1>12. CASE AdapterRead(w) \/ AdapterWrite(w) \/ AdapterVerify(w)
  <2>1. /\ UNCHANGED <<op, leaseOwner, todo, cur>> /\ pc[w] \in Working /\ pc'[w] \in Working
    BY <1>1, <1>12 DEF AdapterRead, AdapterWrite, AdapterVerify, Refuse, Outcome, Goto, storeVars, Working
  <2>2. leaseOwner = w => Held(w)'
    BY <2>1 DEF Ordered, Held, Working
  <2>3. QED
    BY <1>3, <2>1, <2>2 DEF Working
<1>13. CASE Record(w)
  <2>1. pc[w] = "record" /\ cur[w] \in Op /\ attempt[w] \in Nat /\ receipt[w] \in Receipt
    BY <1>1, <1>13 DEF Record, CallsOK
  <2>2. CASE UNCHANGED storeVars /\ Return(w)
    BY <1>5, <2>2 DEF storeVars
  <2>3. CASE RecordReceipt(w, cur[w], attempt[w], receipt[w])
    <3>1. /\ op[cur[w]].status = "EXECUTING" /\ op'[cur[w]].status = receipt[w]
          /\ op'[cur[w]].attempt = op[cur[w]].attempt
          /\ \A p \in Op \ {cur[w]} : op'[p] = op[p]
          /\ leaseOwner = w /\ leaseOwner' \in {w, NoWorker}
          /\ leaseOwner' = w => receipt[w] \in Success
      BY <1>1, <2>1, <2>3, ReceiptRow
    <3>2. InPlanOrder'
      <4>1. \A o \in Op : op[o].status \in Success => op'[o].status \in Success
        BY <3>1 DEF Success
      <4>2. \A o \in Op : op'[o].attempt = op[o].attempt
        BY <3>1
      <4>3. QED
        BY <4>1, <4>2, OrderKept DEF Ordered
    <3>3. leaseOwner' = w => Held(w)'
      <4>1. CASE pc'[w] = "done"
        BY <4>1 DEF Held, Working
      <4>2. CASE pc'[w] = "next" /\ UNCHANGED <<todo, cur>>
        BY <2>1, <3>1, <4>2 DEF Ordered, Held, Working
      <4>3. QED
        BY <1>1, <1>13, <2>3, <4>1, <4>2 DEF Record, Return, Goto
    <3>4. \A v \in Resumers : pc'[v] # "claim"
      <4>1. \A v \in Resumers : pc[v] # "claim"
        BY <2>1, <3>1 DEF Ordered, Waits, Success
      <4>2. pc'[w] # "claim"
        BY <1>1, <1>13 DEF Record, Return, Goto
      <4>3. QED
        BY <1>1, <1>2, <4>1, <4>2
    <3>5. leaseOwner' \in Worker \ Resumers =>
            \A p \in Op : op'[p].status # "RETRYABLE_NOT_APPLIED"
      BY <2>1, <3>1, NoWorkerAssumption DEF Ordered, Receipt
    <3>6. QED
      BY <3>1, <3>2, <3>3, <3>4, <3>5, NoWorkerAssumption DEF Ordered
  <2>4. QED
    BY <1>13, <2>2, <2>3 DEF Record
<1>14. QED
  BY <1>6, <1>7, <1>8, <1>9, <1>10, <1>11, <1>12, <1>13 DEF WorkerStep

\* What a reconcile call does to the store.
LEMMA ReconcilerStore ==
  ASSUME IInv, NEW r \in Reconcilers, ReconcilerStep(r) \/ ReconcileFails(r)
  PROVE  /\ UNCHANGED <<workerVars, graphVars>>
         /\ \/ UNCHANGED storeVars
            \/ BeginReconcile
            \/ \E o \in Op : /\ rpc[r] = "scan" /\ snapshot[r][o].status = "ISSUED" /\ First(o, rtodo[r])
                             /\ RecordReconciliation(o, "RETRYABLE_NOT_APPLIED")
            \/ \E o \in Op : /\ rpc[r] = "record" /\ First(o, rtodo[r])
                             /\ RecordReconciliation(o, verdict[r])
<1>1. CASE ReconcileBegin(r)
  BY <1>1 DEF ReconcileBegin
<1>2. CASE ReconcileCheck(r) \/ ReconcileRead(r) \/ ReconcileObserve(r) \/ ReconcileFails(r)
  BY <1>2 DEF ReconcileCheck, ReconcileRead, ReconcileObserve, ReconcileFails
<1>3. CASE ReconcileIssued(r)
  BY <1>3 DEF ReconcileIssued, RecordAndGoOn
<1>4. CASE ReconcileRecord(r)
  BY <1>4 DEF ReconcileRecord, RecordAndGoOn
<1>5. QED
  BY <1>1, <1>2, <1>3, <1>4 DEF ReconcilerStep

LEMMA OrderedReconciler ==
  ASSUME IInv, Ordered, NEW r \in Reconcilers, ReconcilerStep(r) \/ ReconcileFails(r)
  PROVE  Ordered'
<1>1. StoreInv /\ CallsOK /\ Resumers \subseteq Worker /\ NoWorker \notin Worker
  BY IInvParts, CallAssumption, NoWorkerAssumption
<1>2. UNCHANGED <<pc, todo, cur>>
  BY ReconcilerStore DEF workerVars
<1>3. CASE UNCHANGED op /\ leaseOwner' \in {leaseOwner, NoWorker}
  BY <1>1, <1>2, <1>3 DEF Ordered, InPlanOrder, Held, Waits
<1>4. ASSUME NEW o \in Op, NEW s \in Evidence, RecordReconciliation(o, s)
      PROVE  Ordered'
  <2>1. /\ op[o].status \in Reconcilable /\ op'[o].status = s
        /\ op'[o].attempt = op[o].attempt
        /\ \A p \in Op \ {o} : op'[p] = op[p]
        /\ leaseOwner = NoWorker /\ leaseOwner' = NoWorker
    BY <1>1, <1>4, ReconciliationRow
  <2>2. InPlanOrder'
    <3>1. \A p \in Op : op[p].status \in Success => op'[p].status \in Success
      BY <2>1 DEF Reconcilable, Success
    <3>2. \A p \in Op : op'[p].attempt = op[p].attempt
      BY <2>1
    <3>3. QED
      BY <3>1, <3>2, OrderKept DEF Ordered
  <2>3. \A v \in Resumers : pc'[v] # "claim"
    BY <1>2, <2>1 DEF Ordered, Waits, Reconcilable, Success
  <2>4. QED
    BY <1>1, <2>1, <2>2, <2>3 DEF Ordered
<1>5. "RETRYABLE_NOT_APPLIED" \in Evidence /\ verdict[r] \in Evidence
  BY <1>1 DEF CallsOK, Evidence, ApplyStatus
<1>6. QED
  BY <1>3, <1>4, <1>5, ReconcilerStore DEF storeVars, BeginReconcile

LEMMA EnvironmentStore ==
  ASSUME Environment \/ UNCHANGED vars
  PROVE  UNCHANGED <<op, planStatus, leaseOwner, pc, todo, cur, attempt, receipt,
                     rpc, snapshot, rtodo, verdict>>
BY DEF Environment, ServerCommits, ServerDrops, OtherWriter, Clock, LeaseExpires,
       PlanExpires, vars, storeVars, workerVars, reconcilerVars

LEMMA OrderedInvariant == SingleResumer => (Spec => []Ordered)
<1> SUFFICES ASSUME SingleResumer
             PROVE  Spec => []Ordered
  OBVIOUS
<1>1. ASSUME Init
      PROVE  Ordered
  <2>1. op = IssuedRows /\ leaseOwner = NoWorker /\ \A w \in Worker : pc[w] = "start"
    BY <1>1 DEF Init, StoreInit
  <2>2. QED
    BY <2>1, NoWorkerAssumption, CallAssumption DEF Ordered, InPlanOrder, IssuedRows
<1>2. ASSUME IInv, Ordered, Environment \/ UNCHANGED vars
      PROVE  Ordered'
  BY <1>2, EnvironmentStore DEF Ordered, InPlanOrder, Held, Waits
<1>3. IInv /\ Ordered /\ [Next]_vars => Ordered'
  BY <1>2, OrderedWorker, OrderedReconciler DEF Next
<1>4. QED
  BY <1>1, <1>3, Invariance, PTL DEF Spec

\* With one resume call, operations are claimed in plan order, whatever
\* confirm and reconcile calls do meanwhile.
THEOREM OneResumeKeepsOrder == SingleResumer => (Spec => []InPlanOrder)
<1>1. Ordered => InPlanOrder
  BY DEF Ordered
<1>2. QED
  BY <1>1, OrderedInvariant, PTL
-----------------------------------------------------------------------------
(* Attempts                                                                *)

\* An operation never claimed has no outcome that needs a read, in its row or
\* in the snapshot of a reconcile call; and no reader says REJECTED or
\* ALREADY_APPLIED, which tell what an attempt did.
Claimed ==
  /\ \A o \in Op : op[o].attempt = 0 => op[o].status \in Unsent
  /\ \A r \in Reconcilers : verdict[r] \notin {"REJECTED", "ALREADY_APPLIED"}
  /\ \A r \in Reconcilers, o \in Op :
       rpc[r] \in {"scan", "record"} /\ o \in rtodo[r] =>
         snapshot[r][o].status = "ISSUED" \/ op[o].attempt > 0
  /\ \A r \in Reconcilers, o \in Op :
       rpc[r] = "record" /\ First(o, rtodo[r]) => op[o].attempt > 0

LEMMA ClaimedStore ==
  ASSUME IInv, Claimed, [Next]_vars
  PROVE  /\ \A o \in Op : op'[o].attempt = 0 => op'[o].status \in Unsent
         /\ \A o \in Op : op[o].attempt > 0 => op'[o].attempt > 0
<1>1. StoreInv /\ CallsOK /\ op \in [Op -> OperationRow]
  BY IInvParts DEF StoreInv, StoreTypeOK
<1>2. \A o \in Op : op[o].attempt \in Nat
  BY <1>1 DEF OperationRow
<1>3. CASE UNCHANGED op
  BY <1>3 DEF Claimed
<1>4. ASSUME NEW w \in Worker, NEW o \in Op, ClaimOperation(w, o)
      PROVE  /\ \A q \in Op : op'[q].attempt = 0 => op'[q].status \in Unsent
             /\ \A q \in Op : op[q].attempt > 0 => op'[q].attempt > 0
  BY <1>1, <1>2, <1>4, ClaimRow DEF Claimed
<1>5. ASSUME NEW w \in Worker, WorkerStep(w), ~UNCHANGED op, \A o \in Op : ~ClaimOperation(w, o)
      PROVE  /\ \A q \in Op : op'[q].attempt = 0 => op'[q].status \in Unsent
             /\ \A q \in Op : op[q].attempt > 0 => op'[q].attempt > 0
  <2>1. RecordReceipt(w, cur[w], attempt[w], receipt[w])
    BY <1>5 DEF WorkerStep, ConfirmStart, ConfirmExpire, ResumeStart, Claim, LoadOperations, ClaimNext,
       AdapterRead, AdapterWrite, AdapterVerify, Record, TransitionPlan, ClaimPlan, storeVars
  <2>2. cur[w] \in Op /\ attempt[w] \in Nat /\ receipt[w] \in Receipt
    BY <1>1 DEF CallsOK
  <2>3. /\ op[cur[w]].status = "EXECUTING" /\ op'[cur[w]].attempt = op[cur[w]].attempt
        /\ \A p \in Op \ {cur[w]} : op'[p] = op[p]
    BY <1>1, <2>1, <2>2, ReceiptRow
  <2>4. QED
    BY <2>2, <2>3 DEF Claimed, Unsent
<1>6. ASSUME NEW r \in Reconcilers, ReconcilerStep(r) \/ ReconcileFails(r), ~UNCHANGED op
      PROVE  /\ \A q \in Op : op'[q].attempt = 0 => op'[q].status \in Unsent
             /\ \A q \in Op : op[q].attempt > 0 => op'[q].attempt > 0
  <2>1. "RETRYABLE_NOT_APPLIED" \in Evidence /\ verdict[r] \in Evidence
    BY <1>1 DEF CallsOK, Evidence, ApplyStatus
  <2>2. PICK o \in Op, s \in Evidence :
          /\ RecordReconciliation(o, s)
          /\ s = "RETRYABLE_NOT_APPLIED" \/ (rpc[r] = "record" /\ First(o, rtodo[r]))
    BY <1>6, <2>1, ReconcilerStore DEF storeVars, BeginReconcile
  <2>3. /\ op'[o].status = s /\ op'[o].attempt = op[o].attempt
        /\ \A p \in Op \ {o} : op'[p] = op[p]
    BY <1>1, <2>2, ReconciliationRow
  <2>4. s = "RETRYABLE_NOT_APPLIED" \/ op[o].attempt > 0
    BY <2>2 DEF Claimed
  <2>5. QED
    BY <1>2, <2>3, <2>4 DEF Claimed, Unsent
<1>7. QED
  BY <1>3, <1>4, <1>5, <1>6, EnvironmentStore DEF Next

LEMMA ClaimedStep ==
  ASSUME IInv, Claimed, [Next]_vars
  PROVE  Claimed'
<1>1. CallsOK /\ StoreInv /\ op \in [Op -> OperationRow]
  BY IInvParts DEF StoreInv, StoreTypeOK
<1>2. /\ \A o \in Op : op'[o].attempt = 0 => op'[o].status \in Unsent
      /\ \A o \in Op : op[o].attempt > 0 => op'[o].attempt > 0
  BY ClaimedStore
<1>3. CASE UNCHANGED <<rpc, snapshot, rtodo, verdict>>
  BY <1>2, <1>3 DEF Claimed, First
<1>4. ASSUME NEW r \in Reconcilers, ReconcilerStep(r) \/ ReconcileFails(r)
      PROVE  Claimed'
  <2>1. \A q \in Reconcilers \ {r} : /\ rpc'[q] = rpc[q] /\ snapshot'[q] = snapshot[q]
                                     /\ rtodo'[q] = rtodo[q] /\ verdict'[q] = verdict[q]
    BY <1>1, <1>4 DEF CallsOK, ReconcilerStep, ReconcileBegin, ReconcileCheck, ReconcileRead,
       ReconcileIssued, ReconcileObserve, ReconcileRecord, ReconcileFails, RecordAndGoOn,
       RReturn, RGoto
  <2>2. ASSUME verdict'[r] \notin {"REJECTED", "ALREADY_APPLIED"},
               rpc'[r] \in {"scan", "record"} =>
                 \A o \in rtodo'[r] : snapshot'[r][o].status = "ISSUED" \/ op'[o].attempt > 0,
               rpc'[r] = "record" => \A o \in Op : First(o, rtodo'[r]) => op'[o].attempt > 0
        PROVE  Claimed'
    BY <1>2, <2>1, <2>2 DEF Claimed, First
  <2>3. CASE RReturn(r)
    <3>1. rpc'[r] = "idle" /\ verdict'[r] = "UNKNOWN"
      BY <1>1, <2>3 DEF RReturn, RGoto, CallsOK
    <3>2. QED
      BY <2>2, <3>1
  <2>4. CASE ReconcileBegin(r) \/ ReconcileCheck(r)
    <3>1. rpc'[r] \in {"idle", "opened", "read"} /\ verdict'[r] = verdict[r]
      BY <1>1, <2>4 DEF ReconcileBegin, ReconcileCheck, RGoto, CallsOK
    <3>2. QED
      BY <2>2, <3>1 DEF Claimed
  <2>5. CASE ReconcileRead(r) /\ ~RReturn(r)
    <3>1. /\ rpc'[r] = "scan" /\ verdict' = verdict /\ snapshot'[r] = op /\ UNCHANGED op
          /\ rtodo'[r] = {o \in Op : op[o].status \in Reconcilable}
      BY <1>1, <2>5 DEF ReconcileRead, RGoto, CallsOK, storeVars
    <3>2. ASSUME NEW o \in rtodo'[r]
          PROVE  snapshot'[r][o].status = "ISSUED" \/ op'[o].attempt > 0
      <4>1. op[o].attempt \in Nat /\ op[o].status \in Reconcilable /\ o \in Op
        BY <1>1, <3>1 DEF OperationRow
      <4>2. QED
        BY <3>1, <4>1 DEF Claimed, Unsent, Reconcilable
    <3>3. QED
      BY <2>2, <3>1, <3>2 DEF Claimed
  <2>6. CASE (ReconcileIssued(r) \/ ReconcileRecord(r)) /\ ~RReturn(r)
    <3>1. PICK o \in Op : /\ rtodo' = [rtodo EXCEPT ![r] = @ \ {o}] /\ RGoto(r, "scan")
                         /\ UNCHANGED <<snapshot, verdict>>
      BY <2>6 DEF ReconcileIssued, ReconcileRecord, RecordAndGoOn
    <3>2. /\ rpc'[r] = "scan" /\ rtodo'[r] \subseteq rtodo[r] /\ rpc[r] \in {"scan", "record"}
          /\ rtodo[r] \subseteq Op
      BY <1>1, <2>6, <3>1 DEF RGoto, CallsOK, ReconcileIssued, ReconcileRecord
    <3>3. QED
      BY <1>2, <2>2, <3>1, <3>2 DEF Claimed
  <2>7. CASE ReconcileObserve(r)
    <3>1. PICK o \in Op : /\ First(o, rtodo[r]) /\ snapshot[r][o].status # "ISSUED"
                         /\ verdict' = [verdict EXCEPT ![r] = Verdict(snapshot[r][o], element[o])]
      BY <2>7 DEF ReconcileObserve
    <3>2. /\ UNCHANGED <<op, rtodo, snapshot>> /\ rpc[r] = "scan" /\ rpc'[r] = "record"
          /\ rtodo[r] \subseteq Op
      BY <1>1, <2>7 DEF ReconcileObserve, RGoto, CallsOK, storeVars
    <3>3. verdict'[r] \notin {"REJECTED", "ALREADY_APPLIED"}
      BY <1>1, <3>1 DEF CallsOK, Verdict, ReconcileOperationState, Observation
    <3>4. op[o].attempt > 0
      BY <3>1, <3>2 DEF Claimed, First
    <3>5. \A p \in Op : First(p, rtodo[r]) => p = o
      BY <3>1 DEF First, Op
    <3>6. QED
      BY <2>2, <3>2, <3>3, <3>4, <3>5 DEF Claimed
  <2>8. QED
    BY <1>4, <2>3, <2>4, <2>5, <2>6, <2>7 DEF ReconcilerStep, ReconcileFails
<1>5. CASE Environment \/ UNCHANGED vars
  BY <1>3, <1>5, EnvironmentStore
<1>6. ASSUME NEW w \in Worker, WorkerStep(w)
      PROVE  Claimed'
  <2>1. UNCHANGED <<rpc, snapshot, rtodo, verdict>>
    BY <1>6 DEF WorkerStep, ConfirmStart, ConfirmExpire, ResumeStart, Claim, LoadOperations, ClaimNext,
       AdapterRead, AdapterWrite, AdapterVerify, Record, reconcilerVars
  <2>2. QED
    BY <1>3, <2>1
<1>7. QED
  BY <1>4, <1>5, <1>6 DEF Next

LEMMA ClaimedInvariant == Spec => []Claimed
<1>1. ASSUME Init
      PROVE  Claimed
  <2>1. op = IssuedRows /\ \A r \in Reconcilers : rpc[r] = "idle" /\ verdict[r] = "UNKNOWN"
    BY <1>1 DEF Init, StoreInit
  <2>2. QED
    BY <2>1 DEF Claimed, IssuedRows, Unsent
<1>2. QED
  BY <1>1, ClaimedStep, Invariance, PTL DEF Spec
-----------------------------------------------------------------------------
(* Doubt                                                                   *)

\* What an aggregate says about the rows.
LEMMA AggregateSays ==
  ASSUME NEW st \in [Op -> Evidence \cup Pending]
  PROVE  LET a == AggregatePersisted(st) IN
         /\ a # "LEGACY_UNKNOWN"
         /\ a = "EXECUTING" => \A o \in Op : st[o] \in Pending
         /\ a = "UNKNOWN" => (\E o \in Op : st[o] = "UNKNOWN") /\ \A o \in Op : st[o] \notin Success
         /\ a = "CONFLICT" <=> /\ \E o \in Op : st[o] = "CONFLICT"
                               /\ \A o \in Op : st[o] \notin Success \cup {"UNKNOWN"}
         /\ a = "REJECTED" => /\ \E o \in Op : st[o] = "REJECTED"
                              /\ \A o \in Op : st[o] \in Pending \cup {"REJECTED"}
<1> DEFINE a == AggregatePersisted(st)
<1>1. /\ \A S : Some(st, S) <=> \E o \in Op : st[o] \in S
      /\ \A S : Every(st, S) <=> \A o \in Op : st[o] \in S
  BY DEF Some, Every
<1>2. /\ \A o \in Op : st[o] # "PARTIAL" /\ st[o] # "LEGACY_UNKNOWN"
      /\ 1 \in Op
  BY InitialRows DEF Evidence, Pending
<1>3. a # "LEGACY_UNKNOWN"
  BY DEF AggregatePersisted, AggregatePlanStatus
<1>4. ASSUME a = "EXECUTING", NEW o \in Op
      PROVE  st[o] \in Pending
  <2>1. /\ Some(st, Pending) /\ ~Some(st, Success) /\ ~Some(st, {"UNKNOWN"}) /\ ~Some(st, {"CONFLICT"})
        /\ ~Some(st, {"RETRYABLE_NOT_APPLIED"})
        /\ ~(Some(st, {"REJECTED"}) /\ Every(st, Pending \cup {"REJECTED"}))
    BY <1>4 DEF AggregatePersisted, AggregatePlanStatus
  <2>2. \A q \in Op : st[q] \in Pending \cup {"REJECTED"}
    BY <1>1, <1>2, <2>1 DEF Evidence, ApplyStatus, Pending, Success
  <2>3. QED
    BY <1>1, <2>1, <2>2
<1>5. ASSUME a = "UNKNOWN"
      PROVE  (\E o \in Op : st[o] = "UNKNOWN") /\ \A o \in Op : st[o] \notin Success
  <2>1. Some(st, {"UNKNOWN"}) /\ (~Some(st, Success) \/ ~Some(st, Success \cup {"PARTIAL"}))
    BY <1>5 DEF AggregatePersisted, AggregatePlanStatus
  <2>2. QED
    BY <1>1, <2>1
<1>6. ASSUME a = "CONFLICT"
      PROVE  /\ \E o \in Op : st[o] = "CONFLICT"
             /\ \A o \in Op : st[o] \notin Success \cup {"UNKNOWN"}
  <2>1. /\ Some(st, {"CONFLICT"}) /\ ~Some(st, {"UNKNOWN"})
        /\ ~Some(st, Success) \/ ~Some(st, Success \cup {"PARTIAL"})
    BY <1>6 DEF AggregatePersisted, AggregatePlanStatus
  <2>2. QED
    BY <1>1, <2>1
<1>7. ASSUME \E o \in Op : st[o] = "CONFLICT", \A o \in Op : st[o] \notin Success \cup {"UNKNOWN"}
      PROVE  a = "CONFLICT"
  <2>1. /\ Some(st, {"CONFLICT"}) /\ ~Some(st, {"UNKNOWN"}) /\ ~Some(st, Success)
        /\ ~Some(st, Success \cup {"PARTIAL"})
    BY <1>1, <1>2, <1>7
  <2>2. ~Every(st, {"ALREADY_APPLIED"}) /\ ~Every(st, Success)
    BY <1>1, <1>2, <1>7 DEF Success
  <2>3. QED
    BY <2>1, <2>2 DEF AggregatePersisted, AggregatePlanStatus
<1>8. ASSUME a = "REJECTED"
      PROVE  /\ \E o \in Op : st[o] = "REJECTED"
             /\ \A o \in Op : st[o] \in Pending \cup {"REJECTED"}
  <2>1. CASE Some(st, Pending)
    <3>1. Some(st, {"REJECTED"}) /\ Every(st, Pending \cup {"REJECTED"})
      BY <1>8, <2>1 DEF AggregatePersisted
    <3>2. QED
      BY <1>1, <3>1
  <2>2. CASE ~Some(st, Pending)
    <3>1. /\ ~Some(st, Success \cup {"PARTIAL"}) /\ ~Some(st, {"UNKNOWN"}) /\ ~Some(st, {"CONFLICT"})
          /\ ~Some(st, {"RETRYABLE_NOT_APPLIED"})
      BY <1>8, <2>2 DEF AggregatePersisted, AggregatePlanStatus
    <3>2. \A o \in Op : st[o] = "REJECTED"
      BY <1>1, <1>2, <2>2, <3>1 DEF Evidence, ApplyStatus, Success
    <3>3. QED
      BY <1>2, <3>2
  <2>3. QED
    BY <2>1, <2>2
<1>9. QED
  BY <1>3, <1>4, <1>5, <1>6, <1>7, <1>8

\* A reconcile call past its check.
Doubtful == {"read", "scan", "record"}

HasSuccess == \E o \in Op : op[o].status \in Success

Doubt ==
  /\ planStatus = "EXECUTING" =>
       \A o \in Op : op[o].status \in Pending \cup {"RETRYABLE_NOT_APPLIED"}
  /\ planStatus = "UNKNOWN" => leaseOwner = NoWorker /\ \A o \in Op : op[o].status # "REJECTED"
  /\ leaseOwner \in Resumers => \A o \in Op : op[o].status # "ISSUED"
  /\ \A r \in Reconcilers : rpc[r] \in Doubtful =>
       \/ HasSuccess
       \/ /\ leaseOwner \in Resumers \cup {NoWorker}
          /\ (\E o \in Op : op[o].status = "REJECTED") => \A o \in Op : op[o].status # "ISSUED"

\* What a step does to the store, and who does it.
Kinds ==
  \/ UNCHANGED <<op, planStatus, leaseOwner>>
  \/ TransitionPlan("ISSUED", "EXPIRED")
  \/ \E w \in Worker : ClaimPlan(w, w \in Resumers) /\ pc[w] = "claim"
  \/ \E w \in Worker, o \in Op : ClaimOperation(w, o)
  \/ \E w \in Worker, o \in Op, n \in Nat, s \in Receipt : RecordReceipt(w, o, n, s)
  \/ BeginReconcile
  \/ \E r \in Reconcilers, o \in Op, s \in Evidence :
       /\ RecordReconciliation(o, s) /\ First(o, rtodo[r])
       /\ \/ rpc[r] = "scan" /\ s = "RETRYABLE_NOT_APPLIED"
          \/ rpc[r] = "record" /\ s = verdict[r]

LEMMA StepKinds ==
  ASSUME IInv, [Next]_vars
  PROVE  Kinds
<1>1. CallsOK
  BY IInvParts
<1>2. ASSUME NEW w \in Worker, WorkerStep(w)
      PROVE  Kinds
  <2>1. cur[w] \in Op /\ attempt[w] \in Nat /\ receipt[w] \in Receipt
    BY <1>1 DEF CallsOK
  <2>2. CASE Record(w)
    BY <2>1, <2>2 DEF Record, Kinds, storeVars
  <2>3. CASE Claim(w)
    BY <2>3 DEF Claim, Kinds, storeVars
  <2>4. CASE ClaimNext(w)
    BY <2>4 DEF ClaimNext, Kinds, storeVars
  <2>5. CASE ConfirmExpire(w)
    BY <2>5 DEF ConfirmExpire, Kinds, storeVars
  <2>6. QED
    BY <1>2, <2>2, <2>3, <2>4, <2>5
       DEF WorkerStep, ConfirmStart, ResumeStart, LoadOperations, AdapterRead, AdapterWrite,
           AdapterVerify, Kinds, storeVars
<1>3. ASSUME NEW r \in Reconcilers, ReconcilerStep(r) \/ ReconcileFails(r)
      PROVE  Kinds
  <2>1. "RETRYABLE_NOT_APPLIED" \in Evidence /\ verdict[r] \in Evidence
    BY <1>1 DEF CallsOK, Evidence, ApplyStatus
  <2>2. QED
    BY <1>3, <2>1, ReconcilerStore DEF Kinds, storeVars
<1>4. QED
  BY <1>2, <1>3, EnvironmentStore DEF Next, Kinds

\* A reconcile call passes its check only for a plan in doubt, which the check
\* leaves alone.
LEMMA DoubtfulEntry ==
  ASSUME IInv, [Next]_vars, NEW r \in Reconcilers, rpc'[r] \in Doubtful, rpc[r] \notin Doubtful
  PROVE  /\ planStatus \in {"UNKNOWN", "LEGACY_UNKNOWN", "PARTIAL"}
         /\ UNCHANGED <<op, planStatus, leaseOwner>>
<1>1. CallsOK
  BY IInvParts
<1>2. ~(Environment \/ UNCHANGED vars)
  BY EnvironmentStore
<1>3. ASSUME NEW w \in Worker, WorkerStep(w)
      PROVE  FALSE
  BY <1>3 DEF WorkerStep, ConfirmStart, ConfirmExpire, ResumeStart, Claim, LoadOperations, ClaimNext,
     AdapterRead, AdapterWrite, AdapterVerify, Record, reconcilerVars
<1>4. PICK q \in Reconcilers : ReconcilerStep(q) \/ ReconcileFails(q)
  BY <1>2, <1>3 DEF Next
<1>5. CASE q = r
  BY <1>1, <1>4, <1>5 DEF CallsOK, ReconcilerStep, ReconcileBegin, ReconcileCheck, ReconcileRead,
     ReconcileIssued, ReconcileObserve, ReconcileRecord, ReconcileFails, RecordAndGoOn,
     RReturn, RGoto, Doubtful, storeVars
<1>6. CASE q # r
  <2>1. rpc'[r] = rpc[r]
    BY <1>1, <1>4, <1>6 DEF CallsOK, ReconcilerStep, ReconcileBegin, ReconcileCheck, ReconcileRead,
       ReconcileIssued, ReconcileObserve, ReconcileRecord, ReconcileFails, RecordAndGoOn,
       RReturn, RGoto
  <2>2. QED
    BY <2>1
<1>7. QED
  BY <1>5, <1>6

LEMMA DoubtStep ==
  ASSUME IInv, IInv', Ordered, Ordered', Claimed, Claimed', Doubt, [Next]_vars
  PROVE  Doubt'
<1>1. /\ StoreInv /\ CallsOK /\ FreshPlan /\ op \in [Op -> OperationRow]
      /\ Statuses \in [Op -> Evidence \cup Pending] /\ NoWorker \notin Worker
      /\ Resumers \subseteq Worker
  BY IInvParts, StatusesType, NoWorkerAssumption, CallAssumption DEF StoreInv, StoreTypeOK
<1>2. /\ \A o \in Op : Statuses[o] = op[o].status
      /\ \A o \in Op : Statuses'[o] = op'[o].status
      /\ Statuses' \in [Op -> Evidence \cup Pending]
  BY StatusesType DEF Statuses, IInv, KnownOutcomes
<1> DEFINE Looks(r) ==
      \/ HasSuccess
      \/ /\ leaseOwner \in Resumers \cup {NoWorker}
         /\ (\E o \in Op : op[o].status = "REJECTED") => \A o \in Op : op[o].status # "ISSUED"
<1>3. planStatus = "PARTIAL" => HasSuccess
  <2>1. ASSUME planStatus = "PARTIAL"
        PROVE  Some(Statuses, Success)
    <3>1. planStatus = AggregatePersisted(Statuses)
      BY <1>1, <2>1 DEF StoreInv, TruthfulPlanStatus
    <3>2. QED
      BY <1>1, <2>1, <3>1, AggregateFacts
  <2>2. QED
    BY <1>1, <2>1 DEF Some, HasSuccess, Statuses
<1>4. planStatus # "LEGACY_UNKNOWN"
  <2>1. planStatus = "LEGACY_UNKNOWN" => planStatus = AggregatePersisted(Statuses)
    BY <1>1 DEF StoreInv, TruthfulPlanStatus
  <2>2. QED
    BY <1>1, <2>1, AggregateSays
<1>5. ASSUME NEW r \in Reconcilers, rpc'[r] \in Doubtful
      PROVE  rpc[r] \in Doubtful \/ (UNCHANGED <<op, planStatus, leaseOwner>> /\ Looks(r))
  <2>1. CASE rpc[r] \notin Doubtful
    <3>1. planStatus \in {"UNKNOWN", "PARTIAL"} /\ UNCHANGED <<op, planStatus, leaseOwner>>
      BY <1>4, <1>5, <2>1, DoubtfulEntry
    <3>2. QED
      BY <1>3, <3>1 DEF Doubt
  <2>2. QED
    BY <2>1
<1>6. CASE UNCHANGED <<op, planStatus, leaseOwner>>
  BY <1>5, <1>6 DEF Doubt, HasSuccess
<1>7. CASE TransitionPlan("ISSUED", "EXPIRED")
  <2>1. /\ planStatus = "ISSUED" /\ planStatus' = "EXPIRED" /\ UNCHANGED <<op, leaseOwner>>
    BY <1>7 DEF TransitionPlan, CanTransitionPlan
  <2>2. \A r \in Reconcilers : rpc'[r] \notin Doubtful
    BY <1>1, <1>5, <2>1 DEF FreshPlan, Doubtful
  <2>3. QED
    BY <2>1, <2>2 DEF Doubt
<1>8. ASSUME NEW w \in Worker, ClaimPlan(w, w \in Resumers), pc[w] = "claim"
      PROVE  Doubt'
  <2>1. /\ leaseOwner' = w /\ op' = op /\ planStatus' \in {"EXECUTING", "PARTIAL"}
        /\ planStatus \in {"ISSUED", "RETRYABLE_NOT_APPLIED", "PARTIAL"}
        /\ planStatus' = "EXECUTING" => planStatus # "PARTIAL"
        /\ w \notin Resumers => planStatus = "ISSUED"
    BY <1>8 DEF ClaimPlan, CanClaimPlan, ClaimablePlan
  <2>2. CASE w \in Resumers
    <3>1. Waits
      BY <1>8, <2>2 DEF Ordered
    <3>2. planStatus # "PARTIAL" => \A o \in Op : op[o].status \notin Success
      BY <1>1, <1>2, <2>1, NoSuccess DEF Some
    <3>3. QED
      BY <1>1, <2>1, <2>2, <3>1, <3>2 DEF Doubt, Waits, Success
  <2>3. CASE w \notin Resumers
    <3>1. op = IssuedRows /\ \A r \in Reconcilers : rpc[r] \notin Doubtful
      BY <1>1, <2>1, <2>3 DEF FreshPlan, Doubtful
    <3>2. leaseOwner # w
      BY <1>1, <2>1, <2>3 DEF FreshPlan
    <3>3. \A r \in Reconcilers : rpc'[r] \notin Doubtful
      BY <1>5, <2>1, <3>1, <3>2
    <3>4. QED
      BY <2>1, <2>3, <3>1, <3>3 DEF Doubt, IssuedRows, Pending
  <2>4. QED
    BY <2>2, <2>3
<1>9. ASSUME NEW w \in Worker, NEW o \in Op, ClaimOperation(w, o)
      PROVE  Doubt'
  <2>1. /\ op[o].status \in Unsent /\ op'[o].status = "EXECUTING"
        /\ \A p \in Op \ {o} : op'[p] = op[p]
        /\ leaseOwner = w /\ leaseOwner' = w /\ leaseLive /\ UNCHANGED planStatus
    BY <1>1, <1>9, ClaimRow
  <2>2. planStatus # "UNKNOWN"
    BY <1>1, <2>1 DEF StoreInv, LeaseHeld
  <2>3. \A r \in Reconcilers : rpc'[r] \in Doubtful => rpc[r] \in Doubtful
    <3>1. op' # op
      BY <2>1 DEF Unsent
    <3>2. QED
      BY <1>5, <3>1
  <2>4. HasSuccess => HasSuccess'
    BY <2>1 DEF HasSuccess, Unsent, Success
  <2>5. QED
    BY <2>1, <2>2, <2>3, <2>4 DEF Doubt, Pending
<1>10. ASSUME planStatus' = AggregatePersisted(Statuses')
       PROVE  /\ planStatus' = "EXECUTING" =>
                   \A o \in Op : op'[o].status \in Pending \cup {"RETRYABLE_NOT_APPLIED"}
              /\ planStatus' = "UNKNOWN" => \A o \in Op : op'[o].status # "REJECTED"
  <2> DEFINE st == Statuses'
  <2>0. /\ AggregatePersisted(st) = "EXECUTING" => \A o \in Op : st[o] \in Pending
        /\ AggregatePersisted(st) = "UNKNOWN" =>
             (\E o \in Op : st[o] = "UNKNOWN") /\ \A o \in Op : st[o] \notin Success
    <3>1. st \in [Op -> Evidence \cup Pending]
      BY <1>2
    <3> HIDE DEF st
    <3>2. QED
      BY <3>1, AggregateSays
  <2>1. planStatus' = "EXECUTING" => \A o \in Op : op'[o].status \in Pending
    BY <1>2, <1>10, <2>0
  <2>2. ASSUME planStatus' = "UNKNOWN", NEW c \in Op, op'[c].status = "REJECTED"
        PROVE  FALSE
    <3>1. PICK u \in Op : op'[u].status = "UNKNOWN"
      BY <1>2, <1>10, <2>0, <2>2
    <3>2. \A o \in Op : op'[o].status \notin Success
      BY <1>2, <1>10, <2>0, <2>2
    <3>3. \A o \in Op : op'[o].attempt \in Nat
      BY IInvParts DEF IInv, TypeOK, StoreTypeOK, OperationRow
    <3>4. op'[u].attempt > 0 /\ op'[c].attempt > 0
      BY <2>2, <3>1, <3>3 DEF Claimed, Unsent
    <3>5. c < u \/ u < c
      BY <2>2, <3>1 DEF Op
    <3>6. QED
      BY <3>2, <3>4, <3>5 DEF Ordered, InPlanOrder
  <2>3. QED
    BY <2>1, <2>2
<1>11. ASSUME NEW w \in Worker, NEW o \in Op, NEW n \in Nat, NEW s \in Receipt,
              RecordReceipt(w, o, n, s)
       PROVE  Doubt'
  <2>1. /\ op[o].status = "EXECUTING" /\ op'[o].status = s /\ \A p \in Op \ {o} : op'[p] = op[p]
        /\ leaseOwner = w /\ leaseOwner' \in {w, NoWorker}
        /\ leaseOwner' = w => planStatus' \in {"EXECUTING", "PARTIAL"}
        /\ planStatus' = AggregatePersisted(Statuses')
    BY <1>1, <1>11, ReceiptRow
  <2>2. s # "ISSUED" /\ s # "EXECUTING"
    BY DEF Receipt, Evidence, ApplyStatus
  <2>3. \A r \in Reconcilers : rpc'[r] \in Doubtful => rpc[r] \in Doubtful
    <3>1. op' # op
      BY <2>1, <2>2
    <3>2. QED
      BY <1>5, <3>1
  <2>4. HasSuccess => HasSuccess'
    BY <2>1 DEF HasSuccess, Success
  <2>5. w \in Resumers => \A p \in Op : op'[p].status # "ISSUED"
    BY <2>1, <2>2 DEF Doubt
  <2>6. \A r \in Reconcilers : rpc'[r] \in Doubtful => HasSuccess' \/ w \in Resumers
    BY <1>1, <2>1, <2>3, <2>4 DEF Doubt
  <2>7. QED
    BY <1>1, <1>10, <2>1, <2>5, <2>6 DEF Doubt
<1>12. CASE BeginReconcile
  <2>1. /\ op' = op /\ leaseOwner' \in {leaseOwner, NoWorker}
        /\ planStatus' = "EXECUTING" => FALSE
        /\ planStatus' = "UNKNOWN" => planStatus \in {"EXECUTING", "UNKNOWN"} /\ leaseOwner' = NoWorker
    BY <1>12 DEF BeginReconcile
  <2>2. \A r \in Reconcilers : rpc'[r] \in Doubtful =>
          rpc[r] \in Doubtful \/ (UNCHANGED leaseOwner /\ Looks(r))
    BY <1>5
  <2>3. QED
    BY <1>1, <2>1, <2>2 DEF Doubt, HasSuccess, Pending
<1>13. ASSUME NEW r \in Reconcilers, NEW o \in Op, NEW s \in Evidence, RecordReconciliation(o, s),
              \/ s = "RETRYABLE_NOT_APPLIED" /\ rpc[r] = "scan"
              \/ rpc[r] = "record" /\ First(o, rtodo[r]) /\ s = verdict[r]
       PROVE  Doubt'
  <2>1. /\ op[o].status \in Reconcilable /\ op'[o].status = s /\ \A p \in Op \ {o} : op'[p] = op[p]
        /\ leaseOwner = NoWorker /\ leaseOwner' = NoWorker
        /\ planStatus' = AggregatePersisted(Statuses')
    BY <1>1, <1>13, ReconciliationRow
  <2>2. s \notin {"ISSUED", "EXECUTING", "REJECTED"}
    BY <1>13 DEF Claimed, Evidence, ApplyStatus
  <2>3. HasSuccess => HasSuccess'
    BY <2>1 DEF HasSuccess, Success, Reconcilable
  <2>4. /\ (\A p \in Op : op[p].status # "ISSUED") => \A p \in Op : op'[p].status # "ISSUED"
        /\ (\E p \in Op : op'[p].status = "REJECTED") => \E p \in Op : op[p].status = "REJECTED"
    BY <2>1, <2>2
  <2>5. \A q \in Reconcilers : rpc'[q] \in Doubtful => rpc[q] \in Doubtful \/ Looks(q)
    BY <1>5
  <2>6. QED
    BY <1>1, <1>10, <2>1, <2>3, <2>4, <2>5 DEF Doubt
<1>14. QED
  BY <1>6, <1>7, <1>8, <1>9, <1>11, <1>12, <1>13, StepKinds DEF Kinds

LEMMA DoubtInvariant == SingleResumer => (Spec => [](IInv /\ Ordered /\ Claimed /\ Doubt))
<1> SUFFICES ASSUME SingleResumer
             PROVE  Spec => [](IInv /\ Ordered /\ Claimed /\ Doubt)
  OBVIOUS
<1>1. ASSUME Init
      PROVE  Doubt
  <2>1. /\ planStatus = "ISSUED" /\ leaseOwner = NoWorker /\ \A r \in Reconcilers : rpc[r] = "idle"
    BY <1>1 DEF Init, StoreInit
  <2>2. QED
    BY <2>1, NoWorkerAssumption, CallAssumption DEF Doubt, Doubtful
<1>2. Spec => []Ordered
  BY OrderedInvariant
<1>3. IInv /\ IInv' /\ Ordered /\ Ordered' /\ Claimed /\ Claimed' /\ Doubt /\ [Next]_vars => Doubt'
  BY DoubtStep
<1>4. QED
  BY <1>1, <1>2, <1>3, Invariance, ClaimedInvariant, PTL DEF Spec
-----------------------------------------------------------------------------
(* Final outcomes                                                          *)

LEMMA PlanFinal ==
  ASSUME IInv, Ordered, Claimed, Doubt, [Next]_vars, planStatus \in Terminal
  PROVE  planStatus' = planStatus
<1>1. /\ StoreInv /\ FreshPlan /\ op \in [Op -> OperationRow] /\ LeaseHeld /\ TruthfulPlanStatus
      /\ Statuses \in [Op -> Evidence \cup Pending] /\ \A o \in Op : Statuses[o] = op[o].status
  BY IInvParts, StatusesType DEF StoreInv, StoreTypeOK, Statuses
<1>2. ASSUME NEW w \in Worker, NEW o \in Op, NEW n \in Nat, NEW s \in Receipt,
             RecordReceipt(w, o, n, s)
      PROVE  FALSE
  BY <1>1, <1>2 DEF RecordReceipt, CanRecordReceipt, Fenced, LeaseHeld, Terminal
<1>3. ASSUME NEW r \in Reconcilers, NEW o \in Op, NEW s \in Evidence, RecordReconciliation(o, s),
             \/ s = "RETRYABLE_NOT_APPLIED" /\ rpc[r] = "scan"
             \/ rpc[r] = "record" /\ First(o, rtodo[r]) /\ s = verdict[r]
      PROVE  planStatus' = planStatus
  <2>1. /\ op[o].status \in Reconcilable /\ op'[o].status = s /\ \A p \in Op \ {o} : op'[p] = op[p]
        /\ planStatus' = AggregatePersisted(Statuses')
    BY <1>1, <1>3, ReconciliationRow
  <2>2. planStatus \notin {"ISSUED", "EXPIRED"}
    BY <1>1, <1>3 DEF FreshPlan
  <2>3. planStatus = AggregatePersisted(Statuses)
    BY <1>1, <2>2 DEF TruthfulPlanStatus, Terminal
  <2>4. planStatus \notin Success
    BY <1>1, <2>1, <2>3, AggregateTruthful DEF Every, Reconcilable, Success
  <2>5. \A q \in Op : op[q].attempt \in Nat /\ op[q].status \in Evidence \cup Pending
    BY <1>1 DEF OperationRow, StoreInv
  <2>6. CASE planStatus = "CONFLICT"
    <3>1. PICK c \in Op : op[c].status = "CONFLICT"
      BY <1>1, <2>3, <2>6, AggregateSays
    <3>2. \A q \in Op : op[q].status \notin Success \cup {"UNKNOWN"}
      BY <1>1, <2>3, <2>6, AggregateSays
    <3>3. op[c].attempt > 0 /\ c # o
      BY <2>1, <2>5, <3>1 DEF Claimed, Unsent, Reconcilable
    <3>4. op[o].attempt = 0
      <4>1. c < o \/ o < c
        BY <3>3 DEF Op
      <4>2. QED
        BY <2>5, <3>2, <3>3, <4>1 DEF Ordered, InPlanOrder
    <3>5. s = "RETRYABLE_NOT_APPLIED"
      BY <1>3, <3>4 DEF Claimed
    <3>6. \A q \in Op : op'[q].status \notin Success \cup {"UNKNOWN"}
      BY <2>1, <3>2, <3>5 DEF Success
    <3>7. op'[c].status = "CONFLICT"
      BY <2>1, <3>1, <3>3
    <3>8. Statuses' \in [Op -> Evidence \cup Pending] /\ \A q \in Op : Statuses'[q] = op'[q].status
      BY <2>1, <2>5 DEF Statuses
    <3>9. QED
      BY <2>1, <2>6, <3>6, <3>7, <3>8, AggregateSays
  <2>7. CASE planStatus = "REJECTED"
    <3>1. PICK c \in Op : op[c].status = "REJECTED"
      BY <1>1, <2>3, <2>7, AggregateSays
    <3>2. \A q \in Op : op[q].status \in Pending \cup {"REJECTED"}
      BY <1>1, <2>3, <2>7, AggregateSays
    <3>3. op[o].status # "ISSUED"
      BY <1>3, <3>1, <3>2 DEF Doubt, Doubtful, HasSuccess, Success, Pending
    <3>4. op[o].status = "EXECUTING" /\ c # o
      BY <2>1, <3>1, <3>2, <3>3 DEF Pending, Reconcilable
    <3>5. op[o].attempt > 0 /\ op[c].attempt > 0
      BY <2>5, <3>1, <3>4 DEF Claimed, Unsent
    <3>6. c < o \/ o < c
      BY <3>4 DEF Op
    <3>7. \A q \in Op : op[q].status \notin Success
      BY <3>2 DEF Pending, Success
    <3>8. QED
      BY <3>5, <3>6, <3>7 DEF Ordered, InPlanOrder
  <2>8. QED
    BY <2>2, <2>4, <2>6, <2>7 DEF Terminal, Success
<1>4. QED
  BY <1>2, <1>3, StepKinds
     DEF Kinds, TransitionPlan, CanTransitionPlan, ClaimPlan, CanClaimPlan, ClaimablePlan,
         ClaimOperation, BeginReconcile, Terminal

LEMMA RowsFinal ==
  ASSUME IInv, [Next]_vars, NEW o \in Op, op[o].status \in Final
  PROVE  op'[o].status = op[o].status
<1>1. StoreInv
  BY IInvParts
<1>2. CASE UNCHANGED op
  BY <1>2
<1>3. ASSUME NEW w \in Worker, NEW q \in Op, ClaimOperation(w, q)
      PROVE  op'[o].status = op[o].status
  BY <1>1, <1>3, ClaimRow DEF Unsent, Final, Success
<1>4. ASSUME NEW w \in Worker, NEW q \in Op, NEW n \in Nat, NEW s \in Receipt,
             RecordReceipt(w, q, n, s)
      PROVE  op'[o].status = op[o].status
  BY <1>1, <1>4, ReceiptRow DEF Final, Success
<1>5. ASSUME NEW q \in Op, NEW s \in Evidence, RecordReconciliation(q, s)
      PROVE  op'[o].status = op[o].status
  BY <1>1, <1>5, ReconciliationRow DEF Reconcilable, Final, Success
<1>6. QED
  BY <1>2, <1>3, <1>4, <1>5, StepKinds DEF Kinds, TransitionPlan, ClaimPlan, BeginReconcile

\* With one resume call, recorded outcomes are final, of operations and of
\* plans, although record_reconciliation_receipt does not look at the status
\* of the plan.
THEOREM OneResumeKeepsOutcomes == SingleResumer => (Spec => OutcomesAreFinal)
<1> SUFFICES ASSUME SingleResumer
             PROVE  Spec => OutcomesAreFinal
  OBVIOUS
<1>1. IInv /\ Ordered /\ Claimed /\ Doubt /\ [Next]_vars =>
        [/\ \A o \in Op : op[o].status \in Final => op'[o].status = op[o].status
         /\ planStatus \in Terminal => planStatus' = planStatus]_vars
  BY PlanFinal, RowsFinal
<1>2. Spec => [](IInv /\ Ordered /\ Claimed /\ Doubt)
  BY DoubtInvariant
<1>3. QED
  BY <1>1, <1>2, PTL DEF Spec, OutcomesAreFinal
-----------------------------------------------------------------------------
(* First attempts                                                          *)

\* Nothing makes an operation ISSUED again, and while a confirm call holds the
\* lease no operation is offered for a retry.
Unattempted ==
  /\ \A o \in Op : op[o].status = "ISSUED" => op[o].attempt = 0
  /\ leaseOwner \in Worker \ Resumers =>
       \A o \in Op : op[o].status # "RETRYABLE_NOT_APPLIED"

\* What the holder of the lease may claim was never claimed.
FirstClaims ==
  leaseOwner \in Worker => \A o \in Op : op[o].status \in Unsent => op[o].attempt = 0

LEMMA UnattemptedStep ==
  ASSUME IInv, Unattempted, [Next]_vars
  PROVE  Unattempted'
<1>1. /\ StoreInv /\ FreshPlan /\ op \in [Op -> OperationRow]
      /\ NoWorker \notin Worker /\ Resumers \subseteq Worker
  BY IInvParts, NoWorkerAssumption, CallAssumption DEF StoreInv, StoreTypeOK
<1>2. CASE UNCHANGED op /\ leaseOwner' \in {leaseOwner, NoWorker}
  BY <1>1, <1>2 DEF Unattempted
<1>3. ASSUME NEW w \in Worker, ClaimPlan(w, w \in Resumers)
      PROVE  Unattempted'
  <2>1. UNCHANGED op /\ leaseOwner' = w
    BY <1>3 DEF ClaimPlan
  <2>2. w \notin Resumers => op = IssuedRows
    BY <1>1, <1>3 DEF ClaimPlan, CanClaimPlan, ClaimablePlan, FreshPlan
  <2>3. QED
    BY <2>1, <2>2 DEF Unattempted, IssuedRows
<1>4. ASSUME NEW w \in Worker, NEW o \in Op, ClaimOperation(w, o)
      PROVE  Unattempted'
  BY <1>1, <1>4, ClaimRow DEF Unattempted
<1>5. ASSUME NEW w \in Worker, NEW o \in Op, NEW n \in Nat, NEW s \in Receipt,
             RecordReceipt(w, o, n, s)
      PROVE  Unattempted'
  <2>1. s \notin Unsent
    BY DEF Receipt, Evidence, ApplyStatus, Unsent
  <2>2. QED
    BY <1>1, <1>5, <2>1, ReceiptRow DEF Unattempted, Unsent
<1>6. ASSUME NEW o \in Op, NEW s \in Evidence, RecordReconciliation(o, s)
      PROVE  Unattempted'
  <2>1. s # "ISSUED"
    BY DEF Evidence, ApplyStatus
  <2>2. QED
    BY <1>1, <1>6, <2>1, ReconciliationRow DEF Unattempted
<1>7. QED
  BY <1>2, <1>3, <1>4, <1>5, <1>6, StepKinds DEF Kinds, TransitionPlan, BeginReconcile

LEMMA UnattemptedInvariant == Spec => []Unattempted
<1>1. Init => Unattempted
  BY NoWorkerAssumption DEF Init, StoreInit, IssuedRows, Unattempted
<1>2. IInv /\ Unattempted /\ [Next]_vars => Unattempted'
  BY UnattemptedStep
<1>3. QED
  BY <1>1, <1>2, Invariance, PTL DEF Spec

\* Either condition keeps a claimed operation from being offered again.
LEMMA ClaimsAreFirst == ~Interleaved \/ Resumers = {} => (Spec => []FirstClaims)
<1>1. ASSUME ~Interleaved
      PROVE  Spec => []FirstClaims
  <2>1. SnapshotCurrent => FirstClaims
    BY DEF SnapshotCurrent, FirstClaims, Unsent
  <2>2. Spec => []SnapshotCurrent
    BY <1>1, SnapshotsAreCurrent
  <2>3. QED
    BY <2>1, <2>2, PTL
<1>2. ASSUME Resumers = {}
      PROVE  Spec => []FirstClaims
  <2>1. Unattempted => FirstClaims
    BY <1>2 DEF Unattempted, FirstClaims, Unsent
  <2>2. QED
    BY <2>1, UnattemptedInvariant, PTL
<1>3. QED
  BY <1>1, <1>2

\* If no resume call is made, and no tool makes one, no operation is sent
\* twice, whatever interleaves: what a stale snapshot offers for a retry,
\* nobody takes up.
THEOREM NotReplayedWithoutResume == Resumers = {} => (Spec => []NoReplay)
<1> SUFFICES ASSUME Resumers = {}
             PROVE  Spec => []NoReplay
  OBVIOUS
<1>1. Init => NoReplay
  BY DEF Init, StoreInit, IssuedRows, NoReplay
<1>2. ASSUME IInv, FirstClaims, NoReplay, [Next]_vars
      PROVE  NoReplay'
  <2>1. StoreInv
    BY <1>2, IInvParts
  <2>2. ASSUME NEW w \in Worker, NEW o \in Op, ClaimOperation(w, o)
        PROVE  NoReplay'
    <3>1. /\ op[o].status \in Unsent /\ leaseOwner = w /\ op'[o].attempt = op[o].attempt + 1
          /\ \A p \in Op \ {o} : op'[p] = op[p]
      BY <2>1, <2>2, ClaimRow
    <3>2. op'[o].attempt = 1
      BY <1>2, <3>1 DEF FirstClaims
    <3>3. QED
      BY <1>2, <3>1, <3>2 DEF NoReplay
  <2>3. CASE \A o \in Op : op'[o].attempt = op[o].attempt
    BY <1>2, <2>3 DEF NoReplay
  <2>4. ASSUME NEW w \in Worker, NEW o \in Op, NEW n \in Nat, NEW s \in Receipt,
               RecordReceipt(w, o, n, s)
        PROVE  \A q \in Op : op'[q].attempt = op[q].attempt
    BY <2>1, <2>4, ReceiptRow
  <2>5. ASSUME NEW o \in Op, NEW s \in Evidence, RecordReconciliation(o, s)
        PROVE  \A q \in Op : op'[q].attempt = op[q].attempt
    BY <2>1, <2>5, ReconciliationRow
  <2>6. QED
    BY <1>2, <2>2, <2>3, <2>4, <2>5, StepKinds DEF Kinds, TransitionPlan, ClaimPlan, BeginReconcile
<1>3. Spec => []FirstClaims
  BY ClaimsAreFirst
<1>4. QED
  BY <1>1, <1>2, <1>3, Invariance, PTL DEF Spec
-----------------------------------------------------------------------------
(* Rejected operations                                                     *)

\* Every request, and every call past its claim, belongs to the attempt the
\* row counts; a call has sent nothing before it waits for the reply.
Tokens ==
  /\ RejectedUntouched
  /\ \A o \in Op, w \in Worker :
       <<o, w>> \in requests => op[o].attempt > 0 /\ op[o].token = w
  /\ \A w \in Worker : pc[w] \in Working =>
       /\ op[cur[w]].attempt > 0
       /\ op[cur[w]].token = w
       /\ op[cur[w]].status # "REJECTED"
  /\ \A w \in Worker :
       \/ pc[w] \in {"adapter", "write"}
       \/ pc[w] = "record" /\ receipt[w] = "REJECTED"
       => <<cur[w], w>> \notin requests

LEMMA TokensWorker ==
  ASSUME IInv, FirstClaims, Tokens, NEW w \in Worker, WorkerStep(w)
  PROVE  Tokens'
<1>1. /\ StoreInv /\ CallsOK /\ op \in [Op -> OperationRow]
      /\ pc \in [Worker -> WorkerPc] /\ cur \in [Worker -> Op]
      /\ receipt \in [Worker -> Receipt] /\ requests \subseteq Op \X Worker
  BY IInvParts DEF StoreInv, StoreTypeOK, CallsOK
<1>2. \A v \in Worker \ {w} : pc'[v] = pc[v] /\ cur'[v] = cur[v] /\ receipt'[v] = receipt[v]
  BY <1>1 DEF WorkerStep, ConfirmStart, ConfirmExpire, ResumeStart, Claim, LoadOperations, ClaimNext,
     AdapterRead, AdapterWrite, AdapterVerify, Record, Goto, Return, Outcome, Refuse
<1>3. ASSUME UNCHANGED <<op, requests>>,
             \/ pc'[w] \notin Working
             \/ /\ pc[w] \in Working /\ pc'[w] \in Working /\ cur'[w] = cur[w]
                /\ \/ pc'[w] \in {"adapter", "write"}
                   \/ pc'[w] = "record" /\ receipt'[w] = "REJECTED"
                   => pc[w] \in {"adapter", "write"}
      PROVE  Tokens'
  BY <1>1, <1>2, <1>3 DEF Tokens, RejectedUntouched, Working
<1>4. ASSUME UNCHANGED <<op, requests>>, Return(w)
      PROVE  Tokens'
  <2>1. pc'[w] \notin Working
    BY <1>1, <1>4 DEF Return, Goto, Working
  <2>2. QED
    BY <1>3, <1>4, <2>1
<1>5. CASE ConfirmStart(w) \/ ResumeStart(w)
  <2>1. pc'[w] \notin Working
    BY <1>1, <1>5 DEF ConfirmStart, ResumeStart, Goto, Working
  <2>2. QED
    BY <1>3, <1>5, <2>1 DEF ConfirmStart, ResumeStart, storeVars, graphVars
<1>6. CASE ConfirmExpire(w)
  BY <1>4, <1>6 DEF ConfirmExpire, TransitionPlan, storeVars, graphVars
<1>7. CASE Claim(w)
  <2>1. UNCHANGED <<op, requests>>
    BY <1>7 DEF Claim, ClaimPlan, storeVars, graphVars
  <2>2. pc'[w] \notin Working
    BY <1>1, <1>7 DEF Claim, Goto, Return, Working
  <2>3. QED
    BY <1>3, <2>1, <2>2
<1>8. CASE LoadOperations(w)
  <2>1. UNCHANGED <<op, requests>>
    BY <1>8 DEF LoadOperations, storeVars, graphVars
  <2>2. pc'[w] \notin Working
    BY <1>1, <1>8 DEF LoadOperations, Goto, Return, Working
  <2>3. QED
    BY <1>3, <2>1, <2>2
<1>9. CASE ClaimNext(w)
  <2>1. UNCHANGED requests
    BY <1>9 DEF ClaimNext, graphVars
  <2>2. CASE UNCHANGED op /\ Return(w)
    BY <1>4, <2>1, <2>2
  <2>3. ASSUME NEW o \in Op, ClaimOperation(w, o), pc'[w] = "adapter", cur'[w] = o
        PROVE  Tokens'
    <3>1. /\ op[o].status \in Unsent /\ op'[o].status = "EXECUTING"
          /\ op'[o].attempt = op[o].attempt + 1 /\ op'[o].token = w
          /\ \A p \in Op \ {o} : op'[p] = op[p]
      BY <1>1, <2>3, ClaimRow
    <3>2. op[o].attempt = 0
      BY <2>3, <3>1, ClaimRow, <1>1 DEF FirstClaims
    <3>3. /\ \A v \in Worker : <<o, v>> \notin requests
          /\ \A v \in Worker : pc[v] \in Working => cur[v] # o
      BY <3>2 DEF Tokens
    <3>4. RejectedUntouched'
      BY <2>1, <3>1 DEF Tokens, RejectedUntouched
    <3>5. \A p \in Op, v \in Worker :
            <<p, v>> \in requests' => op'[p].attempt > 0 /\ op'[p].token = v
      BY <2>1, <3>1, <3>3 DEF Tokens
    <3>6. \A v \in Worker : pc'[v] \in Working =>
            op'[cur'[v]].attempt > 0 /\ op'[cur'[v]].token = v /\ op'[cur'[v]].status # "REJECTED"
      <4>1. op'[o].attempt = 1
        BY <3>1, <3>2
      <4>2. ASSUME NEW v \in Worker \ {w}, pc'[v] \in Working
            PROVE  op'[cur'[v]] = op[cur[v]] /\ pc[v] \in Working
        BY <1>1, <1>2, <3>1, <3>3, <4>2
      <4>3. QED
        BY <2>3, <3>1, <4>1, <4>2 DEF Tokens
    <3>7. ASSUME NEW v \in Worker,
                 \/ pc'[v] \in {"adapter", "write"}
                 \/ pc'[v] = "record" /\ receipt'[v] = "REJECTED"
          PROVE  <<cur'[v], v>> \notin requests'
      BY <1>2, <2>1, <2>3, <3>3, <3>7 DEF Tokens
    <3>8. QED
      BY <3>4, <3>5, <3>6, <3>7 DEF Tokens
  <2>4. QED
    BY <1>1, <1>9, <2>2, <2>3 DEF ClaimNext, Goto, storeVars
<1>10. CASE AdapterRead(w)
  <2>1. pc[w] = "adapter" /\ pc'[w] \in {"write", "record"} /\ cur' = cur
        /\ UNCHANGED <<op, requests>>
    BY <1>1, <1>10 DEF AdapterRead, Refuse, Outcome, Goto, storeVars, graphVars
  <2>2. QED
    BY <1>3, <2>1 DEF Working
<1>11. CASE AdapterWrite(w)
  <2>1. pc[w] = "write" /\ cur' = cur /\ op' = op
    BY <1>11 DEF AdapterWrite, storeVars
  <2>2. CASE requests' = requests
    <3>1. pc'[w] \in {"reply", "record"}
      BY <1>1, <1>11 DEF AdapterWrite, Outcome, Goto
    <3>2. QED
      BY <1>3, <2>1, <2>2, <3>1 DEF Working
  <2>3. CASE requests' = requests \cup {<<cur[w], w>>} /\ pc'[w] = "reply"
    <3>1. op[cur[w]].attempt > 0 /\ op[cur[w]].token = w /\ op[cur[w]].status # "REJECTED"
      BY <2>1 DEF Tokens, Working
    <3>2. \A p \in Op, v \in Worker : <<p, v>> \in requests' =>
            <<p, v>> \in requests \/ (p = cur[w] /\ v = w)
      BY <2>3
    <3>3. RejectedUntouched'
      BY <2>1, <3>1, <3>2 DEF Tokens, RejectedUntouched
    <3>4. \A p \in Op, v \in Worker :
            <<p, v>> \in requests' => op'[p].attempt > 0 /\ op'[p].token = v
      BY <2>1, <3>1, <3>2 DEF Tokens
    <3>5. \A v \in Worker : pc'[v] \in Working =>
            op'[cur'[v]].attempt > 0 /\ op'[cur'[v]].token = v /\ op'[cur'[v]].status # "REJECTED"
      BY <1>2, <2>1, <3>1 DEF Tokens
    <3>6. ASSUME NEW v \in Worker,
                 \/ pc'[v] \in {"adapter", "write"}
                 \/ pc'[v] = "record" /\ receipt'[v] = "REJECTED"
          PROVE  <<cur'[v], v>> \notin requests'
      <4>1. v # w
        BY <2>3, <3>6
      <4>2. QED
        BY <1>1, <1>2, <2>1, <3>2, <3>6, <4>1 DEF Tokens
    <3>7. QED
      BY <3>3, <3>4, <3>5, <3>6 DEF Tokens
  <2>4. QED
    BY <1>1, <1>11, <2>2, <2>3 DEF AdapterWrite, Goto
<1>12. CASE AdapterVerify(w)
  <2>1. pc[w] = "reply" /\ pc'[w] = "record" /\ cur' = cur /\ UNCHANGED <<op, requests>>
    BY <1>1, <1>12 DEF AdapterVerify, Outcome, Goto, storeVars, graphVars
  <2>2. receipt'[w] # "REJECTED"
    BY <1>1, <1>12 DEF AdapterVerify, Outcome, PostWriteStatus, SchemaPostRead
  <2>3. QED
    BY <1>3, <2>1, <2>2 DEF Working
<1>13. CASE Record(w)
  <2>1. UNCHANGED requests /\ pc[w] = "record" /\ cur[w] \in Op /\ attempt[w] \in Nat
        /\ receipt[w] \in Receipt
    BY <1>1, <1>13 DEF Record, graphVars, CallsOK
  <2>2. CASE UNCHANGED op /\ Return(w)
    BY <1>4, <2>1, <2>2
  <2>3. CASE RecordReceipt(w, cur[w], attempt[w], receipt[w])
    <3>1. /\ op[cur[w]].token = w /\ op'[cur[w]].status = receipt[w]
          /\ op'[cur[w]].attempt = op[cur[w]].attempt /\ op'[cur[w]].token = op[cur[w]].token
          /\ \A p \in Op \ {cur[w]} : op'[p] = op[p]
      BY <1>1, <2>1, <2>3, ReceiptRow
    <3>2. pc'[w] \notin Working
      BY <1>1, <1>13 DEF Record, Goto, Return, Working
    <3>3. \A p \in Op : op'[p].attempt = op[p].attempt /\ op'[p].token = op[p].token
      BY <3>1
    <3>4. \A v \in Worker \ {w} : pc[v] \in Working => op'[cur[v]] = op[cur[v]]
      BY <1>1, <3>1 DEF Tokens
    <3>5. RejectedUntouched'
      <4>1. ASSUME NEW p \in Op, NEW v \in Worker, op'[p].status = "REJECTED", <<p, v>> \in requests
            PROVE  FALSE
        <5>1. CASE p = cur[w]
          <6>1. receipt[w] = "REJECTED" /\ v = w
            BY <3>1, <4>1, <5>1 DEF Tokens
          <6>2. QED
            BY <2>1, <4>1, <5>1, <6>1 DEF Tokens
        <5>2. CASE p # cur[w]
          BY <3>1, <4>1, <5>2 DEF Tokens, RejectedUntouched
        <5>3. QED
          BY <5>1, <5>2
      <4>2. QED
        BY <2>1, <4>1 DEF RejectedUntouched
    <3>6. \A p \in Op, v \in Worker :
            <<p, v>> \in requests' => op'[p].attempt > 0 /\ op'[p].token = v
      BY <2>1, <3>3 DEF Tokens
    <3>7. \A v \in Worker : pc'[v] \in Working =>
            op'[cur'[v]].attempt > 0 /\ op'[cur'[v]].token = v /\ op'[cur'[v]].status # "REJECTED"
      BY <1>2, <3>2, <3>4 DEF Tokens
    <3>8. \A v \in Worker :
            \/ pc'[v] \in {"adapter", "write"}
            \/ pc'[v] = "record" /\ receipt'[v] = "REJECTED"
            => <<cur'[v], v>> \notin requests'
      BY <1>2, <2>1, <3>2 DEF Tokens, Working
    <3>9. QED
      BY <3>5, <3>6, <3>7, <3>8 DEF Tokens
  <2>4. QED
    BY <1>13, <2>2, <2>3 DEF Record, storeVars
<1>14. QED
  BY <1>5, <1>6, <1>7, <1>8, <1>9, <1>10, <1>11, <1>12, <1>13 DEF WorkerStep

LEMMA TokensReconciler ==
  ASSUME IInv, Claimed, Tokens, NEW r \in Reconcilers, ReconcilerStep(r) \/ ReconcileFails(r)
  PROVE  Tokens'
<1>1. /\ StoreInv /\ CallsOK /\ op \in [Op -> OperationRow] /\ cur \in [Worker -> Op]
  BY IInvParts DEF StoreInv, StoreTypeOK, CallsOK
<1>2. UNCHANGED <<pc, cur, receipt, requests>>
  BY DEF ReconcilerStep, ReconcileBegin, ReconcileCheck, ReconcileRead, ReconcileIssued,
         ReconcileObserve, ReconcileRecord, ReconcileFails, workerVars, graphVars
<1>3. CASE UNCHANGED op
  BY <1>2, <1>3 DEF Tokens, RejectedUntouched
<1>4. ASSUME NEW o \in Op, NEW s \in Evidence, RecordReconciliation(o, s), s # "REJECTED"
      PROVE  Tokens'
  <2>1. /\ \A p \in Op : op'[p].attempt = op[p].attempt /\ op'[p].token = op[p].token
        /\ \A p \in Op : op'[p].status = "REJECTED" => op[p].status = "REJECTED"
    BY <1>1, <1>4, ReconciliationRow
  <2>2. QED
    BY <1>1, <1>2, <2>1 DEF Tokens, RejectedUntouched
<1>5. verdict[r] \in Evidence /\ verdict[r] # "REJECTED" /\ "RETRYABLE_NOT_APPLIED" \in Evidence
  BY <1>1 DEF CallsOK, Claimed, Evidence, ApplyStatus
<1>6. CASE ReconcileIssued(r) \/ ReconcileRecord(r)
  BY <1>3, <1>4, <1>5, <1>6 DEF ReconcileIssued, ReconcileRecord, RecordAndGoOn, storeVars
<1>7. CASE ~(ReconcileIssued(r) \/ ReconcileRecord(r))
  BY <1>3, <1>7 DEF ReconcilerStep, ReconcileBegin, BeginReconcile, ReconcileCheck, ReconcileRead,
     ReconcileObserve, ReconcileFails, storeVars
<1>8. QED
  BY <1>6, <1>7

\* If no resume call is made, or nothing else runs during a reconcile call, a
\* rejected operation has no request under way, although the executor decides
\* REJECTED and records it in separate steps and its lease may run out between
\* them.
THEOREM RejectedNeverSent ==
  ~Interleaved \/ Resumers = {} => (Spec => []RejectedUntouched)
<1> SUFFICES ASSUME ~Interleaved \/ Resumers = {}
             PROVE  Spec => []RejectedUntouched
  OBVIOUS
<1>1. Init => Tokens
  BY DEF Init, Tokens, RejectedUntouched, Working
<1>2. ASSUME Tokens, Environment \/ UNCHANGED vars
      PROVE  Tokens'
  <2>1. requests' \subseteq requests
    BY <1>2 DEF Environment, ServerCommits, ServerDrops, OtherWriter, Clock, vars, graphVars
  <2>2. QED
    BY <1>2, <2>1, EnvironmentStore DEF Tokens, RejectedUntouched
<1>3. IInv /\ Claimed /\ FirstClaims /\ Tokens /\ [Next]_vars => Tokens'
  BY <1>2, TokensWorker, TokensReconciler DEF Next
<1>4. Tokens => RejectedUntouched
  BY DEF Tokens
<1>5. Spec => []FirstClaims
  BY ClaimsAreFirst
<1>6. QED
  BY <1>1, <1>3, <1>4, <1>5, Invariance, ClaimedInvariant, PTL DEF Spec
-----------------------------------------------------------------------------
(* Receipts                                                                *)

\* With the receipt, every operation was found already applied.
AllAlreadyApplied(w) == \A o \in Op : StatusesWith(cur[w], receipt[w])[o] = "ALREADY_APPLIED"

\* A resume call's first receipt rejects, and other operations wait for it.
RejectedAtOnce(w) ==
  /\ w \in Resumers
  /\ planStatus = "EXECUTING"
  /\ receipt[w] = "REJECTED"
  /\ \E o \in Op : op[o].status = "RETRYABLE_NOT_APPLIED"

\* What else an aggregate says about the rows.
LEMMA AggregateTells ==
  ASSUME NEW st \in [Op -> Evidence \cup Pending]
  PROVE  LET a == AggregatePersisted(st) IN
         /\ a = "ALREADY_APPLIED" => \A o \in Op : st[o] = "ALREADY_APPLIED"
         /\ a = "RETRYABLE_NOT_APPLIED" =>
              /\ \E o \in Op : st[o] = "RETRYABLE_NOT_APPLIED"
              /\ \A o \in Op : st[o] \notin Success \cup {"UNKNOWN", "CONFLICT"}
<1> DEFINE a == AggregatePersisted(st)
<1>1. /\ \A S : Some(st, S) <=> \E o \in Op : st[o] \in S
      /\ \A S : Every(st, S) <=> \A o \in Op : st[o] \in S
  BY DEF Some, Every
<1>2. ASSUME a = "ALREADY_APPLIED", NEW o \in Op
      PROVE  st[o] = "ALREADY_APPLIED"
  <2>1. Every(st, {"ALREADY_APPLIED"})
    BY <1>2 DEF AggregatePersisted, AggregatePlanStatus
  <2>2. QED
    BY <1>1, <2>1
<1>3. ASSUME a = "RETRYABLE_NOT_APPLIED"
      PROVE  /\ \E o \in Op : st[o] = "RETRYABLE_NOT_APPLIED"
             /\ \A o \in Op : st[o] \notin Success \cup {"UNKNOWN", "CONFLICT"}
  <2>1. /\ Some(st, {"RETRYABLE_NOT_APPLIED"}) /\ ~Some(st, {"UNKNOWN"}) /\ ~Some(st, {"CONFLICT"})
        /\ ~Some(st, Success) \/ ~Some(st, Success \cup {"PARTIAL"})
    BY <1>3 DEF AggregatePersisted, AggregatePlanStatus
  <2>2. QED
    BY <1>1, <2>1
<1>4. QED
  BY <1>2, <1>3

\* From EXECUTING the table lacks only RETRYABLE_NOT_APPLIED, from PARTIAL,
\* which some success keeps at PARTIAL or better, only ALREADY_APPLIED.
LEMMA ReceiptLegal ==
  ASSUME IInv, Unattempted, NEW w \in Worker, Fenced(w, cur[w], attempt[w])
  PROVE  \/ LegalAggregate(cur[w], receipt[w])
         \/ NumOps > 1 /\ (AllAlreadyApplied(w) \/ RejectedAtOnce(w))
<1> DEFINE o == cur[w]
           st == StatusesWith(o, receipt[w])
           a == AggregatePersisted(st)
<1>1. /\ StoreInv /\ o \in Op /\ receipt[w] \in Receipt /\ Statuses \in [Op -> Evidence \cup Pending]
      /\ \A q \in Op : Statuses[q] = op[q].status
  BY IInvParts, StatusesType DEF CallsOK, Statuses
<1>2. /\ op[o].status = "EXECUTING" /\ leaseOwner = w
      /\ planStatus \in {"EXECUTING", "PARTIAL"}
  BY <1>1 DEF Fenced, StoreInv, LeaseHeld
<1>3. /\ st \in [Op -> Evidence \cup Pending] /\ st[o] = receipt[w]
      /\ \A q \in Op \ {o} : st[q] = op[q].status
  BY <1>1 DEF StatusesWith, Receipt
<1>4. a \in PlanStatus \ {"ISSUED", "EXPIRED", "LEGACY_UNKNOWN"}
  BY <1>3, AggregateFacts, AggregateSays
<1>5. ASSUME NEW q \in Op, q # o
      PROVE  NumOps > 1
  BY <1>1, <1>5, PlanAssumption DEF Op
<1>6. CASE planStatus = "EXECUTING"
  <2>1. a \in PlanStatus \ {"ISSUED", "EXPIRED", "LEGACY_UNKNOWN", "RETRYABLE_NOT_APPLIED"}
          => LegalAggregate(o, receipt[w])
    BY <1>6 DEF LegalAggregate, CanTransition, AllowedPlanTransitions, PlanStatus, ApplyStatus
  <2>2. ASSUME a = "RETRYABLE_NOT_APPLIED"
        PROVE  NumOps > 1 /\ RejectedAtOnce(w)
    <3>1. PICK q \in Op : st[q] = "RETRYABLE_NOT_APPLIED"
      BY <1>3, <2>2, AggregateTells
    <3>2. \A p \in Op : st[p] \notin Success \cup {"UNKNOWN", "CONFLICT"}
      BY <1>3, <2>2, AggregateTells
    <3>3. receipt[w] = "REJECTED"
      BY <1>1, <1>3, <3>2 DEF Receipt, Evidence, ApplyStatus, Success
    <3>4. q # o /\ op[q].status = "RETRYABLE_NOT_APPLIED"
      BY <1>3, <3>1, <3>3
    <3>5. w \in Resumers
      BY <1>2, <3>4 DEF Unattempted
    <3>6. QED
      BY <1>5, <1>6, <3>3, <3>4, <3>5 DEF RejectedAtOnce
  <2>3. QED
    BY <1>4, <2>1, <2>2
<1>7. CASE planStatus = "PARTIAL"
  <2>1. planStatus = AggregatePersisted(Statuses)
    BY <1>1, <1>7 DEF StoreInv, TruthfulPlanStatus
  <2>2. Some(Statuses, Success)
    BY <1>1, <1>7, <2>1, AggregateFacts
  <2>3. PICK q \in Op : op[q].status \in Success
    BY <1>1, <2>2 DEF Some
  <2>4. q # o /\ st[q] \in Success
    BY <1>2, <1>3, <2>3 DEF Success
  <2>5. Some(st, Success)
    BY <1>3, <2>4 DEF Some
  <2>6. a \in {"PARTIAL", "APPLIED", "ALREADY_APPLIED"}
    BY <1>3, <2>5, AggregateFacts
  <2>7. a \in {"PARTIAL", "APPLIED"} => LegalAggregate(o, receipt[w])
    BY <1>7 DEF LegalAggregate, CanTransition, AllowedPlanTransitions, PlanStatus, ApplyStatus
  <2>8. a = "ALREADY_APPLIED" => AllAlreadyApplied(w)
    BY <1>3, AggregateTells DEF AllAlreadyApplied
  <2>9. QED
    BY <1>5, <2>4, <2>6, <2>7, <2>8
<1>8. QED
  BY <1>2, <1>6, <1>7

\* The executor that still holds the lease of its attempt has its receipt
\* refused in two cases only, both of plans with several operations: every
\* operation turned out to be applied already, or a resume call's first
\* operation is rejected while others wait to be retried.
THEOREM ReceiptsRecorded ==
  Spec => [](\A w \in Worker :
               pc[w] = "record" /\ Fenced(w, cur[w], attempt[w])
                 => \/ LegalAggregate(cur[w], receipt[w])
                    \/ NumOps > 1 /\ (AllAlreadyApplied(w) \/ RejectedAtOnce(w)))
<1>1. IInv /\ Unattempted =>
        \A w \in Worker :
          pc[w] = "record" /\ Fenced(w, cur[w], attempt[w])
            => \/ LegalAggregate(cur[w], receipt[w])
               \/ NumOps > 1 /\ (AllAlreadyApplied(w) \/ RejectedAtOnce(w))
  BY ReceiptLegal
<1>2. QED
  BY <1>1, Invariance, UnattemptedInvariant, PTL

\* So the only receipt of a plan of one operation is never refused to the
\* executor that holds the lease.
THEOREM SingleReceiptsRecorded == NumOps = 1 => (Spec => []FencedReceiptRecorded)
<1> SUFFICES ASSUME NumOps = 1
             PROVE  Spec => []FencedReceiptRecorded
  OBVIOUS
<1>1. IInv /\ Unattempted => FencedReceiptRecorded
  BY ReceiptLegal DEF FencedReceiptRecorded
<1>2. QED
  BY <1>1, Invariance, UnattemptedInvariant, PTL
-----------------------------------------------------------------------------
(* The status of the plan                                                  *)

\* A reconcile call comes to an operation under way before it comes to one
\* that nobody tried, a retryable plan was not tried at all, and a plan in
\* execution is somebody's.
Awaited ==
  /\ \A r \in Reconcilers, o, q \in Op :
       /\ rpc[r] \in {"scan", "record"}
       /\ op[o].status = "EXECUTING"
       /\ op[q].status = "ISSUED"
       => HasSuccess \/ o \in rtodo[r]
  /\ planStatus = "RETRYABLE_NOT_APPLIED" => \A o \in Op : op[o].status \in Unsent
  /\ planStatus = "EXECUTING" => leaseOwner \in Worker

\* What a step does to the list of a reconcile call.
LEMMA ListStep ==
  ASSUME IInv, [Next]_vars, NEW r \in Reconcilers, rpc'[r] \in {"scan", "record"}
  PROVE  \/ rpc[r] \in {"scan", "record"} /\ rtodo'[r] = rtodo[r]
         \/ op' = op /\ rtodo'[r] = {o \in Op : op[o].status \in Reconcilable}
         \/ /\ rpc[r] \in {"scan", "record"}
            /\ \E o \in Op, s \in Evidence :
                 RecordReconciliation(o, s) /\ rtodo'[r] = rtodo[r] \ {o}
<1>1. CallsOK
  BY IInvParts
<1>2. CASE UNCHANGED <<rpc, rtodo>>
  BY <1>2
<1>3. ASSUME NEW w \in Worker, WorkerStep(w)
      PROVE  UNCHANGED <<rpc, rtodo>>
  BY <1>3 DEF WorkerStep, ConfirmStart, ConfirmExpire, ResumeStart, Claim, LoadOperations, ClaimNext,
     AdapterRead, AdapterWrite, AdapterVerify, Record, reconcilerVars
<1>4. ASSUME NEW q \in Reconcilers, q # r, ReconcilerStep(q) \/ ReconcileFails(q)
      PROVE  rpc'[r] = rpc[r] /\ rtodo'[r] = rtodo[r]
  BY <1>1, <1>4 DEF CallsOK, ReconcilerStep, ReconcileBegin, ReconcileCheck, ReconcileRead,
     ReconcileIssued, ReconcileObserve, ReconcileRecord, ReconcileFails, RecordAndGoOn,
     RReturn, RGoto
<1>5. ~RReturn(r)
  BY <1>1 DEF RReturn, RGoto, CallsOK
<1>6. CASE ReconcileBegin(r) \/ ReconcileCheck(r) \/ ReconcileFails(r)
  BY <1>1, <1>5, <1>6 DEF ReconcileBegin, ReconcileCheck, ReconcileFails, RGoto, CallsOK
<1>7. CASE ReconcileRead(r)
  BY <1>1, <1>5, <1>7 DEF ReconcileRead, CallsOK, storeVars
<1>8. CASE ReconcileIssued(r)
  <2>1. "RETRYABLE_NOT_APPLIED" \in Evidence
    BY DEF Evidence, ApplyStatus
  <2>2. QED
    BY <1>1, <1>5, <1>8, <2>1 DEF ReconcileIssued, RecordAndGoOn, CallsOK
<1>9. CASE ReconcileObserve(r)
  BY <1>9 DEF ReconcileObserve
<1>10. CASE ReconcileRecord(r)
  BY <1>1, <1>5, <1>10 DEF ReconcileRecord, RecordAndGoOn, CallsOK
<1>11. CASE ReconcilerStep(r)
  BY <1>6, <1>7, <1>8, <1>9, <1>10, <1>11 DEF ReconcilerStep
<1>12. QED
  BY <1>2, <1>3, <1>4, <1>6, <1>11, EnvironmentStore DEF Next

\* What a step does to the rows: none becomes ISSUED, and one becomes
\* EXECUTING only when it is claimed.
LEMMA RowsMove ==
  ASSUME IInv, [Next]_vars, NEW o \in Op
  PROVE  /\ op'[o].status = "ISSUED" => op[o].status = "ISSUED"
         /\ op'[o].status = "EXECUTING" =>
              op[o].status = "EXECUTING" \/ \E w \in Worker : ClaimOperation(w, o)
<1> DEFINE Moved == /\ op'[o].status = "ISSUED" => op[o].status = "ISSUED"
                    /\ op'[o].status = "EXECUTING" =>
                         op[o].status = "EXECUTING" \/ \E w \in Worker : ClaimOperation(w, o)
<1>1. StoreInv
  BY IInvParts
<1>2. CASE UNCHANGED op
  BY <1>2
<1>3. ASSUME NEW w \in Worker, NEW q \in Op, ClaimOperation(w, q)
      PROVE  Moved
  BY <1>1, <1>3, ClaimRow
<1>4. \A s \in Evidence : s \notin {"ISSUED", "EXECUTING"}
  BY DEF Evidence, ApplyStatus
<1>5. ASSUME NEW w \in Worker, NEW q \in Op, NEW n \in Nat, NEW s \in Receipt,
             RecordReceipt(w, q, n, s)
      PROVE  Moved
  <2>1. s \in Evidence /\ op'[q].status = s /\ \A p \in Op \ {q} : op'[p] = op[p]
    BY <1>1, <1>5, ReceiptRow DEF Receipt
  <2>2. QED
    BY <1>4, <2>1
<1>6. ASSUME NEW q \in Op, NEW s \in Evidence, RecordReconciliation(q, s)
      PROVE  Moved
  <2>1. op'[q].status = s /\ \A p \in Op \ {q} : op'[p] = op[p]
    BY <1>1, <1>6, ReconciliationRow
  <2>2. QED
    BY <1>4, <2>1
<1>7. QED
  BY <1>2, <1>3, <1>5, <1>6, StepKinds DEF Kinds, TransitionPlan, ClaimPlan, BeginReconcile

LEMMA AwaitedStep ==
  ASSUME IInv, IInv', Ordered', Claimed, Claimed', Doubt, Awaited, [Next]_vars
  PROVE  Awaited'
<1>1. /\ StoreInv /\ op \in [Op -> OperationRow] /\ NoWorker \notin Worker
      /\ Statuses' \in [Op -> Evidence \cup Pending] /\ \A o \in Op : Statuses'[o] = op'[o].status
      /\ Resumers \subseteq Worker
  BY IInvParts, NoWorkerAssumption, CallAssumption
     DEF StoreInv, StoreTypeOK, Statuses, IInv, KnownOutcomes
<1>2. HasSuccess => HasSuccess'
  BY RowsFinal DEF HasSuccess, Final
<1>3. ASSUME NEW r \in Reconcilers, NEW o \in Op, NEW q \in Op, rpc'[r] \in {"scan", "record"},
             op'[o].status = "EXECUTING", op'[q].status = "ISSUED", ~HasSuccess'
      PROVE  o \in rtodo'[r]
  <2>1. ~HasSuccess /\ op[q].status = "ISSUED"
    BY <1>2, <1>3, RowsMove
  <2>2. CASE op' = op /\ rtodo'[r] = {p \in Op : op[p].status \in Reconcilable}
    BY <1>3, <2>2 DEF Reconcilable
  <2>3. ASSUME rpc[r] \in {"scan", "record"}
        PROVE  o \in rtodo[r]
    <3>1. ASSUME NEW w \in Worker, ClaimOperation(w, o)
          PROVE  FALSE
      <4>1. leaseOwner = w
        BY <3>1 DEF ClaimOperation, CanClaimOperation
      <4>2. w \in Resumers
        BY <1>1, <2>1, <2>3, <3>1, <4>1 DEF Doubt, Doubtful
      <4>3. QED
        BY <2>1, <4>1, <4>2 DEF Doubt
    <3>2. op[o].status = "EXECUTING"
      BY <1>3, <3>1, RowsMove
    <3>3. QED
      BY <2>1, <2>3, <3>2 DEF Awaited
  <2>4. ASSUME NEW p \in Op, NEW s \in Evidence, RecordReconciliation(p, s),
               rpc[r] \in {"scan", "record"}, rtodo'[r] = rtodo[r] \ {p}
        PROVE  o \in rtodo'[r]
    <3>1. op'[p].status = s /\ s # "EXECUTING"
      BY <1>1, <2>4, ReconciliationRow DEF Evidence, ApplyStatus
    <3>2. QED
      BY <1>3, <2>3, <2>4, <3>1
  <2>5. QED
    BY <1>3, <2>2, <2>3, <2>4, ListStep
<1>4. ASSUME NEW w \in Worker, NEW o \in Op, NEW n \in Nat, NEW s \in Receipt,
             RecordReceipt(w, o, n, s)
      PROVE  planStatus' \notin {"RETRYABLE_NOT_APPLIED", "EXECUTING"}
  <2>1. /\ planStatus \in {"EXECUTING", "PARTIAL"}
        /\ planStatus' = planStatus \/ CanTransition(planStatus, planStatus')
    BY <1>1, <1>4 DEF RecordReceipt, CanRecordReceipt, LegalAggregate, Fenced, StoreInv, LeaseHeld
  <2>2. planStatus' # "RETRYABLE_NOT_APPLIED"
    BY <2>1 DEF CanTransition, AllowedPlanTransitions, PlanStatus, ApplyStatus
  <2>3. op'[o].status = s /\ planStatus' = AggregatePersisted(Statuses')
    BY <1>1, <1>4, ReceiptRow
  <2>4. s \notin Pending
    BY DEF Receipt, Evidence, ApplyStatus, Pending
  <2>5. QED
    BY <1>1, <2>2, <2>3, <2>4, AggregateSays
<1>5. ASSUME NEW r \in Reconcilers, NEW o \in Op, NEW s \in Evidence, RecordReconciliation(o, s),
             First(o, rtodo[r]),
             \/ rpc[r] = "scan" /\ s = "RETRYABLE_NOT_APPLIED"
             \/ rpc[r] = "record" /\ s = verdict[r]
      PROVE  /\ planStatus' # "EXECUTING"
             /\ planStatus' = "RETRYABLE_NOT_APPLIED" => \A p \in Op : op'[p].status \in Unsent
  <2>1. /\ op[o].status \in Reconcilable /\ op'[o].status = s
        /\ op'[o].attempt = op[o].attempt
        /\ \A p \in Op \ {o} : op'[p] = op[p]
        /\ planStatus' = AggregatePersisted(Statuses')
    BY <1>1, <1>5, ReconciliationRow
  <2>2. s \notin {"ISSUED", "EXECUTING", "REJECTED"}
    BY <1>5 DEF Claimed, Evidence, ApplyStatus
  <2>3. planStatus' # "EXECUTING"
    BY <1>1, <2>1, <2>2, AggregateSays DEF Pending
  <2>4. ASSUME planStatus' = "RETRYABLE_NOT_APPLIED", NEW p \in Op, op'[p].status \notin Unsent
        PROVE  FALSE
    <3>1. \A q \in Op : op'[q].status \notin Success \cup {"UNKNOWN", "CONFLICT"}
      BY <1>1, <2>1, <2>4, AggregateTells
    <3>2. op'[p].status \in {"EXECUTING", "REJECTED"} /\ p # o
      BY <1>1, <2>1, <2>2, <2>4, <3>1 DEF Evidence, ApplyStatus, Pending, Success, Unsent
    <3>3. \A q \in Op : op[q].attempt \in Nat /\ op'[q].attempt \in Nat
      BY IInvParts DEF StoreInv, StoreTypeOK, OperationRow, IInv, TypeOK
    <3>4. op'[p].attempt > 0
      BY <2>4, <3>3 DEF Claimed
    <3>5. o < p \/ p < o
      BY <3>2 DEF Op
    <3>6. ~(o < p) /\ op[o].attempt = 0
      BY <2>1, <3>1, <3>3, <3>4, <3>5 DEF Ordered, InPlanOrder
    <3>7. op[o].status = "ISSUED"
      BY <2>1, <3>6 DEF Claimed, Unsent, Reconcilable
    <3>8. ~HasSuccess
      BY <1>2, <3>1 DEF HasSuccess
    <3>9. CASE op'[p].status = "EXECUTING"
      <4>1. p \in rtodo[r]
        BY <1>5, <2>1, <3>2, <3>7, <3>8, <3>9 DEF Awaited
      <4>2. QED
        BY <1>5, <3>5, <3>6, <4>1 DEF First, Op
    <3>10. CASE op'[p].status = "REJECTED"
      BY <1>5, <2>1, <3>2, <3>7, <3>8, <3>10 DEF Doubt, Doubtful
    <3>11. QED
      BY <3>2, <3>9, <3>10
  <2>5. QED
    BY <2>3, <2>4
<1>6. CASE UNCHANGED op /\ (planStatus' = "RETRYABLE_NOT_APPLIED" => planStatus = planStatus')
           /\ (planStatus' = "EXECUTING" => leaseOwner' \in Worker)
  BY <1>3, <1>6 DEF Awaited
<1>7. ASSUME NEW w \in Worker, NEW o \in Op, ClaimOperation(w, o)
      PROVE  planStatus' # "RETRYABLE_NOT_APPLIED" /\ leaseOwner' \in Worker
  BY <1>1, <1>7 DEF ClaimOperation, CanClaimOperation, StoreInv, LeaseHeld
<1>8. CASE UNCHANGED <<op, planStatus, leaseOwner>>
  BY <1>6, <1>8 DEF Awaited
<1>9. CASE TransitionPlan("ISSUED", "EXPIRED")
  BY <1>6, <1>9 DEF TransitionPlan
<1>10. ASSUME NEW w \in Worker, ClaimPlan(w, w \in Resumers)
       PROVE  Awaited'
  BY <1>6, <1>10 DEF ClaimPlan
<1>11. CASE BeginReconcile
  BY <1>6, <1>11 DEF BeginReconcile
<1>12. QED
  BY <1>3, <1>4, <1>5, <1>7, <1>8, <1>9, <1>10, <1>11, StepKinds DEF Kinds, Awaited

LEMMA AwaitedInvariant == SingleResumer => (Spec => []Awaited)
<1> SUFFICES ASSUME SingleResumer
             PROVE  Spec => []Awaited
  OBVIOUS
<1>1. Init => Awaited
  BY DEF Init, StoreInit, Awaited
<1>2. /\ IInv /\ IInv' /\ Ordered /\ Ordered' /\ Claimed /\ Claimed' /\ Doubt /\ Awaited /\ [Next]_vars
      => Awaited'
  BY AwaitedStep
<1>3. QED
  BY <1>1, <1>2, DoubtInvariant, PTL DEF Spec

LEMMA AggregateRetryable ==
  ASSUME NEW st \in [Op -> Unsent], NEW o \in Op, st[o] = "RETRYABLE_NOT_APPLIED"
  PROVE  AggregatePersisted(st) = "RETRYABLE_NOT_APPLIED"
<1>1. /\ Some(st, {"RETRYABLE_NOT_APPLIED"}) /\ ~Some(st, Success) /\ ~Some(st, {"UNKNOWN"})
      /\ ~Some(st, {"CONFLICT"}) /\ ~Some(st, Success \cup {"PARTIAL"})
  BY DEF Some, Success, Unsent
<1>2. ~Every(st, {"ALREADY_APPLIED"}) /\ ~Every(st, Success)
  BY DEF Every, Success
<1>3. QED
  BY <1>1, <1>2 DEF AggregatePersisted, AggregatePlanStatus

\* What ALLOWED_PLAN_TRANSITIONS says of the plan's status.
FollowsTable == planStatus' = planStatus \/ CanTransition(planStatus, planStatus')

\* The one change outside the table: a plan in doubt of which an operation
\* turns out to be applied while others have no outcome.
LearnsOfSuccess == planStatus = "UNKNOWN" /\ planStatus' = "PARTIAL" /\ HasSuccess'

\* Only a reconciliation does not compare the new status with the table.
LEMMA ReconciliationFollows ==
  ASSUME IInv, Ordered, Claimed, Doubt, Unattempted, Awaited, [Next]_vars,
         NEW r \in Reconcilers, NEW o \in Op, NEW s \in Evidence, RecordReconciliation(o, s),
         First(o, rtodo[r]),
         \/ rpc[r] = "scan" /\ s = "RETRYABLE_NOT_APPLIED"
         \/ rpc[r] = "record" /\ s = verdict[r]
  PROVE  FollowsTable \/ LearnsOfSuccess
<1>1. /\ StoreInv /\ FreshPlan /\ op \in [Op -> OperationRow] /\ NoWorker \notin Worker
      /\ Statuses \in [Op -> Evidence \cup Pending] /\ TruthfulPlanStatus
      /\ \A q \in Op : Statuses[q] = op[q].status
  BY IInvParts, StatusesType, NoWorkerAssumption DEF StoreInv, StoreTypeOK, Statuses
<1>2. /\ op[o].status \in Reconcilable /\ op'[o].status = s
      /\ \A p \in Op \ {o} : op'[p] = op[p]
      /\ leaseOwner = NoWorker /\ planStatus' = AggregatePersisted(Statuses')
  BY <1>1, ReconciliationRow
<1>3. Statuses' \in [Op -> Evidence \cup Pending] /\ \A q \in Op : Statuses'[q] = op'[q].status
  BY <1>1, <1>2 DEF Statuses
<1>4. s \in {"APPLIED", "UNKNOWN", "CONFLICT", "RETRYABLE_NOT_APPLIED"}
  BY DEF Claimed, Evidence, ApplyStatus
<1>5. planStatus' \in {"APPLIED", "PARTIAL", "UNKNOWN", "CONFLICT", "RETRYABLE_NOT_APPLIED"}
  <2> DEFINE a == AggregatePersisted(Statuses')
  <2>1. a \in PlanStatus \ {"ISSUED", "EXPIRED", "LEGACY_UNKNOWN"}
    BY <1>3, AggregateFacts, AggregateSays
  <2>2. a \notin {"EXECUTING", "REJECTED"}
    BY <1>2, <1>3, <1>4, AggregateSays DEF Pending
  <2>3. a # "ALREADY_APPLIED"
    BY <1>2, <1>3, <1>4, AggregateTells
  <2>4. QED
    BY <1>2, <2>1, <2>2, <2>3 DEF PlanStatus, ApplyStatus
<1>6. planStatus \notin {"ISSUED", "EXPIRED", "EXECUTING"}
  BY <1>1, <1>2 DEF FreshPlan, Awaited
<1>7. planStatus # "LEGACY_UNKNOWN"
  BY <1>1, AggregateSays DEF TruthfulPlanStatus
<1>8. CASE planStatus \in Terminal
  BY <1>8, PlanFinal DEF FollowsTable
<1>9. CASE planStatus = "UNKNOWN"
  <2>1. planStatus' = "PARTIAL" => HasSuccess'
    BY <1>2, <1>3, AggregateFacts DEF Some, HasSuccess
  <2>2. planStatus' # "PARTIAL" => FollowsTable
    BY <1>5, <1>9 DEF FollowsTable, CanTransition, AllowedPlanTransitions, PlanStatus, ApplyStatus
  <2>3. QED
    BY <1>9, <2>1, <2>2 DEF LearnsOfSuccess
<1>10. CASE planStatus = "PARTIAL"
  <2>1. Some(Statuses, Success)
    BY <1>1, <1>10, AggregateFacts DEF TruthfulPlanStatus
  <2>2. Some(Statuses', Success)
    BY <1>1, <1>2, <1>3, <2>1 DEF Some, Reconcilable, Success
  <2>3. planStatus' \in {"PARTIAL", "APPLIED"}
    BY <1>2, <1>3, <1>5, <2>2, AggregateFacts
  <2>4. QED
    BY <1>10, <2>3 DEF FollowsTable, CanTransition, AllowedPlanTransitions, PlanStatus, ApplyStatus
<1>11. CASE planStatus = "RETRYABLE_NOT_APPLIED"
  <2>1. \A p \in Op : op[p].status \in Unsent
    BY <1>11 DEF Awaited
  <2>2. op[o].attempt = 0
    BY <1>2, <2>1 DEF Unattempted, Unsent, Reconcilable
  <2>3. s = "RETRYABLE_NOT_APPLIED"
    BY <2>2 DEF Claimed
  <2>4. Statuses' \in [Op -> Unsent]
    BY <1>2, <1>3, <2>1, <2>3 DEF Statuses, Unsent
  <2>5. planStatus' = "RETRYABLE_NOT_APPLIED"
    BY <1>2, <1>3, <2>3, <2>4, AggregateRetryable
  <2>6. QED
    BY <1>11, <2>5 DEF FollowsTable
<1>12. QED
  BY <1>1, <1>6, <1>7, <1>8, <1>9, <1>10, <1>11
     DEF StoreInv, StoreTypeOK, PlanStatus, ApplyStatus, Terminal

LEMMA PlanMoves ==
  ASSUME IInv, Ordered, Claimed, Doubt, Unattempted, Awaited, [Next]_vars
  PROVE  FollowsTable \/ LearnsOfSuccess
<1>1. CASE TransitionPlan("ISSUED", "EXPIRED")
  BY <1>1 DEF TransitionPlan, CanTransitionPlan, FollowsTable
<1>2. ASSUME NEW w \in Worker, ClaimPlan(w, w \in Resumers)
      PROVE  FollowsTable
  BY <1>2 DEF ClaimPlan, CanClaimPlan, ClaimablePlan, FollowsTable, CanTransition,
     AllowedPlanTransitions, PlanStatus, ApplyStatus
<1>3. ASSUME NEW w \in Worker, NEW o \in Op, ClaimOperation(w, o)
      PROVE  FollowsTable
  BY <1>3 DEF ClaimOperation, FollowsTable
<1>4. ASSUME NEW w \in Worker, NEW o \in Op, NEW n \in Nat, NEW s \in Receipt,
             RecordReceipt(w, o, n, s)
      PROVE  FollowsTable
  BY <1>4 DEF RecordReceipt, CanRecordReceipt, LegalAggregate, FollowsTable
<1>5. CASE BeginReconcile
  BY <1>5 DEF BeginReconcile, FollowsTable, CanTransition, AllowedPlanTransitions, PlanStatus,
     ApplyStatus
<1>6. CASE UNCHANGED <<op, planStatus, leaseOwner>>
  BY <1>6 DEF FollowsTable
<1>7. QED
  BY <1>1, <1>2, <1>3, <1>4, <1>5, <1>6, ReconciliationFollows, StepKinds DEF Kinds

\* With one resume call, the status of a plan moves along
\* ALLOWED_PLAN_TRANSITIONS, although record_reconciliation_receipt overwrites
\* it without a look at the table.  The one exception is the step from UNKNOWN
\* to PARTIAL, by which a reconciliation reports its first success.
THEOREM PlanFollowsTable ==
  SingleResumer => (Spec => [][FollowsTable \/ LearnsOfSuccess]_vars)
<1> SUFFICES ASSUME SingleResumer
             PROVE  Spec => [][FollowsTable \/ LearnsOfSuccess]_vars
  OBVIOUS
<1>1. IInv /\ Ordered /\ Claimed /\ Doubt /\ Unattempted /\ Awaited /\ [Next]_vars
        => [FollowsTable \/ LearnsOfSuccess]_vars
  BY PlanMoves
<1>2. QED
  BY <1>1, DoubtInvariant, UnattemptedInvariant, AwaitedInvariant, PTL DEF Spec
-----------------------------------------------------------------------------
(* One operation                                                           *)

\* A plan of one operation that no call resumes.  What was not sent was never
\* claimed; a reconcile call past its check finds the plan no longer taken,
\* so no call claims its operation and the row it read once still counts the
\* same attempts.
SingleKnown ==
  /\ \A o \in Op : op[o].status \in Unsent => op[o].attempt = 0
  /\ \A r \in Reconcilers : rpc[r] \in Doubtful => planStatus \notin {"ISSUED", "EXECUTING"}
  /\ \A r \in Reconcilers, o \in Op : rpc[r] \in {"scan", "record"} =>
       /\ snapshot[r][o].attempt = op[o].attempt
       /\ snapshot[r][o].status = "ISSUED" => op[o].attempt = 0
       /\ rpc[r] = "record" /\ verdict[r] = "RETRYABLE_NOT_APPLIED" => op[o].attempt = 0

\* One operation without success makes no plan PARTIAL.
LEMMA SingleExecuting ==
  ASSUME NumOps = 1, IInv, leaseLive, NEW o \in Op, op[o].status \notin Success
  PROVE  planStatus = "EXECUTING"
<1>1. StoreInv /\ Statuses \in [Op -> Evidence \cup Pending] /\ Op = {o}
  BY IInvParts, StatusesType DEF Op
<1>2. ~Some(Statuses, Success)
  BY <1>1 DEF Some, Statuses
<1>3. planStatus # "PARTIAL"
  BY <1>1, <1>2, AggregateFacts DEF StoreInv, TruthfulPlanStatus
<1>4. QED
  BY <1>1, <1>3 DEF StoreInv, LeaseHeld

LEMMA SingleStore ==
  ASSUME NumOps = 1, Resumers = {}, IInv, SingleKnown, [Next]_vars
  PROVE  /\ \A o \in Op : op'[o].status \in Unsent => op'[o].attempt = 0
         /\ \A r \in Reconcilers : rpc'[r] \in Doubtful =>
              /\ planStatus' \notin {"ISSUED", "EXECUTING"}
              /\ \A o \in Op : op'[o].attempt = op[o].attempt
<1> DEFINE Good == /\ \A o \in Op : op'[o].status \in Unsent => op'[o].attempt = 0
                  /\ \A r \in Reconcilers : rpc'[r] \in Doubtful =>
                       /\ planStatus' \notin {"ISSUED", "EXECUTING"}
                       /\ \A o \in Op : op'[o].attempt = op[o].attempt
<1>1. /\ StoreInv /\ FreshPlan /\ op \in [Op -> OperationRow]
      /\ Statuses \in [Op -> Evidence \cup Pending]
  BY IInvParts, StatusesType DEF StoreInv, StoreTypeOK
<1>2. ASSUME NEW r \in Reconcilers, rpc'[r] \in Doubtful, planStatus \in {"ISSUED", "EXECUTING"}
      PROVE  FALSE
  BY <1>2, DoubtfulEntry DEF SingleKnown
<1>3. ASSUME op' = op, planStatus' = planStatus
      PROVE  Good
  BY <1>2, <1>3 DEF SingleKnown
<1>4. ASSUME planStatus \in {"ISSUED", "EXECUTING"},
             \A o \in Op : op'[o].status \in Unsent => op'[o].attempt = 0
      PROVE  Good
  BY <1>2, <1>4
<1>5. CASE TransitionPlan("ISSUED", "EXPIRED")
  BY <1>4, <1>5 DEF TransitionPlan, CanTransitionPlan, SingleKnown
<1>6. ASSUME NEW w \in Worker, ClaimPlan(w, w \in Resumers)
      PROVE  Good
  BY <1>4, <1>6 DEF ClaimPlan, CanClaimPlan, ClaimablePlan, SingleKnown
<1>7. ASSUME NEW w \in Worker, NEW o \in Op, ClaimOperation(w, o)
      PROVE  Good
  <2>1. /\ op[o].status \in Unsent /\ op'[o].status = "EXECUTING" /\ leaseLive
        /\ \A p \in Op \ {o} : op'[p] = op[p]
    BY <1>1, <1>7, ClaimRow
  <2>2. planStatus = "EXECUTING"
    BY <2>1, SingleExecuting DEF Unsent, Success
  <2>3. \A p \in Op : op'[p].status \in Unsent => op'[p].attempt = 0
    BY <2>1 DEF SingleKnown, Unsent
  <2>4. QED
    BY <1>4, <2>2, <2>3
<1>8. ASSUME NEW w \in Worker, NEW o \in Op, NEW n \in Nat, NEW s \in Receipt,
             RecordReceipt(w, o, n, s)
      PROVE  Good
  <2>1. /\ op[o].status = "EXECUTING" /\ op'[o].status = s
        /\ \A p \in Op \ {o} : op'[p] = op[p]
    BY <1>1, <1>8, ReceiptRow
  <2>2. leaseLive
    BY <1>8 DEF RecordReceipt, CanRecordReceipt, Fenced
  <2>3. planStatus = "EXECUTING"
    BY <2>1, <2>2, SingleExecuting DEF Success
  <2>4. s \notin Unsent
    BY DEF Receipt, Evidence, ApplyStatus, Unsent
  <2>5. \A p \in Op : op'[p].status \in Unsent => op'[p].attempt = 0
    BY <2>1, <2>4 DEF SingleKnown
  <2>6. QED
    BY <1>4, <2>3, <2>5
<1>9. CASE BeginReconcile
  <2>1. op' = op /\ (planStatus # "EXECUTING" => planStatus' = planStatus)
    BY <1>9 DEF BeginReconcile
  <2>2. QED
    BY <1>3, <1>4, <2>1 DEF SingleKnown
<1>10. ASSUME NEW o \in Op, NEW s \in Evidence, RecordReconciliation(o, s),
              s = "RETRYABLE_NOT_APPLIED" => op[o].attempt = 0
       PROVE  Good
  <2>1. /\ op'[o].status = s /\ op'[o].attempt = op[o].attempt
        /\ \A p \in Op \ {o} : op'[p] = op[p]
        /\ planStatus' = AggregatePersisted(Statuses')
    BY <1>1, <1>10, ReconciliationRow
  <2>2. s \notin Pending
    BY DEF Evidence, ApplyStatus, Pending
  <2>3. Statuses' \in [Op -> Evidence \cup Pending] /\ Statuses'[o] = s
    BY <1>1, <2>1 DEF Statuses, StoreInv
  <2>4. planStatus' \notin {"ISSUED", "EXECUTING"}
    BY <2>1, <2>2, <2>3, AggregateFacts, AggregateSays
  <2>5. \A p \in Op : op'[p].status \in Unsent => op'[p].attempt = 0
    BY <1>10, <2>1, <2>2 DEF SingleKnown, Unsent, Pending
  <2>6. QED
    BY <2>1, <2>4, <2>5
<1>11. ASSUME NEW r \in Reconcilers, ReconcilerStep(r) \/ ReconcileFails(r),
              ~UNCHANGED storeVars, ~BeginReconcile
       PROVE  Good
  <2>1. "RETRYABLE_NOT_APPLIED" \in Evidence /\ verdict[r] \in Evidence
    BY IInvParts DEF CallsOK, Evidence, ApplyStatus
  <2>2. PICK o \in Op :
          \/ /\ rpc[r] = "scan" /\ snapshot[r][o].status = "ISSUED"
             /\ RecordReconciliation(o, "RETRYABLE_NOT_APPLIED")
          \/ rpc[r] = "record" /\ RecordReconciliation(o, verdict[r])
    BY <1>11, ReconcilerStore
  <2>3. QED
    BY <1>10, <2>1, <2>2 DEF SingleKnown
<1>12. CASE \E r \in Reconcilers : ReconcilerStep(r) \/ ReconcileFails(r)
  BY <1>3, <1>9, <1>11, <1>12 DEF storeVars
<1>13. CASE \E w \in Worker : WorkerStep(w)
  <2>1. PICK w \in Worker : WorkerStep(w)
    BY <1>13
  <2>2. cur[w] \in Op /\ attempt[w] \in Nat /\ receipt[w] \in Receipt
    BY IInvParts DEF CallsOK
  <2>3. \/ UNCHANGED storeVars
        \/ TransitionPlan("ISSUED", "EXPIRED")
        \/ ClaimPlan(w, w \in Resumers)
        \/ \E o \in Op : ClaimOperation(w, o)
        \/ RecordReceipt(w, cur[w], attempt[w], receipt[w])
    BY <2>1 DEF WorkerStep, ConfirmStart, ConfirmExpire, ResumeStart, Claim, LoadOperations,
       ClaimNext, AdapterRead, AdapterWrite, AdapterVerify, Record
  <2>4. QED
    BY <1>3, <1>5, <1>6, <1>7, <1>8, <2>2, <2>3 DEF storeVars
<1>14. QED
  BY <1>3, <1>12, <1>13, EnvironmentStore DEF Next

LEMMA SingleStep ==
  ASSUME NumOps = 1, Resumers = {}, IInv, SingleKnown, [Next]_vars
  PROVE  SingleKnown'
<1>1. CallsOK /\ StoreInv /\ op \in [Op -> OperationRow]
  BY IInvParts DEF StoreInv, StoreTypeOK
<1>2. /\ \A o \in Op : op'[o].status \in Unsent => op'[o].attempt = 0
      /\ \A r \in Reconcilers : rpc'[r] \in Doubtful =>
           /\ planStatus' \notin {"ISSUED", "EXECUTING"}
           /\ \A o \in Op : op'[o].attempt = op[o].attempt
  BY SingleStore
<1> DEFINE Seen(r) == \A o \in Op : rpc[r] \in {"scan", "record"} =>
                       /\ snapshot[r][o].attempt = op[o].attempt
                       /\ snapshot[r][o].status = "ISSUED" => op[o].attempt = 0
                       /\ rpc[r] = "record" /\ verdict[r] = "RETRYABLE_NOT_APPLIED" => op[o].attempt = 0
<1>3. ASSUME NEW r \in Reconcilers,
             rpc'[r] = rpc[r], snapshot'[r] = snapshot[r], verdict'[r] = verdict[r]
      PROVE  Seen(r)'
  BY <1>2, <1>3 DEF SingleKnown, Doubtful
<1>4. CASE UNCHANGED <<rpc, snapshot, verdict>>
  BY <1>2, <1>3, <1>4 DEF SingleKnown
<1>5. ASSUME NEW r \in Reconcilers, ReconcilerStep(r) \/ ReconcileFails(r)
      PROVE  SingleKnown'
  <2>1. \A q \in Reconcilers \ {r} : /\ rpc'[q] = rpc[q] /\ snapshot'[q] = snapshot[q]
                                     /\ verdict'[q] = verdict[q]
    BY <1>1, <1>5 DEF CallsOK, ReconcilerStep, ReconcileBegin, ReconcileCheck, ReconcileRead,
       ReconcileIssued, ReconcileObserve, ReconcileRecord, ReconcileFails, RecordAndGoOn,
       RReturn, RGoto
  <2>2. ASSUME rpc'[r] \notin {"scan", "record"}
        PROVE  Seen(r)'
    BY <2>2
  <2>3. ASSUME ReconcileRead(r), rpc'[r] = "scan"
        PROVE  Seen(r)'
    <3>1. ~RReturn(r)
      BY <1>1, <2>3 DEF RReturn, RGoto, CallsOK
    <3>2. snapshot'[r] = op /\ op' = op
      BY <1>1, <2>3, <3>1 DEF ReconcileRead, CallsOK, storeVars
    <3>3. QED
      BY <2>3, <3>2 DEF SingleKnown, Unsent
  <2>4. ASSUME ReconcileIssued(r) \/ ReconcileRecord(r), rpc'[r] = "scan"
        PROVE  Seen(r)'
    <3>1. UNCHANGED <<snapshot, verdict>> /\ rpc[r] \in {"scan", "record"}
      BY <1>1, <2>4 DEF ReconcileIssued, ReconcileRecord, RecordAndGoOn, RReturn, RGoto, CallsOK
    <3>2. QED
      BY <1>2, <2>4, <3>1 DEF SingleKnown, Doubtful
  <2>5. ASSUME ReconcileObserve(r)
        PROVE  Seen(r)'
    <3>1. PICK o \in Op : verdict' = [verdict EXCEPT ![r] = Verdict(snapshot[r][o], element[o])]
      BY <2>5 DEF ReconcileObserve
    <3>2. /\ UNCHANGED <<op, snapshot>> /\ rpc[r] = "scan" /\ rpc'[r] = "record"
          /\ verdict'[r] = Verdict(snapshot[r][o], element[o])
      BY <1>1, <2>5, <3>1 DEF ReconcileObserve, RGoto, CallsOK, storeVars
    <3>3. Op = {o} /\ op[o].attempt \in Nat
      BY <1>1 DEF Op, OperationRow
    <3>4. verdict'[r] = "RETRYABLE_NOT_APPLIED" => op[o].attempt = 0
      BY <3>2, <3>3 DEF SingleKnown, Verdict
    <3>5. QED
      BY <3>2, <3>3, <3>4 DEF SingleKnown
  <2>6. rpc'[r] \in {"scan", "record"} =>
          \/ (ReconcileRead(r) \/ ReconcileIssued(r) \/ ReconcileRecord(r)) /\ rpc'[r] = "scan"
          \/ ReconcileObserve(r)
    BY <1>1, <1>5 DEF ReconcilerStep, ReconcileBegin, ReconcileCheck, ReconcileFails, ReconcileRead,
       ReconcileIssued, ReconcileRecord, RecordAndGoOn, RReturn, RGoto, CallsOK
  <2>7. Seen(r)'
    BY <2>2, <2>3, <2>4, <2>5, <2>6
  <2>8. QED
    BY <1>2, <1>3, <2>1, <2>7 DEF SingleKnown
<1>6. ASSUME NEW w \in Worker, WorkerStep(w)
      PROVE  SingleKnown'
  <2>1. UNCHANGED <<rpc, snapshot, verdict>>
    BY <1>6 DEF WorkerStep, ConfirmStart, ConfirmExpire, ResumeStart, Claim, LoadOperations, ClaimNext,
       AdapterRead, AdapterWrite, AdapterVerify, Record, reconcilerVars
  <2>2. QED
    BY <1>4, <2>1
<1>7. QED
  BY <1>4, <1>5, <1>6, EnvironmentStore DEF Next

\* An operation that is its plan's only one, as every schema operation is, is
\* marked retryable only if it was never claimed, whatever interleaves, as
\* long as no resume call is made.  A resume call, or a second operation, lets
\* a call claim what a reconcile call has already read as unclaimed.
THEOREM SingleRetryableUnclaimed ==
  NumOps = 1 /\ Resumers = {} => (Spec => []RetryableNeverClaimed)
<1> SUFFICES ASSUME NumOps = 1, Resumers = {}
             PROVE  Spec => []RetryableNeverClaimed
  OBVIOUS
<1>1. ASSUME Init
      PROVE  SingleKnown
  BY <1>1 DEF Init, StoreInit, IssuedRows, SingleKnown, Doubtful
<1>2. IInv /\ SingleKnown /\ [Next]_vars => SingleKnown'
  BY SingleStep
<1>3. SingleKnown => RetryableNeverClaimed
  BY DEF SingleKnown, Unsent, RetryableNeverClaimed
<1>4. QED
  BY <1>1, <1>2, <1>3, Invariance, PTL DEF Spec
================================================================================
