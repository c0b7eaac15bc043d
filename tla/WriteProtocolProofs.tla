------------------------- MODULE WriteProtocolProofs -------------------------
(***************************************************************************)
(* Theorems about WriteProtocol, for every number of operations, workers   *)
(* and reconcilers.  The inductive invariant is                            *)
(*   TypeOK /\ KnownOutcomes /\ LeaseHeld /\ TruthfulPlanStatus /\         *)
(*   FreshPlan.                                                            *)
(* A step of Next touches the durable store through one method of          *)
(* PlanStore or not at all, so the facts about rows are proved once per    *)
(* store method and carried over to the steps of the calls.                *)
(***************************************************************************)
EXTENDS WriteProtocol, TLAPS

\* No receipt, verdict or row ever says PARTIAL or LEGACY_UNKNOWN: these are
\* statuses of plans only.
Evidence == ApplyStatus \ {"PARTIAL", "LEGACY_UNKNOWN"}

\* Adapters never say that an operation may be retried.
Receipt == Evidence \ {"RETRYABLE_NOT_APPLIED"}

KnownOutcomes ==
  /\ \A w \in Worker : receipt[w] \in Receipt
  /\ \A r \in Reconcilers : verdict[r] \in Evidence
  /\ \A o \in Op : op[o].status \in Evidence \cup Pending

\* A live lease is somebody's, and its plan is being executed.
LeaseHeld == leaseLive => leaseOwner \in Worker /\ planStatus \in {"EXECUTING", "PARTIAL"}

\* A plan that was never claimed has untouched rows, and no call is past the
\* point where it found the plan claimed or in doubt.
FreshPlan ==
  planStatus \in {"ISSUED", "EXPIRED"} =>
    /\ op = IssuedRows
    /\ leaseOwner = NoWorker
    /\ \A w \in Worker : pc[w] \in {"start", "expire", "claim", "done"}
    /\ \A r \in Reconcilers : rpc[r] \in {"idle", "opened"}

IInv == TypeOK /\ KnownOutcomes /\ LeaseHeld /\ TruthfulPlanStatus /\ FreshPlan
-----------------------------------------------------------------------------
(* Aggregation                                                             *)

\* What _aggregate_persisted_statuses can return: never a status of a plan
\* that was not claimed, at least PARTIAL after a success, PARTIAL only with
\* one, and exactly PARTIAL while a success and a pending operation coexist.
LEMMA AggregateFacts ==
  ASSUME NEW st \in [Op -> Evidence \cup Pending]
  PROVE  /\ AggregatePersisted(st) \in PlanStatus \ {"ISSUED", "EXPIRED"}
         /\ Some(st, Success) =>
              AggregatePersisted(st) \in {"PARTIAL", "APPLIED", "ALREADY_APPLIED"}
         /\ AggregatePersisted(st) = "PARTIAL" => Some(st, Success)
         /\ Some(st, Success) /\ Some(st, Pending) => AggregatePersisted(st) = "PARTIAL"
<1>1. /\ AggregatePersisted(st) \in PlanStatus \ {"ISSUED", "EXPIRED"}
      /\ Some(st, Success) /\ Some(st, Pending) => AggregatePersisted(st) = "PARTIAL"
  BY DEF AggregatePersisted, AggregatePlanStatus, PlanStatus, ApplyStatus
<1>2. ASSUME Some(st, Success)
      PROVE  AggregatePersisted(st) \in {"PARTIAL", "APPLIED", "ALREADY_APPLIED"}
  <2>1. Some(st, Success \cup {"PARTIAL"})
    BY <1>2 DEF Some
  <2>2. QED
    BY <1>2, <2>1 DEF AggregatePersisted, AggregatePlanStatus
<1>3. ASSUME AggregatePersisted(st) = "PARTIAL"
      PROVE  Some(st, Success)
  <2>1. ~Some(st, {"PARTIAL"})
    BY DEF Some, Evidence, Pending
  <2>2. Some(st, Success \cup {"PARTIAL"}) => Some(st, Success)
    BY <2>1 DEF Some
  <2>3. QED
    BY <1>3, <2>2 DEF AggregatePersisted, AggregatePlanStatus
<1>4. QED
  BY <1>1, <1>2, <1>3
-----------------------------------------------------------------------------
(* The durable store                                                       *)

\* The part of IInv that is about the store alone.
StoreInv ==
  /\ StoreTypeOK
  /\ \A o \in Op : op[o].status \in Evidence \cup Pending
  /\ LeaseHeld
  /\ TruthfulPlanStatus

\* What one step of the system may do to the store: one transaction.
StoreStep ==
  \/ TransitionPlan("ISSUED", "EXPIRED")
  \/ \E w \in Worker : ClaimPlan(w, w \in Resumers)
  \/ \E w \in Worker, o \in Op : ClaimOperation(w, o)
  \/ \E w \in Worker, o \in Op, n \in Nat, s \in Evidence : RecordReceipt(w, o, n, s)
  \/ BeginReconcile
  \/ \E o \in Op, s \in Evidence : RecordReconciliation(o, s)
  \/ LeaseExpires
  \/ PlanExpires
  \/ UNCHANGED storeVars

\* The statuses of the rows, typed.
LEMMA StatusesType ==
  ASSUME StoreInv
  PROVE  Statuses \in [Op -> Evidence \cup Pending]
BY DEF StoreInv, Statuses

\* Changing the status of one row gives the statuses StatusesWith foretells.
LEMMA OneRow ==
  ASSUME StoreInv, StoreTypeOK', NEW o \in Op, NEW s \in Evidence \cup Pending,
         op'[o].status = s,
         \A q \in Op \ {o} : op'[q].status = op[q].status
  PROVE  /\ StatusesWith(o, s) \in [Op -> Evidence \cup Pending]
         /\ Statuses' = StatusesWith(o, s)
         /\ \A q \in Op : op'[q].status \in Evidence \cup Pending
BY DEF StoreInv, Statuses, StatusesWith

\* If no operation succeeded the status of the plan is free to be one of these.
LEMMA NoSuccess ==
  ASSUME StoreInv, planStatus \notin {"PARTIAL", "APPLIED", "ALREADY_APPLIED"}
  PROVE  ~Some(Statuses, Success)
BY DEF StoreInv, TruthfulPlanStatus

\* Every transaction leaves rows of the right shape.
LEMMA StoreTyped ==
  ASSUME StoreInv, StoreStep
  PROVE  StoreTypeOK'
<1> USE DEF StoreTypeOK
<1>1. CASE TransitionPlan("ISSUED", "EXPIRED")
  BY <1>1 DEF TransitionPlan, StoreInv, PlanStatus
<1>2. ASSUME NEW w \in Worker, ClaimPlan(w, w \in Resumers)
      PROVE  StoreTypeOK'
  BY <1>2 DEF ClaimPlan, StoreInv, PlanStatus, ApplyStatus
<1>3. ASSUME NEW w \in Worker, NEW o \in Op, ClaimOperation(w, o)
      PROVE  StoreTypeOK'
  <2>1. [status |-> "EXECUTING", attempt |-> op[o].attempt + 1,
         token |-> w, reconciled |-> FALSE] \in OperationRow
    BY DEF OperationRow, OpStatus, StoreInv
  <2>2. QED
    BY <1>3, <2>1 DEF ClaimOperation, StoreInv
<1>4. ASSUME NEW w \in Worker, NEW o \in Op, NEW n \in Nat, NEW s \in Evidence,
             RecordReceipt(w, o, n, s)
      PROVE  StoreTypeOK'
  <2>1. AggregatePersisted(StatusesWith(o, s)) \in PlanStatus
    BY StatusesType, AggregateFacts DEF StatusesWith
  <2>2. [op[o] EXCEPT !.status = s] \in OperationRow
    BY DEF OperationRow, OpStatus, StoreInv, Evidence
  <2>3. QED
    BY <1>4, <2>1, <2>2 DEF RecordReceipt, StoreInv
<1>5. CASE BeginReconcile
  BY <1>5 DEF BeginReconcile, StoreInv, PlanStatus, ApplyStatus
<1>6. ASSUME NEW o \in Op, NEW s \in Evidence, RecordReconciliation(o, s)
      PROVE  StoreTypeOK'
  <2>1. AggregatePersisted(StatusesWith(o, s)) \in PlanStatus
    BY StatusesType, AggregateFacts DEF StatusesWith
  <2>2. [op[o] EXCEPT !.status = s, !.reconciled = TRUE] \in OperationRow
    BY DEF OperationRow, OpStatus, StoreInv, Evidence
  <2>3. QED
    BY <1>6, <2>1, <2>2 DEF RecordReconciliation, StoreInv
<1>7. CASE LeaseExpires \/ PlanExpires \/ UNCHANGED storeVars
  BY <1>7 DEF LeaseExpires, PlanExpires, storeVars, StoreInv
<1>8. QED
  BY <1>1, <1>2, <1>3, <1>4, <1>5, <1>6, <1>7 DEF StoreStep

\* No method of the store makes a plan's status hide its operations, or
\* leaves a live lease without an owner and a plan in execution.
LEMMA StorePreserved ==
  ASSUME StoreInv, StoreStep
  PROVE  StoreInv'
<1> USE StoreTyped
<1>1. ASSUME UNCHANGED op, ~Some(Statuses, Success), LeaseHeld',
             planStatus' \in {"ISSUED", "EXECUTING", "UNKNOWN", "EXPIRED"}
      PROVE  StoreInv'
  <2>1. Statuses' = Statuses
    BY <1>1 DEF Statuses
  <2>2. TruthfulPlanStatus'
    BY <1>1, <2>1 DEF TruthfulPlanStatus, Some
  <2>3. QED
    BY <1>1, <2>2 DEF StoreInv
<1>2. ASSUME UNCHANGED <<op, planStatus>>, LeaseHeld'
      PROVE  StoreInv'
  <2>1. Statuses' = Statuses
    BY <1>2 DEF Statuses
  <2>2. TruthfulPlanStatus'
    BY <1>2, <2>1 DEF TruthfulPlanStatus, Some, StoreInv
  <2>3. QED
    BY <1>2, <2>2 DEF StoreInv
<1>3. ASSUME NEW o \in Op, NEW s \in Evidence \cup Pending,
             op'[o].status = s, \A q \in Op \ {o} : op'[q].status = op[q].status,
             planStatus' = AggregatePersisted(StatusesWith(o, s)), LeaseHeld'
      PROVE  StoreInv'
  <2>1. /\ StatusesWith(o, s) \in [Op -> Evidence \cup Pending]
        /\ Statuses' = StatusesWith(o, s)
        /\ \A q \in Op : op'[q].status \in Evidence \cup Pending
    BY <1>3, OneRow
  <2>2. TruthfulPlanStatus'
    BY <1>3, <2>1, AggregateFacts DEF TruthfulPlanStatus, Some
  <2>3. QED
    BY <1>3, <2>1, <2>2 DEF StoreInv
<1>4. CASE TransitionPlan("ISSUED", "EXPIRED")
  <2>1. ~Some(Statuses, Success)
    BY <1>4, NoSuccess DEF TransitionPlan, CanTransitionPlan
  <2>2. LeaseHeld'
    BY <1>4 DEF TransitionPlan, CanTransitionPlan, LeaseHeld, StoreInv
  <2>3. QED
    BY <1>1, <1>4, <2>1, <2>2 DEF TransitionPlan
<1>5. ASSUME NEW w \in Worker, ClaimPlan(w, w \in Resumers)
      PROVE  StoreInv'
  <2>1. LeaseHeld'
    BY <1>5 DEF ClaimPlan, LeaseHeld
  <2>2. CASE planStatus = "PARTIAL"
    BY <1>2, <1>5, <2>1, <2>2 DEF ClaimPlan
  <2>3. CASE planStatus # "PARTIAL"
    <3>1. ~Some(Statuses, Success)
      BY <1>5, <2>3, NoSuccess DEF ClaimPlan, CanClaimPlan, ClaimablePlan
    <3>2. QED
      BY <1>1, <1>5, <2>1, <2>3, <3>1 DEF ClaimPlan
  <2>4. QED
    BY <2>2, <2>3
<1>6. ASSUME NEW w \in Worker, NEW o \in Op, ClaimOperation(w, o)
      PROVE  StoreInv'
  <2>1. /\ op'[o].status = "EXECUTING"
        /\ \A q \in Op \ {o} : op'[q].status = op[q].status
        /\ op[o].status \in {"ISSUED", "RETRYABLE_NOT_APPLIED"}
        /\ leaseLive /\ UNCHANGED <<planStatus, leaseOwner, leaseLive>>
    BY <1>6 DEF ClaimOperation, CanClaimOperation, StoreInv, StoreTypeOK
  <2>2. LeaseHeld' /\ planStatus \in {"EXECUTING", "PARTIAL"}
    BY <2>1 DEF LeaseHeld, StoreInv
  <2>3. /\ StatusesWith(o, "EXECUTING") \in [Op -> Evidence \cup Pending]
        /\ Statuses' = StatusesWith(o, "EXECUTING")
        /\ \A q \in Op : op'[q].status \in Evidence \cup Pending
    BY <2>1, OneRow DEF Pending
  <2>4. Some(Statuses', Success) <=> Some(Statuses, Success)
    BY <2>1 DEF Some, Success, Statuses
  <2>5. Some(Statuses', Pending)
    BY <2>1 DEF Some, Pending, Statuses
  <2>6. CASE planStatus = "EXECUTING"
    <3>1. TruthfulPlanStatus'
      BY <2>1, <2>4, <2>6 DEF TruthfulPlanStatus, StoreInv, Some
    <3>2. QED
      BY <2>2, <2>3, <3>1 DEF StoreInv
  <2>7. CASE planStatus = "PARTIAL"
    <3>1. AggregatePersisted(Statuses) = "PARTIAL"
      BY <2>7 DEF StoreInv, TruthfulPlanStatus
    <3>2. Some(Statuses, Success)
      BY <3>1, StatusesType, AggregateFacts
    <3>3. AggregatePersisted(StatusesWith(o, "EXECUTING")) = "PARTIAL"
      BY <2>3, <2>4, <2>5, <3>2, AggregateFacts
    <3>4. QED
      BY <1>3, <2>1, <2>2, <2>7, <3>3 DEF Pending
  <2>8. QED
    BY <2>2, <2>6, <2>7
<1>7. ASSUME NEW w \in Worker, NEW o \in Op, NEW n \in Nat, NEW s \in Evidence,
             RecordReceipt(w, o, n, s)
      PROVE  StoreInv'
  <2>1. /\ op'[o].status = s
        /\ \A q \in Op \ {o} : op'[q].status = op[q].status
    BY <1>7 DEF RecordReceipt, StoreInv, StoreTypeOK
  <2>2. LeaseHeld'
    BY <1>7 DEF RecordReceipt, CanRecordReceipt, Fenced, LeaseHeld
  <2>3. QED
    BY <1>3, <1>7, <2>1, <2>2 DEF RecordReceipt
<1>8. CASE BeginReconcile
  <2>1. LeaseHeld'
    BY <1>8 DEF BeginReconcile, CanBeginReconcile, LeaseHeld
  <2>2. CASE planStatus = "EXECUTING"
    <3>1. ~Some(Statuses, Success)
      BY <2>2, NoSuccess
    <3>2. QED
      BY <1>1, <1>8, <2>1, <2>2, <3>1 DEF BeginReconcile
  <2>3. CASE planStatus # "EXECUTING"
    BY <1>2, <1>8, <2>1, <2>3 DEF BeginReconcile
  <2>4. QED
    BY <2>2, <2>3
<1>9. ASSUME NEW o \in Op, NEW s \in Evidence, RecordReconciliation(o, s)
      PROVE  StoreInv'
  <2>1. /\ op'[o].status = s
        /\ \A q \in Op \ {o} : op'[q].status = op[q].status
    BY <1>9 DEF RecordReconciliation, StoreInv, StoreTypeOK
  <2>2. LeaseHeld'
    BY <1>9, NoWorkerAssumption
       DEF RecordReconciliation, CanRecordReconciliation, LeaseHeld, StoreInv
  <2>3. QED
    BY <1>3, <1>9, <2>1, <2>2 DEF RecordReconciliation
<1>10. CASE LeaseExpires \/ PlanExpires \/ UNCHANGED storeVars
  <2>1. LeaseHeld'
    BY <1>10 DEF LeaseExpires, PlanExpires, storeVars, LeaseHeld, StoreInv
  <2>2. QED
    BY <1>2, <1>10, <2>1 DEF LeaseExpires, PlanExpires, storeVars
<1>11. QED
  BY <1>4, <1>5, <1>6, <1>7, <1>8, <1>9, <1>10 DEF StoreStep
-----------------------------------------------------------------------------
(* The calls                                                               *)

\* Each step of a call, the server or the clock is one transaction of the
\* store, or leaves it alone.
LEMMA NextIsStoreStep ==
  ASSUME IInv, [Next]_vars
  PROVE  StoreStep
<1>1. CASE UNCHANGED vars
  BY <1>1 DEF StoreStep, vars
<1>2. ASSUME NEW w \in Worker, WorkerStep(w)
      PROVE  StoreStep
  <2>1. CASE ConfirmStart(w) \/ ResumeStart(w) \/ LoadOperations(w) \/ AdapterRead(w)
             \/ AdapterWrite(w) \/ AdapterVerify(w)
    BY <2>1 DEF ConfirmStart, ResumeStart, LoadOperations, AdapterRead, AdapterWrite,
                AdapterVerify, StoreStep
  <2>2. CASE ConfirmExpire(w)
    BY <2>2 DEF ConfirmExpire, StoreStep
  <2>3. CASE Claim(w)
    BY <2>3 DEF Claim, StoreStep
  <2>4. CASE ClaimNext(w)
    BY <2>4 DEF ClaimNext, StoreStep
  <2>5. CASE Record(w)
    <3>1. cur[w] \in Op /\ attempt[w] \in Nat /\ receipt[w] \in Evidence
      BY DEF IInv, TypeOK, KnownOutcomes, Receipt
    <3>2. QED
      BY <2>5, <3>1 DEF Record, StoreStep
  <2>6. QED
    BY <1>2, <2>1, <2>2, <2>3, <2>4, <2>5 DEF WorkerStep
<1>3. ASSUME NEW r \in Reconcilers, ReconcilerStep(r) \/ ReconcileFails(r)
      PROVE  StoreStep
  <2>1. CASE ReconcileCheck(r) \/ ReconcileRead(r) \/ ReconcileObserve(r) \/ ReconcileFails(r)
    BY <2>1 DEF ReconcileCheck, ReconcileRead, ReconcileObserve, ReconcileFails, StoreStep
  <2>2. CASE ReconcileBegin(r)
    BY <2>2 DEF ReconcileBegin, StoreStep
  <2>3. CASE ReconcileIssued(r)
    BY <2>3 DEF ReconcileIssued, RecordAndGoOn, StoreStep, Evidence, ApplyStatus
  <2>4. CASE ReconcileRecord(r)
    <3>1. verdict[r] \in Evidence
      BY DEF IInv, KnownOutcomes
    <3>2. QED
      BY <2>4, <3>1 DEF ReconcileRecord, RecordAndGoOn, StoreStep
  <2>5. QED
    BY <1>3, <2>1, <2>2, <2>3, <2>4 DEF ReconcilerStep
<1>4. CASE Environment
  BY <1>4 DEF Environment, ServerCommits, ServerDrops, OtherWriter, Clock, StoreStep
<1>5. QED
  BY <1>1, <1>2, <1>3, <1>4 DEF Next

\* What a step leaves in the locals of the calls and in the graph.
CallsOK ==
  /\ pc \in [Worker -> WorkerPc]
  /\ todo \in [Worker -> SUBSET Op]
  /\ cur \in [Worker -> Op]
  /\ attempt \in [Worker -> Nat]
  /\ receipt \in [Worker -> Receipt]
  /\ rpc \in [Reconcilers -> ReconcilerPc]
  /\ snapshot \in [Reconcilers -> [Op -> OperationRow]]
  /\ rtodo \in [Reconcilers -> SUBSET Op]
  /\ verdict \in [Reconcilers -> Evidence]
  /\ element \in [Op -> Observation]
  /\ requests \subseteq Op \X Worker
  /\ reached \subseteq Op

LEMMA IInvParts == IInv <=> StoreInv /\ CallsOK /\ FreshPlan
<1>1. IInv => StoreInv /\ CallsOK /\ FreshPlan
  BY DEF IInv, StoreInv, CallsOK, TypeOK, KnownOutcomes
<1>2. StoreInv /\ CallsOK /\ FreshPlan => IInv
  BY DEF IInv, StoreInv, CallsOK, TypeOK, KnownOutcomes, Evidence, Receipt
<1>3. QED
  BY <1>1, <1>2

\* The first operation exists, and rows nobody touched are rows.
LEMMA InitialRows == 1 \in Op /\ IssuedRows \in [Op -> OperationRow]
BY PlanAssumption DEF Op, IssuedRows, OperationRow, OpStatus

LEMMA WorkerStepTyped ==
  ASSUME StoreInv, CallsOK, NEW w \in Worker, WorkerStep(w)
  PROVE  CallsOK'
<1> USE DEF CallsOK, WorkerPc
<1> UNCHANGED <<rpc, snapshot, rtodo, verdict, element, reached>>
  BY DEF WorkerStep, ConfirmStart, ConfirmExpire, ResumeStart, Claim, LoadOperations,
         ClaimNext, AdapterRead, AdapterWrite, AdapterVerify, Record, reconcilerVars, graphVars
<1>1. ASSUME Return(w), UNCHANGED requests
      PROVE  CallsOK'
  BY <1>1, InitialRows DEF Return, Goto, Receipt, Evidence, ApplyStatus
<1>2. ASSUME NEW s \in Receipt, Outcome(w, s), UNCHANGED <<todo, cur, attempt, requests>>
      PROVE  CallsOK'
  BY <1>2 DEF Outcome, Goto
<1>3. CASE ConfirmStart(w) \/ ResumeStart(w)
  BY <1>3 DEF ConfirmStart, ResumeStart, Goto, graphVars
<1>4. CASE ConfirmExpire(w)
  BY <1>1, <1>4 DEF ConfirmExpire, graphVars
<1>5. CASE Claim(w)
  BY <1>1, <1>5 DEF Claim, Goto, graphVars
<1>6. CASE LoadOperations(w)
  <2>1. CASE Return(w)
    BY <1>1, <1>6, <2>1 DEF LoadOperations, graphVars
  <2>2. CASE ~Return(w)
    <3>1. \E work \in SUBSET Op : todo' = [todo EXCEPT ![w] = work]
      BY <1>6, <2>2 DEF LoadOperations
    <3>2. QED
      BY <1>6, <2>2, <3>1 DEF LoadOperations, Goto, graphVars
  <2>3. QED
    BY <2>1, <2>2
<1>7. CASE ClaimNext(w)
  <2>1. CASE Return(w)
    BY <1>1, <1>7, <2>1 DEF ClaimNext, graphVars
  <2>2. CASE ~Return(w)
    <3>1. PICK o \in Op : /\ todo' = [todo EXCEPT ![w] = @ \ {o}]
                         /\ cur' = [cur EXCEPT ![w] = o]
                         /\ attempt' = [attempt EXCEPT ![w] = op[o].attempt + 1]
      BY <1>7, <2>2 DEF ClaimNext
    <3>2. op[o].attempt + 1 \in Nat
      BY DEF StoreInv, StoreTypeOK, OperationRow
    <3>3. Goto(w, "adapter") /\ UNCHANGED <<receipt, requests>>
      BY <1>7, <2>2 DEF ClaimNext, graphVars
    <3>4. QED
      BY <3>1, <3>2, <3>3 DEF Goto
  <2>3. QED
    BY <2>1, <2>2
<1>8. CASE AdapterRead(w)
  <2>1. CASE \E s \in Receipt : Outcome(w, s)
    BY <1>2, <1>8, <2>1 DEF AdapterRead, graphVars
  <2>2. CASE Goto(w, "write") /\ UNCHANGED receipt
    BY <1>8, <2>2 DEF AdapterRead, Goto, graphVars
  <2>3. QED
    BY <1>8, <2>1, <2>2 DEF AdapterRead, Refuse, Receipt, Evidence, ApplyStatus
<1>9. CASE AdapterWrite(w)
  <2>1. CASE Outcome(w, "UNKNOWN") /\ UNCHANGED requests
    BY <1>2, <1>9, <2>1 DEF AdapterWrite, Receipt, Evidence, ApplyStatus
  <2>2. CASE Goto(w, "reply") /\ UNCHANGED receipt
    BY <1>9, <2>2 DEF AdapterWrite, Goto
  <2>3. QED
    BY <1>9, <2>1, <2>2 DEF AdapterWrite
<1>10. CASE AdapterVerify(w)
  <2>1. \E s \in Receipt : Outcome(w, s)
    BY <1>10 DEF AdapterVerify, PostWriteStatus, SchemaPostRead, Receipt, Evidence, ApplyStatus
  <2>2. QED
    BY <1>2, <1>10, <2>1 DEF AdapterVerify, graphVars
<1>11. CASE Record(w)
  BY <1>1, <1>11 DEF Record, Goto, graphVars
<1>12. QED
  BY <1>3, <1>4, <1>5, <1>6, <1>7, <1>8, <1>9, <1>10, <1>11 DEF WorkerStep

LEMMA ReconcilerStepTyped ==
  ASSUME StoreInv, CallsOK, NEW r \in Reconcilers, ReconcilerStep(r) \/ ReconcileFails(r)
  PROVE  CallsOK'
<1> USE DEF CallsOK, ReconcilerPc
<1> UNCHANGED <<pc, todo, cur, attempt, receipt, element, requests, reached>>
  BY DEF ReconcilerStep, ReconcileBegin, ReconcileCheck, ReconcileRead, ReconcileIssued,
         ReconcileObserve, ReconcileRecord, ReconcileFails, workerVars, graphVars
<1>1. ASSUME RReturn(r)
      PROVE  CallsOK'
  BY <1>1, InitialRows DEF RReturn, RGoto, Evidence, ApplyStatus
<1>2. ASSUME NEW o \in Op, NEW s \in Evidence, RecordAndGoOn(r, o, s)
      PROVE  CallsOK'
  <2>1. CASE RReturn(r)
    BY <1>1, <2>1
  <2>2. CASE ~RReturn(r)
    <3>1. /\ rtodo' = [rtodo EXCEPT ![r] = @ \ {o}]
          /\ rpc' = [rpc EXCEPT ![r] = "scan"]
          /\ UNCHANGED <<snapshot, verdict>>
      BY <1>2, <2>2 DEF RecordAndGoOn, RGoto
    <3>2. QED
      BY <3>1
  <2>3. QED
    BY <2>1, <2>2
<1>3. CASE ReconcileBegin(r)
  BY <1>3 DEF ReconcileBegin, RGoto
<1>4. CASE ReconcileCheck(r)
  BY <1>4 DEF ReconcileCheck, RGoto
<1>5. CASE ReconcileRead(r)
  <2>1. CASE RReturn(r)
    BY <1>1, <2>1
  <2>2. CASE ~RReturn(r)
    <3>1. op \in [Op -> OperationRow]
      BY DEF StoreInv, StoreTypeOK
    <3>2. \E work \in SUBSET Op : rtodo' = [rtodo EXCEPT ![r] = work]
      BY <1>5, <2>2 DEF ReconcileRead
    <3>3. /\ snapshot' = [snapshot EXCEPT ![r] = op] /\ rpc' = [rpc EXCEPT ![r] = "scan"]
          /\ UNCHANGED verdict
      BY <1>5, <2>2 DEF ReconcileRead, RGoto
    <3>4. QED
      BY <3>1, <3>2, <3>3
  <2>3. QED
    BY <2>1, <2>2
<1>6. CASE ReconcileIssued(r)
  BY <1>2, <1>6 DEF ReconcileIssued, Evidence, ApplyStatus
<1>7. CASE ReconcileObserve(r)
  <2>1. \A o \in Op : Verdict(snapshot[r][o], element[o]) \in Evidence
    BY DEF Verdict, ReconcileOperationState, Observation, Evidence, ApplyStatus
  <2>2. QED
    BY <1>7, <2>1 DEF ReconcileObserve, RGoto
<1>8. CASE ReconcileRecord(r)
  BY <1>2, <1>8 DEF ReconcileRecord
<1>9. CASE ReconcileFails(r)
  BY <1>1, <1>9 DEF ReconcileFails
<1>10. QED
  BY <1>3, <1>4, <1>5, <1>6, <1>7, <1>8, <1>9 DEF ReconcilerStep

\* Every step keeps the locals of the calls and the graph well typed.
LEMMA CallsTyped ==
  ASSUME StoreInv, CallsOK, [Next]_vars
  PROVE  CallsOK'
<1>1. CASE UNCHANGED vars
  BY <1>1 DEF CallsOK, vars, workerVars, reconcilerVars, graphVars
<1>2. CASE \E w \in Worker : WorkerStep(w)
  BY <1>2, WorkerStepTyped
<1>3. CASE \E r \in Reconcilers : ReconcilerStep(r) \/ ReconcileFails(r)
  BY <1>3, ReconcilerStepTyped
<1>4. ASSUME NEW o \in Op, NEW e \in Observation, SetElement(o, e),
             UNCHANGED <<workerVars, reconcilerVars>>, requests' \subseteq requests
      PROVE  CallsOK'
  BY <1>4 DEF SetElement, CallsOK, workerVars, reconcilerVars
<1>5. ASSUME NEW o \in Op, NEW w \in Worker, ServerCommits(o, w) \/ ServerDrops(o, w)
      PROVE  CallsOK'
  <2>1. CASE ServerCommits(o, w)
    <3>1. Effect(element[o]) \in Observation
      BY DEF Effect, CallsOK, Observation
    <3>2. QED
      BY <1>4, <2>1, <3>1 DEF ServerCommits
  <2>2. CASE ServerDrops(o, w)
    BY <2>2 DEF ServerDrops, CallsOK, workerVars, reconcilerVars
  <2>3. QED
    BY <1>5, <2>1, <2>2
<1>6. CASE \E o \in Op, e \in Foreign : OtherWriter(o, e)
  BY <1>4, <1>6, CallAssumption DEF OtherWriter
<1>7. CASE Clock
  BY <1>7 DEF Clock, CallsOK, workerVars, reconcilerVars, graphVars
<1>8. QED
  BY <1>1, <1>2, <1>3, <1>5, <1>6, <1>7 DEF Next, Environment

\* A call gets past its claim, or a reconciliation past its check, only for a
\* plan that was claimed, and a plan that was claimed is never fresh again.
LEMMA FreshPreserved ==
  ASSUME IInv, [Next]_vars
  PROVE  FreshPlan'
<1> DEFINE Fresh == planStatus \in {"ISSUED", "EXPIRED"}
<1>1. StoreInv /\ CallsOK /\ FreshPlan
  BY IInvParts
<1>2. \A o \in Op, s \in Evidence : AggregatePersisted(StatusesWith(o, s)) \notin {"ISSUED", "EXPIRED"}
  <2>1. ASSUME NEW o \in Op, NEW s \in Evidence
        PROVE  AggregatePersisted(StatusesWith(o, s)) \notin {"ISSUED", "EXPIRED"}
    <3>1. StatusesWith(o, s) \in [Op -> Evidence \cup Pending]
      BY <1>1, StatusesType DEF StatusesWith
    <3>2. QED
      BY <3>1, AggregateFacts
  <2>2. QED
    BY <2>1
<1>3. Fresh' => Fresh
  BY <1>2, NextIsStoreStep
     DEF StoreStep, TransitionPlan, CanTransitionPlan, ClaimPlan, ClaimOperation,
         RecordReceipt, BeginReconcile, RecordReconciliation, LeaseExpires, PlanExpires,
         storeVars
<1> SUFFICES ASSUME Fresh, Fresh'
             PROVE  FreshPlan'
  BY <1>3 DEF FreshPlan
<1>4. /\ op = IssuedRows
      /\ leaseOwner = NoWorker /\ ~leaseLive
      /\ \A w \in Worker : pc[w] \in {"start", "expire", "claim", "done"}
      /\ \A r \in Reconcilers : rpc[r] \in {"idle", "opened"}
  BY <1>1 DEF FreshPlan, StoreInv, LeaseHeld
<1>5. pc \in [Worker -> WorkerPc] /\ rpc \in [Reconcilers -> ReconcilerPc]
  BY <1>1 DEF CallsOK
<1>6. ASSUME NEW w \in Worker, WorkerStep(w)
      PROVE  FreshPlan'
  <2>1. CASE ConfirmStart(w)
    BY <1>4, <1>5, <2>1
       DEF ConfirmStart, Goto, FreshPlan, storeVars, reconcilerVars
  <2>2. CASE ConfirmExpire(w)
    BY <1>4, <1>5, <2>2
       DEF ConfirmExpire, TransitionPlan, Return, Goto, FreshPlan, storeVars, reconcilerVars
  <2>3. CASE ResumeStart(w)
    BY <2>3 DEF ResumeStart, Resumable
  <2>4. CASE Claim(w)
    BY <1>4, <1>5, <2>4
       DEF Claim, ClaimPlan, Return, Goto, FreshPlan, storeVars, reconcilerVars
  <2>5. QED
    BY <1>4, <1>6, <2>1, <2>2, <2>3, <2>4
       DEF WorkerStep, LoadOperations, ClaimNext, AdapterRead, AdapterWrite, AdapterVerify,
           Record
<1>7. ASSUME NEW r \in Reconcilers, ReconcilerStep(r) \/ ReconcileFails(r)
      PROVE  FreshPlan'
  <2>1. CASE ReconcileBegin(r)
    BY <1>4, <1>5, <2>1 DEF ReconcileBegin, BeginReconcile, RGoto, FreshPlan, workerVars
  <2>2. CASE ReconcileCheck(r)
    BY <1>4, <1>5, <2>2 DEF ReconcileCheck, RGoto, FreshPlan, storeVars, workerVars
  <2>3. CASE ReconcileFails(r)
    BY <1>4, <1>5, <2>3 DEF ReconcileFails, RReturn, RGoto, FreshPlan, storeVars, workerVars
  <2>4. QED
    BY <1>4, <1>7, <2>1, <2>2, <2>3
       DEF ReconcilerStep, ReconcileRead, ReconcileIssued, ReconcileObserve, ReconcileRecord
<1>8. CASE Environment \/ UNCHANGED vars
  BY <1>4, <1>8
     DEF Environment, ServerCommits, ServerDrops, OtherWriter, Clock, LeaseExpires,
         PlanExpires, FreshPlan, vars, storeVars, workerVars, reconcilerVars
<1>9. QED
  BY <1>6, <1>7, <1>8 DEF Next
-----------------------------------------------------------------------------
(* The theorems                                                            *)

LEMMA Initially == Init => IInv
<1> SUFFICES ASSUME Init
             PROVE  IInv
  OBVIOUS
<1>1. CallsOK
  BY InitialRows DEF Init, CallsOK, WorkerPc, ReconcilerPc, Receipt, Evidence, ApplyStatus, Observation
<1>2. StoreTypeOK
  BY InitialRows DEF Init, StoreInit, StoreTypeOK, PlanStatus
<1>3. LeaseHeld
  BY DEF Init, StoreInit, LeaseHeld
<1>4. \A o \in Op : op[o].status = "ISSUED"
  BY DEF Init, StoreInit, IssuedRows
<1>5. TruthfulPlanStatus
  BY <1>4 DEF Init, StoreInit, TruthfulPlanStatus, Some, Statuses, Success
<1>6. StoreInv
  BY <1>2, <1>3, <1>4, <1>5 DEF StoreInv, Pending
<1>7. FreshPlan
  BY DEF Init, StoreInit, FreshPlan
<1>8. QED
  BY <1>1, <1>6, <1>7, IInvParts

LEMMA Inductive == IInv /\ [Next]_vars => IInv'
<1> SUFFICES ASSUME IInv, [Next]_vars
             PROVE  IInv'
  OBVIOUS
<1>1. StoreInv /\ CallsOK
  BY IInvParts
<1>2. StoreInv'
  BY <1>1, NextIsStoreStep, StorePreserved
<1>3. CallsOK'
  BY <1>1, CallsTyped
<1>4. FreshPlan'
  BY FreshPreserved
<1>5. (StoreInv /\ CallsOK /\ FreshPlan)' => IInv'
  BY IInvParts, PTL
<1>6. QED
  BY <1>2, <1>3, <1>4, <1>5

THEOREM Invariance == Spec => []IInv
BY Initially, Inductive, PTL DEF Spec

\* Every reachable state of store, calls and graph is well typed.
THEOREM TypeCorrect == Spec => []TypeOK
<1>1. IInv => TypeOK
  BY DEF IInv
<1>2. QED
  BY <1>1, Invariance, PTL

\* Whatever claim_plan, claim_operation, record_receipt and the reconciler do
\* in whatever order, the status of the plan never hides its operations.
THEOREM PlanStatusTruthful == Spec => []TruthfulPlanStatus
<1>1. IInv => TruthfulPlanStatus
  BY DEF IInv
<1>2. QED
  BY <1>1, Invariance, PTL

\* A plan that expired was never executed, and no call is about to execute it.
THEOREM ExpiredNeverExecuted == Spec => []ExpiredUntouched
<1>1. IInv => ExpiredUntouched
  BY DEF IInv, FreshPlan, ExpiredUntouched
<1>2. QED
  BY <1>1, Invariance, PTL

\* The half of OutcomesAreFinal about operations: no method of the store, and
\* so no stale executor or second reconciliation, changes a recorded outcome.
OperationOutcomesAreFinal ==
  [][\A o \in Op : op[o].status \in Final => op'[o].status = op[o].status]_vars

THEOREM OperationsFinal == Spec => OperationOutcomesAreFinal
<1>1. ASSUME IInv, [Next]_vars, NEW o \in Op, op[o].status \in Final
      PROVE  op'[o].status = op[o].status
  <2>1. StoreInv
    BY <1>1, IInvParts
  <2>2. op \in [Op -> OperationRow]
    BY <2>1 DEF StoreInv, StoreTypeOK
  <2>3. CASE \E w \in Worker, q \in Op : ClaimOperation(w, q)
    BY <1>1, <2>2, <2>3 DEF ClaimOperation, CanClaimOperation, Final, Success
  <2>4. CASE \E w \in Worker, q \in Op, n \in Nat, s \in Evidence : RecordReceipt(w, q, n, s)
    BY <1>1, <2>2, <2>4 DEF RecordReceipt, CanRecordReceipt, Fenced, Final, Success
  <2>5. CASE \E q \in Op, s \in Evidence : RecordReconciliation(q, s)
    BY <1>1, <2>2, <2>5
       DEF RecordReconciliation, CanRecordReconciliation, Reconcilable, Final, Success
  <2>6. QED
    BY <1>1, <2>3, <2>4, <2>5, NextIsStoreStep
       DEF StoreStep, TransitionPlan, ClaimPlan, BeginReconcile, LeaseExpires, PlanExpires,
           storeVars
<1>2. IInv /\ [Next]_vars
        => [\A o \in Op : op[o].status \in Final => op'[o].status = op[o].status]_vars
  BY <1>1
<1>3. QED
  BY <1>2, Invariance, PTL DEF Spec, OperationOutcomesAreFinal
=============================================================================
