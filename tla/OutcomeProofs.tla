----------------------------- MODULE OutcomeProofs -----------------------------
(***************************************************************************)
(* Theorems about what the recorded outcomes mean: a success really        *)
(* happened, whatever interleaves; and, as long as nothing else runs       *)
(* during a reconcile call, an operation is marked retryable only if it    *)
(* was never claimed, so that none is ever sent twice.                     *)
(***************************************************************************)
EXTENDS WriteProtocolProofs

(* Successes                                                               *)

\* What was read as desired was desired, from the read of an adapter or a
\* reconciler to the row it records.
SuccessWitnessed ==
  /\ SuccessProven
  /\ \A o \in Op : element[o] = "desired" => o \in reached
  /\ \A w \in Worker : pc[w] = "record" /\ receipt[w] \in Success => cur[w] \in reached
  /\ \A r \in Reconcilers, o \in Op :
       rpc[r] = "record" /\ verdict[r] \in Success /\ First(o, rtodo[r]) => o \in reached

LEMMA SuccessWorkerStep ==
  ASSUME IInv, SuccessWitnessed, NEW w \in Worker, WorkerStep(w)
  PROVE  SuccessWitnessed'
<1> USE DEF SuccessWitnessed, SuccessProven
<1>0. CallsOK /\ StoreInv /\ op \in [Op -> OperationRow]
  BY IInvParts DEF StoreInv, StoreTypeOK
<1> UNCHANGED <<rpc, snapshot, rtodo, verdict, element, reached>>
  BY DEF WorkerStep, ConfirmStart, ConfirmExpire, ResumeStart, Claim, LoadOperations,
         ClaimNext, AdapterRead, AdapterWrite, AdapterVerify, Record, reconcilerVars, graphVars
<1>1. ASSUME UNCHANGED op, UNCHANGED <<cur, receipt>>,
             NEW label \in WorkerPc \ {"record"}, Goto(w, label)
      PROVE  SuccessWitnessed'
  BY <1>0, <1>1 DEF Goto, First, CallsOK
<1>2. ASSUME UNCHANGED op, Return(w)
      PROVE  SuccessWitnessed'
  BY <1>0, <1>2 DEF Return, Goto, First, CallsOK
<1>3. ASSUME UNCHANGED <<op, cur>>, NEW s, Outcome(w, s), s \in Success => cur[w] \in reached
      PROVE  SuccessWitnessed'
  BY <1>0, <1>3 DEF Outcome, Goto, First, CallsOK
<1>4. CASE ConfirmStart(w)
  BY <1>1, <1>4 DEF ConfirmStart, storeVars, WorkerPc
<1>5. CASE ConfirmExpire(w)
  BY <1>2, <1>5 DEF ConfirmExpire, TransitionPlan, storeVars
<1>6. CASE ResumeStart(w)
  BY <1>1, <1>6 DEF ResumeStart, storeVars, WorkerPc
<1>7. CASE Claim(w)
  BY <1>1, <1>2, <1>7 DEF Claim, ClaimPlan, storeVars, WorkerPc
<1>8. CASE LoadOperations(w)
  BY <1>1, <1>2, <1>8 DEF LoadOperations, storeVars, WorkerPc
<1>9. CASE ClaimNext(w)
  <2>1. CASE UNCHANGED op /\ Return(w)
    BY <1>2, <2>1
  <2>2. CASE \E o \in Op : ClaimOperation(w, o) /\ Goto(w, "adapter") /\ UNCHANGED receipt
                           /\ cur' = [cur EXCEPT ![w] = o]
    BY <1>0, <2>2 DEF ClaimOperation, Goto, First, CallsOK, Success
  <2>3. QED
    BY <1>9, <2>1, <2>2 DEF ClaimNext, storeVars
<1>10. CASE AdapterRead(w)
  <2>1. cur[w] \in Op
    BY <1>0 DEF CallsOK
  <2>2. UNCHANGED <<op, cur>>
    BY <1>10 DEF AdapterRead, storeVars
  <2>3. CASE Outcome(w, "REJECTED") \/ Outcome(w, "UNKNOWN") \/ Outcome(w, "CONFLICT")
    BY <1>3, <2>2, <2>3 DEF Success
  <2>4. CASE element[cur[w]] = "desired" /\ Outcome(w, "ALREADY_APPLIED")
    BY <1>3, <2>1, <2>2, <2>4
  <2>5. CASE Goto(w, "write") /\ UNCHANGED receipt
    BY <1>1, <2>2, <2>5 DEF WorkerPc
  <2>6. QED
    BY <1>10, <2>3, <2>4, <2>5 DEF AdapterRead, Refuse
<1>11. CASE AdapterWrite(w)
  BY <1>1, <1>3, <1>11 DEF AdapterWrite, storeVars, WorkerPc, Success
<1>12. CASE AdapterVerify(w)
  <2>1. cur[w] \in Op
    BY <1>0 DEF CallsOK
  <2>2. PostWriteStatus(element[cur[w]]) \notin Success
    BY DEF PostWriteStatus, SchemaPostRead, Success
  <2>3. QED
    BY <1>3, <1>12, <2>1, <2>2 DEF AdapterVerify, storeVars, Success
<1>13. CASE Record(w)
  <2>1. CASE UNCHANGED op /\ Return(w)
    BY <1>2, <2>1
  <2>2. CASE RecordReceipt(w, cur[w], attempt[w], receipt[w])
    <3>1. \A o \in Op : op'[o].status \in Success => o \in reached
      BY <1>0, <1>13, <2>2 DEF Record, RecordReceipt, CallsOK
    <3>2. CASE Return(w)
      BY <1>0, <3>1, <3>2 DEF Return, Goto, First, CallsOK
    <3>3. CASE Goto(w, "next") /\ UNCHANGED <<cur, receipt>>
      BY <1>0, <3>1, <3>3 DEF Goto, First, CallsOK
    <3>4. QED
      BY <1>13, <2>2, <3>2, <3>3 DEF Record, RecordReceipt
  <2>3. QED
    BY <1>13, <2>1, <2>2 DEF Record, storeVars
<1>14. QED
  BY <1>4, <1>5, <1>6, <1>7, <1>8, <1>9, <1>10, <1>11, <1>12, <1>13 DEF WorkerStep

LEMMA SuccessReconcilerStep ==
  ASSUME IInv, SuccessWitnessed, NEW r \in Reconcilers, ReconcilerStep(r) \/ ReconcileFails(r)
  PROVE  SuccessWitnessed'
<1> USE DEF SuccessWitnessed, SuccessProven
<1>0. CallsOK /\ StoreInv /\ op \in [Op -> OperationRow]
  BY IInvParts DEF StoreInv, StoreTypeOK
<1> UNCHANGED <<pc, todo, cur, attempt, receipt, element, requests, reached>>
  BY DEF ReconcilerStep, ReconcileBegin, ReconcileCheck, ReconcileRead, ReconcileIssued,
         ReconcileObserve, ReconcileRecord, ReconcileFails, workerVars, graphVars
<1>1. ASSUME \A o \in Op : op'[o].status \in Success => o \in reached,
             NEW label \in ReconcilerPc \ {"record"}, RGoto(r, label),
             \A q \in Reconcilers \ {r} : rtodo'[q] = rtodo[q] /\ verdict'[q] = verdict[q]
      PROVE  SuccessWitnessed'
  BY <1>0, <1>1 DEF RGoto, First, CallsOK
<1>2. ASSUME \A o \in Op : op'[o].status \in Success => o \in reached, RReturn(r)
      PROVE  SuccessWitnessed'
  <2>1. \A q \in Reconcilers \ {r} : rtodo'[q] = rtodo[q] /\ verdict'[q] = verdict[q]
    BY <1>0, <1>2 DEF RReturn, CallsOK
  <2>2. QED
    BY <1>1, <1>2, <2>1 DEF RReturn, ReconcilerPc
<1>3. ASSUME NEW o \in Op, NEW s \in Evidence, RecordAndGoOn(r, o, s),
             s \in Success => o \in reached
      PROVE  SuccessWitnessed'
  <2>1. \A p \in Op : op'[p].status \in Success => p \in reached
    <3>1. CASE RecordReconciliation(o, s)
      <4>1. op'[o].status = s /\ \A p \in Op \ {o} : op'[p] = op[p]
        BY <1>0, <3>1 DEF RecordReconciliation
      <4>2. QED
        BY <1>3, <4>1
    <3>2. CASE UNCHANGED op
      BY <3>2
    <3>3. QED
      BY <1>3, <3>1, <3>2 DEF RecordAndGoOn, storeVars
  <2>2. CASE RReturn(r)
    BY <1>2, <2>1, <2>2
  <2>3. CASE /\ rtodo' = [rtodo EXCEPT ![r] = @ \ {o}]
             /\ RGoto(r, "scan")
             /\ UNCHANGED verdict
    <3>1. \A q \in Reconcilers \ {r} : rtodo'[q] = rtodo[q] /\ verdict'[q] = verdict[q]
      BY <1>0, <2>3 DEF CallsOK
    <3>2. QED
      BY <1>1, <2>1, <2>3, <3>1 DEF ReconcilerPc
  <2>4. QED
    BY <1>3, <2>2, <2>3 DEF RecordAndGoOn
<1>4. CASE ReconcileBegin(r)
  BY <1>1, <1>4 DEF ReconcileBegin, BeginReconcile, ReconcilerPc
<1>5. CASE ReconcileCheck(r)
  <2>1. UNCHANGED <<op, rtodo, verdict>>
    BY <1>5 DEF ReconcileCheck, storeVars
  <2>2. \E label \in {"read", "idle"} : RGoto(r, label)
    BY <1>5 DEF ReconcileCheck
  <2>3. QED
    BY <1>1, <2>1, <2>2 DEF ReconcilerPc
<1>6. CASE ReconcileRead(r)
  <2>1. UNCHANGED op
    BY <1>6 DEF ReconcileRead, storeVars
  <2>2. CASE RReturn(r)
    BY <1>2, <2>1, <2>2
  <2>3. CASE ~RReturn(r)
    <3>1. \A q \in Reconcilers \ {r} : rtodo'[q] = rtodo[q] /\ verdict'[q] = verdict[q]
      BY <1>0, <1>6, <2>3 DEF ReconcileRead, CallsOK
    <3>2. QED
      BY <1>1, <1>6, <2>1, <2>3, <3>1 DEF ReconcileRead, ReconcilerPc
  <2>4. QED
    BY <2>2, <2>3
<1>7. CASE ReconcileIssued(r)
  BY <1>3, <1>7 DEF ReconcileIssued, Evidence, ApplyStatus, Success
<1>8. CASE ReconcileObserve(r)
  <2>1. PICK o \in Op :
          /\ First(o, rtodo[r])
          /\ verdict' = [verdict EXCEPT ![r] = Verdict(snapshot[r][o], element[o])]
    BY <1>8 DEF ReconcileObserve
  <2>2. verdict'[r] \in Success => o \in reached
    BY <1>0, <2>1 DEF Verdict, ReconcileOperationState, Observation, CallsOK, Success
  <2>3. \A p \in Op : First(p, rtodo[r]) => p = o
    BY <2>1 DEF First, Op
  <2>4. UNCHANGED <<op, rtodo>> /\ rpc' = [rpc EXCEPT ![r] = "record"]
    BY <1>8 DEF ReconcileObserve, RGoto, storeVars
  <2>5. \A q \in Reconcilers \ {r} : verdict'[q] = verdict[q] /\ rpc'[q] = rpc[q]
    BY <1>0, <2>1, <2>4 DEF CallsOK
  <2>6. \A q \in Reconcilers, p \in Op :
          rpc'[q] = "record" /\ verdict'[q] \in Success /\ First(p, rtodo[q]) => p \in reached
    BY <2>2, <2>3, <2>5
  <2>7. QED
    BY <2>4, <2>6 DEF First
<1>9. CASE ReconcileRecord(r)
  <2>1. verdict[r] \in Evidence
    BY <1>0 DEF CallsOK
  <2>2. QED
    BY <1>3, <1>9, <2>1 DEF ReconcileRecord
<1>10. CASE ReconcileFails(r)
  BY <1>2, <1>10 DEF ReconcileFails, storeVars
<1>11. QED
  BY <1>4, <1>5, <1>6, <1>7, <1>8, <1>9, <1>10 DEF ReconcilerStep

LEMMA SuccessEnvironmentStep ==
  ASSUME IInv, SuccessWitnessed, Environment \/ UNCHANGED vars
  PROVE  SuccessWitnessed'
<1>1. element \in [Op -> Observation]
  BY IInvParts DEF CallsOK
<1>2. UNCHANGED <<op, pc, receipt, cur, rpc, rtodo, verdict>>
  BY DEF Environment, ServerCommits, ServerDrops, OtherWriter, Clock, LeaseExpires,
         PlanExpires, vars, storeVars, workerVars, reconcilerVars
<1>3. /\ reached \subseteq reached'
      /\ \A o \in Op : element'[o] = "desired" => element[o] = "desired" \/ o \in reached'
  BY <1>1 DEF Environment, ServerCommits, ServerDrops, OtherWriter, Clock, SetElement,
              vars, graphVars
<1>4. QED
  BY <1>2, <1>3 DEF SuccessWitnessed, SuccessProven, First

\* An operation is never reported as applied, by an executor or a reconciler,
\* without its object having been in the desired state.
THEOREM SuccessesAreProven == Spec => []SuccessProven
<1>1. Init => SuccessWitnessed
  BY DEF Init, StoreInit, IssuedRows, SuccessWitnessed, SuccessProven, Success
<1>2. IInv /\ SuccessWitnessed /\ [Next]_vars => SuccessWitnessed'
  BY SuccessWorkerStep, SuccessReconcilerStep, SuccessEnvironmentStep DEF Next
<1>3. SuccessWitnessed => SuccessProven
  BY DEF SuccessWitnessed
<1>4. QED
  BY <1>1, <1>2, <1>3, Invariance, PTL DEF Spec
-----------------------------------------------------------------------------
(* Retries, when nothing else runs during a reconcile call                 *)

\* What a reconcile call read once still holds for the operations it has yet
\* to visit, and an operation that may be claimed never was.
SnapshotCurrent ==
  /\ \A q, r \in Reconcilers : rpc[q] # "idle" /\ rpc[r] # "idle" => q = r
  /\ \A r \in Reconcilers, o \in Op :
       rpc[r] \in {"scan", "record"} /\ o \in rtodo[r] => op[o] = snapshot[r][o]
  /\ \A r \in Reconcilers, o \in Op :
       rpc[r] = "record" /\ verdict[r] = "RETRYABLE_NOT_APPLIED" /\ First(o, rtodo[r])
         => op[o].attempt = 0
  /\ \A o \in Op : op[o].status \in {"ISSUED", "RETRYABLE_NOT_APPLIED"} => op[o].attempt = 0
  /\ \A o \in Op : op[o].attempt <= 1

LEMMA SnapshotWorkerStep ==
  ASSUME ~Interleaved, IInv, SnapshotCurrent, NEW w \in Worker, WorkerStep(w)
  PROVE  SnapshotCurrent'
<1>1. CallsOK /\ op \in [Op -> OperationRow]
  BY IInvParts DEF StoreInv, StoreTypeOK
<1>2. /\ \A r \in Reconcilers : rpc[r] = "idle"
      /\ UNCHANGED rpc
  BY DEF WorkerStep, MayRun, ConfirmStart, ConfirmExpire, ResumeStart, Claim,
         LoadOperations, ClaimNext, AdapterRead, AdapterWrite, AdapterVerify, Record,
         reconcilerVars
<1>3. ASSUME \A o \in Op : op'[o].status \in {"ISSUED", "RETRYABLE_NOT_APPLIED"}
                              => op'[o].attempt = 0,
             \A o \in Op : op'[o].attempt <= 1
      PROVE  SnapshotCurrent'
  BY <1>2, <1>3 DEF SnapshotCurrent
<1>4. CASE UNCHANGED op
  BY <1>3, <1>4 DEF SnapshotCurrent
<1>5. ASSUME NEW o \in Op, ClaimOperation(w, o)
      PROVE  SnapshotCurrent'
  <2>1. op[o].attempt = 0
    BY <1>5 DEF ClaimOperation, CanClaimOperation, SnapshotCurrent
  <2>2. op'[o].status = "EXECUTING" /\ op'[o].attempt = 1
    BY <1>1, <1>5, <2>1 DEF ClaimOperation
  <2>3. \A p \in Op \ {o} : op'[p] = op[p]
    BY <1>1, <1>5 DEF ClaimOperation
  <2>4. QED
    BY <1>3, <2>2, <2>3 DEF SnapshotCurrent
<1>6. CASE RecordReceipt(w, cur[w], attempt[w], receipt[w])
  <2>1. cur[w] \in Op /\ receipt[w] \notin {"ISSUED", "RETRYABLE_NOT_APPLIED"}
    BY <1>1 DEF CallsOK, Receipt, Evidence, ApplyStatus
  <2>2. op'[cur[w]].status = receipt[w] /\ op'[cur[w]].attempt = op[cur[w]].attempt
    BY <1>1, <1>6, <2>1 DEF RecordReceipt, OperationRow
  <2>3. \A p \in Op \ {cur[w]} : op'[p] = op[p]
    BY <1>1, <1>6 DEF RecordReceipt
  <2>4. QED
    BY <1>3, <2>1, <2>2, <2>3 DEF SnapshotCurrent
<1>7. QED
  BY <1>4, <1>5, <1>6
     DEF WorkerStep, ConfirmStart, ConfirmExpire, ResumeStart, Claim, LoadOperations,
         ClaimNext, AdapterRead, AdapterWrite, AdapterVerify, Record, TransitionPlan,
         ClaimPlan, storeVars

LEMMA SnapshotReconcilerStep ==
  ASSUME ~Interleaved, IInv, SnapshotCurrent,
         NEW r \in Reconcilers, ReconcilerStep(r) \/ ReconcileFails(r)
  PROVE  SnapshotCurrent'
<1>1. CallsOK /\ op \in [Op -> OperationRow]
  BY IInvParts DEF StoreInv, StoreTypeOK
<1>2. \A q \in Reconcilers \ {r} : rpc[q] = "idle" /\ rpc'[q] = "idle"
  <2>1. \A q \in Reconcilers \ {r} : rpc[q] = "idle"
    BY DEF ReconcilerStep, ReconcileBegin, ReconcileCheck, ReconcileRead, ReconcileIssued,
           ReconcileObserve, ReconcileRecord, ReconcileFails, SnapshotCurrent
  <2>2. \E label \in ReconcilerPc : rpc' = [rpc EXCEPT ![r] = label]
    BY DEF ReconcilerStep, ReconcileBegin, ReconcileCheck, ReconcileRead, ReconcileIssued,
           ReconcileObserve, ReconcileRecord, ReconcileFails, RecordAndGoOn, RReturn,
           RGoto, ReconcilerPc
  <2>3. QED
    BY <1>1, <2>1, <2>2 DEF CallsOK
<1>3. ASSUME rpc'[r] \notin {"scan", "record"},
             \A o \in Op : op'[o].status \in {"ISSUED", "RETRYABLE_NOT_APPLIED"}
                              => op'[o].attempt = 0,
             \A o \in Op : op'[o].attempt <= 1
      PROVE  SnapshotCurrent'
  BY <1>2, <1>3 DEF SnapshotCurrent
<1>4. ASSUME RReturn(r), UNCHANGED op
      PROVE  SnapshotCurrent'
  <2>1. rpc'[r] = "idle"
    BY <1>1, <1>4 DEF RReturn, RGoto, CallsOK
  <2>2. QED
    BY <1>3, <1>4, <2>1 DEF SnapshotCurrent
<1>5. ASSUME NEW o \in Op, NEW s \in Evidence, RecordAndGoOn(r, o, s),
             s = "RETRYABLE_NOT_APPLIED" => op[o].attempt = 0,
             rpc[r] \in {"scan", "record"}
      PROVE  SnapshotCurrent'
  <2>1. CASE RReturn(r) /\ UNCHANGED storeVars
    BY <1>4, <2>1 DEF storeVars
  <2>2. CASE RecordReconciliation(o, s)
    <3>1. /\ op'[o].status = s /\ op'[o].attempt = op[o].attempt
          /\ \A p \in Op \ {o} : op'[p] = op[p]
      BY <1>1, <2>2 DEF RecordReconciliation, OperationRow
    <3>2. /\ \A p \in Op : op'[p].status \in {"ISSUED", "RETRYABLE_NOT_APPLIED"}
                              => op'[p].attempt = 0
          /\ \A p \in Op : op'[p].attempt <= 1
      BY <1>5, <3>1 DEF SnapshotCurrent, Evidence, ApplyStatus
    <3>3. CASE RReturn(r)
      <4>1. rpc'[r] = "idle"
        BY <1>1, <3>3 DEF RReturn, RGoto, CallsOK
      <4>2. QED
        BY <1>3, <3>2, <4>1
    <3>4. CASE /\ rtodo' = [rtodo EXCEPT ![r] = @ \ {o}]
               /\ RGoto(r, "scan")
               /\ UNCHANGED <<snapshot, verdict>>
      <4>1. rpc'[r] = "scan" /\ rtodo'[r] = rtodo[r] \ {o}
        BY <1>1, <3>4 DEF RGoto, CallsOK
      <4>2. \A p \in Op : p \in rtodo'[r] => op'[p] = snapshot'[r][p]
        BY <1>5, <3>1, <3>4, <4>1 DEF SnapshotCurrent
      <4>3. QED
        BY <1>2, <3>2, <4>1, <4>2 DEF SnapshotCurrent
    <3>5. QED
      BY <1>5, <2>2, <3>3, <3>4 DEF RecordAndGoOn, RecordReconciliation
  <2>3. QED
    BY <1>5, <2>1, <2>2 DEF RecordAndGoOn
<1>6. CASE ReconcileBegin(r)
  <2>1. rpc'[r] = "opened" /\ UNCHANGED op
    BY <1>1, <1>6 DEF ReconcileBegin, BeginReconcile, RGoto, CallsOK
  <2>2. QED
    BY <1>3, <2>1 DEF SnapshotCurrent
<1>7. CASE ReconcileCheck(r)
  <2>1. rpc'[r] \in {"read", "idle"} /\ UNCHANGED op
    BY <1>1, <1>7 DEF ReconcileCheck, RGoto, CallsOK, storeVars
  <2>2. QED
    BY <1>3, <2>1 DEF SnapshotCurrent
<1>8. CASE ReconcileRead(r)
  <2>1. CASE RReturn(r)
    BY <1>4, <1>8, <2>1 DEF ReconcileRead, storeVars
  <2>2. CASE ~RReturn(r)
    <3>1. rpc'[r] = "scan" /\ snapshot'[r] = op /\ UNCHANGED op
      BY <1>1, <1>8, <2>2 DEF ReconcileRead, RGoto, CallsOK, storeVars
    <3>2. QED
      BY <1>2, <3>1 DEF SnapshotCurrent
  <2>3. QED
    BY <2>1, <2>2
<1>9. CASE ReconcileIssued(r)
  <2>1. PICK o \in Op : /\ First(o, rtodo[r])
                       /\ snapshot[r][o].status = "ISSUED"
                       /\ RecordAndGoOn(r, o, "RETRYABLE_NOT_APPLIED")
    BY <1>9 DEF ReconcileIssued
  <2>2. op[o].attempt = 0
    BY <1>9, <2>1 DEF ReconcileIssued, SnapshotCurrent, First
  <2>3. QED
    BY <1>5, <1>9, <2>1, <2>2 DEF ReconcileIssued, Evidence, ApplyStatus
<1>10. CASE ReconcileObserve(r)
  <2>1. PICK o \in Op :
          /\ First(o, rtodo[r])
          /\ verdict' = [verdict EXCEPT ![r] = Verdict(snapshot[r][o], element[o])]
    BY <1>10 DEF ReconcileObserve
  <2>2. UNCHANGED <<op, rtodo, snapshot>> /\ rpc[r] = "scan" /\ rpc'[r] = "record"
    BY <1>1, <1>10 DEF ReconcileObserve, RGoto, CallsOK, storeVars
  <2>3. snapshot[r][o] = op[o] /\ op[o].attempt \in Nat
    BY <1>1, <2>1, <2>2 DEF SnapshotCurrent, First, OperationRow
  <2>4. verdict'[r] = "RETRYABLE_NOT_APPLIED" => op[o].attempt = 0
    BY <1>1, <2>1, <2>3 DEF Verdict, CallsOK
  <2>5. \A p \in Op : First(p, rtodo[r]) => p = o
    BY <2>1 DEF First, Op
  <2>6. QED
    BY <1>2, <2>2, <2>4, <2>5 DEF SnapshotCurrent, First
<1>11. CASE ReconcileRecord(r)
  <2>1. verdict[r] \in Evidence
    BY <1>1 DEF CallsOK
  <2>2. PICK o \in Op : First(o, rtodo[r]) /\ RecordAndGoOn(r, o, verdict[r])
    BY <1>11 DEF ReconcileRecord
  <2>3. verdict[r] = "RETRYABLE_NOT_APPLIED" => op[o].attempt = 0
    BY <1>11, <2>2 DEF ReconcileRecord, SnapshotCurrent
  <2>4. QED
    BY <1>5, <1>11, <2>1, <2>2, <2>3 DEF ReconcileRecord
<1>12. CASE ReconcileFails(r)
  BY <1>4, <1>12 DEF ReconcileFails, storeVars
<1>13. QED
  BY <1>6, <1>7, <1>8, <1>9, <1>10, <1>11, <1>12 DEF ReconcilerStep

LEMMA SnapshotEnvironmentStep ==
  ASSUME SnapshotCurrent, Environment \/ UNCHANGED vars
  PROVE  SnapshotCurrent'
<1>1. UNCHANGED <<op, rpc, snapshot, rtodo, verdict>>
  BY DEF Environment, ServerCommits, ServerDrops, OtherWriter, Clock, LeaseExpires,
         PlanExpires, vars, storeVars, reconcilerVars
<1>2. QED
  BY <1>1 DEF SnapshotCurrent, First

LEMMA SnapshotsAreCurrent == ~Interleaved => (Spec => []SnapshotCurrent)
<1> SUFFICES ASSUME ~Interleaved
             PROVE  Spec => []SnapshotCurrent
  OBVIOUS
<1>1. Init => SnapshotCurrent
  BY DEF Init, StoreInit, IssuedRows, SnapshotCurrent
<1>2. IInv /\ SnapshotCurrent /\ [Next]_vars => SnapshotCurrent'
  BY SnapshotWorkerStep, SnapshotReconcilerStep, SnapshotEnvironmentStep DEF Next
<1>3. QED
  BY <1>1, <1>2, Invariance, PTL DEF Spec

\* While a reconcile call runs alone, an operation is marked retryable only if
\* it was never claimed.
THEOREM RetryableOnlyUnclaimed == ~Interleaved => (Spec => []RetryableNeverClaimed)
<1>1. SnapshotCurrent => RetryableNeverClaimed
  BY DEF SnapshotCurrent, RetryableNeverClaimed
<1>2. QED
  BY <1>1, SnapshotsAreCurrent, PTL

\* While a reconcile call runs alone, no operation is ever sent twice.
THEOREM NeverReplayed == ~Interleaved => (Spec => []NoReplay)
<1>1. SnapshotCurrent => NoReplay
  BY DEF SnapshotCurrent, NoReplay
<1>2. QED
  BY <1>1, SnapshotsAreCurrent, PTL
=============================================================================
