---------------------------- MODULE WriteProtocol ----------------------------
(***************************************************************************)
(* The canonical write protocol of hugegraph-mcp around one plan: confirm  *)
(* and resume calls (write_executor.py) that claim the plan and apply its  *)
(* operations through the registered adapters (graph_write_adapter.py,     *)
(* schema_write_adapter.py), reconcile calls (reconciler.py) that settle   *)
(* what a lost executor left behind, and the graph server, where a request *)
(* may still be under way after its caller gave up.                        *)
(*                                                                         *)
(* A call that stalls for ever and a process that dies are the same thing: *)
(* nothing makes an executor take its next step.                           *)
(***************************************************************************)
EXTENDS PlanStore

CONSTANTS Resumers,         \* the workers that are resume calls; others confirm
          Reconcilers,      \* clients that call reconcile, again and again
          Interleaved,      \* do other calls run during a reconcile call?
          ReconcilersDie,   \* may a reconcile call die half-way?
          Foreign           \* states other writers of the graph leave objects in

ASSUME CallAssumption ==
  /\ Resumers \subseteq Worker
  /\ Interleaved \in BOOLEAN
  /\ ReconcilersDie \in BOOLEAN
  /\ Foreign \subseteq Observation

VARIABLES
  pc,        \* where each confirm or resume call stands
  todo,      \* operations its loop has yet to visit, from one read
  cur,       \* the operation it works on
  attempt,   \* the attempt number claim_operation returned
  receipt,   \* the status of the receipt it is about to record
  rpc,       \* where each reconcile call stands
  snapshot,  \* the rows the reconcile call read once
  rtodo,     \* operations its loop has yet to visit
  verdict,   \* the status it is about to record
  element,   \* each operation's object in the graph
  requests,  \* writes sent to the graph server and not processed yet
  reached    \* objects that were in the desired state at some time

workerVars == <<pc, todo, cur, attempt, receipt>>
reconcilerVars == <<rpc, snapshot, rtodo, verdict>>
graphVars == <<element, requests, reached>>
vars == <<storeVars, workerVars, reconcilerVars, graphVars>>

WorkerPc == {"start", "expire", "claim", "load", "next", "adapter", "write",
             "reply", "record", "done"}
ReconcilerPc == {"idle", "opened", "read", "scan", "record"}

TypeOK ==
  /\ StoreTypeOK
  /\ pc \in [Worker -> WorkerPc]
  /\ todo \in [Worker -> SUBSET Op]
  /\ cur \in [Worker -> Op]
  /\ attempt \in [Worker -> Nat]
  /\ receipt \in [Worker -> ApplyStatus]
  /\ rpc \in [Reconcilers -> ReconcilerPc]
  /\ snapshot \in [Reconcilers -> [Op -> OperationRow]]
  /\ rtodo \in [Reconcilers -> SUBSET Op]
  /\ verdict \in [Reconcilers -> ApplyStatus]
  /\ element \in [Op -> Observation]
  /\ requests \subseteq Op \X Worker
  /\ reached \subseteq Op

\* Locals that have not been assigned yet have an arbitrary fixed value.
Init ==
  /\ StoreInit
  /\ pc = [w \in Worker |-> "start"]
  /\ todo = [w \in Worker |-> {}]
  /\ cur = [w \in Worker |-> 1]
  /\ attempt = [w \in Worker |-> 0]
  /\ receipt = [w \in Worker |-> "UNKNOWN"]
  /\ rpc = [r \in Reconcilers |-> "idle"]
  /\ snapshot = [r \in Reconcilers |-> IssuedRows]
  /\ rtodo = [r \in Reconcilers |-> {}]
  /\ verdict = [r \in Reconcilers |-> "UNKNOWN"]
  /\ element = [o \in Op |-> "expected"]
  /\ requests = {}
  /\ reached = {}
-----------------------------------------------------------------------------
(* Confirm and resume calls                                                *)

\* Without Interleaved, workers pause while a reconcile call runs; one that
\* was under way before continues after it.
MayRun == Interleaved \/ \A r \in Reconcilers : rpc[r] = "idle"

Goto(w, label) == pc' = [pc EXCEPT ![w] = label]

\* The call ends and its locals are gone.
Return(w) ==
  /\ Goto(w, "done")
  /\ todo' = [todo EXCEPT ![w] = {}]
  /\ cur' = [cur EXCEPT ![w] = 1]
  /\ attempt' = [attempt EXCEPT ![w] = 0]
  /\ receipt' = [receipt EXCEPT ![w] = "UNKNOWN"]

\* Mutation: the rows come in no particular order.
AnyOf(o, S) == o \in S

\* The first of the operations S in plan order (ORDER BY ordinal).
First(o, S) == o \in S /\ \A q \in S : o <= q

\* confirm, up to its first transaction: an issued plan past its time is
\* expired, any other is claimed.
ConfirmStart(w) ==
  /\ pc[w] = "start" /\ w \notin Resumers
  /\ Goto(w, IF expired /\ planStatus = "ISSUED" THEN "expire" ELSE "claim")
  /\ UNCHANGED <<storeVars, todo, cur, attempt, receipt, reconcilerVars, graphVars>>

\* The compare-and-set raises when another confirm was faster.
ConfirmExpire(w) ==
  /\ pc[w] = "expire"
  /\ IF CanTransitionPlan("ISSUED", "EXPIRED")
     THEN TransitionPlan("ISSUED", "EXPIRED")
     ELSE UNCHANGED storeVars
  /\ Return(w)
  /\ UNCHANGED <<reconcilerVars, graphVars>>

\* resume, up to its claim: every operation succeeded or was reconciled as
\* retryable, and one is retryable.
Resumable ==
  /\ planStatus \in {"RETRYABLE_NOT_APPLIED", "PARTIAL"}
  /\ Some(Statuses, {"RETRYABLE_NOT_APPLIED"})
  /\ Every(Statuses, Success \cup {"RETRYABLE_NOT_APPLIED"})
  /\ \A o \in Op : op[o].status = "RETRYABLE_NOT_APPLIED" => op[o].reconciled

ResumeStart(w) ==
  /\ pc[w] = "start" /\ w \in Resumers
  /\ Resumable
  /\ Goto(w, "claim")
  /\ UNCHANGED <<storeVars, todo, cur, attempt, receipt, reconcilerVars, graphVars>>

\* Either kind of call claims the plan or ends.
Claim(w) ==
  /\ pc[w] = "claim"
  /\ IF CanClaimPlan(w \in Resumers)
     THEN /\ ClaimPlan(w, w \in Resumers)
          /\ Goto(w, "load")
          /\ UNCHANGED <<todo, cur, attempt, receipt>>
     ELSE UNCHANGED storeVars /\ Return(w)
  /\ UNCHANGED <<reconcilerVars, graphVars>>

\* _execute_claimed reads the operation statuses once, after the claim.
LoadOperations(w) ==
  /\ pc[w] = "load"
  /\ LET claimable == IF w \in Resumers THEN "RETRYABLE_NOT_APPLIED" ELSE "ISSUED"
         work == {o \in Op : op[o].status = claimable}
     IN  IF work = {} THEN Return(w)
         ELSE /\ todo' = [todo EXCEPT ![w] = work]
              /\ Goto(w, "next")
              /\ UNCHANGED <<cur, attempt, receipt>>
  /\ UNCHANGED <<storeVars, reconcilerVars, graphVars>>

\* claim_operation for the next operation in plan order; a refusal raises out
\* of the call.
ClaimNext(w) ==
  /\ pc[w] = "next"
  /\ \E o \in Op :
       /\ First(o, todo[w])
       /\ IF CanClaimOperation(w, o)
          THEN /\ ClaimOperation(w, o)
               /\ todo' = [todo EXCEPT ![w] = @ \ {o}]
               /\ cur' = [cur EXCEPT ![w] = o]
               /\ attempt' = [attempt EXCEPT ![w] = op[o].attempt + 1]
               /\ Goto(w, "adapter")
               /\ UNCHANGED receipt
          ELSE UNCHANGED storeVars /\ Return(w)
  /\ UNCHANGED <<reconcilerVars, graphVars>>

\* The adapter returned, or raised and the executor made its receipt UNKNOWN.
Outcome(w, s) ==
  /\ receipt' = [receipt EXCEPT ![w] = s]
  /\ Goto(w, "record")

\* The configured graph or permission no longer matches the plan.
Refuse(w) == Outcome(w, "REJECTED")

\* An adapter up to its write: the read may fail, and only the expected state
\* is written over.
AdapterRead(w) ==
  /\ pc[w] = "adapter"
  /\ \/ Refuse(w)
     \/ Outcome(w, "UNKNOWN")
     \/ element[cur[w]] = "desired" /\ Outcome(w, "ALREADY_APPLIED")
     \/ element[cur[w]] = "other" /\ Outcome(w, "CONFLICT")
     \/ element[cur[w]] = "expected" /\ Goto(w, "write") /\ UNCHANGED receipt
  /\ UNCHANGED <<storeVars, todo, cur, attempt, reconcilerVars, graphVars>>

\* A failed schema create raises; a failed deletion is an error value that is
\* never looked at, and the object is read in any case.
ReadsAfterFailure == Kind = "DELETE_EDGE"

\* The write leaves for the server, or fails before it does.
AdapterWrite(w) ==
  /\ pc[w] = "write"
  /\ \/ /\ requests' = requests \cup {<<cur[w], w>>}
        /\ Goto(w, "reply")
        /\ UNCHANGED receipt
     \/ /\ ReadsAfterFailure
        /\ Goto(w, "reply")
        /\ UNCHANGED <<requests, receipt>>
     \/ ~ReadsAfterFailure /\ Outcome(w, "UNKNOWN") /\ UNCHANGED requests
  /\ UNCHANGED <<storeVars, todo, cur, attempt, reconcilerVars, element, reached>>

\* apply_schema_operations after its create.
SchemaPostRead(observed) == IF observed = "other" THEN "CONFLICT" ELSE "UNKNOWN"

\* Mutation: the reason code in the place of the status.
PostWriteReason(observed) == "POST_WRITE_STATE_CONFLICT"

\* Mutation: a deletion whose object is still there did nothing.
PostWriteRejected(observed) == IF observed = "other" THEN "CONFLICT" ELSE "REJECTED"

\* Mutation: the write's own result is believed.
PostWriteTrusting(observed) == "APPLIED"

\* The status of a write whose object is not in the desired state afterwards.
PostWriteStatus(observed) ==
  IF Kind = "DELETE_EDGE" THEN "CONFLICT" ELSE SchemaPostRead(observed)

\* The adapter after its write.  A timed-out deletion goes on to the read; a
\* timed-out or refused schema create, or a failing read, is UNKNOWN.
AdapterVerify(w) ==
  /\ pc[w] = "reply"
  /\ \/ Outcome(w, "UNKNOWN")
     \/ /\ ReadsAfterFailure \/ <<cur[w], w>> \notin requests
        /\ Outcome(w, IF element[cur[w]] = "desired" THEN "APPLIED"
                      ELSE PostWriteStatus(element[cur[w]]))
  /\ UNCHANGED <<storeVars, todo, cur, attempt, reconcilerVars, graphVars>>

\* record_receipt; the loop goes on only after a success, and a refused
\* receipt raises out of the call.
Record(w) ==
  /\ pc[w] = "record"
  /\ IF CanRecordReceipt(w, cur[w], attempt[w], receipt[w])
     THEN /\ RecordReceipt(w, cur[w], attempt[w], receipt[w])
          /\ IF receipt[w] \in Success /\ todo[w] # {}
             THEN Goto(w, "next") /\ UNCHANGED <<todo, cur, attempt, receipt>>
             ELSE Return(w)
     ELSE UNCHANGED storeVars /\ Return(w)
  /\ UNCHANGED <<reconcilerVars, graphVars>>

WorkerStep(w) ==
  /\ MayRun
  /\ \/ ConfirmStart(w) \/ ConfirmExpire(w) \/ ResumeStart(w) \/ Claim(w)
     \/ LoadOperations(w) \/ ClaimNext(w) \/ AdapterRead(w) \/ AdapterWrite(w)
     \/ AdapterVerify(w) \/ Record(w)
-----------------------------------------------------------------------------
(* Reconcile calls                                                         *)

RGoto(r, label) == rpc' = [rpc EXCEPT ![r] = label]

\* The call ends and its locals are gone.
RReturn(r) ==
  /\ RGoto(r, "idle")
  /\ snapshot' = [snapshot EXCEPT ![r] = IssuedRows]
  /\ rtodo' = [rtodo EXCEPT ![r] = {}]
  /\ verdict' = [verdict EXCEPT ![r] = "UNKNOWN"]

\* begin_reconcile; with a live lease the call returns an error instead.
ReconcileBegin(r) ==
  /\ rpc[r] = "idle"
  /\ Interleaved \/ \A q \in Reconcilers : rpc[q] = "idle"
  /\ BeginReconcile
  /\ RGoto(r, "opened")
  /\ UNCHANGED <<workerVars, snapshot, rtodo, verdict, graphVars>>

\* begin_reconcile ends with a read of its own, and reconcile goes on only
\* for a plan in doubt.
ReconcileCheck(r) ==
  /\ rpc[r] = "opened"
  /\ RGoto(r, IF planStatus \in {"UNKNOWN", "LEGACY_UNKNOWN", "PARTIAL"}
              THEN "read" ELSE "idle")
  /\ UNCHANGED <<storeVars, workerVars, snapshot, rtodo, verdict, graphVars>>

\* The operation rows are read once; only those without an outcome matter.
ReconcileRead(r) ==
  /\ rpc[r] = "read"
  /\ LET work == {o \in Op : op[o].status \in Reconcilable}
     IN  IF work = {} THEN RReturn(r)
         ELSE /\ snapshot' = [snapshot EXCEPT ![r] = op]
              /\ rtodo' = [rtodo EXCEPT ![r] = work]
              /\ RGoto(r, "scan")
              /\ UNCHANGED verdict
  /\ UNCHANGED <<storeVars, workerVars, graphVars>>

\* record_reconciliation_receipt for o, then the next operation; a refusal
\* raises out of the call.
RecordAndGoOn(r, o, s) ==
  IF CanRecordReconciliation(o)
  THEN /\ RecordReconciliation(o, s)
       /\ IF rtodo[r] = {o} THEN RReturn(r)
          ELSE /\ rtodo' = [rtodo EXCEPT ![r] = @ \ {o}]
               /\ RGoto(r, "scan")
               /\ UNCHANGED <<snapshot, verdict>>
  ELSE UNCHANGED storeVars /\ RReturn(r)

\* An operation the snapshot shows as issued needs no read.
ReconcileIssued(r) ==
  /\ rpc[r] = "scan"
  /\ \E o \in Op :
       /\ First(o, rtodo[r])
       /\ snapshot[r][o].status = "ISSUED"
       /\ RecordAndGoOn(r, o, "RETRYABLE_NOT_APPLIED")
  /\ UNCHANGED <<workerVars, graphVars>>

\* Mutation: the read alone decides.
VerdictByRead(row, observed) == ReconcileOperationState(observed)

\* The state a read shows decides, but it cannot exclude that an attempt
\* already claimed commits later.
Verdict(row, observed) ==
  LET status == ReconcileOperationState(observed)
  IN  IF status = "RETRYABLE_NOT_APPLIED" /\ row.attempt > 0 THEN "UNKNOWN" ELSE status

ReconcileObserve(r) ==
  /\ rpc[r] = "scan"
  /\ \E o \in Op :
       /\ First(o, rtodo[r])
       /\ snapshot[r][o].status # "ISSUED"
       /\ verdict' = [verdict EXCEPT ![r] = Verdict(snapshot[r][o], element[o])]
  /\ RGoto(r, "record")
  /\ UNCHANGED <<storeVars, workerVars, snapshot, rtodo, graphVars>>

ReconcileRecord(r) ==
  /\ rpc[r] = "record"
  /\ \E o \in Op : First(o, rtodo[r]) /\ RecordAndGoOn(r, o, verdict[r])
  /\ UNCHANGED <<workerVars, graphVars>>

\* The reader raises, or the call dies.
ReconcileFails(r) ==
  /\ \/ rpc[r] = "scan"
        /\ \E o \in Op : First(o, rtodo[r]) /\ snapshot[r][o].status # "ISSUED"
     \/ ReconcilersDie /\ rpc[r] # "idle"
  /\ RReturn(r)
  /\ UNCHANGED <<storeVars, workerVars, graphVars>>

ReconcilerStep(r) ==
  \/ ReconcileBegin(r) \/ ReconcileCheck(r) \/ ReconcileRead(r) \/ ReconcileIssued(r)
  \/ ReconcileObserve(r) \/ ReconcileRecord(r)
-----------------------------------------------------------------------------
(* The graph server, other writers, and the clock                          *)

SetElement(o, e) ==
  /\ element' = [element EXCEPT ![o] = e]
  /\ reached' = IF e = "desired" THEN reached \cup {o} ELSE reached

\* A deletion drops whatever has the id; a create changes only a missing
\* object.
Effect(e) == IF Kind = "DELETE_EDGE" \/ e = "expected" THEN "desired" ELSE e

ServerCommits(o, w) ==
  /\ <<o, w>> \in requests
  /\ requests' = requests \ {<<o, w>>}
  /\ SetElement(o, Effect(element[o]))
  /\ UNCHANGED <<storeVars, workerVars, reconcilerVars>>

ServerDrops(o, w) ==
  /\ <<o, w>> \in requests
  /\ requests' = requests \ {<<o, w>>}
  /\ UNCHANGED <<storeVars, workerVars, reconcilerVars, element, reached>>

\* Another client of the graph changes the object.
OtherWriter(o, e) ==
  /\ e # element[o]
  /\ SetElement(o, e)
  /\ UNCHANGED <<storeVars, workerVars, reconcilerVars, requests>>

Clock ==
  /\ LeaseExpires \/ PlanExpires
  /\ UNCHANGED <<workerVars, reconcilerVars, graphVars>>

Environment ==
  \/ \E o \in Op, w \in Worker : ServerCommits(o, w) \/ ServerDrops(o, w)
  \/ \E o \in Op, e \in Foreign : OtherWriter(o, e)
  \/ Clock

Next ==
  \/ \E w \in Worker : WorkerStep(w)
  \/ \E r \in Reconcilers : ReconcilerStep(r) \/ ReconcileFails(r)
  \/ Environment

Spec == Init /\ [][Next]_vars

\* Leases run out, and callers go on reconciling, as the tools' contract asks
\* them to; a reader that can succeed again and again does so once.  Nothing
\* makes an executor, the server or another writer act.
LeaseClock == LeaseExpires /\ UNCHANGED <<workerVars, reconcilerVars, graphVars>>

Fairness ==
  /\ WF_vars(LeaseClock)
  /\ \A r \in Reconcilers :
       WF_vars(ReconcilerStep(r)) /\ SF_vars(ReconcileObserve(r))

FairSpec == Spec /\ Fairness
-----------------------------------------------------------------------------
(* Safety                                                                  *)

\* An operation reported as applied was really in its desired state at some
\* time, although it is read, reported and recorded in separate steps and
\* others write to the graph meanwhile (adapters, reconcile, record_receipt).
SuccessProven == \A o \in Op : op[o].status \in Success => o \in reached

\* docs/architecture.md: an operation is marked retryable only if it was never
\* claimed (record_reconciliation_receipt checks no attempt, so this rests on
\* the reconciler's snapshot).
RetryableNeverClaimed ==
  \A o \in Op : op[o].status = "RETRYABLE_NOT_APPLIED" => op[o].attempt = 0

\* No operation is ever claimed, and so sent, a second time: not by a second
\* confirm, not by resume after a reconciliation.
NoReplay == \A o \in Op : op[o].attempt <= 1

\* Operations are attempted in plan order: everything before a claimed
\* operation has succeeded (the loop of _execute_claimed stops otherwise, and
\* resume demands it of the operations it skips).
InPlanOrder ==
  \A o, p \in Op : p < o /\ op[o].attempt > 0 => op[p].status \in Success

\* A rejected operation has no request under way: REJECTED promises that no
\* mutation occurred.
RejectedUntouched ==
  \A o \in Op, w \in Worker : op[o].status = "REJECTED" => <<o, w>> \notin requests

\* docs/architecture.md: a claimed request remains unknown while an in-flight
\* commit cannot be excluded; so no outcome that denies the write is recorded
\* while the request may still commit.
DeniedOutcomeSettled ==
  \A o \in Op, w \in Worker :
    op[o].status \in {"REJECTED", "CONFLICT"} => <<o, w>> \notin requests

\* The plan's status never hides its operations: a success shows as PARTIAL or
\* better, and an outcome is the aggregate of the rows even though
\* claim_operation, claim_plan and begin_reconcile change one without the other.
TruthfulPlanStatus ==
  /\ Some(Statuses, Success) => planStatus \in {"PARTIAL", "APPLIED", "ALREADY_APPLIED"}
  /\ planStatus \notin {"ISSUED", "EXECUTING", "UNKNOWN", "EXPIRED"} =>
       planStatus = AggregatePersisted(Statuses)

\* A plan that expired was never executed, and never will be.
ExpiredUntouched ==
  planStatus = "EXPIRED" =>
    /\ op = IssuedRows
    /\ leaseOwner = NoWorker
    /\ \A w \in Worker : pc[w] \in {"start", "expire", "claim", "done"}

\* README: each operation records a durable receipt.  The executor that still
\* holds the lease of its attempt never has its receipt refused.
FencedReceiptRecorded ==
  \A w \in Worker :
    pc[w] = "record" /\ Fenced(w, cur[w], attempt[w])
      => LegalAggregate(cur[w], receipt[w])

(* Action properties                                                       *)

\* Recorded outcomes are final: neither a stale executor, a second
\* reconciliation nor a resume changes the outcome of an operation or the
\* status of a finished plan (record_reconciliation_receipt does not look at
\* the plan's status).
Final == Success \cup {"REJECTED", "CONFLICT"}

OutcomesAreFinal ==
  [][/\ \A o \in Op : op[o].status \in Final => op'[o].status = op[o].status
     /\ planStatus \in Terminal => planStatus' = planStatus]_vars

(* Liveness                                                                *)

\* A plan does not stay EXECUTING, whatever became of its executor.
ExecutionEnds == planStatus = "EXECUTING" ~> planStatus # "EXECUTING"

\* Once a plan was claimed, it ends, or every operation gets evidence: none
\* stays ISSUED or EXECUTING, where neither resume nor reconcile would pick it
\* up.
NothingLeftBehind ==
  planStatus \in {"EXECUTING", "UNKNOWN", "PARTIAL"}
    ~> planStatus \in Terminal \/ ~Some(Statuses, Pending)
=============================================================================
