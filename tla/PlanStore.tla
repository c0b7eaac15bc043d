------------------------------ MODULE PlanStore ------------------------------
(***************************************************************************)
(* The durable SQLite store (hugegraph_mcp/plan_store.py) of one canonical *)
(* plan.  Every method runs in one BEGIN IMMEDIATE transaction, so each is *)
(* one action here; the condition under which it commits is an operator of *)
(* its own, and where it is false the method raises and changes nothing.   *)
(*                                                                         *)
(* Plans share no row, so one plan is modelled.  A clock reading is        *)
(* modelled by what the code compares it with: leaseLive says that         *)
(* lease_expires_at is not NULL and lies in the future, expired that the   *)
(* clock is past expires_at.                                               *)
(***************************************************************************)
EXTENDS WritePlan

CONSTANTS Worker,   \* confirm and resume calls; each has a fresh owner token
          NoWorker  \* the SQL NULL of lease_owner and attempt_token

ASSUME NoWorkerAssumption == NoWorker \notin Worker

VARIABLES
  planStatus,  \* write_plans.status
  leaseOwner,  \* write_plans.lease_owner
  leaseLive,   \* write_plans.lease_expires_at compared with the clock
  expired,     \* write_plans.expires_at compared with the clock
  op           \* the rows of write_operations, by ordinal

storeVars == <<planStatus, leaseOwner, leaseLive, expired, op>>

\* A call claims each operation at most once, so the fresh attempt token of a
\* claim is named by the call that made it.
OperationRow == [status: OpStatus, attempt: Nat,
                 token: Worker \cup {NoWorker}, reconciled: BOOLEAN]

StoreTypeOK ==
  /\ planStatus \in PlanStatus
  /\ leaseOwner \in Worker \cup {NoWorker}
  /\ leaseLive \in BOOLEAN
  /\ expired \in BOOLEAN
  /\ op \in [Op -> OperationRow]

IssuedRows == [o \in Op |-> [status |-> "ISSUED", attempt |-> 0,
                              token |-> NoWorker, reconciled |-> FALSE]]

\* save_plan: the plan a dry run has just issued.
StoreInit ==
  /\ planStatus = "ISSUED"
  /\ leaseOwner = NoWorker
  /\ leaseLive = FALSE
  /\ expired = FALSE
  /\ op = IssuedRows

\* Operation statuses, and the same once o has status s.
Statuses == [o \in Op |-> op[o].status]
StatusesWith(o, s) == [Statuses EXCEPT ![o] = s]
-----------------------------------------------------------------------------
\* Mutation: no comparison with the durable status.
TransitionUnchecked(expected, target) == CanTransition(expected, target)

\* transition_plan: compare-and-set along the transition table.
CanTransitionPlan(expected, target) ==
  CanTransition(expected, target) /\ planStatus = expected

TransitionPlan(expected, target) ==
  /\ CanTransitionPlan(expected, target)
  /\ planStatus' = target
  /\ UNCHANGED <<leaseOwner, leaseLive, expired, op>>

\* claim_plan: elect one executor.  The code reads the clock before it waits
\* for the transaction; a lease shortened by that wait is one that expires
\* right after the claim.
ClaimablePlan(resume) ==
  {"ISSUED"} \cup IF resume THEN {"RETRYABLE_NOT_APPLIED", "PARTIAL"} ELSE {}

CanClaimPlan(resume) == planStatus \in ClaimablePlan(resume) /\ ~leaseLive

ClaimPlan(w, resume) ==
  /\ CanClaimPlan(resume)
  /\ planStatus' = IF planStatus = "PARTIAL" THEN "PARTIAL" ELSE "EXECUTING"
  /\ leaseOwner' = w
  /\ leaseLive' = TRUE
  /\ UNCHANGED <<expired, op>>

\* claim_operation: count and fence one attempt; renews a lease still live.
CanClaimOperation(w, o) ==
  /\ leaseLive
  /\ leaseOwner = w
  /\ op[o].status \in {"ISSUED", "RETRYABLE_NOT_APPLIED"}

ClaimOperation(w, o) ==
  /\ CanClaimOperation(w, o)
  /\ op' = [op EXCEPT ![o] = [status |-> "EXECUTING", attempt |-> @.attempt + 1,
                              token |-> w, reconciled |-> FALSE]]
  /\ UNCHANGED <<planStatus, leaseOwner, leaseLive, expired>>

\* record_receipt: only the live attempt of the live lease may record, and
\* only if the new aggregate is a legal successor of the plan's status.
Fenced(w, o, n) ==
  /\ op[o].status = "EXECUTING"
  /\ op[o].attempt = n
  /\ op[o].token = w
  /\ leaseOwner = w
  /\ leaseLive

LegalAggregate(o, s) ==
  LET aggregate == AggregatePersisted(StatusesWith(o, s))
  IN  aggregate = planStatus \/ CanTransition(planStatus, aggregate)

CanRecordReceipt(w, o, n, s) == Fenced(w, o, n) /\ LegalAggregate(o, s)

RecordReceipt(w, o, n, s) ==
  LET aggregate == AggregatePersisted(StatusesWith(o, s))
      keepLease == s \in Success /\ aggregate \in {"EXECUTING", "PARTIAL"}
  IN  /\ CanRecordReceipt(w, o, n, s)
      /\ op' = [op EXCEPT ![o].status = s]
      /\ planStatus' = aggregate
      /\ leaseOwner' = IF keepLease THEN leaseOwner ELSE NoWorker
      /\ leaseLive' = (keepLease /\ leaseLive)
      /\ UNCHANGED expired

\* begin_reconcile: fence an executor whose lease has run out.
CanBeginReconcile == ~leaseLive

\* Mutation: the lease is cleared but the plan stays EXECUTING.
BeginReconcileKeepsStatus ==
  /\ CanBeginReconcile
  /\ leaseOwner' = NoWorker
  /\ UNCHANGED <<planStatus, leaseLive, expired, op>>

\* Mutation: every unfinished plan becomes UNKNOWN, a partial one too.
BeginReconcileForgetsPartial ==
  /\ CanBeginReconcile
  /\ planStatus' = IF planStatus \in {"EXECUTING", "PARTIAL"} THEN "UNKNOWN" ELSE planStatus
  /\ leaseOwner' = NoWorker
  /\ UNCHANGED <<leaseLive, expired, op>>

BeginReconcile ==
  /\ CanBeginReconcile
  /\ planStatus' = IF planStatus = "EXECUTING" THEN "UNKNOWN" ELSE planStatus
  /\ leaseOwner' = IF planStatus \in {"EXECUTING", "UNKNOWN", "LEGACY_UNKNOWN", "PARTIAL"}
                   THEN NoWorker ELSE leaseOwner
  /\ UNCHANGED <<leaseLive, expired, op>>

\* Mutation: only operations that were started are reconciled.
ReconcilableStarted == {"EXECUTING", "UNKNOWN", "LEGACY_UNKNOWN"}

\* The operations that have no outcome yet.
Reconcilable == {"ISSUED", "EXECUTING", "UNKNOWN", "LEGACY_UNKNOWN"}

\* Mutation: the row is updated whatever its status.
RecordReconciliationUnchecked(o) == leaseOwner = NoWorker

CanRecordReconciliation(o) ==
  leaseOwner = NoWorker /\ op[o].status \in Reconcilable

\* record_reconciliation_receipt: no attempt and no transition is checked.
RecordReconciliation(o, s) ==
  /\ CanRecordReconciliation(o)
  /\ op' = [op EXCEPT ![o].status = s, ![o].reconciled = TRUE]
  /\ planStatus' = AggregatePersisted(StatusesWith(o, s))
  /\ UNCHANGED <<leaseOwner, leaseLive, expired>>

\* The clock passes lease_expires_at, or expires_at.
LeaseExpires ==
  /\ leaseLive
  /\ leaseLive' = FALSE
  /\ UNCHANGED <<planStatus, leaseOwner, expired, op>>

PlanExpires ==
  /\ ~expired
  /\ expired' = TRUE
  /\ UNCHANGED <<planStatus, leaseOwner, leaseLive, op>>

=============================================================================
