------------------------------ MODULE WritePlan ------------------------------
(***************************************************************************)
(* Vocabulary of a canonical write plan: the statuses of plans and of      *)
(* operations, the plan transition table, the aggregation of operation     *)
(* evidence into a plan status, and the classification of an observed      *)
(* backend state.  No state of its own; hugegraph_mcp/write_plan.py and    *)
(* the pure parts of plan_store.py and reconciler.py.                      *)
(***************************************************************************)
EXTENDS Naturals

CONSTANTS NumOps,   \* length of the plan's ordered operation list
          Kind      \* kind of every operation of the plan

\* Only these two kinds have a registered adapter, so only their plans are
\* ever claimed, and a schema plan has exactly one operation.
ASSUME PlanAssumption ==
  /\ NumOps \in Nat \ {0}
  /\ Kind \in {"DELETE_EDGE", "CREATE_SCHEMA"}
  /\ Kind = "CREATE_SCHEMA" => NumOps = 1

Op == 1 .. NumOps

ApplyStatus == {"APPLIED", "ALREADY_APPLIED", "REJECTED", "CONFLICT", "PARTIAL",
                "UNKNOWN", "LEGACY_UNKNOWN", "RETRYABLE_NOT_APPLIED"}

PlanStatus == ApplyStatus \cup {"ISSUED", "EXECUTING", "EXPIRED"}

OpStatus == ApplyStatus \cup {"ISSUED", "EXECUTING"}

Success == {"APPLIED", "ALREADY_APPLIED"}

\* ALLOWED_PLAN_TRANSITIONS, as a function from a status to its successors.
AllowedPlanTransitions ==
  [s \in PlanStatus |->
     CASE s = "ISSUED"    -> {"EXECUTING", "EXPIRED"}
       [] s = "EXECUTING" -> {"APPLIED", "ALREADY_APPLIED", "REJECTED",
                              "CONFLICT", "PARTIAL", "UNKNOWN"}
       [] s \in {"UNKNOWN", "LEGACY_UNKNOWN"}
                          -> {"APPLIED", "CONFLICT", "RETRYABLE_NOT_APPLIED"}
       [] s = "RETRYABLE_NOT_APPLIED" -> {"EXECUTING"}
       [] s = "PARTIAL"   -> {"PARTIAL", "APPLIED", "UNKNOWN"}
       [] OTHER           -> {}]

CanTransition(current, target) == target \in AllowedPlanTransitions[current]

\* The statuses the table lets nothing leave.
Terminal == {"APPLIED", "ALREADY_APPLIED", "REJECTED", "CONFLICT", "EXPIRED"}

Some(st, S) == \E o \in DOMAIN st : st[o] \in S
Every(st, S) == \A o \in DOMAIN st : st[o] \in S

\* aggregate_plan_status: every operation of st (Op -> ApplyStatus) has an
\* outcome.
AggregatePlanStatus(st) ==
  IF Every(st, {"ALREADY_APPLIED"}) THEN "ALREADY_APPLIED"
  ELSE IF Every(st, Success) THEN "APPLIED"
  ELSE IF Some(st, Success \cup {"PARTIAL"}) THEN "PARTIAL"
  ELSE IF Some(st, {"UNKNOWN"}) THEN "UNKNOWN"
  ELSE IF Some(st, {"CONFLICT"}) THEN "CONFLICT"
  ELSE IF Some(st, {"RETRYABLE_NOT_APPLIED"}) THEN "RETRYABLE_NOT_APPLIED"
  ELSE "REJECTED"

\* An operation without an outcome: its status is no ApplyStatus.
Pending == {"ISSUED", "EXECUTING"}

\* _aggregate_persisted_statuses: the same over the rows of an unfinished
\* plan (Op -> OpStatus), where a success is already PARTIAL.
AggregatePersisted(st) ==
  IF ~Some(st, Pending) THEN AggregatePlanStatus(st)
  ELSE IF Some(st, Success) THEN "PARTIAL"
  ELSE IF Some(st, {"UNKNOWN"}) THEN "UNKNOWN"
  ELSE IF Some(st, {"CONFLICT"}) THEN "CONFLICT"
  ELSE IF Some(st, {"RETRYABLE_NOT_APPLIED"}) THEN "RETRYABLE_NOT_APPLIED"
  ELSE IF Some(st, {"REJECTED"}) /\ Every(st, Pending \cup {"REJECTED"}) THEN "REJECTED"
  ELSE "EXECUTING"

\* What a read of an operation's object can show: the state the plan was
\* approved against, the state it asks for, or anything else (for a deletion
\* another label or an ambiguous read, for a creation a conflicting object).
Observation == {"expected", "desired", "other"}

\* Mutation: an existing object counts as created, whatever it looks like.
ReconcileByExistence(observed) ==
  CASE observed \in {"desired", "other"} -> "APPLIED"
    [] observed = "expected" -> "RETRYABLE_NOT_APPLIED"

\* reconcile_operation_state.  A missing object satisfies a deletion, so
\* "desired" covers the DELETE_ branch as well.
ReconcileOperationState(observed) ==
  CASE observed = "desired"  -> "APPLIED"
    [] observed = "expected" -> "RETRYABLE_NOT_APPLIED"
    [] observed = "other"    -> "CONFLICT"

=============================================================================
