--------------------------- MODULE RefinementProofs ---------------------------
(***************************************************************************)
(* WriteProtocol implements WritePromise: every step maps to one step of   *)
(* the promise or to none, for every number of operations and calls, under *)
(* every interleaving.  Used of the protocol: its inductive invariant and  *)
(* that successes are proven.                                              *)
(***************************************************************************)
EXTENDS OutcomeProofs, WriteRefinement

\* The aggregate that tells of outcomes tells the truth.
LEMMA AggregateTruthful ==
  ASSUME NEW st \in [Op -> Evidence \cup Pending]
  PROVE  /\ AggregatePersisted(st) \in Success <=> Every(st, Success)
         /\ AggregatePersisted(st) \in {"REJECTED", "CONFLICT"} =>
              Some(st, {"REJECTED", "CONFLICT"})
<1>1. 1 \in Op
  BY InitialRows
<1>2. ASSUME AggregatePersisted(st) \in Success
      PROVE  Every(st, Success)
  BY <1>2 DEF AggregatePersisted, AggregatePlanStatus, Every, Success
<1>3. ASSUME Every(st, Success)
      PROVE  AggregatePersisted(st) \in Success
  <2>1. ~Some(st, Pending)
    BY <1>3 DEF Every, Some, Pending, Success
  <2>2. QED
    BY <1>3, <2>1 DEF AggregatePersisted, AggregatePlanStatus, Success
<1>4. ASSUME AggregatePersisted(st) = "CONFLICT"
      PROVE  Some(st, {"REJECTED", "CONFLICT"})
  <2>1. Some(st, {"CONFLICT"})
    BY <1>4 DEF AggregatePersisted, AggregatePlanStatus
  <2>2. QED
    BY <2>1 DEF Some
<1>5. ASSUME AggregatePersisted(st) = "REJECTED"
      PROVE  Some(st, {"REJECTED", "CONFLICT"})
  <2>1. CASE Some(st, Pending)
    <3>1. Some(st, {"REJECTED"})
      BY <1>5, <2>1 DEF AggregatePersisted
    <3>2. QED
      BY <3>1 DEF Some
  <2>2. CASE ~Some(st, Pending)
    <3>1. /\ ~Some(st, Success \cup {"PARTIAL"})
          /\ ~Some(st, {"UNKNOWN"})
          /\ ~Some(st, {"CONFLICT"})
          /\ ~Some(st, {"RETRYABLE_NOT_APPLIED"})
      BY <1>5, <2>2 DEF AggregatePersisted, AggregatePlanStatus
    <3>2. st[1] \notin Success \cup {"UNKNOWN", "CONFLICT", "RETRYABLE_NOT_APPLIED"} \cup Pending
      BY <1>1, <2>2, <3>1 DEF Some
    <3>3. st[1] = "REJECTED"
      BY <1>1, <3>2 DEF Evidence, ApplyStatus, Success
    <3>4. QED
      BY <1>1, <3>3 DEF Some
  <2>3. QED
    BY <2>1, <2>2
<1>6. QED
  BY <1>2, <1>3, <1>4, <1>5

\* So does the status of the plan, in every state.
LEMMA ReportTruthful ==
  ASSUME IInv
  PROVE  Promise!Truthful(Report, Outcomes)
<1> DEFINE st == Statuses
<1>0. StoreInv /\ TruthfulPlanStatus
  BY IInvParts DEF StoreInv
<1>1. st \in [Op -> Evidence \cup Pending] /\ 1 \in Op /\ DOMAIN st = Op
  BY <1>0, StatusesType, InitialRows
<1>2. \A o \in Op : Outcomes[o] = OutcomeOf(st[o])
  BY DEF Outcomes, Statuses
<1>3. /\ (\A o \in Op : Outcomes[o] = "success") <=> Every(st, Success)
      /\ (\E o \in Op : Outcomes[o] = "success") <=> Some(st, Success)
      /\ Some(st, {"REJECTED", "CONFLICT"}) <=> \E o \in Op : Outcomes[o] = "denied"
  BY <1>1, <1>2 DEF OutcomeOf, Every, Some, Success
<1> HIDE DEF st
<1>4. /\ planStatus \in Success => Every(st, Success)
      /\ planStatus \in {"REJECTED", "CONFLICT"} => Some(st, {"REJECTED", "CONFLICT"})
      /\ planStatus \in Success \cup {"PARTIAL"} => Some(st, Success)
  <2>1. planStatus \in Success \cup {"PARTIAL", "REJECTED", "CONFLICT"}
          => planStatus = AggregatePersisted(st)
    BY <1>0 DEF TruthfulPlanStatus, Success, st
  <2>2. Every(st, Success) => Some(st, Success)
    BY <1>1 DEF Every, Some
  <2>3. QED
    BY <1>1, <2>1, <2>2, AggregateTruthful, AggregateFacts
<1>5. /\ Some(st, Success) => planStatus \in Success \cup {"PARTIAL"}
      /\ Every(st, Success) => planStatus \in Success
  <2>1. Some(st, Success) => planStatus \in Success \cup {"PARTIAL"}
    BY <1>0 DEF TruthfulPlanStatus, Success, st
  <2>2. ASSUME Every(st, Success)
        PROVE  planStatus \in Success
    <3>1. Some(st, Success)
      BY <1>1, <2>2 DEF Every, Some
    <3>2. planStatus = AggregatePersisted(st)
      BY <1>0, <2>1, <3>1 DEF TruthfulPlanStatus, Success, st
    <3>3. QED
      BY <1>1, <2>2, <3>2, AggregateTruthful
  <2>3. QED
    BY <2>1, <2>2
<1>6. /\ Report = "done" <=> planStatus \in Success
      /\ Report = "partial" <=> planStatus = "PARTIAL"
      /\ Report = "failed" <=> planStatus \in {"REJECTED", "CONFLICT"}
  BY DEF Report, Success
<1>7. QED
  BY <1>3, <1>4, <1>5, <1>6 DEF Promise!Truthful
-----------------------------------------------------------------------------
(* Steps                                                                   *)

Fresh == planStatus \in {"ISSUED", "EXPIRED"}

\* The store and the graph never change in one step, and what was reached
\* stays reached.
LEMMA StoreOrGraph ==
  ASSUME [Next]_vars
  PROVE  /\ reached \subseteq reached'
         /\ UNCHANGED reached \/ UNCHANGED <<planStatus, op>>
<1>1. ASSUME NEW w \in Worker, WorkerStep(w)
      PROVE  UNCHANGED reached
  BY <1>1 DEF WorkerStep, ConfirmStart, ConfirmExpire, ResumeStart, Claim, LoadOperations,
         ClaimNext, AdapterRead, AdapterWrite, AdapterVerify, Record, graphVars
<1>2. ASSUME NEW r \in Reconcilers, ReconcilerStep(r) \/ ReconcileFails(r)
      PROVE  UNCHANGED reached
  BY <1>2 DEF ReconcilerStep, ReconcileBegin, ReconcileCheck, ReconcileRead, ReconcileIssued,
         ReconcileObserve, ReconcileRecord, ReconcileFails, graphVars
<1>3. CASE Environment \/ UNCHANGED vars
  BY <1>3 DEF Environment, ServerCommits, ServerDrops, OtherWriter, Clock, SetElement,
         LeaseExpires, PlanExpires, vars, storeVars, graphVars
<1>4. QED
  BY <1>1, <1>2, <1>3 DEF Next

\* A plan that was not claimed is claimed, expires, or stays as it is.
LEMMA FreshStep ==
  ASSUME IInv, [Next]_vars, Fresh
  PROVE  /\ UNCHANGED op
         /\ \/ UNCHANGED planStatus
            \/ planStatus = "ISSUED" /\ planStatus' \in {"EXECUTING", "EXPIRED"}
<1>1. FreshPlan /\ StoreInv
  BY IInvParts
<1>2. /\ op = IssuedRows /\ ~leaseLive
      /\ \A w \in Worker : pc[w] \in {"start", "expire", "claim", "done"}
      /\ \A r \in Reconcilers : rpc[r] \in {"idle", "opened"}
  BY <1>1 DEF FreshPlan, StoreInv, LeaseHeld, Fresh
<1>3. ASSUME NEW w \in Worker, WorkerStep(w)
      PROVE  /\ UNCHANGED op
             /\ \/ UNCHANGED planStatus
                \/ planStatus = "ISSUED" /\ planStatus' \in {"EXECUTING", "EXPIRED"}
  BY <1>2, <1>3
     DEF WorkerStep, ConfirmStart, ConfirmExpire, ResumeStart, Resumable, Claim, ClaimPlan,
         CanClaimPlan, ClaimablePlan, TransitionPlan, CanTransitionPlan, LoadOperations,
         ClaimNext, AdapterRead, AdapterWrite, AdapterVerify, Record, storeVars, Fresh
<1>4. ASSUME NEW r \in Reconcilers, ReconcilerStep(r) \/ ReconcileFails(r)
      PROVE  UNCHANGED <<op, planStatus>>
  BY <1>2, <1>4
     DEF ReconcilerStep, ReconcileBegin, BeginReconcile, ReconcileCheck, ReconcileRead,
         ReconcileIssued, ReconcileObserve, ReconcileRecord, ReconcileFails, storeVars, Fresh
<1>5. CASE Environment \/ UNCHANGED vars
  BY <1>5 DEF Environment, ServerCommits, ServerDrops, OtherWriter, Clock, LeaseExpires,
         PlanExpires, vars, storeVars
<1>6. QED
  BY <1>3, <1>4, <1>5 DEF Next

\* A plan that was claimed never looks unclaimed again, and a step settles at
\* most one operation, which was open.
LEMMA TakenStep ==
  ASSUME IInv, [Next]_vars, ~Fresh
  PROVE  /\ ~Fresh'
         /\ \/ \A o \in Op : op'[o].status = op[o].status
            \/ \E o \in Op :
                 /\ op[o].status \notin Final
                 /\ \A p \in Op \ {o} : op'[p].status = op[p].status
<1>1. StoreInv
  BY IInvParts
<1>2. op \in [Op -> OperationRow]
  BY <1>1 DEF StoreInv, StoreTypeOK
<1>3. \A o \in Op, s \in Evidence :
        AggregatePersisted(StatusesWith(o, s)) \notin {"ISSUED", "EXPIRED"}
  <2>1. ASSUME NEW o \in Op, NEW s \in Evidence
        PROVE  AggregatePersisted(StatusesWith(o, s)) \notin {"ISSUED", "EXPIRED"}
    <3>1. StatusesWith(o, s) \in [Op -> Evidence \cup Pending]
      BY <1>1, StatusesType DEF StatusesWith
    <3>2. QED
      BY <3>1, AggregateFacts
  <2>2. QED
    BY <2>1
<1>4. CASE \E w \in Worker, o \in Op : ClaimOperation(w, o)
  BY <1>2, <1>4 DEF ClaimOperation, CanClaimOperation, Fresh, Final, Success
<1>5. CASE \E w \in Worker, o \in Op, n \in Nat, s \in Evidence : RecordReceipt(w, o, n, s)
  BY <1>2, <1>3, <1>5
     DEF RecordReceipt, CanRecordReceipt, Fenced, Fresh, Final, Success
<1>6. CASE \E o \in Op, s \in Evidence : RecordReconciliation(o, s)
  BY <1>2, <1>3, <1>6
     DEF RecordReconciliation, CanRecordReconciliation, Reconcilable, Fresh, Final, Success
<1>7. QED
  BY <1>4, <1>5, <1>6, NextIsStoreStep
     DEF StoreStep, TransitionPlan, CanTransitionPlan, ClaimPlan, BeginReconcile,
         LeaseExpires, PlanExpires, storeVars, Fresh

LEMMA PromiseInitially == Init => Promise!Init
<1> SUFFICES ASSUME Init
             PROVE  Promise!Init
  OBVIOUS
<1>1. planStatus = "ISSUED" /\ op = IssuedRows /\ reached = {}
  BY DEF Init, StoreInit
<1>2. Phase = "offered"
  BY <1>1 DEF Phase
<1>3. Report = "doubt"
  BY <1>1 DEF Report, Success
<1>4. Outcomes = [o \in Op |-> "open"]
  <2>1. \A o \in Op : op[o].status = "ISSUED"
    BY <1>1 DEF IssuedRows
  <2>2. \A o \in Op : OutcomeOf(op[o].status) = "open"
    BY <2>1 DEF OutcomeOf, Success
  <2>3. QED
    BY <2>2 DEF Outcomes
<1>5. QED
  BY <1>1, <1>2, <1>3, <1>4 DEF Promise!Init

\* What the statuses of the plan mean to the client.
LEMMA Reports ==
  /\ planStatus = "ISSUED" <=> Phase = "offered"
  /\ planStatus = "EXPIRED" <=> Phase = "expired"
  /\ ~Fresh <=> Phase = "taken"
  /\ planStatus \in {"ISSUED", "EXPIRED", "EXECUTING"} => Report = "doubt"
  /\ Report \in {"doubt", "partial", "done", "failed"}
BY DEF Fresh, Phase, Report, Success

\* What the statuses of an operation mean to the client.
LEMMA Meanings ==
  ASSUME NEW s
  PROVE  /\ OutcomeOf(s) \in {"open", "success", "denied"}
         /\ OutcomeOf(s) = "success" <=> s \in Success
         /\ OutcomeOf(s) = "open" <=> s \notin Final
BY DEF OutcomeOf, Final, Success

LEMMA PromiseStep ==
  ASSUME IInv, IInv', SuccessProven', [Next]_vars
  PROVE  [Promise!Next]_(Promise!vars)
<1>1. Promise!Truthful(Report, Outcomes)'
  BY ReportTruthful, PTL
<1>2. /\ planStatus' = "ISSUED" <=> Phase' = "offered"
      /\ planStatus' = "EXPIRED" <=> Phase' = "expired"
      /\ ~Fresh' <=> Phase' = "taken"
      /\ planStatus' \in {"ISSUED", "EXPIRED", "EXECUTING"} => Report' = "doubt"
      /\ Report' \in {"doubt", "partial", "done", "failed"}
  BY DEF Fresh, Phase, Report, Success
<1>3. CASE UNCHANGED <<planStatus, op>>
  <2>1. UNCHANGED <<Phase, Outcomes, Report>>
    BY <1>3 DEF Phase, Outcomes, Report
  <2>2. QED
    BY <2>1, StoreOrGraph DEF Promise!Next, Promise!World
<1>4. CASE Fresh /\ UNCHANGED reached
  <2>1. UNCHANGED op
    BY <1>4, FreshStep
  <2>2. UNCHANGED Outcomes
    BY <2>1 DEF Outcomes
  <2>3. CASE UNCHANGED planStatus
    BY <1>3, <2>1, <2>3
  <2>4. CASE planStatus = "ISSUED" /\ planStatus' = "EXECUTING"
    <3>1. Phase = "offered" /\ Phase' = "taken" /\ UNCHANGED Report
      BY <1>2, <2>4, Reports DEF Fresh
    <3>2. QED
      BY <1>4, <2>2, <3>1 DEF Promise!Next, Promise!Take
  <2>5. CASE planStatus = "ISSUED" /\ planStatus' = "EXPIRED"
    <3>1. Phase = "offered" /\ Phase' = "expired" /\ UNCHANGED Report
      BY <1>2, <2>5, Reports
    <3>2. QED
      BY <1>4, <2>2, <3>1 DEF Promise!Next, Promise!Expire
  <2>6. QED
    BY <1>4, <2>3, <2>4, <2>5, FreshStep
<1>5. CASE ~Fresh /\ UNCHANGED reached
  <2>1. Phase = "taken" /\ Phase' = "taken"
    BY <1>2, <1>5, Reports, TakenStep
  <2>2. CASE \A o \in Op : OutcomeOf(op'[o].status) = OutcomeOf(op[o].status)
    <3>1. UNCHANGED Outcomes
      BY <2>2 DEF Outcomes
    <3>2. QED
      BY <1>1, <1>2, <1>5, <2>1, <3>1 DEF Promise!Next, Promise!Reassess, Promise!Truthful
  <2>3. CASE ~ \A o \in Op : OutcomeOf(op'[o].status) = OutcomeOf(op[o].status)
    <3>1. PICK o \in Op : /\ op[o].status \notin Final
                         /\ \A p \in Op \ {o} : op'[p].status = op[p].status
      BY <1>5, <2>3, TakenStep
    <3>2. OutcomeOf(op[o].status) = "open"
      BY <3>1, Meanings
    <3>3. OutcomeOf(op'[o].status) # "open"
      BY <2>3, <3>1, <3>2
    <3>4. Outcomes' = [Outcomes EXCEPT ![o] = OutcomeOf(op'[o].status)]
      BY <3>1 DEF Outcomes
    <3>5. Outcomes[o] = "open"
      BY <3>2 DEF Outcomes
    <3>6. OutcomeOf(op'[o].status) = "success" => o \in reached
      BY <1>5, Meanings DEF SuccessProven
    <3>7. OutcomeOf(op'[o].status) \in {"success", "denied"}
      BY <3>3, Meanings
    <3>8. Promise!Settle(o)
      BY <1>1, <1>2, <1>5, <2>1, <3>4, <3>5, <3>6, <3>7
         DEF Promise!Settle, Promise!Truthful
    <3>9. QED
      BY <3>8 DEF Promise!Next
  <2>4. QED
    BY <2>2, <2>3
<1>6. QED
  BY <1>3, <1>4, <1>5, StoreOrGraph

\* Executors, resumes and reconcilers of the protocol, however they interleave,
\* keep the promise made to the client.
THEOREM Implements == Spec => PromiseKept
<1>1. IInv /\ IInv' /\ SuccessProven' /\ [Next]_vars => [Promise!Next]_(Promise!vars)
  BY PromiseStep
<1>2. QED
  BY <1>1, PromiseInitially, Invariance, SuccessesAreProven, PTL
     DEF Spec, PromiseKept, Promise!Spec
=============================================================================
