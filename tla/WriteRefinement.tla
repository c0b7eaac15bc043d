--------------------------- MODULE WriteRefinement ---------------------------
(***************************************************************************)
(* The refinement mapping from WriteProtocol to WritePromise: a client     *)
(* sees the statuses of the durable rows, and the world.                   *)
(***************************************************************************)
EXTENDS WriteProtocol

Phase ==
  CASE planStatus = "ISSUED"  -> "offered"
    [] planStatus = "EXPIRED" -> "expired"
    [] OTHER                  -> "taken"

OutcomeOf(status) ==
  CASE status \in Success                  -> "success"
    [] status \in {"REJECTED", "CONFLICT"} -> "denied"
    [] OTHER                               -> "open"

Outcomes == [o \in Op |-> OutcomeOf(op[o].status)]

Report ==
  CASE planStatus \in Success                  -> "done"
    [] planStatus = "PARTIAL"                  -> "partial"
    [] planStatus \in {"REJECTED", "CONFLICT"} -> "failed"
    [] OTHER                                   -> "doubt"

Promise == INSTANCE WritePromise
  WITH phase <- Phase, outcome <- Outcomes, report <- Report

\* However executors, resumes and reconcilers interleave or die, what they
\* write to the store keeps the promise: an operation is settled once, by a
\* step of its own, as a success only if it happened, and the plan's status
\* follows (claim_plan, record_receipt, record_reconciliation_receipt).
PromiseKept == Promise!Spec
==============================================================================
