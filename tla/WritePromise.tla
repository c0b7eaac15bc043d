----------------------------- MODULE WritePromise -----------------------------
(***************************************************************************)
(* What the write protocol promises to the client of one plan, without     *)
(* workers, leases, attempts or snapshots: docs/architecture.md and        *)
(* write_plan.py of hugegraph-mcp.  An operation is open until it is       *)
(* settled once and for all; it is settled as a success only if its object *)
(* was in the desired state at some time; and the status of the plan tells *)
(* the truth about what is settled.                                        *)
(***************************************************************************)
CONSTANT Op

VARIABLES
  phase,    \* offered, taken (claimed for execution) or expired
  outcome,  \* each operation: open, success or denied
  report,   \* the plan's status: doubt, partial, done or failed
  reached   \* objects that were in the desired state at some time

vars == <<phase, outcome, report, reached>>

\* What the plan's status may say of these outcomes.
Truthful(said, settled) ==
  /\ said = "done" <=> \A o \in Op : settled[o] = "success"
  /\ said \in {"partial", "done"} <=> \E o \in Op : settled[o] = "success"
  /\ said = "failed" => \E o \in Op : settled[o] = "denied"

Init ==
  /\ phase = "offered"
  /\ outcome = [o \in Op |-> "open"]
  /\ report = "doubt"
  /\ reached = {}

Take ==
  /\ phase = "offered"
  /\ phase' = "taken"
  /\ UNCHANGED <<outcome, report, reached>>

Expire ==
  /\ phase = "offered"
  /\ phase' = "expired"
  /\ UNCHANGED <<outcome, report, reached>>

\* One operation of a plan that is executed is settled.
Settle(o) ==
  /\ phase = "taken"
  /\ outcome[o] = "open"
  /\ \/ o \in reached /\ outcome' = [outcome EXCEPT ![o] = "success"]
     \/ outcome' = [outcome EXCEPT ![o] = "denied"]
  /\ report' \in {"doubt", "partial", "done", "failed"}
  /\ Truthful(report', outcome')
  /\ UNCHANGED <<phase, reached>>

\* The plan's status is found again from the same outcomes.
Reassess ==
  /\ phase = "taken"
  /\ report' \in {"doubt", "partial", "done", "failed"}
  /\ Truthful(report', outcome)
  /\ UNCHANGED <<phase, outcome, reached>>

\* The graph changes, by a request of the plan or by others.
World ==
  /\ reached \subseteq reached'
  /\ UNCHANGED <<phase, outcome, report>>

Next ==
  \/ Take
  \/ Expire
  \/ \E o \in Op : Settle(o)
  \/ Reassess
  \/ World

Spec == Init /\ [][Next]_vars
==============================================================================
