CONSTANTS
  NumOps = 2
  Kind = "DELETE_EDGE"
  Worker = {c1, r1}
  NoWorker = NoWorker
  Resumers = {r1}
  Reconcilers = {q1, q2}
  Interleaved = TRUE
  ReconcilersDie = TRUE
  Foreign = {"desired"}
SPECIFICATION Spec
SYMMETRY CallSymmetry
INVARIANTS SuccessProven TruthfulPlanStatus
PROPERTY OutcomesAreFinal
