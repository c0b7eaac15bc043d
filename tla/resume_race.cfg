CONSTANTS
  NumOps = 3
  Kind = "DELETE_EDGE"
  Worker = {c1, r1, r2}
  NoWorker = NoWorker
  Resumers = {r1, r2}
  Reconcilers = {q1}
  Interleaved = FALSE
  ReconcilersDie = FALSE
  Foreign = {"desired"}
SPECIFICATION Spec
INVARIANT InPlanOrder
