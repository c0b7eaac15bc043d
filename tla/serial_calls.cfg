CONSTANTS
  NumOps = 2
  Kind = "DELETE_EDGE"
  Worker = {c1, c2, r1}
  NoWorker = NoWorker
  Resumers = {r1}
  Reconcilers = {q1}
  Interleaved = FALSE
  ReconcilersDie = TRUE
  Foreign = {"expected", "desired", "other"}
SPECIFICATION Spec
SYMMETRY CallSymmetry
INVARIANTS TypeOK RetryableNeverClaimed NoReplay InPlanOrder RejectedUntouched ExpiredUntouched
