CONSTANTS
  NumOps = 1
  Kind = "CREATE_SCHEMA"
  Worker = {c1, c2}
  NoWorker = NoWorker
  Resumers = {}
  Reconcilers = {q1, q2}
  Interleaved = TRUE
  ReconcilersDie = TRUE
  Foreign = {"expected", "desired", "other"}
SPECIFICATION Spec
SYMMETRY CallSymmetry
INVARIANTS RetryableNeverClaimed SuccessProven
