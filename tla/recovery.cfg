CONSTANTS
  NumOps = 2
  Kind = "DELETE_EDGE"
  Worker = {c1, r1}
  NoWorker = NoWorker
  Resumers = {r1}
  Reconcilers = {q1}
  Interleaved = TRUE
  ReconcilersDie = FALSE
  Foreign = {"desired"}
SPECIFICATION FairSpec
PROPERTIES ExecutionEnds NothingLeftBehind PromiseKept
