CONSTANTS
  NumOps = 1
  Kind = "DELETE_EDGE"
  Worker = {c1}
  NoWorker = NoWorker
  Resumers = {}
  Reconcilers = {q1}
  Interleaved = FALSE
  ReconcilersDie = FALSE
  Foreign = {"desired"}
SPECIFICATION Spec
INVARIANT DeniedOutcomeSettled
