CONSTANTS
  NumOps = 2
  Kind = "DELETE_EDGE"
  Nonce = {n1}
  TTL = 1
  Caller = {c1, c2}
  Shared = {1}
  MaxTime = 3
  MaxMigrations = 1
SPECIFICATION Spec
SYMMETRY CallerSymmetry
CONSTRAINT MigratesUndisturbed
INVARIANTS TypeOK SingleUse OutcomeProven RejectedUntouched MigratedTruthful
PROPERTY RecordsAreFinal
