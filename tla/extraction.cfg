CONSTANTS
  MaxReviews = 1
  MaxFixes = 1
  NumChunks = 3
  MaxWorkers = 2
  MaxCancels = 2
SPECIFICATION FairSpec
INVARIANTS TypeOK WithinBudget StatusEarned ModelsUsable OpenBounded ClosedOnce ResultsInOrder CancelReachesCaller
PROPERTY Terminates
