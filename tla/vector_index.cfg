CONSTANTS
  Vid = {v1, v2, v3}
  Rebuilder = {b1, b2}
  Query = {q1}
  Missing = Missing
  Partial = Partial
  MaxRebuilds = 3
  MaxCrashes = 1
SPECIFICATION Spec
SYMMETRY IdSymmetry
CONSTRAINT QueriesEarly
INVARIANTS TypeOK MatchedUnlessDisturbed NoDuplicates
PROPERTY RebuildRight
