CONSTANTS
  Call = {s1, c1, c2}
  Pipeline = {p1, p2}
  Node = {"vector", "graph", "answer"}
  Final = "answer"
  Lenient = {"vector"}
  Streaming = {s1}
  NoPipeline = NoPipeline
  MaxActive = 2
  DependsOn <- Branches
SPECIFICATION FairSpec
INVARIANTS TypeOK PoolSound AnswersAreOwn RunsOnce InputReachesNodes ResultsSurvive
PROPERTY PoolDrains
