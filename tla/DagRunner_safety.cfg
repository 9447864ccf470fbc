SPECIFICATION FairSpec
CONSTANTS
  Nodes = {1, 2, 3, 4}
  Entry = 1
  Edges <- MergeEdges
  Terminals = {4}
  Gates = {2}
  Checked = {1}
  Proofs = {3}
  OnUnsupported <- MergePolicies
  MaxParallelism = 2
  RescueLimit <- TwoRescued
  MaxInterrupts = 2
CHECK_DEADLOCK FALSE
INVARIANTS RescuesAreSound HistoryIsConsistent OnlyJudgedAgainFail
PROPERTIES ImplementsGraphRun RunEndsUnlessHalfDecided
