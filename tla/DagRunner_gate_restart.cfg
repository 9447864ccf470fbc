SPECIFICATION FairSpec
CONSTANTS
  Nodes = {1, 2, 3}
  Entry = 1
  Edges <- RescueEdges
  Terminals = {3}
  Gates = {2}
  Checked = {}
  Proofs = {}
  OnUnsupported <- RescuedGate
  MaxParallelism = 2
  RescueLimit <- GateRescued
  MaxInterrupts = 1
PROPERTIES RunEnds
CHECK_DEADLOCK FALSE
