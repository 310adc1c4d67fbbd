\* One worker, executors and branches that may fail.
SPECIFICATION FairSpec
CONSTANTS
  Workers = {w1}
  Nodes <- AllNodes
  NoNode = NoNode
  Graphs <- SingleGraphs
  MaxSteps = 4
  MaxInlineBranches = 1
  Budget <- FaultsOnly
INVARIANT ClosedMeansUnreachable
PROPERTY RunEnds
CHECK_DEADLOCK FALSE
