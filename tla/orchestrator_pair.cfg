\* Two workers, nothing going wrong.
SPECIFICATION FairSpec
CONSTANTS
  Workers = {w1, w2}
  Nodes <- AllNodes
  NoNode = NoNode
  Graphs <- PairGraphs
  MaxSteps = 6
  MaxInlineBranches = 2
  Budget <- NoMishap
PROPERTIES KeepsPromise RunSucceeds
CHECK_DEADLOCK FALSE
