\* A step fails on one path of a fork while the other is being executed.
SPECIFICATION Spec
CONSTANTS
  Workers = {w1, w2}
  Nodes <- AllNodes
  NoNode = NoNode
  Graphs <- ForkedOnly
  MaxSteps = 6
  MaxInlineBranches = 2
  Budget <- FaultsOnly
PROPERTY TerminalIsFinal
CHECK_DEADLOCK FALSE
