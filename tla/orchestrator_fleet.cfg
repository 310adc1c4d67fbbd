\* Two workers, a crash, a withdrawn permission, duplicate deliveries.
SPECIFICATION Spec
CONSTANTS
  Workers = {w1, w2}
  Nodes <- AllNodes
  NoNode = NoNode
  Graphs <- FleetGraphs
  MaxSteps = 4
  MaxInlineBranches = 1
  Budget <- Mishap
SYMMETRY WorkerSymmetry
INVARIANTS  JoinDispatchedOnce StepLimit RunsAtMostOnce JoinNeverEarly  SuccessIsComplete
PROPERTY SuccessIsFinal
CHECK_DEADLOCK FALSE
