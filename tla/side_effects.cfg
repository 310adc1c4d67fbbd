\* An http node or an agent's step, delivered three times to two workers.
SPECIFICATION Spec
CONSTANTS
  Workers = {w1, w2}
  NodeOps = {post, off}
  WebOps = {fetch}
  ToolOps = {tool}
  Blocked = {off}
  Anyone = anyone
  Copies = 3
  MaxUses = 2
SYMMETRY Symmetry
INVARIANTS RepeatsNeedFailures OneAnswer 
CHECK_DEADLOCK FALSE
