SPECIFICATION Spec
CONSTANTS
  t1 = t1
  t2 = t2
  hosted = hosted
  local = local
  small = small
  large = large
  Threads = {t1, t2}
  Providers = {hosted, local}
  Models = {small}
  Deployment = local
  Edits = 1
  Claude = {hosted}
  Servers <- Refusing
  Requests <- NewChoices
  Uses <- TwoUses
  Pieces = 2
  Calls = 2
  CleanCuts = FALSE
SYMMETRY AnyThread
INVARIANTS  RefusalsMeet  ScreenFollows
CHECK_DEADLOCK FALSE
