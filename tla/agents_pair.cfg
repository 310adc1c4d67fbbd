SPECIFICATION Spec
CONSTANTS
  w1 = w1
  w2 = w2
  author = author
  reviewer = reviewer
  search = search
  report = report
  flow = flow
  goal = goal
  alike = alike
  other = other
  trouble = trouble
  Clients = {w1, w2}
  Scopes <- TheScopes
  Texts = {goal, alike, other, trouble}
  Near <- AlikeTexts
  Capacity = 1
  Limit = 2
  Best = 12
  Author = author
  Reviewer = reviewer
  Skills = {search, report}
  SkillsOf <- OneSkill
  Parts <- TheParts
  Flow = flow
  Objectives = {goal, alike, other}
  Trouble = trouble
  MaxIterations = 1
  MaxRounds = 1
  MaxCalls = 1
  Jobs <- ThreeJobs
  Learning = {author}
  Removals = 0
INVARIANTS OneCopyEach CapacityHolds TrustIsEarned
SYMMETRY AnyWorker
CHECK_DEADLOCK FALSE
