SPECIFICATION FairSpec
CONSTANTS
  w1 = w1
  w2 = w2
  author = author
  reviewer = reviewer
  search = search
  report = report
  flow = flow
  goal = goal
  alike = alike
  other = other
  trouble = trouble
  Clients = {w1}
  Scopes <- TheScopes
  Texts = {goal, alike, trouble}
  Near <- AlikeTexts
  Capacity = 1
  Limit = 2
  Best = 12
  Author = author
  Reviewer = reviewer
  Skills = {search, report}
  SkillsOf <- TheSkills
  Parts <- TheParts
  Flow = flow
  Objectives = {goal, alike}
  Trouble = trouble
  MaxIterations = 2
  MaxRounds = 2
  MaxCalls = 1
  Jobs <- OneJob
  Learning = {reviewer}
  Removals = 1
PROPERTIES StepEnds
  
CHECK_DEADLOCK FALSE
