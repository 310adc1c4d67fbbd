SPECIFICATION Spec
CONSTANTS
  t1 = t1
  t2 = t2
  writer = writer
  checker = checker
  summarise = summarise
  brief = brief
  search = search
  handle = handle
  merge = merge
  read = read
  Threads = {t1, t2}
  Names = {writer, checker}
  SkillNames = {summarise, brief, handle, merge, read}
  Tools = {merge, read}
  ReadTools = {read}
  MaxSkills = 4
  Sketches <- Proposals
  NoSketch = none
  Builtins <- BuiltinNames
  Default = summarise
  Search = search
  SearchHandle = handle
  Blueprint <- Fallen
  Grounded = FALSE
  Readers = {writer}
  Template <- Copy
  Answers <- Teams
  NoTeam = noteam
  NoName = nameless
  MaxAgents = 2
  MaxPlanned = 2
  MaxConnectors = 1
  Capabilities = {brief}
  Posted <- UserSkills
  Offered = {"design", "template", "ensure", "list", "edit", "skill", "agent", "remove", "sync"}
  MaxRequests = 3
SYMMETRY AnyThread
INVARIANTS LoneDesignDelivers  WritesAreAnnounced
PROPERTIES LoneDesignOnlyAdds
CHECK_DEADLOCK FALSE
