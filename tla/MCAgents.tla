------------------------------ MODULE MCAgents ------------------------------
(* Constants for the run of AgentLoop. *)
EXTENDS AgentProperties, TLC

CONSTANTS w1, w2, author, reviewer, search, report, flow, goal, alike, other, trouble

TheScopes  == {author, reviewer, search, report, flow}
TheSkills  == (author :> {}) @@ (reviewer :> {report})
TheParts   == (search :> <<>>) @@ (report :> <<search>>)
Plain(o)   == [objective |-> o, reviewed |-> FALSE]
ThreeJobs  == <<Plain(goal), Plain(alike), Plain(other)>>
AlikeTexts == {<<goal, alike>>, <<alike, goal>>}
AnyWorker  == Permutations({w1, w2})
OneJob     == <<[objective |-> goal, reviewed |-> TRUE]>>
OneSkill   == (author :> {search}) @@ (reviewer :> {})

=============================================================================
