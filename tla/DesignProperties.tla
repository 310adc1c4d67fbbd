--------------------------- MODULE DesignProperties ---------------------------
(* What the gateway's designs promise, and for whom.                          *)
EXTENDS Design

Lone(kind) == last.kind = kind /\ last.alone

\* What a name in a plan stands for: the skill so named, or one a model designed
\* for it and named otherwise.
Answering(wanted) ==
  {s \in skills : \/ s.name = IF wanted = Search THEN SearchHandle ELSE wanted
                  \/ \E sketch \in Sketches : s.name = sketch.name}

\* A design that no other request overlapped delivers its plan, whatever state
\* overlapping requests had left before it: the graph's agents are in the
\* workspace under the planned names, and hold a skill for each one planned.
LoneDesignDelivers ==
  Lone("design") /\ last.ok =>
    \A i \in DOMAIN last.team : \E a \in agents :
      /\ a.id = last.staff[i] /\ a.name = last.team[i].name
      /\ last.resolved[i] \subseteq a.skills
      /\ \A j \in DOMAIN last.team[i].skills :
           last.team[i].skills[j] # Search => \E s \in Answering(last.team[i].skills[j]) : s.id \in a.skills

\* A request that no other overlapped fails over nothing but a name two agents
\* have, or an agent that would hold more skills than a definition may: not over
\* a skill that is there already, a tool that went away, or what an earlier
\* request left half done.
LoneFailureIsExplained ==
  last.alone /\ ~ last.ok =>
    /\ last.kind = "design"
    /\ \E i \in DOMAIN last.team :
         \/ Cardinality(AgentsNamed(last.team[i].name)) > 1
         \/ \E a \in AgentsNamed(last.team[i].name) : Cardinality(a.skills \cup last.resolved[i]) > MaxSkills

\* A design that no other request overlaps adds to a workspace and takes nothing
\* from it: agents keep their names and skills, and no name gets a second agent.
LoneDesignOnlyAdds ==
  [][\A t \in Threads :
       job[t].kind = "design" /\ job[t].alone /\ job'[t].stage # job[t].stage =>
         /\ \A a \in agents : \E b \in agents' :
              a.id = b.id /\ a.name = b.name /\ a.skills \subseteq b.skills
         /\ \A name \in Names : Cardinality(AgentsNamed(name)') <=
              IF AgentsNamed(name) = {} THEN 1 ELSE Cardinality(AgentsNamed(name))]_vars

\* A design that no other request overlapped and that announced no permission
\* has stored no agent for which the run route will ask one.
WritesAreAnnounced ==
  Lone("design") /\ last.ok /\ ~ last.announced => ~ NeedsWrite(last.hired)

=============================================================================
