------------------------------ MODULE Registries ------------------------------
(***************************************************************************)
(* The skills and agents of one workspace: services/skills/registry.py and *)
(* services/agents/registry.py, the routers over them, and what the run    *)
(* route asks of both before it starts a run.                              *)
(*                                                                         *)
(* A skill's name is unique in the database; an agent's is not.  A row is  *)
(* known by a serial number, so that one stored again under a name is      *)
(* another row.  An agent's skills are serial numbers and may outlive      *)
(* their rows.                                                             *)
(***************************************************************************)
EXTENDS Integers, FiniteSets, Sequences

CONSTANTS
  Names,      \* names of agents
  SkillNames, \* names of skills
  Tools,      \* those of them that connected MCP servers offer
  ReadTools,  \* tools their server marks read-only
  MaxSkills,  \* skills an agent may hold: 24
  Sketches,   \* what a model may return for a capability it is asked to design
  NoSketch    \* no model, or nothing that parses

Kinds == {"prompt", "transform", "retrieval", "http", "mcp", "composite"}
SkillRows == [id : Nat, name : SkillNames, kind : Kinds, readOnly : BOOLEAN, off : BOOLEAN]
AgentRows == [id : Nat, name : Names, skills : SUBSET Nat, version : Nat]

ASSUME RegistriesAssumption ==
  /\ Tools \subseteq SkillNames /\ IsFiniteSet(Tools) /\ ReadTools \subseteq Tools
  /\ MaxSkills \in Nat
  /\ NoSketch \notin Sketches
  /\ Sketches \subseteq [name : SkillNames, kind : Kinds, sound : BOOLEAN]

VARIABLES
  skills,  \* the skills table
  agents,  \* the agents table
  lastId   \* the last serial number given

tables == <<skills, agents, lastId>>

SkillsNamed(name) == {s \in skills : s.name = name}
AgentsNamed(name) == {a \in agents : a.name = name}
Held(ids)         == {s \in skills : s.id \in ids}

\* Whether using a skill may change something outside the platform.
Outward(skill) == skill.kind \in {"http", "mcp"} /\ ~ skill.readOnly

\* What the run route asks of a graph: do the agents of its nodes, as they are
\* now, hold a skill that reaches outward?  Missing agents and skills count for nothing.
NeedsWrite(staff) == \E a \in agents : a.id \in staff /\ \E s \in Held(a.skills) : Outward(s)

SkillOf(name, kind) == [id |-> lastId + 1, name |-> name, kind |-> kind, readOnly |-> FALSE, off |-> FALSE]

AddSkill(name, kind) ==
  /\ skills' = skills \cup {SkillOf(name, kind)}
  /\ lastId' = lastId + 1
  /\ UNCHANGED agents

AddAgent(name, held) ==
  /\ agents' = agents \cup {[id |-> lastId + 1, name |-> name, skills |-> held, version |-> 1]}
  /\ lastId' = lastId + 1
  /\ UNCHANGED skills

-----------------------------------------------------------------------------

(* synthesize: a capability that does not exist is designed by a model, and  *)
(* the design is refused if it would fail the first time it ran.             *)

\* A proposal that is an MCP tool does not parse; one that calls HTTP, names a
\* parameter it does not declare, or searches a corpus there is none of, is refused.
Acceptable(sketch, documents) ==
  /\ sketch.kind \notin {"mcp", "http"}
  /\ sketch.kind \in {"prompt", "transform"} => sketch.sound
  /\ sketch.kind = "retrieval" => documents /\ sketch.sound

\* The plain prompt that stands in for a design that cannot be used.
Fallback(capability) == [name |-> capability, kind |-> "prompt"]

Synthesized(capability, sketch, documents) ==
  IF sketch # NoSketch /\ Acceptable(sketch, documents)
  THEN [name |-> sketch.name, kind |-> sketch.kind]
  ELSE Fallback(capability)

-----------------------------------------------------------------------------

(* Requests of one transaction.                                              *)

\* A user's own skill; a name that is taken is refused with 409.
PostSkill(name, kind) ==
  /\ kind # "mcp" /\ SkillsNamed(name) = {}
  /\ AddSkill(name, kind)

DeleteSkill(id) ==
  /\ \E s \in skills : s.id = id
  /\ skills' = {s \in skills : s.id # id}
  /\ UNCHANGED <<agents, lastId>>

\* Nothing keeps a user from giving two agents one name.
PostAgent(name) == AddAgent(name, {})

DeleteAgent(id) ==
  /\ \E a \in agents : a.id = id
  /\ agents' = {a \in agents : a.id # id}
  /\ UNCHANGED <<skills, lastId>>

\* A sync finds a server's tool gone, or there again; the row stays.
SyncTool(name) ==
  /\ \E s \in SkillsNamed(name) : s.kind = "mcp"
  /\ skills' = {IF s.name = name /\ s.kind = "mcp" THEN [s EXCEPT !.off = ~ @] ELSE s : s \in skills}
  /\ UNCHANGED <<agents, lastId>>

\* A workspace starts with the tools of the servers it has connected.
RegistriesInit ==
  /\ LET number == CHOOSE f \in [Tools -> 1..Cardinality(Tools)] :
                     \A x, y \in Tools : f[x] = f[y] => x = y
     IN skills = {[id |-> number[tool], name |-> tool, kind |-> "mcp",
                   readOnly |-> tool \in ReadTools, off |-> FALSE] : tool \in Tools}
  /\ agents = {}
  /\ lastId = Cardinality(Tools)

=============================================================================
