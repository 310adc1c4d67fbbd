-------------------------------- MODULE Design --------------------------------
(***************************************************************************)
(* Requests of the API gateway over the skills and agents of a workspace:  *)
(* a design of services/design/service.py from the built-in skills to the  *)
(* graph, a copy of a template (services/templates/service.py), a skill    *)
(* made on demand (ensure_capability), and the users' own edits.           *)
(*                                                                         *)
(* A request runs on a thread of its own and takes one transaction at a    *)
(* time; between two of them any other request may have its turn.  A team  *)
(* is a sequence of [name, skills, needs], needs being whether the agent   *)
(* is said to need nothing of connected systems, to read or to write.      *)
(***************************************************************************)
EXTENDS Registries

CONSTANTS
  Threads,
  Builtins,      \* the built-in skills, a sequence of names
  Default,       \* the skill of an agent for which a plan names none: summarise
  Search,        \* the name a plan uses for a search of the documents
  SearchHandle,  \* the name of the skill that searches the corpus
  Blueprint,     \* the team classification falls back on
  Template,      \* the team of a template
  Grounded,      \* whether it wants documents
  Readers,       \* the blueprint's agents that do
  Answers,       \* what a model may return when asked for a team
  NoTeam,        \* no model, or nothing that parses
  NoName,        \* a proposed agent without name, role or objective
  MaxAgents,     \* 8
  MaxPlanned,    \* skills a model may plan for an agent: 8
  MaxConnectors, \* 8
  Capabilities,  \* what is asked for on demand
  Posted,        \* skills users write themselves: [name, kind]
  Offered,       \* the kinds of request that arrive
  MaxRequests    \* bound on them

Needs == {"nothing", "read", "write"}

\* What a plan may name, and who may be in it.
Wishes == SkillNames \cup {Search}
Members(names) == [name : names, skills : Seq(Wishes), needs : Needs]

\* The teams of the catalogues: agents of different names, each with few skills.
Prepared(team) ==
  /\ team \in Seq(Members(Names)) /\ team # <<>>
  /\ \A i, j \in DOMAIN team : team[i].name = team[j].name => i = j
  /\ \A i \in DOMAIN team : Len(team[i].skills) < MaxPlanned

ASSUME DesignAssumption ==
  /\ MaxAgents \in Nat \ {0} /\ MaxConnectors \in Nat /\ MaxRequests \in Nat
  /\ MaxPlanned \in Nat \ {0} /\ MaxPlanned + MaxConnectors <= MaxSkills
  /\ NoTeam \notin Answers /\ NoName \notin Names
  /\ Default \in SkillNames /\ SearchHandle \in SkillNames /\ Search \notin SkillNames
  /\ Builtins \in Seq(SkillNames) /\ Capabilities \subseteq SkillNames
  /\ Posted \subseteq [name : SkillNames, kind : Kinds]
  /\ Prepared(Blueprint) /\ Prepared(Template)
  /\ Answers \subseteq Seq(Members(Names \cup {NoName}))

VARIABLES
  job,       \* what each thread is doing
  requests,  \* requests begun
  last       \* history: how the request before the next arrival ended

vars == <<tables, job, requests, last>>

NoRow == [id |-> 0, name |-> NoName, skills |-> {}, version |-> 0]
Idle == [stage |-> "idle", kind |-> "none", alone |-> TRUE,
         todo |-> <<>>, turn |-> 1, seat |-> 0, back |-> "idle",
         made |-> [name |-> Default, kind |-> "prompt"], documents |-> FALSE, tools |-> {},
         team |-> <<>>, resolved |-> <<>>, announced |-> FALSE,
         staff |-> <<>>, hired |-> {}, row |-> NoRow]
Unended == [kind |-> "none", ok |-> TRUE, alone |-> FALSE, team |-> <<>>, resolved |-> <<>>,
            announced |-> FALSE, staff |-> <<>>, hired |-> {}]

At(t, stage) == job[t].stage = stage
Busy(t) == ~ At(t, "idle")

Begin(t, kind, first) ==
  /\ kind \in Offered /\ ~ Busy(t) /\ requests < MaxRequests
  /\ requests' = requests + 1
  /\ job' = [u \in Threads |->
       IF u = t THEN [first EXCEPT !.kind = kind, !.alone = \A v \in Threads : ~ Busy(v)]
       ELSE [job[u] EXCEPT !.alone = ~ Busy(u)]]
  /\ last' = Unended

\* A request that is one transaction; it overlaps what runs meanwhile.
Once(t, kind) ==
  /\ kind \in Offered /\ ~ Busy(t) /\ requests < MaxRequests
  /\ requests' = requests + 1
  /\ job' = [u \in Threads |-> [job[u] EXCEPT !.alone = ~ Busy(u)]]
  /\ last' = Unended

Step(t, next) ==
  /\ job' = [job EXCEPT ![t] = next]
  /\ UNCHANGED <<requests, last>>

Ends(t, ok) ==
  /\ job' = [job EXCEPT ![t] = Idle]
  /\ last' = [kind |-> job[t].kind, ok |-> ok, alone |-> job[t].alone, team |-> job[t].team,
              resolved |-> job[t].resolved, announced |-> job[t].announced,
              staff |-> job[t].staff, hired |-> job[t].hired]
  /\ UNCHANGED requests

\* An exception no route expects: the answer is a 500 and what was stored stays.
Raises(t) == Ends(t, FALSE) /\ UNCHANGED tables

-----------------------------------------------------------------------------

(* The plan.                                                                 *)

\* One unusable agent, or two of one name, and the whole proposal is refused.
Usable(answer) ==
  /\ answer # NoTeam
  /\ Len(answer) \in 1..MaxAgents
  /\ \A i \in DOMAIN answer : answer[i].name # NoName
  /\ \A i, j \in DOMAIN answer : answer[i].name = answer[j].name => i = j

\* A few skills are enough, and one there must be.
Validated(agent) ==
  IF agent.skills = <<>> THEN [agent EXCEPT !.skills = <<Default>>]
  ELSE [agent EXCEPT !.skills = SubSeq(@, 1, IF Len(@) < MaxPlanned THEN Len(@) ELSE MaxPlanned)]

\* The fallback gives those that want documents a search, if there are any.
WithSearch(agent, documents) ==
  IF documents /\ agent.name \in Readers THEN [agent EXCEPT !.skills = <<Search>> \o @] ELSE agent

Planned(answer, documents) ==
  IF Usable(answer)
  THEN [i \in DOMAIN answer |-> Validated(answer[i])]
  ELSE [i \in 1..(IF Len(Blueprint) < MaxAgents THEN Len(Blueprint) ELSE MaxAgents) |->
          WithSearch(Blueprint[i], documents)]

\* A list of names is gone through, one after the other.
Listing(job0, stage, names) == [job0 EXCEPT !.stage = stage, !.todo = names, !.turn = 1]

\* The skills of a team are, agent by agent; to begin with there are none.
Resolving(job0, team) ==
  [Listing(job0, "find", team[1].skills) EXCEPT
     !.seat = 1, !.team = team, !.resolved = [i \in DOMAIN team |-> {}]]

-----------------------------------------------------------------------------

(* Arrivals.  A design that still has questions to ask returns them and      *)
(* changes nothing; these are the turns that build.                          *)

BeginDesign(t, documents) ==
  /\ Begin(t, "design", [Listing(Idle, "seed", Builtins) EXCEPT !.documents = documents])
  /\ UNCHANGED tables

BeginTemplate(t, documents) ==
  /\ Begin(t, "template", [Listing(Idle, "seed", Builtins) EXCEPT !.documents = documents /\ Grounded])
  /\ UNCHANGED tables

BeginEnsure(t, name, documents) ==
  /\ Begin(t, "ensure", [Listing(Idle, "find", <<name>>) EXCEPT !.documents = documents])
  /\ UNCHANGED tables

BeginList(t) == Begin(t, "list", Listing(Idle, "seed", Builtins)) /\ UNCHANGED tables

\* A user saves an agent under a name and with skills of theirs; the row is read first.
BeginEdit(t, id, name, held) ==
  \E a \in agents :
    /\ a.id = id
    /\ Begin(t, "edit", [Idle EXCEPT !.stage = "save", !.row =
         [id |-> id, name |-> name, skills |-> held, version |-> a.version]])
    /\ UNCHANGED tables

Small(t) ==
  \/ \E skill \in Posted : Once(t, "skill") /\ PostSkill(skill.name, skill.kind)
  \/ \E s \in skills : Once(t, "remove") /\ DeleteSkill(s.id)
  \/ \E name \in Names : Once(t, "agent") /\ PostAgent(name)
  \/ \E a \in agents : Once(t, "remove") /\ DeleteAgent(a.id)
  \/ \E name \in Tools : Once(t, "sync") /\ SyncTool(name)

-----------------------------------------------------------------------------

(* Skills: found, or made.                                                   *)

Through(t) == job[t].turn > Len(job[t].todo)
Wants(t)   == job[t].todo[job[t].turn]
Passed(t)  == [job[t] EXCEPT !.turn = @ + 1]
ToMake(t, back, name, kind) ==
  [job[t] EXCEPT !.stage = "make", !.back = back, !.made = [name |-> name, kind |-> kind]]

\* The agent in turn is to be given one more skill.
Noting(resolved, seat, id) == [i \in DOMAIN resolved |-> IF i = seat THEN resolved[i] \cup {id} ELSE resolved[i]]

\* Mutant: a skill that had to be made is not noted.
SettledSlip(t, id) ==
  [Passed(t) EXCEPT !.stage = job[t].back, !.resolved = IF At(t, "make") THEN @ ELSE Noting(@, job[t].seat, id)]

\* The skill in turn is settled.
Settled(t, id) == [Passed(t) EXCEPT !.stage = job[t].back, !.resolved = Noting(@, job[t].seat, id)]

\* Mutant: the built-in skills are created without a look.
SeedSlip(t) ==
  /\ At(t, "seed") /\ ~ Through(t)
  /\ Step(t, ToMake(t, "seed", Wants(t), "prompt"))
  /\ UNCHANGED tables

\* ensure_builtins: each is looked for, and created if it is not there.
Seed(t) ==
  /\ At(t, "seed") /\ ~ Through(t)
  /\ Step(t, IF SkillsNamed(Wants(t)) # {} THEN Passed(t)
             ELSE ToMake(t, "seed", Wants(t), "prompt"))
  /\ UNCHANGED tables

Seeded(t) ==
  /\ At(t, "seed") /\ Through(t)
  /\ UNCHANGED tables
  /\ \/ job[t].kind = "design" /\ Step(t, [job[t] EXCEPT !.stage = "plan"])
     \/ job[t].kind = "template" /\ Step(t, Resolving(job[t], Template))
     \/ job[t].kind = "list" /\ Ends(t, TRUE)

\* The connected tools are listed, then the model is asked for a team.
Plan(t, answer) ==
  /\ At(t, "plan")
  /\ Step(t, [Resolving(job[t], Planned(answer, job[t].documents)) EXCEPT
                !.tools = {s \in skills : s.kind = "mcp" /\ ~ s.off}])
  /\ UNCHANGED tables

\* A search is passed over if there are no documents.
Find(t) ==
  /\ At(t, "find") /\ ~ Through(t)
  /\ LET wanted == Wants(t)
         name == IF wanted = Search THEN SearchHandle ELSE wanted
     IN CASE wanted = Search /\ ~ job[t].documents -> Step(t, Passed(t))
          [] SkillsNamed(name) # {} /\ (wanted # Search \/ job[t].documents) ->
               \E s \in SkillsNamed(name) : Step(t, [Settled(t, s.id) EXCEPT !.stage = "find"])
          [] SkillsNamed(name) = {} /\ wanted = Search /\ job[t].documents ->
               Step(t, ToMake(t, "find", name, "retrieval"))
          [] SkillsNamed(name) = {} /\ wanted # Search ->
               Step(t, [job[t] EXCEPT !.stage = "design", !.back = "find"])
  /\ UNCHANGED tables

\* The next agent's skills.
NextAgent(t) ==
  /\ At(t, "find") /\ Through(t) /\ job[t].seat < Len(job[t].team)
  /\ Step(t, [Listing(job[t], "find", job[t].team[job[t].seat + 1].skills) EXCEPT !.seat = @ + 1])
  /\ UNCHANGED tables

\* All agents have theirs.
Resolved(t) == At(t, "find") /\ Through(t) /\ job[t].seat = Len(job[t].team)

\* The model has designed the skill; it may have named it like one there is.
Synthesize(t, sketch) ==
  /\ At(t, "design")
  /\ LET made == Synthesized(Wants(t), sketch, job[t].documents) IN
     IF SkillsNamed(made.name) # {}
     THEN \E s \in SkillsNamed(made.name) : Step(t, Settled(t, s.id))
     ELSE Step(t, ToMake(t, "find", made.name, made.kind))
  /\ UNCHANGED tables

\* create looks once more and inserts; a name taken meanwhile is an error either
\* way, from the look or from the unique constraint.
Make(t) ==
  /\ At(t, "make")
  /\ LET made == job[t].made IN
     IF SkillsNamed(made.name) # {} THEN Raises(t)
     ELSE AddSkill(made.name, made.kind) /\ Step(t, Settled(t, lastId + 1))

Ensured(t) ==
  /\ Resolved(t) /\ job[t].kind = "ensure"
  /\ Ends(t, TRUE) /\ UNCHANGED tables

-----------------------------------------------------------------------------

(* Connected tools, permissions, and what is reused.                         *)

\* The blueprint's own need for an agent it names, else what the model's words say.
Need(agent) ==
  IF \E i \in DOMAIN Blueprint : Blueprint[i].name = agent.name
  THEN Blueprint[CHOOSE i \in DOMAIN Blueprint : Blueprint[i].name = agent.name].needs
  ELSE agent.needs

\* The tools an agent is offered: only those that read, unless it is to write.
Matching(t, seat) ==
  LET need == Need(job[t].team[seat]) IN
  {s \in job[t].tools : need = "write" \/ (need = "read" /\ s.readOnly)}

\* Mutant: the permission is looked into before the tools are attached.
AnnouncedSlip(t, given) == \E i \in DOMAIN given : \E s \in Held(job[t].resolved[i]) : Outward(s)
Announced(t, given) == \E i \in DOMAIN given : \E s \in Held(given[i]) : Outward(s)

\* As many as MaxConnectors of them are attached, and a skill among all that a
\* design gives its agents that reaches outward is announced.
Attach(t, chosen) ==
  /\ Resolved(t) /\ job[t].kind = "design"
  /\ DOMAIN chosen = DOMAIN job[t].team
  /\ \A i \in DOMAIN chosen :
       /\ chosen[i] \subseteq Matching(t, i)
       /\ Cardinality(chosen[i]) <= MaxConnectors
       /\ chosen[i] # Matching(t, i) => Cardinality(chosen[i]) = MaxConnectors
  /\ LET given == [i \in DOMAIN chosen |-> job[t].resolved[i] \cup {s.id : s \in chosen[i]}] IN
     Step(t, [job[t] EXCEPT !.stage = "mark", !.resolved = given, !.announced = Announced(t, given)])
  /\ UNCHANGED tables

\* Each name is looked up, to say on the review screen which agents are reused.
\* Two rows of one name are more than the query stands.
Mark(t) ==
  /\ At(t, "mark")
  /\ IF \E i \in DOMAIN job[t].team : Cardinality(AgentsNamed(job[t].team[i].name)) > 1
     THEN Raises(t)
     ELSE Step(t, [job[t] EXCEPT !.stage = "seat"]) /\ UNCHANGED tables

Copied(t) ==
  /\ Resolved(t) /\ job[t].kind = "template"
  /\ Step(t, [job[t] EXCEPT !.stage = "seat"]) /\ UNCHANGED tables

-----------------------------------------------------------------------------

(* The graph: one agent after the other, found or stored.                    *)

Seat(t)   == Len(job[t].staff) + 1
Open(t)   == Seat(t) \in DOMAIN job[t].team
Name(t)   == job[t].team[Seat(t)].name
Gets(t)   == job[t].resolved[Seat(t)]
Seated(t, id) == [job[t] EXCEPT !.stage = "seat", !.staff = Append(@, id), !.row = NoRow]

\* A design reuses the agent of that name and has it gain what it lacks.
Reuse(t) ==
  /\ At(t, "seat") /\ Open(t) /\ job[t].kind = "design"
  /\ LET found == AgentsNamed(Name(t)) IN
     CASE found = {} -> Step(t, [job[t] EXCEPT !.stage = "hire"]) /\ UNCHANGED tables
       [] Cardinality(found) > 1 -> Raises(t)
       [] OTHER -> /\ \A a \in found :
                        Step(t, IF Gets(t) \subseteq a.skills THEN Seated(t, a.id)
                                ELSE [job[t] EXCEPT !.stage = "train",
                                        !.row = [NoRow EXCEPT !.id = a.id, !.skills = a.skills]])
                   /\ UNCHANGED tables

\* A template's agents are new ones, whatever the workspace has.
Hire(t) ==
  /\ \/ At(t, "hire")
     \/ At(t, "seat") /\ Open(t) /\ job[t].kind = "template"
  /\ AddAgent(Name(t), Gets(t))
  /\ Step(t, [Seated(t, lastId + 1) EXCEPT !.hired = @ \cup {lastId + 1}])

\* update: the row is read, and written with the next version.  The skills
\* written are those of the find before it and what was gained.
GainedSlip(t) == Gets(t)  \* Mutant: the skills it had are forgotten.
Gained(t) == job[t].row.skills \cup Gets(t)

Train(t) ==
  /\ At(t, "train")
  /\ LET rows == {a \in agents : a.id = job[t].row.id} IN
     IF rows = {} THEN Raises(t)
     ELSE /\ \A a \in rows :
               Step(t, [job[t] EXCEPT !.stage = "save", !.row =
                 [NoRow EXCEPT !.id = a.id, !.skills = Gained(t), !.version = a.version]])
          /\ UNCHANGED tables

\* A row that is gone by now, or holds more skills than a definition may, undoes
\* the update.
Save(t) ==
  /\ At(t, "save")
  /\ LET row == job[t].row
         Written(a) == IF a.id # row.id THEN a
                       ELSE [a EXCEPT !.name = IF row.name = NoName THEN @ ELSE row.name,
                                      !.skills = row.skills, !.version = row.version + 1]
     IN IF (\A a \in agents : a.id # row.id) \/ Cardinality(row.skills) > MaxSkills
        THEN Raises(t)
        ELSE /\ agents' = {Written(a) : a \in agents}
             /\ UNCHANGED <<skills, lastId>>
             /\ IF job[t].kind = "edit" THEN Ends(t, TRUE) ELSE Step(t, Seated(t, row.id))

Respond(t) ==
  /\ At(t, "seat") /\ ~ Open(t)
  /\ Ends(t, TRUE) /\ UNCHANGED tables

-----------------------------------------------------------------------------

Init ==
  /\ RegistriesInit
  /\ job = [t \in Threads |-> Idle]
  /\ requests = 0
  /\ last = Unended

Choices(t) == [DOMAIN job[t].team -> SUBSET job[t].tools]

Work(t) ==
  \/ Seed(t) \/ Seeded(t) \/ Find(t) \/ NextAgent(t) \/ Make(t) \/ Ensured(t)
  \/ \E answer \in Answers \cup {NoTeam} : Plan(t, answer)
  \/ \E sketch \in Sketches \cup {NoSketch} : Synthesize(t, sketch)
  \/ \E chosen \in Choices(t) : Attach(t, chosen)
  \/ Mark(t) \/ Copied(t) \/ Reuse(t) \/ Hire(t) \/ Train(t) \/ Save(t) \/ Respond(t)

Arrive(t) ==
  \/ \E documents \in BOOLEAN :
       \/ BeginDesign(t, documents) \/ BeginTemplate(t, documents)
       \/ \E name \in Capabilities : BeginEnsure(t, name, documents)
  \/ BeginList(t)
  \/ \E a \in agents : \E name \in Names, held \in SUBSET a.skills : BeginEdit(t, a.id, name, held)
  \/ Small(t)

Next == \E t \in Threads : Arrive(t) \/ Work(t)

Spec == Init /\ [][Next]_vars

=============================================================================
