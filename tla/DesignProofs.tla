----------------------------- MODULE DesignProofs -----------------------------
(***************************************************************************)
(* Theorems about designs, for any number of threads and requests, any     *)
(* catalogue of teams, any tools, and whatever a model answers.            *)
(***************************************************************************)
EXTENDS DesignProperties, FiniteSetTheorems, FunctionTheorems, SequenceTheorems, TLAPS

-----------------------------------------------------------------------------
(* Tables and requests. *)

Few(S, n) == IsFiniteSet(S) /\ Cardinality(S) <= n

Catalogue == skills \subseteq SkillRows /\ IsFiniteSet(skills) /\ lastId \in Nat

\* No agent holds more skills than a definition may, and no two have one number.
Roster ==
  /\ agents \subseteq AgentRows /\ IsFiniteSet(agents)
  /\ \A a \in agents : a.id <= lastId /\ Few(a.skills, MaxSkills)
  /\ \A a, b \in agents : a.id = b.id => a = b

Building == {"mark", "seat", "hire", "train", "save"}
Stages == {"idle", "seed", "plan", "find", "design", "make"} \cup Building
RequestKinds == {"none", "design", "template", "ensure", "list", "edit"}
RowOf == [id : Nat, name : Names \cup {NoName}, skills : SUBSET Nat, version : Nat]

JobState ==
  [stage : Stages, kind : RequestKinds, alone : BOOLEAN,
   todo : Seq(Wishes), turn : Nat, seat : Nat, back : {"idle", "seed", "find"},
   made : [name : SkillNames, kind : Kinds], documents : BOOLEAN, tools : SUBSET SkillRows,
   team : Seq(Members(Names)), resolved : Seq(SUBSET Nat), announced : BOOLEAN,
   staff : Seq(Nat), hired : SUBSET Nat, row : RowOf]

\* Where in its work a request is: before the plan, among the skills, at the agents.
Seeding(j)   == j.stage \in {"seed", "plan"} \/ (j.stage = "make" /\ j.back = "seed")
Finding(j) == j.stage \in {"find", "design"} \/ (j.stage = "make" /\ j.back = "find")
Edits(j)     == j.kind = "edit" /\ j.stage = "save"
Builds(j)    == j.kind \in {"design", "template"} /\ j.stage \in Building

\* The kinds of request that come to each stage.
Suits(j) ==
  \/ j.stage = "idle" /\ j.kind = "none"
  \/ Seeding(j) /\ j.kind \in {"design", "template", "list"} /\ (j.stage = "plan" => j.kind = "design")
  \/ Finding(j) /\ j.kind \in {"design", "template", "ensure"}
  \/ Builds(j) /\ (j.stage # "seat" => j.kind = "design")
  \/ Edits(j)

\* How far a request is in the list it goes through, and through whose it goes.
InList(j) ==
  /\ j.turn \in 1..(Len(j.todo) + 1)
  /\ j.stage \in {"design", "make"} => j.turn <= Len(j.todo)
  /\ j.stage = "design" => j.todo[j.turn] # Search /\ j.back = "find"
  /\ Seeding(j) => j.todo = Builtins /\ j.team = <<>> /\ j.seat = 0
  /\ j.kind = "ensure" => j.team = <<>> /\ j.seat = 0
  /\ Finding(j) /\ j.kind # "ensure" => j.seat \in 1..Len(j.team) /\ j.todo = j.team[j.seat].skills

\* A skill to be made for an agent is named as was wished, or as the model had it.
NamedFor(j) ==
  j.stage = "make" /\ j.back = "find" /\ j.todo[j.turn] # Search =>
    j.made.name = j.todo[j.turn] \/ \E sketch \in Sketches : j.made.name = sketch.name

\* A team has different names, and its agents are given few skills.
WellPlanned(team) ==
  /\ \A i \in 1..Len(team) : Len(team[i].skills) <= MaxPlanned
  /\ \A i, k \in 1..Len(team) : team[i].name = team[k].name => i = k

Portion(j, i) ==
  IF j.stage \in Building THEN MaxSkills
  ELSE IF i < j.seat THEN MaxPlanned ELSE IF i = j.seat THEN j.turn - 1 ELSE 0

Staffed(j) ==
  /\ WellPlanned(j.team)
  /\ IsFiniteSet(j.tools)
  /\ Len(j.resolved) = Len(j.team)
  /\ \A i \in 1..Len(j.team) : Few(j.resolved[i], Portion(j, i))
  /\ j.stage \notin Building => j.staff = <<>> /\ j.hired = {}
  /\ j.stage = "mark" => j.staff = <<>> /\ j.hired = {}
  /\ Len(j.staff) <= Len(j.team)
  /\ j.kind = "design" /\ j.stage \in {"hire", "train", "save"} => Len(j.staff) < Len(j.team)
  /\ IsFiniteSet(j.row.skills)
  /\ Edits(j) => Few(j.row.skills, MaxSkills)
  /\ j.kind = "design" => j.row.name = NoName

Shape(j) == Suits(j) /\ InList(j) /\ NamedFor(j) /\ Staffed(j)

Jobs == job \in [Threads -> JobState] /\ \A t \in Threads : Shape(job[t])

-----------------------------------------------------------------------------
(* What is so of a request as long as no other overlaps it. *)

Gone(j, i, k) == j.stage \in Building \/ i < j.seat \/ (i = j.seat /\ k < j.turn)
Serves(s, wanted) == s.name = wanted \/ \E sketch \in Sketches : s.name = sketch.name

Served(j, sk) ==
  \A i \in 1..Len(j.team) : \A k \in 1..Len(j.team[i].skills) :
    Gone(j, i, k) /\ j.team[i].skills[k] # Search =>
      \E s \in sk : s.id \in j.resolved[i] /\ Serves(s, j.team[i].skills[k])

Noted(j, sk) ==
  j.kind = "design" /\ j.stage \in Building /\ ~ j.announced =>
    \A i \in 1..Len(j.team) : \A s \in sk : s.id \in j.resolved[i] => ~ Outward(s)

SeatOf(j) == Len(j.staff) + 1

Vacant(j, sk, ag) ==
  /\ j.stage = "make" => \A s \in sk : s.name # j.made.name
  /\ j.stage = "hire" => \A a \in ag : a.name # j.team[SeatOf(j)].name

Seats(j, ag) ==
  \A i \in 1..Len(j.staff) : \E a \in ag :
    a.id = j.staff[i] /\ a.name = j.team[i].name /\ j.resolved[i] \subseteq a.skills

Newcomers(j, ag) ==
  \A a \in ag : a.id \in j.hired => \A x \in a.skills : \E i \in 1..Len(j.team) : x \in j.resolved[i]

RowKnown(j, ag) ==
  /\ j.kind = "design" /\ j.stage = "train" => \E a \in ag :
       a.id = j.row.id /\ a.name = j.team[SeatOf(j)].name /\ j.row.skills = a.skills
  /\ j.kind = "design" /\ j.stage = "save" => \E a \in ag :
       a.id = j.row.id /\ a.name = j.team[SeatOf(j)].name
       /\ j.row.skills = a.skills \cup j.resolved[SeatOf(j)]
  /\ Edits(j) => \E a \in ag : a.id = j.row.id

Fits(j, sk, ag) ==
  Served(j, sk) /\ Noted(j, sk) /\ Vacant(j, sk, ag) /\ Seats(j, ag) /\ Newcomers(j, ag) /\ RowKnown(j, ag)

LoneInv == \A t \in Threads : Busy(t) /\ job[t].alone =>
  (\A u \in Threads : u # t => ~ Busy(u)) /\ Fits(job[t], skills, agents)

LastInv == last.alone =>
  /\ \A t \in Threads : ~ Busy(t)
  /\ LoneDesignDelivers /\ LoneFailureIsExplained /\ WritesAreAnnounced

DesignInv == Catalogue /\ Roster /\ Jobs /\ LoneInv /\ LastInv

-----------------------------------------------------------------------------
(* Sets and sequences. *)

LEMMA FewMore ==
  ASSUME NEW S, NEW n \in Nat, Few(S, n), NEW x
  PROVE  Few(S \cup {x}, n + 1)
<1>1. IsFiniteSet(S) /\ Cardinality(S) \in Nat
  BY FS_CardinalityType DEF Few
<1>2. IsFiniteSet(S \cup {x}) /\ Cardinality(S \cup {x}) \in Nat
      /\ Cardinality(S \cup {x}) <= Cardinality(S) + 1
  BY <1>1, FS_AddElement
<1> QED
  BY <1>1, <1>2 DEF Few

LEMMA FewBoth ==
  ASSUME NEW S, NEW T, NEW m \in Nat, NEW n \in Nat, Few(S, m), Few(T, n)
  PROVE  Few(S \cup T, m + n)
<1>1. /\ IsFiniteSet(S) /\ Cardinality(S) \in Nat /\ Cardinality(S) <= m
      /\ IsFiniteSet(T) /\ Cardinality(T) \in Nat /\ Cardinality(T) <= n
  BY FS_CardinalityType DEF Few
<1>2. IsFiniteSet(S \cap T) /\ Cardinality(S \cap T) \in Nat
  BY <1>1, FS_Intersection, FS_CardinalityType
<1>3. IsFiniteSet(S \cup T) /\ Cardinality(S \cup T) = Cardinality(S) + Cardinality(T) - Cardinality(S \cap T)
  BY <1>1, FS_Union
<1> QED
  BY <1>1, <1>2, <1>3 DEF Few

LEMMA FewLess ==
  ASSUME NEW S, NEW T \in SUBSET S, NEW n \in Nat, Few(S, n)
  PROVE  Few(T, n)
BY FS_Subset, FS_CardinalityType DEF Few

LEMMA FewEnough ==
  ASSUME NEW S, NEW m \in Nat, NEW n \in Nat, m <= n, Few(S, m)
  PROVE  Few(S, n)
BY FS_CardinalityType DEF Few

\* The values of a function are no more than its arguments.
LEMMA FewValues ==
  ASSUME NEW S, IsFiniteSet(S), NEW f, f = [x \in S |-> f[x]]
  PROVE  /\ IsFiniteSet({f[x] : x \in S})
         /\ Cardinality({f[x] : x \in S}) <= Cardinality(S)
<1> DEFINE T == {f[x] : x \in S}
<1>1. f \in [S -> T]
  OBVIOUS
<1>2. f \in Surjection(S, T)
  BY <1>1, Fun_IsSurj
<1> QED
  BY <1>2, FS_Surjection

LEMMA NothingIsFew == \A n \in Nat : Few({}, n)
BY FS_EmptySet DEF Few

LEMMA FunctionIsASeq ==
  ASSUME NEW S, NEW n \in Nat, NEW f \in [1..n -> S]
  PROVE  f \in Seq(S) /\ Len(f) = n
OBVIOUS

LEMMA SeqIsAFunction ==
  ASSUME NEW S, NEW s \in Seq(S)
  PROVE  Len(s) \in Nat /\ DOMAIN s = 1..Len(s) /\ (s = <<>> <=> Len(s) = 0) /\ \A i \in 1..Len(s) : s[i] \in S
BY EmptySeq

-----------------------------------------------------------------------------
(* Frames: what is left to show of a request's step. *)

Sound(j) == j \in JobState /\ Shape(j)

LEMMA StepKeeps ==
  ASSUME DesignInv, NEW t \in Threads, Busy(t), NEW next, Step(t, next),
         Catalogue', Roster', Sound(next), next.stage # "idle", next.alone = job[t].alone,
         job[t].alone => Fits(next, skills', agents')
  PROVE  DesignInv'
<1>1. /\ job' \in [Threads -> JobState]
      /\ job'[t] = next
      /\ \A u \in Threads : u # t => job'[u] = job[u]
  BY DEF DesignInv, Jobs, Step, Sound
<1>2. Jobs'
  BY <1>1 DEF DesignInv, Jobs, Sound
<1>3. LoneInv'
  BY <1>1 DEF DesignInv, LoneInv, Busy, At
<1>4. ~ last'.alone
  BY DEF DesignInv, LastInv, Step, Busy, At
<1> QED
  BY <1>2, <1>3, <1>4 DEF DesignInv, LastInv

LEMMA IdleIsSound == Sound(Idle)
<1>1. NoRow \in RowOf /\ IsFiniteSet(NoRow.skills)
  BY FS_EmptySet DEF NoRow, RowOf
<1>2. Idle \in JobState
  BY <1>1, DesignAssumption DEF JobState, Idle, Stages, RequestKinds, Kinds
<1>3. Suits(Idle) /\ InList(Idle) /\ NamedFor(Idle)
  BY DEF Suits, InList, NamedFor, Idle, Seeding, Finding
<1>4. Staffed(Idle)
  BY <1>1, FS_EmptySet DEF Staffed, WellPlanned, Idle, Building, Edits, NoRow
<1> QED
  BY <1>2, <1>3, <1>4 DEF Sound, Shape

LEMMA EndKeeps ==
  ASSUME DesignInv, NEW t \in Threads, Busy(t), NEW ok \in BOOLEAN, Ends(t, ok),
         Catalogue', Roster',
         job[t].alone => (LoneDesignDelivers /\ LoneFailureIsExplained /\ WritesAreAnnounced)'
  PROVE  DesignInv'
<1>1. /\ job' \in [Threads -> JobState]
      /\ job'[t] = Idle
      /\ \A u \in Threads : u # t => job'[u] = job[u]
  BY IdleIsSound DEF DesignInv, Jobs, Ends, Sound
<1>2. Jobs'
  BY <1>1, IdleIsSound DEF DesignInv, Jobs, Sound
<1>3. LoneInv'
  BY <1>1 DEF DesignInv, LoneInv, Busy, At, Idle
<1>4. last'.alone = job[t].alone
  BY DEF Ends
<1>5. LastInv'
  <2> SUFFICES ASSUME last'.alone PROVE LastInv'
    BY DEF LastInv
  <2>1. \A u \in Threads : ~ Busy(u)'
    BY <1>1, <1>4 DEF DesignInv, LoneInv, Busy, At, Idle
  <2> QED
    BY <2>1, <1>4 DEF LastInv
<1> QED
  BY <1>2, <1>3, <1>5 DEF DesignInv

LEMMA OverlappedIsSound ==
  ASSUME DesignInv, NEW u \in Threads
  PROVE  LET k == [job[u] EXCEPT !.alone = ~ Busy(u)] IN
         Sound(k) /\ k.stage = job[u].stage /\ k.alone = ~ Busy(u)
<1> DEFINE j == job[u]  k == [j EXCEPT !.alone = ~ Busy(u)]
<1>1. j \in JobState /\ Shape(j)
  BY DEF DesignInv, Jobs
<1>2. k \in JobState /\ k.stage = j.stage /\ k.alone = ~ Busy(u)
  BY <1>1 DEF JobState, Busy
<1>3. Shape(k)
  BY <1>1 DEF JobState, Shape, Suits, InList, NamedFor, Staffed, Seeding, Finding, Builds, Edits, Portion
<1> QED
  BY <1>2, <1>3 DEF Sound

LEMMA BeginKeeps ==
  ASSUME DesignInv, NEW t \in Threads, NEW kind, NEW first, Begin(t, kind, first), UNCHANGED tables,
         \A lone \in BOOLEAN : Sound([first EXCEPT !.kind = kind, !.alone = lone]),
         Fits([first EXCEPT !.kind = kind, !.alone = TRUE], skills, agents)
  PROVE  DesignInv'
<1> DEFINE quiet == \A v \in Threads : ~ Busy(v)
<1>1. \A u \in Threads : job'[u] = IF u = t THEN [first EXCEPT !.kind = kind, !.alone = quiet]
                                   ELSE [job[u] EXCEPT !.alone = ~ Busy(u)]
  BY DEF Begin
<1>2. \A u \in Threads : u # t => Sound(job'[u]) /\ job'[u].stage = job[u].stage /\ job'[u].alone = ~ Busy(u)
  BY <1>1, OverlappedIsSound
<1>3. Sound(job'[t]) /\ job'[t].alone = quiet
  BY <1>1 DEF Sound, JobState
<1>4. Jobs'
  <2>1. job' \in [Threads -> JobState]
    BY <1>1, <1>2, <1>3 DEF Begin, Sound
  <2> QED
    BY <2>1, <1>2, <1>3 DEF Jobs, Sound
<1>5. LoneInv'
  <2> SUFFICES ASSUME NEW u \in Threads, Busy(u)', job'[u].alone
               PROVE  /\ \A v \in Threads : v # u => ~ Busy(v)'
                      /\ Fits(job'[u], skills', agents')
    BY DEF LoneInv
  <2>1. u = t
    BY <1>2 DEF Busy, At
  <2>2. quiet
    BY <2>1, <1>3
  <2> QED
    BY <2>1, <2>2, <1>1, <1>2 DEF Busy, At, tables
<1>6. ~ last'.alone
  BY DEF Begin, Unended
<1> QED
  BY <1>4, <1>5, <1>6 DEF DesignInv, LastInv, Catalogue, Roster, tables

LEMMA OnceKeeps ==
  ASSUME DesignInv, NEW t \in Threads, NEW kind, Once(t, kind), Catalogue', Roster'
  PROVE  DesignInv'
<1>1. \A u \in Threads : job'[u] = [job[u] EXCEPT !.alone = ~ Busy(u)]
  BY DEF Once
<1>2. \A u \in Threads : Sound(job'[u]) /\ job'[u].stage = job[u].stage /\ job'[u].alone = ~ Busy(u)
  <2> SUFFICES ASSUME NEW u \in Threads
               PROVE  Sound(job'[u]) /\ job'[u].stage = job[u].stage /\ job'[u].alone = ~ Busy(u)
    OBVIOUS
  <2>1. job'[u] = [job[u] EXCEPT !.alone = ~ Busy(u)]
    BY <1>1
  <2> QED
    BY <2>1, OverlappedIsSound
<1>3. Jobs'
  <2>1. job' \in [Threads -> JobState]
    BY <1>1, <1>2 DEF Once, Sound
  <2> QED
    BY <2>1, <1>2 DEF Jobs, Sound
<1>4. LoneInv'
  BY <1>2 DEF LoneInv, Busy, At
<1>5. ~ last'.alone
  BY DEF Once, Unended
<1> QED
  BY <1>3, <1>4, <1>5 DEF DesignInv, LastInv

-----------------------------------------------------------------------------
(* The tables. *)

LEMMA AddSkillKeeps ==
  ASSUME Catalogue, Roster, NEW name \in SkillNames, NEW kind \in Kinds, AddSkill(name, kind)
  PROVE  Catalogue' /\ Roster'
<1>1. skills' \subseteq SkillRows /\ lastId' \in Nat /\ lastId' = lastId + 1
  <2>1. SkillOf(name, kind) \in SkillRows
    BY DEF Catalogue, SkillOf, SkillRows
  <2> QED
    BY <2>1 DEF AddSkill, Catalogue
<1>2. IsFiniteSet(skills')
  BY FS_AddElement DEF AddSkill, Catalogue
<1>3. Roster'
  BY <1>1 DEF Roster, AddSkill, Catalogue, AgentRows
<1> QED
  BY <1>1, <1>2, <1>3 DEF Catalogue

LEMMA AddAgentKeeps ==
  ASSUME Catalogue, Roster, NEW name \in Names, NEW held \in SUBSET Nat, Few(held, MaxSkills),
         AddAgent(name, held)
  PROVE  Catalogue' /\ Roster'
<1>1. Catalogue'
  BY DEF AddAgent, Catalogue
<1> DEFINE new == [id |-> lastId + 1, name |-> name, skills |-> held, version |-> 1]
<1>2. agents' = agents \cup {new} /\ lastId' = lastId + 1 /\ lastId \in Nat /\ new \in AgentRows
  BY DEF AddAgent, Catalogue, AgentRows
<1>3. IsFiniteSet(agents')
  BY <1>2, FS_AddElement DEF Roster
<1>4. \A a \in agents' : a.id <= lastId' /\ Few(a.skills, MaxSkills)
  <2>1. \A a \in agents : a.id \in Nat
    BY DEF Roster, AgentRows
  <2> QED
    BY <1>2, <2>1 DEF Roster
<1>5. \A a, b \in agents' : a.id = b.id => a = b
  <2>1. \A a \in agents : a.id \in Nat /\ a.id # new.id
    BY DEF Roster, AgentRows, Catalogue
  <2> QED
    BY <1>2, <2>1 DEF Roster
<1>6. agents' \subseteq AgentRows
  BY <1>2 DEF Roster
<1> QED
  BY <1>1, <1>3, <1>4, <1>5, <1>6 DEF Roster

LEMMA SmallKeeps ==
  ASSUME DesignInv, NEW t \in Threads, Small(t)
  PROVE  DesignInv'
<1>1. CASE \E skill \in Posted : Once(t, "skill") /\ PostSkill(skill.name, skill.kind)
  <2>1. PICK skill \in Posted : Once(t, "skill") /\ PostSkill(skill.name, skill.kind)
    BY <1>1
  <2>2. skill.name \in SkillNames /\ skill.kind \in Kinds
    BY DesignAssumption
  <2>3. Catalogue' /\ Roster'
    BY <2>1, <2>2, AddSkillKeeps DEF PostSkill, DesignInv
  <2> QED
    BY <2>1, <2>3, OnceKeeps
<1>2. CASE \E s \in skills : Once(t, "remove") /\ DeleteSkill(s.id)
  <2>1. PICK s \in skills : Once(t, "remove") /\ DeleteSkill(s.id)
    BY <1>2
  <2>2. Catalogue' /\ Roster'
    BY <2>1, FS_Subset DEF DeleteSkill, DesignInv, Catalogue, Roster
  <2> QED
    BY <2>1, <2>2, OnceKeeps
<1>3. CASE \E name \in Names : Once(t, "agent") /\ PostAgent(name)
  <2>1. PICK name \in Names : Once(t, "agent") /\ PostAgent(name)
    BY <1>3
  <2>2. Few({}, MaxSkills)
    BY NothingIsFew, RegistriesAssumption
  <2>3. Catalogue' /\ Roster'
    BY <2>1, <2>2, AddAgentKeeps DEF PostAgent, DesignInv
  <2> QED
    BY <2>1, <2>3, OnceKeeps
<1>4. CASE \E a \in agents : Once(t, "remove") /\ DeleteAgent(a.id)
  <2>1. PICK a \in agents : Once(t, "remove") /\ DeleteAgent(a.id)
    BY <1>4
  <2>2. Catalogue' /\ Roster'
    BY <2>1, FS_Subset DEF DeleteAgent, DesignInv, Catalogue, Roster
  <2> QED
    BY <2>1, <2>2, OnceKeeps
<1>5. CASE \E name \in Tools : Once(t, "sync") /\ SyncTool(name)
  <2>1. PICK name \in Tools : Once(t, "sync") /\ SyncTool(name)
    BY <1>5
  <2> DEFINE f == [s \in skills |-> IF s.name = name /\ s.kind = "mcp" THEN [s EXCEPT !.off = ~ @] ELSE s]
  <2>2. skills' = {f[s] : s \in skills} /\ UNCHANGED <<agents, lastId>>
    BY <2>1 DEF SyncTool
  <2>3. IsFiniteSet(skills')
    <3>1. f = [s \in skills |-> f[s]] /\ IsFiniteSet(skills)
      BY DEF DesignInv, Catalogue
    <3> HIDE DEF f
    <3> QED
      BY <2>2, <3>1, FewValues
  <2>4. skills' \subseteq SkillRows
    BY <2>2 DEF DesignInv, Catalogue, SkillRows
  <2>5. Catalogue' /\ Roster'
    BY <2>2, <2>3, <2>4 DEF DesignInv, Catalogue, Roster
  <2> QED
    BY <2>1, <2>5, OnceKeeps
<1> QED
  BY <1>1, <1>2, <1>3, <1>4, <1>5 DEF Small

LEMMA DesignStarts == Init => DesignInv
<1> SUFFICES ASSUME Init PROVE DesignInv
  OBVIOUS
<1>1. PICK f \in [Tools -> 1..Cardinality(Tools)] : \A x, y \in Tools : f[x] = f[y] => x = y
  <2>1. ExistsBijection(Tools, 1..Cardinality(Tools))
    BY RegistriesAssumption, FS_CardinalityType, Fun_ExistsBijSymmetric
  <2>2. PICK f : f \in Bijection(Tools, 1..Cardinality(Tools))
    BY <2>1 DEF ExistsBijection
  <2> QED
    <3>1. /\ f \in [Tools -> 1..Cardinality(Tools)]
          /\ \A x, y \in Tools : f[x] = f[y] => x = y
      BY <2>2, Fun_BijectionProperties
    <3> QED
      BY <3>1
<1> DEFINE number == CHOOSE g \in [Tools -> 1..Cardinality(Tools)] : \A x, y \in Tools : g[x] = g[y] => x = y
<1>2. number \in [Tools -> 1..Cardinality(Tools)]
  BY <1>1
<1> HIDE DEF number
<1>3. Cardinality(Tools) \in Nat
  BY RegistriesAssumption, FS_CardinalityType
<1> DEFINE row == [tool \in Tools |-> [id |-> number[tool], name |-> tool, kind |-> "mcp",
                                       readOnly |-> tool \in ReadTools, off |-> FALSE]]
<1>4. skills = {row[tool] : tool \in Tools} /\ agents = {} /\ lastId = Cardinality(Tools)
  BY DEF Init, RegistriesInit, number
<1>5. skills \subseteq SkillRows
  <2>1. \A tool \in Tools : number[tool] \in Nat /\ tool \in SkillNames /\ (tool \in ReadTools) \in BOOLEAN
    BY <1>2, <1>3, RegistriesAssumption
  <2>2. \A tool \in Tools : row[tool] \in SkillRows
    BY <2>1 DEF SkillRows, Kinds
  <2> QED
    BY <2>2, <1>4
<1>6. IsFiniteSet(skills)
  <2>1. row = [tool \in Tools |-> row[tool]] /\ IsFiniteSet(Tools)
    BY RegistriesAssumption
  <2> HIDE DEF row
  <2> QED
    BY <1>4, <2>1, FewValues
<1>7. Catalogue /\ Roster
  BY <1>3, <1>4, <1>5, <1>6, FS_EmptySet DEF Catalogue, Roster
<1>8. Jobs /\ LoneInv
  BY IdleIsSound DEF Init, Jobs, LoneInv, Sound, Busy, At, Idle
<1>9. ~ last.alone
  BY DEF Init, Unended
<1> QED
  BY <1>7, <1>8, <1>9 DEF DesignInv, LastInv

-----------------------------------------------------------------------------
(* Arrivals. *)

LEMMA NothingYet ==
  ASSUME NEW j, j.team = <<>>, j.staff = <<>>, j.hired = {}, j.stage \in {"seed", "plan", "find"},
         NEW sk, NEW ag
  PROVE  Fits(j, sk, ag)
BY DEF Fits, Served, Noted, Vacant, Seats, Newcomers, RowKnown, Edits, Building

LEMMA ListingIsSound ==
  ASSUME NEW kind \in RequestKinds, NEW stage \in {"seed", "find"}, NEW names \in Seq(Wishes), NEW documents \in BOOLEAN,
         NEW lone \in BOOLEAN,
         IF stage = "seed" THEN kind \in {"design", "template", "list"} /\ names = Builtins ELSE kind = "ensure",
         NEW first, \/ first = [Listing(Idle, stage, names) EXCEPT !.documents = documents]
                    \/ first = Listing(Idle, stage, names)
  PROVE  LET j == [first EXCEPT !.kind = kind, !.alone = lone] IN
         Sound(j) /\ Fits(j, skills, agents)
<1> DEFINE j == [first EXCEPT !.kind = kind, !.alone = lone]
<1>1. \/ j = [Idle EXCEPT !.stage = stage, !.todo = names, !.turn = 1, !.documents = documents, !.kind = kind, !.alone = lone]
      \/ j = [Idle EXCEPT !.stage = stage, !.todo = names, !.turn = 1, !.kind = kind, !.alone = lone]
  BY DEF Listing, Idle
<1> HIDE DEF j
<1>2. /\ j.stage = stage /\ j.todo = names /\ j.turn = 1 /\ j.kind = kind
      /\ j.seat = 0 /\ j.back = "idle" /\ j.team = <<>> /\ j.resolved = <<>> /\ j.tools = {}
      /\ j.staff = <<>> /\ j.hired = {} /\ j.row = NoRow
  BY <1>1 DEF Idle
<1>3. j \in JobState
  <2>1. Idle \in JobState
    BY IdleIsSound DEF Sound
  <2>2. CASE j = [Idle EXCEPT !.stage = stage, !.todo = names, !.turn = 1, !.documents = documents, !.kind = kind, !.alone = lone]
    BY <2>1, <2>2 DEF JobState, Stages
  <2>3. CASE j = [Idle EXCEPT !.stage = stage, !.todo = names, !.turn = 1, !.kind = kind, !.alone = lone]
    BY <2>1, <2>3 DEF JobState, Stages
  <2> QED
    BY <1>1, <2>2, <2>3
<1>4. Suits(j) /\ InList(j) /\ NamedFor(j)
  BY <1>2 DEF Suits, InList, NamedFor, Seeding, Finding
<1>5. Staffed(j)
  BY <1>2, FS_EmptySet DEF Staffed, WellPlanned, Building, Edits, NoRow
<1>6. Fits(j, skills, agents)
  BY <1>2, NothingYet
<1> QED
  BY <1>3, <1>4, <1>5, <1>6 DEF Sound, Shape, j

LEMMA EditIsSound ==
  ASSUME DesignInv, NEW a \in agents, NEW name \in Names, NEW held \in SUBSET a.skills, NEW lone \in BOOLEAN
  PROVE  LET j == [[Idle EXCEPT !.stage = "save", !.row =
                     [id |-> a.id, name |-> name, skills |-> held, version |-> a.version]]
                   EXCEPT !.kind = "edit", !.alone = lone] IN
         Sound(j) /\ Fits(j, skills, agents)
<1> DEFINE new == [id |-> a.id, name |-> name, skills |-> held, version |-> a.version]
           j == [[Idle EXCEPT !.stage = "save", !.row = new] EXCEPT !.kind = "edit", !.alone = lone]
<1>1. a \in AgentRows /\ Few(a.skills, MaxSkills)
  BY DEF DesignInv, Roster
<1>2. new \in RowOf /\ Few(new.skills, MaxSkills)
  BY <1>1, FewLess, RegistriesAssumption DEF AgentRows, RowOf
<1>3. j = [Idle EXCEPT !.stage = "save", !.row = new, !.kind = "edit", !.alone = lone]
  BY DEF Idle
<1> HIDE DEF new
<1>4. /\ j.stage = "save" /\ j.todo = <<>> /\ j.turn = 1 /\ j.kind = "edit"
      /\ j.seat = 0 /\ j.back = "idle" /\ j.team = <<>> /\ j.resolved = <<>> /\ j.tools = {}
      /\ j.staff = <<>> /\ j.hired = {} /\ j.row = new
  BY <1>3 DEF Idle
<1>5. j \in JobState
  BY <1>2, <1>3, IdleIsSound DEF Sound, JobState, Stages, Building, RequestKinds
<1>6. new.id = a.id
  BY DEF new
<1> HIDE DEF j
<1>7. Suits(j) /\ InList(j) /\ NamedFor(j)
  BY <1>4 DEF Suits, InList, NamedFor, Seeding, Finding, Edits
<1>8. Staffed(j)
  BY <1>2, <1>4, FS_EmptySet DEF Staffed, WellPlanned, Building, Edits, Few
<1>9. Fits(j, skills, agents)
  BY <1>4, <1>6 DEF Fits, Served, Noted, Vacant, Seats, Newcomers, RowKnown, Edits
<1> QED
  BY <1>5, <1>7, <1>8, <1>9 DEF Sound, Shape, j, new

LEMMA BuiltinsAreWishes == Builtins \in Seq(Wishes) /\ \A name \in Capabilities : <<name>> \in Seq(Wishes)
BY DesignAssumption DEF Wishes

LEMMA ArriveKeeps ==
  ASSUME DesignInv, NEW t \in Threads, Arrive(t)
  PROVE  DesignInv'
<1> USE BuiltinsAreWishes
<1>1. CASE \E documents \in BOOLEAN : BeginDesign(t, documents)
  <2>1. PICK documents \in BOOLEAN : BeginDesign(t, documents)
    BY <1>1
  <2> DEFINE first == [Listing(Idle, "seed", Builtins) EXCEPT !.documents = documents]
  <2>3. \A lone \in BOOLEAN : LET j == [first EXCEPT !.kind = "design", !.alone = lone] IN
          Sound(j) /\ Fits(j, skills, agents)
    BY ListingIsSound DEF RequestKinds
  <2>4. Begin(t, "design", first) /\ UNCHANGED tables
    BY <2>1 DEF BeginDesign
  <2> HIDE DEF first
  <2> QED
    BY <2>3, <2>4, BeginKeeps
<1>2. CASE \E documents \in BOOLEAN : BeginTemplate(t, documents)
  <2>1. PICK documents \in BOOLEAN : BeginTemplate(t, documents)
    BY <1>2
  <2>2. (documents /\ Grounded) \in BOOLEAN
    OBVIOUS
  <2> DEFINE first == [Listing(Idle, "seed", Builtins) EXCEPT !.documents = (documents /\ Grounded)]
  <2>3. \A lone \in BOOLEAN : LET j == [first EXCEPT !.kind = "template", !.alone = lone] IN
          Sound(j) /\ Fits(j, skills, agents)
    BY <2>2, ListingIsSound DEF RequestKinds
  <2>4. Begin(t, "template", first) /\ UNCHANGED tables
    BY <2>1 DEF BeginTemplate
  <2> HIDE DEF first
  <2> QED
    BY <2>3, <2>4, BeginKeeps
<1>3. CASE \E documents \in BOOLEAN : \E name \in Capabilities : BeginEnsure(t, name, documents)
  <2>1. PICK documents \in BOOLEAN, name \in Capabilities : BeginEnsure(t, name, documents)
    BY <1>3
  <2> DEFINE first == [Listing(Idle, "find", <<name>>) EXCEPT !.documents = documents]
  <2>3. \A lone \in BOOLEAN : LET j == [first EXCEPT !.kind = "ensure", !.alone = lone] IN
          Sound(j) /\ Fits(j, skills, agents)
    BY ListingIsSound DEF RequestKinds
  <2>4. Begin(t, "ensure", first) /\ UNCHANGED tables
    BY <2>1 DEF BeginEnsure
  <2> HIDE DEF first
  <2> QED
    BY <2>3, <2>4, BeginKeeps
<1>4. CASE BeginList(t)
  <2> DEFINE first == Listing(Idle, "seed", Builtins)
  <2>1. \A lone \in BOOLEAN : LET j == [first EXCEPT !.kind = "list", !.alone = lone] IN
          Sound(j) /\ Fits(j, skills, agents)
    BY ListingIsSound DEF RequestKinds
  <2>2. Begin(t, "list", first) /\ UNCHANGED tables
    BY <1>4 DEF BeginList
  <2> HIDE DEF first
  <2> QED
    BY <2>1, <2>2, BeginKeeps
<1>5. CASE \E a \in agents : \E name \in Names, held \in SUBSET a.skills : BeginEdit(t, a.id, name, held)
  <2>0. PICK b \in agents : \E name \in Names, held \in SUBSET b.skills : BeginEdit(t, b.id, name, held)
    BY <1>5
  <2>1. PICK name \in Names, held \in SUBSET b.skills : BeginEdit(t, b.id, name, held)
    BY <2>0
  <2>2. PICK a \in agents : a.id = b.id /\ Begin(t, "edit", [Idle EXCEPT !.stage = "save", !.row =
         [id |-> b.id, name |-> name, skills |-> held, version |-> a.version]]) /\ UNCHANGED tables
    BY <2>1 DEF BeginEdit
  <2>3. a = b
    BY <2>2 DEF DesignInv, Roster
  <2> QED
    BY <2>2, <2>3, BeginKeeps, EditIsSound
<1>6. CASE Small(t)
  BY <1>6, SmallKeeps
<1> QED
  BY <1>1, <1>2, <1>3, <1>4, <1>5, <1>6 DEF Arrive

-----------------------------------------------------------------------------
(* The built-in skills and the plan. *)

LEMMA SameTables ==
  ASSUME DesignInv, UNCHANGED tables
  PROVE  Catalogue' /\ Roster' /\ skills' = skills /\ agents' = agents
BY DEF DesignInv, Catalogue, Roster, tables

LEMMA JobIsSound ==
  ASSUME DesignInv, NEW t \in Threads
  PROVE  /\ Sound(job[t])
         /\ job[t].alone /\ Busy(t) => Fits(job[t], skills, agents)
BY DEF DesignInv, Jobs, Sound, LoneInv

\* What ends for another reason than a design's has nothing to keep but that it went well.
LEMMA OthersEnd ==
  ASSUME NEW t \in Threads, Ends(t, TRUE), job[t].kind # "design"
  PROVE  (LoneDesignDelivers /\ LoneFailureIsExplained /\ WritesAreAnnounced)'
BY DEF Ends, LoneDesignDelivers, LoneFailureIsExplained, WritesAreAnnounced, Lone

\* What is so of a request that has no team yet.
LEMMA NoTeamYet ==
  ASSUME NEW j, Sound(j), Seeding(j)
  PROVE  /\ j \in JobState
         /\ j.todo = Builtins /\ j.turn \in 1..(Len(Builtins) + 1) /\ (j.stage = "make" => j.turn \in 1..Len(Builtins))
         /\ j.team = <<>> /\ j.resolved = <<>> /\ j.seat = 0 /\ j.staff = <<>> /\ j.hired = {}
         /\ j.kind \in {"design", "template", "list"} /\ IsFiniteSet(j.tools) /\ IsFiniteSet(j.row.skills)
         /\ j.kind = "design" => j.row.name = NoName
<1>1. j \in JobState /\ Suits(j) /\ InList(j) /\ Staffed(j)
  BY DEF Sound, Shape
<1>2. j.todo = Builtins /\ j.team = <<>> /\ j.seat = 0
  BY <1>1 DEF InList
<1>3. j.resolved = <<>>
  BY <1>1, <1>2, EmptySeq DEF Staffed, JobState
<1>4. j.stage \in {"seed", "plan", "make"} /\ j.stage \notin Building
  BY DEF Seeding, Building
<1>5. j.staff = <<>> /\ j.hired = {} /\ IsFiniteSet(j.tools) /\ IsFiniteSet(j.row.skills)
      /\ (j.kind = "design" => j.row.name = NoName)
  BY <1>1, <1>4 DEF Staffed
<1>6. j.turn \in 1..(Len(Builtins) + 1) /\ (j.stage = "make" => j.turn \in 1..Len(Builtins))
  BY <1>1, <1>2, DesignAssumption DEF InList
<1>7. j.kind \in {"design", "template", "list"}
  BY <1>1, <1>4 DEF Suits, Seeding, Finding, Builds, Edits
<1> QED
  BY <1>1, <1>2, <1>3, <1>5, <1>6, <1>7

LEMMA SeedingIsSound ==
  ASSUME NEW j, j \in JobState, Seeding(j), j.kind \in {"design", "template", "list"}, j.stage = "plan" => j.kind = "design",
         j.todo = Builtins, j.turn \in 1..(Len(Builtins) + 1), j.stage = "make" => j.turn \in 1..Len(Builtins),
         j.team = <<>>, j.resolved = <<>>, j.seat = 0, j.staff = <<>>, j.hired = {},
         IsFiniteSet(j.tools), IsFiniteSet(j.row.skills), j.kind = "design" => j.row.name = NoName
  PROVE  Sound(j)
<1>1. Suits(j) /\ InList(j) /\ NamedFor(j)
  BY DesignAssumption DEF Suits, InList, NamedFor, Seeding, Finding
<1>2. Staffed(j)
  BY DEF Staffed, WellPlanned, Seeding, Building, Edits
<1> QED
  BY <1>1, <1>2 DEF Sound, Shape

LEMMA SeedKeeps ==
  ASSUME DesignInv, NEW t \in Threads, Seed(t)
  PROVE  DesignInv'
<1> DEFINE j == job[t]
<1>1. /\ Sound(j) /\ Seeding(j) /\ j.stage = "seed" /\ ~ (j.turn > Len(j.todo)) /\ Busy(t)
      /\ Catalogue' /\ Roster' /\ skills' = skills /\ agents' = agents
  BY JobIsSound, SameTables DEF Seed, At, Through, Seeding, Busy
<1>2. /\ j \in JobState /\ j.todo = Builtins /\ j.turn \in 1..Len(Builtins)
      /\ j.team = <<>> /\ j.resolved = <<>> /\ j.seat = 0 /\ j.staff = <<>> /\ j.hired = {}
      /\ j.kind \in {"design", "template", "list"} /\ IsFiniteSet(j.tools) /\ IsFiniteSet(j.row.skills)
      /\ j.kind = "design" => j.row.name = NoName
  BY <1>1, NoTeamYet, DesignAssumption
<1>3. Wants(t) \in SkillNames
  BY <1>2, DesignAssumption, SeqIsAFunction DEF Wants
<1>4. CASE SkillsNamed(Wants(t)) # {}
  <2> DEFINE next == Passed(t)
  <2>1. Step(t, next) /\ next = [j EXCEPT !.turn = j.turn + 1]
    BY <1>4 DEF Seed, Passed
  <2> HIDE DEF next
  <2>2. /\ next \in JobState /\ next.stage = "seed" /\ next.todo = Builtins /\ next.turn = j.turn + 1
        /\ next.team = <<>> /\ next.resolved = <<>> /\ next.seat = 0 /\ next.staff = <<>> /\ next.hired = {}
        /\ next.kind = j.kind /\ next.alone = j.alone /\ next.tools = j.tools /\ next.row = j.row
    <3>1. j.turn + 1 \in Nat
      BY <1>2 DEF JobState
    <3> HIDE DEF j
    <3> QED
      BY <1>1, <1>2, <2>1, <3>1 DEF JobState
  <2>3. Sound(next)
    BY <1>2, <2>2, DesignAssumption, SeedingIsSound DEF Seeding
  <2>4. Fits(next, skills', agents')
    BY <2>2, NothingYet
  <2> QED
    BY <1>1, <2>1, <2>2, <2>3, <2>4, StepKeeps
<1>5. CASE SkillsNamed(Wants(t)) = {}
  <2> DEFINE next == ToMake(t, "seed", Wants(t), "prompt")
             made == [name |-> Wants(t), kind |-> "prompt"]
  <2>1. Step(t, next) /\ next = [j EXCEPT !.stage = "make", !.back = "seed", !.made = made]
    BY <1>5 DEF Seed, ToMake
  <2>2. made \in [name : SkillNames, kind : Kinds] /\ made.name = Wants(t)
    BY <1>3 DEF Kinds
  <2> HIDE DEF next, made
  <2>3. next \in JobState
    BY <1>2, <2>1, <2>2 DEF JobState, Stages
  <2>4. /\ next.stage = "make" /\ next.back = "seed" /\ next.todo = Builtins /\ next.turn = j.turn /\ next.made = made
        /\ next.team = <<>> /\ next.resolved = <<>> /\ next.seat = 0 /\ next.staff = <<>> /\ next.hired = {}
        /\ next.kind = j.kind /\ next.alone = j.alone /\ next.tools = j.tools /\ next.row = j.row
    BY <1>1, <1>2, <2>1 DEF JobState
  <2>5. Sound(next)
    BY <1>2, <2>3, <2>4, DesignAssumption, SeedingIsSound DEF Seeding
  <2>6. Fits(next, skills', agents')
    BY <1>1, <1>5, <2>2, <2>4
    DEF Fits, Served, Noted, Vacant, Seats, Newcomers, RowKnown, Edits, Building, SkillsNamed
  <2> QED
    BY <1>1, <2>1, <2>4, <2>5, <2>6, StepKeeps
<1> QED
  BY <1>4, <1>5

LEMMA ResolvingKeeps ==
  ASSUME DesignInv, NEW t \in Threads, job[t].stage \in {"seed", "plan"}, job[t].kind \in {"design", "template"},
         UNCHANGED tables,
         NEW team \in Seq(Members(Names)), team # <<>>, WellPlanned(team),
         NEW connected \in SUBSET SkillRows, IsFiniteSet(connected),
         NEW next, Step(t, next),
         \/ next = Resolving(job[t], team)
         \/ next = [Resolving(job[t], team) EXCEPT !.tools = connected]
  PROVE  DesignInv'
<1> DEFINE j == job[t]
           none == [i \in DOMAIN team |-> {}]
<1>1. /\ Sound(j) /\ j \in JobState
      /\ Catalogue' /\ Roster' /\ skills' = skills /\ agents' = agents
  BY JobIsSound, SameTables DEF Sound
<1>2. /\ Len(team) \in Nat /\ DOMAIN team = 1..Len(team) /\ 1 \in 1..Len(team)
      /\ \A i \in 1..Len(team) : team[i].skills \in Seq(Wishes)
  <2>1. /\ Len(team) \in Nat /\ DOMAIN team = 1..Len(team) /\ Len(team) # 0
        /\ \A i \in 1..Len(team) : team[i] \in Members(Names)
    BY SeqIsAFunction
  <2> QED
    BY <2>1 DEF Members
<1>3. none \in Seq(SUBSET Nat) /\ Len(none) = Len(team) /\ \A i \in 1..Len(team) : none[i] = {}
  BY <1>2, FunctionIsASeq
<1> HIDE DEF none
<1>4. \/ next = [j EXCEPT !.stage = "find", !.todo = team[1].skills, !.turn = 1, !.seat = 1, !.team = team,
                          !.resolved = none]
      \/ next = [j EXCEPT !.stage = "find", !.todo = team[1].skills, !.turn = 1, !.seat = 1, !.team = team,
                          !.resolved = none, !.tools = connected]
  BY DEF Resolving, Listing, none
<1>5. next \in JobState
  <2>1. CASE next = [j EXCEPT !.stage = "find", !.todo = team[1].skills, !.turn = 1, !.seat = 1, !.team = team,
                          !.resolved = none]
    BY <1>1, <1>2, <1>3, <2>1 DEF JobState, Stages
  <2>2. CASE next = [j EXCEPT !.stage = "find", !.todo = team[1].skills, !.turn = 1, !.seat = 1, !.team = team,
                          !.resolved = none, !.tools = connected]
    BY <1>1, <1>2, <1>3, <2>2 DEF JobState, Stages
  <2> QED
    BY <1>4, <2>1, <2>2
<1>6. /\ next.stage = "find" /\ next.todo = team[1].skills /\ next.turn = 1 /\ next.seat = 1 /\ next.team = team
      /\ next.resolved = none /\ next.kind = j.kind /\ next.alone = j.alone /\ next.staff = j.staff /\ next.hired = j.hired
      /\ next.row = j.row /\ next.tools \in {j.tools, connected}
  <2>1. CASE next = [j EXCEPT !.stage = "find", !.todo = team[1].skills, !.turn = 1, !.seat = 1, !.team = team,
                          !.resolved = none]
    BY <1>1, <2>1 DEF JobState
  <2>2. CASE next = [j EXCEPT !.stage = "find", !.todo = team[1].skills, !.turn = 1, !.seat = 1, !.team = team,
                          !.resolved = none, !.tools = connected]
    BY <1>1, <2>2 DEF JobState
  <2> QED
    BY <1>4, <2>1, <2>2
<1> HIDE DEF none
<1>7. Suits(next) /\ InList(next) /\ NamedFor(next)
  BY <1>2, <1>5, <1>6 DEF Suits, InList, NamedFor, Seeding, Finding, JobState
<1>8. Staffed(next)
  <2>1. \A i \in 1..Len(team) : Few(none[i], Portion(next, i))
    <3>1. next.stage \notin Building /\ MaxPlanned \in Nat
      BY <1>6, DesignAssumption DEF Building
    <3>2. \A i \in 1..Len(team) : Portion(next, i) = 0
      BY <1>2, <1>6, <3>1 DEF Portion
    <3> QED
      BY <1>3, <3>2, NothingIsFew
  <2> QED
    BY <1>1, <1>3, <1>6, <2>1 DEF Sound, Shape, Staffed, Building, Edits
<1>9. Fits(next, skills', agents')
  <2>1. next.staff = <<>> /\ next.hired = {}
    BY <1>1, <1>6 DEF Sound, Shape, Staffed, Building
  <2> QED
    BY <1>2, <1>6, <2>1 DEF Fits, Served, Gone, Noted, Vacant, Seats, Newcomers, RowKnown, Edits, Building
<1> QED
  BY <1>1, <1>5, <1>6, <1>7, <1>8, <1>9, StepKeeps DEF Sound, Shape, Busy, At

LEMMA PreparedIsWellPlanned ==
  ASSUME NEW team, Prepared(team)
  PROVE  team \in Seq(Members(Names)) /\ team # <<>> /\ WellPlanned(team)
<1>1. /\ team \in Seq(Members(Names)) /\ team # <<>> /\ DOMAIN team = 1..Len(team)
      /\ \A i \in 1..Len(team) : team[i] \in Members(Names) /\ Len(team[i].skills) < MaxPlanned
  BY SeqIsAFunction DEF Prepared
<1>2. \A i \in 1..Len(team) : Len(team[i].skills) \in Nat
  BY <1>1 DEF Members
<1> QED
  <2>1. \A i \in 1..Len(team) : Len(team[i].skills) <= MaxPlanned
    BY <1>1, <1>2, DesignAssumption
  <2>2. \A i, k \in 1..Len(team) : team[i].name = team[k].name => i = k
    BY <1>1 DEF Prepared
  <2> QED
    BY <1>1, <2>1, <2>2 DEF WellPlanned

LEMMA SeededKeeps ==
  ASSUME DesignInv, NEW t \in Threads, Seeded(t)
  PROVE  DesignInv'
<1> DEFINE j == job[t]
<1>1. /\ Sound(j) /\ j \in JobState /\ j.stage = "seed"
      /\ Catalogue' /\ Roster' /\ skills' = skills /\ agents' = agents
  BY JobIsSound, SameTables DEF Seeded, At, Sound
<1>2. /\ j.todo = Builtins /\ j.team = <<>> /\ j.seat = 0 /\ j.staff = <<>> /\ j.hired = {}
  BY <1>1 DEF Sound, Shape, InList, Staffed, Seeding, Building
<1>3. CASE j.kind = "design" /\ Step(t, [j EXCEPT !.stage = "plan"])
  <2> DEFINE next == [j EXCEPT !.stage = "plan"]
  <2>1. next \in JobState
    BY <1>1 DEF JobState, Stages
  <2>2. Shape(next)
    BY <1>1, <1>2, <1>3 DEF Sound, JobState, Shape, Suits, InList, NamedFor, Staffed, Seeding, Finding, Builds, Edits,
      Portion, Building
  <2>3. Fits(next, skills', agents')
    BY <1>1, <1>2, NothingYet DEF JobState
  <2> QED
    BY <1>1, <1>3, <2>1, <2>2, <2>3, StepKeeps DEF Sound, Busy, At, JobState
<1>4. CASE j.kind = "template" /\ Step(t, Resolving(j, Template))
  <2>1. Template \in Seq(Members(Names)) /\ Template # <<>> /\ WellPlanned(Template)
    BY PreparedIsWellPlanned, DesignAssumption
  <2>2. {} \in SUBSET SkillRows /\ IsFiniteSet({})
    BY FS_EmptySet
  <2>3. UNCHANGED tables
    BY DEF Seeded
  <2> HIDE DEF j
  <2>4. job[t].stage \in {"seed", "plan"} /\ job[t].kind \in {"design", "template"} /\ Step(t, Resolving(job[t], Template))
    BY <1>1, <1>4 DEF j
  <2> QED
    BY <2>1, <2>2, <2>3, <2>4, ResolvingKeeps
<1>5. CASE j.kind = "list" /\ Ends(t, TRUE)
  BY <1>1, <1>5, EndKeeps, OthersEnd DEF Busy, At
<1> QED
  BY <1>3, <1>4, <1>5 DEF Seeded

LEMMA PlannedIsWellPlanned ==
  ASSUME NEW answer \in Answers \cup {NoTeam}, NEW documents \in BOOLEAN
  PROVE  LET team == Planned(answer, documents) IN
         team \in Seq(Members(Names)) /\ team # <<>> /\ WellPlanned(team)
<1>1. MaxAgents \in Nat /\ MaxAgents > 0 /\ MaxPlanned \in Nat /\ MaxPlanned > 0
  BY DesignAssumption
<1>2. CASE Usable(answer)
  <2>1. /\ answer \in Seq(Members(Names \cup {NoName})) /\ Len(answer) \in 1..MaxAgents /\ DOMAIN answer = 1..Len(answer)
        /\ \A i \in 1..Len(answer) : answer[i] \in Members(Names \cup {NoName}) /\ answer[i].name # NoName
        /\ \A i, k \in 1..Len(answer) : answer[i].name = answer[k].name => i = k
    <3>1. answer \in Seq(Members(Names \cup {NoName}))
      BY <1>2, DesignAssumption DEF Usable
    <3>2. DOMAIN answer = 1..Len(answer) /\ \A i \in 1..Len(answer) : answer[i] \in Members(Names \cup {NoName})
      BY <3>1, SeqIsAFunction
    <3> QED
      BY <1>2, <3>1, <3>2 DEF Usable
  <2> DEFINE team == [i \in 1..Len(answer) |-> Validated(answer[i])]
  <2>2. \A i \in 1..Len(answer) :
          /\ team[i] \in Members(Names) /\ team[i].name = answer[i].name
          /\ Len(team[i].skills) <= MaxPlanned
    <3> SUFFICES ASSUME NEW i \in 1..Len(answer)
                 PROVE  /\ Validated(answer[i]) \in Members(Names) /\ Validated(answer[i]).name = answer[i].name
                        /\ Len(Validated(answer[i]).skills) <= MaxPlanned
      OBVIOUS
    <3> DEFINE agent == answer[i]  n == IF Len(agent.skills) < MaxPlanned THEN Len(agent.skills) ELSE MaxPlanned
    <3>1. /\ agent \in Members(Names) /\ agent.skills \in Seq(Wishes) /\ Len(agent.skills) \in Nat
          /\ \A k \in 1..Len(agent.skills) : agent.skills[k] \in Wishes
      BY <2>1, SeqIsAFunction DEF Members
    <3> HIDE DEF agent
    <3>2. CASE agent.skills = <<>>
      <4>1. <<Default>> \in Seq(Wishes) /\ Len(<<Default>>) = 1
        BY DesignAssumption DEF Wishes
      <4>2. Validated(agent) = [agent EXCEPT !.skills = <<Default>>]
        BY <3>2 DEF Validated
      <4> QED
        <5>1. MaxPlanned \in Nat /\ MaxPlanned >= 1
          BY <1>1
        <5>2. /\ Validated(agent) \in Members(Names) /\ Validated(agent).name = agent.name
              /\ Validated(agent).skills = <<Default>>
          BY <3>1, <4>1, <4>2 DEF Members
        <5>3. Len(Validated(agent).skills) <= MaxPlanned
          BY <4>1, <5>1, <5>2
        <5> QED
          BY <5>2, <5>3 DEF agent
    <3>3. CASE agent.skills # <<>>
      <4>1. n \in Nat /\ n <= MaxPlanned /\ \A k \in 1..n : agent.skills[k] \in Wishes
        BY <1>1, <3>1
      <4>2. Validated(agent) = [agent EXCEPT !.skills = SubSeq(agent.skills, 1, n)]
        BY <3>3 DEF Validated
      <4> HIDE DEF n
      <4>3. SubSeq(agent.skills, 1, n) \in Seq(Wishes) /\ Len(SubSeq(agent.skills, 1, n)) <= MaxPlanned
        BY <1>1, <4>1, SubSeqProperties
      <4> QED
        BY <3>1, <4>2, <4>3 DEF Members, agent
    <3> QED
      BY <3>2, <3>3 DEF agent
  <2> HIDE DEF Validated
  <2>3. team \in Seq(Members(Names)) /\ Len(team) = Len(answer)
    <3>1. Len(answer) \in Nat /\ team \in [1..Len(answer) -> Members(Names)]
      BY <2>1, <2>2
    <3> QED
      BY <3>1, FunctionIsASeq
  <2>4. Planned(answer, documents) = team
    BY <1>2, <2>1 DEF Planned
  <2> HIDE DEF team
  <2>5. WellPlanned(team) /\ team # <<>>
    BY <2>1, <2>2, <2>3 DEF WellPlanned
  <2> QED
    BY <2>3, <2>4, <2>5
<1>3. CASE ~ Usable(answer)
  <2>1. /\ Prepared(Blueprint) /\ Blueprint \in Seq(Members(Names)) /\ Len(Blueprint) \in Nat /\ Len(Blueprint) > 0
        /\ DOMAIN Blueprint = 1..Len(Blueprint)
        /\ \A i \in 1..Len(Blueprint) : Blueprint[i] \in Members(Names)
    BY DesignAssumption, SeqIsAFunction, EmptySeq DEF Prepared
  <2> DEFINE n == IF Len(Blueprint) < MaxAgents THEN Len(Blueprint) ELSE MaxAgents
             team == [i \in 1..n |-> WithSearch(Blueprint[i], documents)]
  <2>2. n \in 1..Len(Blueprint)
    BY <1>1, <2>1
  <2>3. Planned(answer, documents) = team
    BY <1>3 DEF Planned
  <2> HIDE DEF n
  <2>4. \A i \in 1..n :
          /\ team[i] \in Members(Names) /\ team[i].name = Blueprint[i].name
          /\ Len(team[i].skills) <= MaxPlanned
    <3> SUFFICES ASSUME NEW i \in 1..n
                 PROVE  /\ WithSearch(Blueprint[i], documents) \in Members(Names)
                        /\ WithSearch(Blueprint[i], documents).name = Blueprint[i].name
                        /\ Len(WithSearch(Blueprint[i], documents).skills) <= MaxPlanned
      OBVIOUS
    <3>1. /\ Blueprint[i] \in Members(Names) /\ Blueprint[i].skills \in Seq(Wishes)
          /\ Len(Blueprint[i].skills) \in Nat /\ Len(Blueprint[i].skills) < MaxPlanned
      <4>1. Blueprint[i] \in Members(Names) /\ Len(Blueprint[i].skills) < MaxPlanned
        BY <2>1, <2>2 DEF Prepared
      <4>2. Blueprint[i].skills \in Seq(Wishes)
        BY <4>1 DEF Members
      <4> QED
        BY <4>1, <4>2, SeqIsAFunction
    <3>2. <<Search>> \o Blueprint[i].skills \in Seq(Wishes)
          /\ Len(<<Search>> \o Blueprint[i].skills) = Len(Blueprint[i].skills) + 1
      BY <3>1 DEF Wishes
    <3> DEFINE more == <<Search>> \o Blueprint[i].skills
    <3> HIDE DEF more
    <3>3. \/ WithSearch(Blueprint[i], documents) = [Blueprint[i] EXCEPT !.skills = more]
          \/ WithSearch(Blueprint[i], documents) = Blueprint[i]
      BY DEF WithSearch, more
    <3>4. more \in Seq(Wishes) /\ Len(more) <= MaxPlanned
      BY <1>1, <3>1, <3>2 DEF more
    <3> QED
      BY <1>1, <3>1, <3>3, <3>4 DEF Members
  <2>5. team \in Seq(Members(Names)) /\ Len(team) = n
    <3>1. n \in Nat /\ team \in [1..n -> Members(Names)]
      BY <2>2, <2>4
    <3> QED
      BY <3>1, FunctionIsASeq
  <2> HIDE DEF team
  <2>6. WellPlanned(team) /\ team # <<>>
    BY <2>1, <2>2, <2>4, <2>5 DEF WellPlanned, Prepared
  <2> QED
    BY <2>3, <2>5, <2>6
<1> QED
  BY <1>2, <1>3

LEMMA PlanKeeps ==
  ASSUME DesignInv, NEW t \in Threads, NEW answer \in Answers \cup {NoTeam}, Plan(t, answer)
  PROVE  DesignInv'
<1> DEFINE team == Planned(answer, job[t].documents)
           connected == {s \in skills : s.kind = "mcp" /\ ~ s.off}
<1>1. Sound(job[t]) /\ job[t].stage = "plan"
  BY JobIsSound DEF Plan, At
<1>2. job[t].documents \in BOOLEAN /\ job[t].kind = "design"
  BY <1>1 DEF Sound, JobState, Shape, Suits, Seeding, Finding, Builds, Building, Edits
<1>3. team \in Seq(Members(Names)) /\ team # <<>> /\ WellPlanned(team)
  BY <1>2, PlannedIsWellPlanned
<1>4. connected \in SUBSET SkillRows /\ IsFiniteSet(connected)
  BY FS_Subset DEF DesignInv, Catalogue
<1>5. Step(t, [Resolving(job[t], team) EXCEPT !.tools = connected]) /\ UNCHANGED tables
  BY DEF Plan
<1> HIDE DEF team, connected
<1> QED
  BY <1>1, <1>2, <1>3, <1>4, <1>5, ResolvingKeeps

-----------------------------------------------------------------------------
(* The skills, one after the other. *)

\* What is so of a request that goes through the skills of a team.
LEMMA AmongSkills ==
  ASSUME NEW j, Sound(j), Finding(j)
  PROVE  /\ j \in JobState /\ j.stage \notin Building
         /\ j.kind \in {"design", "template", "ensure"}
         /\ Len(j.todo) \in Nat /\ j.turn \in 1..(Len(j.todo) + 1)
         /\ Len(j.team) \in Nat /\ Len(j.resolved) = Len(j.team) /\ WellPlanned(j.team)
         /\ IF j.kind = "ensure" THEN j.seat = 0 /\ j.team = <<>>
            ELSE j.seat \in 1..Len(j.team) /\ j.todo = j.team[j.seat].skills
         /\ \A i \in 1..Len(j.team) : Few(j.resolved[i], IF i < j.seat THEN MaxPlanned
                                                         ELSE IF i = j.seat THEN j.turn - 1 ELSE 0)
         /\ j.staff = <<>> /\ j.hired = {} /\ IsFiniteSet(j.tools) /\ IsFiniteSet(j.row.skills)
         /\ j.kind = "design" => j.row.name = NoName
<1>1. j \in JobState /\ Suits(j) /\ InList(j) /\ Staffed(j)
  BY DEF Sound, Shape
<1>2. j.stage \in {"find", "design", "make"} /\ j.stage \notin Building
  BY DEF Finding, Building
<1>3. j.kind \in {"design", "template", "ensure"}
  BY <1>1, <1>2 DEF Suits, Seeding, Finding, Builds, Edits
<1>4. \A i \in 1..Len(j.team) : Few(j.resolved[i], IF i < j.seat THEN MaxPlanned
                                                         ELSE IF i = j.seat THEN j.turn - 1 ELSE 0)
  BY <1>1, <1>2 DEF Staffed, Portion
<1>5. Len(j.todo) \in Nat /\ Len(j.team) \in Nat
  BY <1>1 DEF JobState
<1>6. /\ j.turn \in 1..(Len(j.todo) + 1)
      /\ IF j.kind = "ensure" THEN j.seat = 0 /\ j.team = <<>>
         ELSE j.seat \in 1..Len(j.team) /\ j.todo = j.team[j.seat].skills
  BY <1>1 DEF InList
<1> QED
  BY <1>1, <1>2, <1>3, <1>4, <1>5, <1>6 DEF Staffed

LEMMA FindingIsSound ==
  ASSUME NEW j, j \in JobState, Finding(j), j.kind \in {"design", "template", "ensure"},
         j.turn \in 1..(Len(j.todo) + 1), j.stage \in {"design", "make"} => j.turn <= Len(j.todo),
         j.stage = "design" => j.todo[j.turn] # Search /\ j.back = "find",
         NamedFor(j), WellPlanned(j.team), Len(j.resolved) = Len(j.team),
         IF j.kind = "ensure" THEN j.seat = 0 /\ j.team = <<>>
         ELSE j.seat \in 1..Len(j.team) /\ j.todo = j.team[j.seat].skills,
         \A i \in 1..Len(j.team) : Few(j.resolved[i], IF i < j.seat THEN MaxPlanned
                                                      ELSE IF i = j.seat THEN j.turn - 1 ELSE 0),
         j.staff = <<>>, j.hired = {}, IsFiniteSet(j.tools), IsFiniteSet(j.row.skills),
         j.kind = "design" => j.row.name = NoName
  PROVE  Sound(j)
<1>1. j.stage \in {"find", "design", "make"} /\ j.stage \notin Building /\ ~ Seeding(j)
  BY DEF Finding, Building, Seeding
<1>2. Suits(j) /\ InList(j)
  BY <1>1 DEF Suits, InList
<1>3. Staffed(j)
  BY <1>1, SeqIsAFunction DEF Staffed, Portion, Edits, JobState
<1> QED
  BY <1>2, <1>3 DEF Sound, Shape

LEMMA NotingKeeps ==
  ASSUME NEW resolved \in Seq(SUBSET Nat), NEW seat, NEW id \in Nat
  PROVE  /\ Noting(resolved, seat, id) \in Seq(SUBSET Nat)
         /\ Len(Noting(resolved, seat, id)) = Len(resolved)
<1>1. /\ DOMAIN resolved = 1..Len(resolved) /\ Len(resolved) \in Nat
      /\ \A i \in 1..Len(resolved) : resolved[i] \in SUBSET Nat
  BY SeqIsAFunction
<1>2. Noting(resolved, seat, id) = [i \in 1..Len(resolved) |-> IF i = seat THEN resolved[i] \cup {id} ELSE resolved[i]]
  BY <1>1 DEF Noting
<1>3. Noting(resolved, seat, id) \in [1..Len(resolved) -> SUBSET Nat]
  BY <1>1, <1>2
<1> QED
  BY <1>1, <1>2, <1>3, FunctionIsASeq

\* The next skill has its turn; the one before was passed over, or is noted.
LEMMA GoesOnKeeps ==
  ASSUME DesignInv, NEW t \in Threads, Finding(job[t]), job[t].turn <= Len(job[t].todo),
         Catalogue', Roster', skills \subseteq skills', agents' = agents,
         NEW given \in Seq(SUBSET Nat),
         \/ given = job[t].resolved /\ job[t].todo[job[t].turn] = Search
         \/ \E s \in skills' :
              /\ given = Noting(job[t].resolved, job[t].seat, s.id)
              /\ job[t].todo[job[t].turn] # Search => Serves(s, job[t].todo[job[t].turn]),
         Step(t, [job[t] EXCEPT !.turn = job[t].turn + 1, !.stage = "find", !.resolved = given])
  PROVE  DesignInv'
<1> DEFINE j == job[t]
           next == [j EXCEPT !.turn = j.turn + 1, !.stage = "find", !.resolved = given]
<1>1. Sound(j) /\ Finding(j) /\ Busy(t)
  BY JobIsSound DEF Finding, Busy, At
<1>2. /\ j \in JobState /\ j.stage \notin Building
      /\ j.kind \in {"design", "template", "ensure"}
      /\ Len(j.todo) \in Nat /\ j.turn \in 1..(Len(j.todo) + 1)
      /\ Len(j.team) \in Nat /\ Len(j.resolved) = Len(j.team) /\ WellPlanned(j.team)
      /\ IF j.kind = "ensure" THEN j.seat = 0 /\ j.team = <<>>
         ELSE j.seat \in 1..Len(j.team) /\ j.todo = j.team[j.seat].skills
      /\ \A i \in 1..Len(j.team) : Few(j.resolved[i], IF i < j.seat THEN MaxPlanned
                                                      ELSE IF i = j.seat THEN j.turn - 1 ELSE 0)
      /\ j.staff = <<>> /\ j.hired = {} /\ IsFiniteSet(j.tools) /\ IsFiniteSet(j.row.skills)
      /\ j.kind = "design" => j.row.name = NoName
  BY <1>1, AmongSkills
<1>3. /\ next \in JobState /\ next.stage = "find" /\ next.turn = j.turn + 1 /\ next.resolved = given
      /\ next.kind = j.kind /\ next.alone = j.alone /\ next.todo = j.todo /\ next.seat = j.seat /\ next.team = j.team
      /\ next.staff = j.staff /\ next.hired = j.hired /\ next.tools = j.tools /\ next.row = j.row
  <2>1. j.turn + 1 \in Nat /\ "find" \in Stages
    BY <1>2 DEF Stages
  <2> HIDE DEF j
  <2> QED
    BY <1>2, <2>1 DEF JobState
<1>4. Fits(j, skills, agents) \/ ~ j.alone
  BY <1>1, JobIsSound
<1>5. j.turn <= Len(j.todo) /\ j.turn \in 1..Len(j.todo) /\ j.turn \in Nat
  BY <1>2
<1>6. \/ given = j.resolved /\ j.todo[j.turn] = Search
      \/ \E s \in skills' :
           /\ given = Noting(j.resolved, j.seat, s.id)
           /\ j.todo[j.turn] # Search => Serves(s, j.todo[j.turn])
  OBVIOUS
<1> HIDE DEF j, next
<1>7. /\ Len(given) = Len(j.team)
      /\ \A i \in 1..Len(j.team) : j.resolved[i] \subseteq given[i] /\ (i # j.seat => given[i] = j.resolved[i])
      /\ j.seat \in 1..Len(j.team) => Few(given[j.seat], j.turn)
      /\ j.seat \in 1..Len(j.team) /\ j.todo[j.turn] # Search =>
           \E s \in skills' : s.id \in given[j.seat] /\ Serves(s, j.todo[j.turn])
  <2>1. j.seat \in 1..Len(j.team) => Few(j.resolved[j.seat], j.turn - 1) /\ j.turn - 1 \in Nat
    BY <1>2, <1>5
  <2>2. CASE given = j.resolved /\ j.todo[j.turn] = Search
    BY <1>2, <1>5, <2>1, <2>2, FewEnough
  <2>3. CASE \E s \in skills' :
           /\ given = Noting(j.resolved, j.seat, s.id)
           /\ j.todo[j.turn] # Search => Serves(s, j.todo[j.turn])
    <3>1. PICK s \in skills' :
           /\ given = Noting(j.resolved, j.seat, s.id)
           /\ j.todo[j.turn] # Search => Serves(s, j.todo[j.turn])
      BY <2>3
    <3>2. j.resolved \in Seq(SUBSET Nat) /\ s.id \in Nat
      BY <1>2 DEF JobState, Catalogue, SkillRows
    <3>3. /\ Len(given) = Len(j.team)
          /\ \A i \in 1..Len(j.team) : given[i] = IF i = j.seat THEN j.resolved[i] \cup {s.id} ELSE j.resolved[i]
      <4>1. given = Noting(j.resolved, j.seat, s.id) /\ Len(j.resolved) = Len(j.team)
        BY <1>2, <3>1
      <4>2. Len(given) = Len(j.resolved)
        BY <3>2, <4>1, NotingKeeps
      <4>3. DOMAIN j.resolved = 1..Len(j.team)
        BY <3>2, <4>1, SeqIsAFunction
      <4> QED
        BY <4>1, <4>2, <4>3 DEF Noting
    <3>4. ASSUME j.seat \in 1..Len(j.team) PROVE Few(given[j.seat], j.turn)
      <4>1. Few(j.resolved[j.seat] \cup {s.id}, (j.turn - 1) + 1)
        BY <2>1, <3>4, FewMore
      <4> QED
        <5>1. (j.turn - 1) + 1 = j.turn
          BY <1>5
        <5>2. given[j.seat] = j.resolved[j.seat] \cup {s.id}
          BY <3>3, <3>4
        <5> QED
          BY <4>1, <5>1, <5>2
    <3> QED
      BY <3>1, <3>3, <3>4
  <2> QED
    BY <1>6, <2>2, <2>3
<1>8. Sound(next)
  <2>1. \A i \in 1..Len(j.team) : Few(given[i], IF i < j.seat THEN MaxPlanned ELSE IF i = j.seat THEN j.turn ELSE 0)
    BY <1>2, <1>7
  <2>2. next.turn \in 1..(Len(j.todo) + 1) /\ next.turn - 1 = j.turn
    BY <1>3, <1>5, <1>2
  <2>3. Finding(next) /\ NamedFor(next)
    BY <1>3 DEF Finding, NamedFor
  <2>4. /\ next.kind \in {"design", "template", "ensure"} /\ next.turn \in 1..(Len(next.todo) + 1)
        /\ next.stage \in {"design", "make"} => next.turn <= Len(next.todo)
        /\ next.stage = "design" => next.todo[next.turn] # Search /\ next.back = "find"
        /\ WellPlanned(next.team) /\ Len(next.resolved) = Len(next.team)
        /\ IF next.kind = "ensure" THEN next.seat = 0 /\ next.team = <<>>
           ELSE next.seat \in 1..Len(next.team) /\ next.todo = next.team[next.seat].skills
        /\ next.staff = <<>> /\ next.hired = {} /\ IsFiniteSet(next.tools) /\ IsFiniteSet(next.row.skills)
        /\ next.kind = "design" => next.row.name = NoName
    BY <1>2, <1>3, <1>7, <2>2
  <2>5. \A i \in 1..Len(next.team) : Few(next.resolved[i], IF i < next.seat THEN MaxPlanned
                                                      ELSE IF i = next.seat THEN next.turn - 1 ELSE 0)
    BY <1>2, <1>3, <2>1, <2>2
  <2> QED
    BY <1>3, <2>3, <2>4, <2>5, FindingIsSound
<1>9. ASSUME j.alone PROVE Fits(next, skills', agents')
  <2>1. Fits(j, skills, agents)
    BY <1>4, <1>9
  <2>2. Served(next, skills')
    <3> SUFFICES ASSUME NEW i \in 1..Len(j.team), NEW k \in 1..Len(j.team[i].skills),
                        Gone(next, i, k), j.team[i].skills[k] # Search
                 PROVE  \E s \in skills' : s.id \in given[i] /\ Serves(s, j.team[i].skills[k])
      BY <1>3 DEF Served
    <3>1. CASE Gone(j, i, k)
      BY <1>7, <2>1, <3>1 DEF Fits, Served
    <3>2. CASE ~ Gone(j, i, k)
      <4>1. i = j.seat /\ k = j.turn /\ j.kind # "ensure"
        <5>1. j.seat \in Nat /\ j.turn \in Nat /\ k \in Int /\ next.stage \notin Building
          BY <1>2, <1>3 DEF JobState, Building
        <5>2. i = j.seat /\ k < j.turn + 1 /\ ~ (k < j.turn)
          BY <1>3, <5>1, <3>2 DEF Gone
        <5> QED
          BY <1>2, <5>1, <5>2
      <4> QED
        BY <1>2, <1>7, <4>1
    <3> QED
      BY <3>1, <3>2
  <2>3. Noted(next, skills') /\ Vacant(next, skills', agents') /\ RowKnown(next, agents')
    BY <1>3 DEF Noted, Vacant, RowKnown, Building, Edits
  <2>4. Seats(next, agents') /\ Newcomers(next, agents')
    BY <1>2, <1>3 DEF Seats, Newcomers
  <2> QED
    BY <2>2, <2>3, <2>4 DEF Fits
<1> QED
  <2>1. Step(t, next)
    BY DEF next, j
  <2> QED
    BY <1>1, <1>3, <1>8, <1>9, <2>1, StepKeeps DEF j

\* A skill has to be designed, or made.
LEMMA GetsMadeKeeps ==
  ASSUME DesignInv, NEW t \in Threads, Finding(job[t]), job[t].turn <= Len(job[t].todo), UNCHANGED tables,
         NEW stage \in {"design", "make"}, NEW made \in [name : SkillNames, kind : Kinds],
         stage = "design" => job[t].todo[job[t].turn] # Search,
         stage = "make" => SkillsNamed(made.name) = {},
         stage = "make" /\ job[t].todo[job[t].turn] # Search => 
           made.name = job[t].todo[job[t].turn] \/ \E sketch \in Sketches : made.name = sketch.name,
         NEW next,
         \/ next = [job[t] EXCEPT !.stage = stage, !.back = "find", !.made = made]
         \/ stage = "design" /\ next = [job[t] EXCEPT !.stage = stage, !.back = "find"],
         Step(t, next)
  PROVE  DesignInv'
<1> DEFINE j == job[t]
<1>1. /\ Sound(j) /\ Finding(j) /\ Busy(t)
      /\ Catalogue' /\ Roster' /\ skills' = skills /\ agents' = agents
  BY JobIsSound, SameTables DEF Finding, Busy, At
<1>2. /\ j \in JobState /\ j.stage \notin Building
      /\ j.kind \in {"design", "template", "ensure"}
      /\ Len(j.todo) \in Nat /\ j.turn \in 1..(Len(j.todo) + 1)
      /\ Len(j.team) \in Nat /\ Len(j.resolved) = Len(j.team) /\ WellPlanned(j.team)
      /\ IF j.kind = "ensure" THEN j.seat = 0 /\ j.team = <<>>
         ELSE j.seat \in 1..Len(j.team) /\ j.todo = j.team[j.seat].skills
      /\ \A i \in 1..Len(j.team) : Few(j.resolved[i], IF i < j.seat THEN MaxPlanned
                                                      ELSE IF i = j.seat THEN j.turn - 1 ELSE 0)
      /\ j.staff = <<>> /\ j.hired = {} /\ IsFiniteSet(j.tools) /\ IsFiniteSet(j.row.skills)
      /\ j.kind = "design" => j.row.name = NoName
  BY <1>1, AmongSkills
<1>3. /\ next \in JobState /\ next.stage = stage /\ next.back = "find" /\ (stage = "make" => next.made = made)
      /\ next.turn = j.turn /\ next.resolved = j.resolved
      /\ next.kind = j.kind /\ next.alone = j.alone /\ next.todo = j.todo /\ next.seat = j.seat /\ next.team = j.team
      /\ next.staff = j.staff /\ next.hired = j.hired /\ next.tools = j.tools /\ next.row = j.row
  <2>1. CASE next = [j EXCEPT !.stage = stage, !.back = "find", !.made = made]
    BY <1>2, <2>1 DEF JobState, Stages
  <2>2. CASE stage = "design" /\ next = [j EXCEPT !.stage = stage, !.back = "find"]
    BY <1>2, <2>2 DEF JobState, Stages
  <2> QED
    BY <2>1, <2>2
<1>4. Fits(j, skills, agents) \/ ~ j.alone
  BY <1>1, JobIsSound
<1>5. /\ j.turn <= Len(j.todo) /\ (stage = "design" => j.todo[j.turn] # Search)
      /\ stage = "make" /\ j.todo[j.turn] # Search =>
           made.name = j.todo[j.turn] \/ \E sketch \in Sketches : made.name = sketch.name
  OBVIOUS
<1> HIDE DEF j
<1>6. Finding(next) /\ NamedFor(next)
  BY <1>3, <1>5 DEF Finding, NamedFor
<1>7. Sound(next)
  <2>1. /\ next.kind \in {"design", "template", "ensure"} /\ next.turn \in 1..(Len(next.todo) + 1)
        /\ next.stage \in {"design", "make"} => next.turn <= Len(next.todo)
        /\ next.stage = "design" => next.todo[next.turn] # Search /\ next.back = "find"
        /\ WellPlanned(next.team) /\ Len(next.resolved) = Len(next.team)
        /\ IF next.kind = "ensure" THEN next.seat = 0 /\ next.team = <<>>
           ELSE next.seat \in 1..Len(next.team) /\ next.todo = next.team[next.seat].skills
        /\ next.staff = <<>> /\ next.hired = {} /\ IsFiniteSet(next.tools) /\ IsFiniteSet(next.row.skills)
        /\ next.kind = "design" => next.row.name = NoName
    BY <1>2, <1>3, <1>5
  <2>2. \A i \in 1..Len(next.team) : Few(next.resolved[i], IF i < next.seat THEN MaxPlanned
                                                      ELSE IF i = next.seat THEN next.turn - 1 ELSE 0)
    BY <1>2, <1>3, <1>5
  <2> QED
    BY <1>3, <1>6, <2>1, <2>2, FindingIsSound
<1>8. ASSUME j.alone PROVE Fits(next, skills', agents')
  <2>1. Served(next, skills')
    <3>1. next.stage \notin Building
      BY <1>3 DEF Building
    <3> QED
      BY <1>1, <1>2, <1>3, <1>4, <1>8, <3>1 DEF Fits, Served, Gone
  <2>2. Vacant(next, skills', agents')
    BY <1>1, <1>3 DEF Vacant, SkillsNamed
  <2>3. Noted(next, skills') /\ RowKnown(next, agents') /\ Seats(next, agents') /\ Newcomers(next, agents')
    BY <1>2, <1>3 DEF Noted, RowKnown, Building, Edits, Seats, Newcomers
  <2> QED
    BY <2>1, <2>2, <2>3 DEF Fits
<1> QED
  BY <1>1, <1>3, <1>7, <1>8, StepKeeps DEF j

LEMMA SettledIs ==
  ASSUME DesignInv, NEW t \in Threads, NEW id
  PROVE  /\ Settled(t, id) = [job[t] EXCEPT !.turn = job[t].turn + 1, !.stage = job[t].back,
                                            !.resolved = Noting(job[t].resolved, job[t].seat, id)]
         /\ [Settled(t, id) EXCEPT !.stage = "find"] =
              [job[t] EXCEPT !.turn = job[t].turn + 1, !.stage = "find",
                             !.resolved = Noting(job[t].resolved, job[t].seat, id)]
<1> DEFINE j == job[t]
           p == [j EXCEPT !.turn = j.turn + 1]
<1>1. Passed(t) = p /\ j \in JobState
  BY JobIsSound DEF Passed, Sound
<1>2. p.resolved = j.resolved
  BY <1>1 DEF JobState
<1>3. Settled(t, id) = [p EXCEPT !.stage = j.back, !.resolved = Noting(j.resolved, j.seat, id)]
  BY <1>1, <1>2 DEF Settled
<1> QED
  BY <1>1, <1>3 DEF JobState

LEMMA FindKeeps ==
  ASSUME DesignInv, NEW t \in Threads, Find(t)
  PROVE  DesignInv'
<1> DEFINE j == job[t]
           wanted == Wants(t)
           name == IF wanted = Search THEN SearchHandle ELSE wanted
<1>1. /\ Sound(j) /\ Finding(j) /\ j.stage = "find" /\ ~ (j.turn > Len(j.todo)) /\ UNCHANGED tables
      /\ Catalogue' /\ Roster' /\ skills' = skills /\ agents' = agents
  BY JobIsSound, SameTables DEF Find, At, Through, Finding
<1>2. j \in JobState /\ j.turn \in 1..Len(j.todo) /\ j.turn <= Len(j.todo) /\ wanted \in Wishes /\ wanted = j.todo[j.turn]
  BY <1>1, AmongSkills, SeqIsAFunction DEF Wants, JobState
<1>3. name \in SkillNames
  BY <1>2, DesignAssumption DEF Wishes
<1>4. CASE wanted = Search /\ Step(t, Passed(t))
  <2>1. Step(t, [job[t] EXCEPT !.turn = job[t].turn + 1, !.stage = "find", !.resolved = job[t].resolved])
    BY <1>1, <1>2, <1>4 DEF Passed, JobState, Step
  <2>2. job[t].resolved \in Seq(SUBSET Nat)
    BY <1>2 DEF JobState
  <2> QED
    BY <1>1, <1>2, <1>4, <2>1, <2>2, GoesOnKeeps
<1>5. CASE \E s \in SkillsNamed(name) : Step(t, [Settled(t, s.id) EXCEPT !.stage = "find"])
  <2>1. PICK s \in SkillsNamed(name) : Step(t, [Settled(t, s.id) EXCEPT !.stage = "find"])
    BY <1>5
  <2> DEFINE given == Noting(job[t].resolved, job[t].seat, s.id)
  <2>2. s \in skills /\ s.id \in Nat /\ (wanted # Search => Serves(s, wanted))
    BY DEF SkillsNamed, DesignInv, Catalogue, SkillRows, Serves
  <2>3. given \in Seq(SUBSET Nat)
    BY <1>2, <2>2, NotingKeeps DEF JobState
  <2>4. Step(t, [job[t] EXCEPT !.turn = job[t].turn + 1, !.stage = "find", !.resolved = given])
    BY <2>1, SettledIs
  <2> HIDE DEF given
  <2>5. \E r \in skills' :
          /\ given = Noting(job[t].resolved, job[t].seat, r.id)
          /\ job[t].todo[job[t].turn] # Search => Serves(r, job[t].todo[job[t].turn])
    BY <1>1, <1>2, <2>2 DEF given
  <2> QED
    BY <1>1, <1>2, <2>3, <2>4, <2>5, GoesOnKeeps
<1>6. CASE SkillsNamed(name) = {} /\ wanted = Search /\ Step(t, ToMake(t, "find", name, "retrieval"))
  <2> DEFINE made == [name |-> name, kind |-> "retrieval"]
             next == ToMake(t, "find", name, "retrieval")
  <2>1. made \in [name : SkillNames, kind : Kinds] /\ made.name = name
    BY <1>3 DEF Kinds
  <2>2. next = [job[t] EXCEPT !.stage = "make", !.back = "find", !.made = made]
    BY DEF ToMake
  <2>3. Step(t, next)
    BY <1>6
  <2> HIDE DEF next, made, name
  <2> QED
    BY <1>1, <1>2, <1>6, <2>1, <2>2, <2>3, GetsMadeKeeps
<1>7. CASE wanted # Search /\ Step(t, [job[t] EXCEPT !.stage = "design", !.back = "find"])
  <2>1. job[t].made \in [name : SkillNames, kind : Kinds]
    BY <1>2 DEF JobState
  <2> QED
    BY <1>1, <1>2, <1>7, <2>1, GetsMadeKeeps
<1>8. \/ wanted = Search /\ Step(t, Passed(t))
      \/ \E s \in SkillsNamed(name) : Step(t, [Settled(t, s.id) EXCEPT !.stage = "find"])
      \/ SkillsNamed(name) = {} /\ wanted = Search /\ Step(t, ToMake(t, "find", name, "retrieval"))
      \/ wanted # Search /\ Step(t, [job[t] EXCEPT !.stage = "design", !.back = "find"])
  <2> HIDE DEF j
  <2>1. LET d == job[t].documents IN
        CASE wanted = Search /\ ~ d -> Step(t, Passed(t))
          [] SkillsNamed(name) # {} /\ (wanted # Search \/ d) ->
               \E s \in SkillsNamed(name) : Step(t, [Settled(t, s.id) EXCEPT !.stage = "find"])
          [] SkillsNamed(name) = {} /\ wanted = Search /\ d -> Step(t, ToMake(t, "find", name, "retrieval"))
          [] SkillsNamed(name) = {} /\ wanted # Search -> Step(t, [job[t] EXCEPT !.stage = "design", !.back = "find"])
    BY DEF Find
  <2> HIDE DEF wanted, name
  <2>2. job[t].documents \in BOOLEAN
    BY <1>2 DEF JobState, j
  <2> QED
    BY <2>1, <2>2
<1> QED
  BY <1>4, <1>5, <1>6, <1>7, <1>8

LEMMA NextAgentKeeps ==
  ASSUME DesignInv, NEW t \in Threads, NextAgent(t)
  PROVE  DesignInv'
<1> DEFINE j == job[t]
           names == j.team[j.seat + 1].skills
           next == [j EXCEPT !.stage = "find", !.todo = names, !.turn = 1, !.seat = j.seat + 1]
<1>1. /\ Sound(j) /\ Finding(j) /\ Busy(t) /\ j.stage = "find" /\ j.turn > Len(j.todo) /\ j.seat < Len(j.team)
      /\ Catalogue' /\ Roster' /\ skills' = skills /\ agents' = agents
  BY JobIsSound, SameTables DEF NextAgent, At, Through, Finding, Busy
<1>2. /\ j \in JobState /\ j.stage \notin Building
      /\ j.kind \in {"design", "template", "ensure"}
      /\ Len(j.todo) \in Nat /\ j.turn \in 1..(Len(j.todo) + 1)
      /\ Len(j.team) \in Nat /\ Len(j.resolved) = Len(j.team) /\ WellPlanned(j.team)
      /\ IF j.kind = "ensure" THEN j.seat = 0 /\ j.team = <<>>
         ELSE j.seat \in 1..Len(j.team) /\ j.todo = j.team[j.seat].skills
      /\ \A i \in 1..Len(j.team) : Few(j.resolved[i], IF i < j.seat THEN MaxPlanned
                                                      ELSE IF i = j.seat THEN j.turn - 1 ELSE 0)
      /\ j.staff = <<>> /\ j.hired = {} /\ IsFiniteSet(j.tools) /\ IsFiniteSet(j.row.skills)
      /\ j.kind = "design" => j.row.name = NoName
  BY <1>1, AmongSkills
<1>3. j.kind # "ensure" /\ j.seat \in 1..Len(j.team) /\ j.seat + 1 \in 1..Len(j.team) /\ j.turn = Len(j.todo) + 1
  <2>1. j.turn \in Nat /\ j.seat \in Nat /\ Len(<<>>) = 0
    BY <1>2, EmptySeq DEF JobState
  <2>2. j.kind # "ensure"
    BY <1>1, <1>2, <2>1
  <2> HIDE DEF j, next, names
  <2> QED
    BY <1>1, <1>2, <2>1, <2>2
<1>4. j.alone => Fits(j, skills, agents)
  BY <1>1, JobIsSound
<1>5. Step(t, next)
  BY DEF NextAgent, Listing
<1>6. names \in Seq(Wishes) /\ Len(names) \in Nat
  <2>1. j.team \in Seq(Members(Names))
    BY <1>2 DEF JobState
  <2>2. j.team[j.seat + 1] \in Members(Names)
    BY <1>3, <2>1, SeqIsAFunction
  <2> QED
    BY <2>2, SeqIsAFunction DEF Members
<1>7. /\ next \in JobState /\ next.stage = "find" /\ next.turn = 1 /\ next.resolved = j.resolved
      /\ next.kind = j.kind /\ next.alone = j.alone /\ next.todo = names /\ next.seat = j.seat + 1 /\ next.team = j.team
      /\ next.staff = j.staff /\ next.hired = j.hired /\ next.tools = j.tools /\ next.row = j.row
  <2>1. j.seat + 1 \in Nat /\ "find" \in Stages
    BY <1>2 DEF Stages, JobState
  <2> HIDE DEF names
  <2> QED
    BY <1>2, <1>6, <2>1 DEF JobState
<1>8. names = next.team[next.seat].skills
  BY <1>7
<1> HIDE DEF next, names
<1>9. Sound(next)
  <2>1. Finding(next) /\ NamedFor(next)
    BY <1>7 DEF Finding, NamedFor
  <2>2. /\ next.kind \in {"design", "template", "ensure"} /\ next.turn \in 1..(Len(next.todo) + 1)
        /\ next.stage \in {"design", "make"} => next.turn <= Len(next.todo)
        /\ next.stage = "design" => next.todo[next.turn] # Search /\ next.back = "find"
        /\ WellPlanned(next.team) /\ Len(next.resolved) = Len(next.team)
        /\ IF next.kind = "ensure" THEN next.seat = 0 /\ next.team = <<>>
           ELSE next.seat \in 1..Len(next.team) /\ next.todo = next.team[next.seat].skills
        /\ next.staff = <<>> /\ next.hired = {} /\ IsFiniteSet(next.tools) /\ IsFiniteSet(next.row.skills)
        /\ next.kind = "design" => next.row.name = NoName
    BY <1>2, <1>3, <1>6, <1>7, <1>8
  <2>3. \A i \in 1..Len(next.team) : Few(next.resolved[i], IF i < next.seat THEN MaxPlanned
                                                           ELSE IF i = next.seat THEN next.turn - 1 ELSE 0)
    <3>1. Few(j.resolved[j.seat], MaxPlanned)
      <4>1. Len(j.todo) <= MaxPlanned /\ MaxPlanned \in Nat
        BY <1>2, <1>3, DesignAssumption DEF WellPlanned
      <4>2. Few(j.resolved[j.seat], Len(j.todo))
        BY <1>2, <1>3
      <4> QED
        BY <1>2, <4>1, <4>2, FewEnough
    <3> QED
      BY <1>2, <1>3, <1>7, <3>1
  <2> QED
    BY <1>7, <2>1, <2>2, <2>3, FindingIsSound
<1>10. ASSUME j.alone PROVE Fits(next, skills', agents')
  <2>1. Served(next, skills')
    <3> SUFFICES ASSUME NEW i \in 1..Len(j.team), NEW k \in 1..Len(j.team[i].skills),
                        Gone(next, i, k), j.team[i].skills[k] # Search
                 PROVE  Gone(j, i, k)
      BY <1>1, <1>4, <1>7, <1>10 DEF Fits, Served
    <3>1. i < j.seat + 1 /\ i \in Nat /\ j.seat \in Nat
      BY <1>2, <1>3, <1>7 DEF Gone, Building, JobState
    <3> QED
      BY <1>2, <1>3, <3>1 DEF Gone
  <2>2. Noted(next, skills') /\ Vacant(next, skills', agents') /\ RowKnown(next, agents')
        /\ Seats(next, agents') /\ Newcomers(next, agents')
    BY <1>2, <1>7 DEF Noted, Vacant, RowKnown, Building, Edits, Seats, Newcomers
  <2> QED
    BY <2>1, <2>2 DEF Fits
<1> QED
  BY <1>1, <1>5, <1>7, <1>9, <1>10, StepKeeps

LEMMA SynthesizeKeeps ==
  ASSUME DesignInv, NEW t \in Threads, NEW sketch \in Sketches \cup {NoSketch}, Synthesize(t, sketch)
  PROVE  DesignInv'
<1> DEFINE j == job[t]
           made == Synthesized(Wants(t), sketch, j.documents)
<1>1. /\ Sound(j) /\ Finding(j) /\ j.stage = "design" /\ UNCHANGED tables
      /\ Catalogue' /\ Roster' /\ skills' = skills /\ agents' = agents
  BY JobIsSound, SameTables DEF Synthesize, At, Finding
<1>2. /\ j \in JobState /\ j.turn \in 1..Len(j.todo) /\ j.turn <= Len(j.todo) /\ Wants(t) = j.todo[j.turn]
      /\ Wants(t) \in SkillNames /\ j.back = "find"
  <2>1. j.turn <= Len(j.todo) /\ j.todo[j.turn] # Search /\ j.back = "find"
    BY <1>1 DEF Sound, Shape, InList
  <2> QED
    BY <1>1, <2>1, AmongSkills, SeqIsAFunction DEF Wants, JobState, Wishes
<1>3. /\ made \in [name : SkillNames, kind : Kinds]
      /\ made.name = Wants(t) \/ \E s \in Sketches : made.name = s.name
      /\ made = [name |-> made.name, kind |-> made.kind]
  BY <1>2, RegistriesAssumption DEF Synthesized, Fallback, Kinds
<1> HIDE DEF made
<1>4. CASE \E s \in SkillsNamed(made.name) : Step(t, Settled(t, s.id))
  <2>1. PICK s \in SkillsNamed(made.name) : Step(t, Settled(t, s.id))
    BY <1>4
  <2> DEFINE given == Noting(job[t].resolved, job[t].seat, s.id)
  <2>2. s \in skills /\ s.id \in Nat /\ Serves(s, Wants(t))
    BY <1>3 DEF SkillsNamed, DesignInv, Catalogue, SkillRows, Serves
  <2>3. given \in Seq(SUBSET Nat)
    BY <1>2, <2>2, NotingKeeps DEF JobState
  <2>4. Step(t, [job[t] EXCEPT !.turn = job[t].turn + 1, !.stage = "find", !.resolved = given])
    BY <1>2, <2>1, SettledIs
  <2> HIDE DEF given
  <2>5. \E r \in skills' :
          /\ given = Noting(job[t].resolved, job[t].seat, r.id)
          /\ job[t].todo[job[t].turn] # Search => Serves(r, job[t].todo[job[t].turn])
    BY <1>1, <1>2, <2>2 DEF given
  <2> QED
    BY <1>1, <1>2, <2>3, <2>4, <2>5, GoesOnKeeps
<1>5. CASE SkillsNamed(made.name) = {} /\ Step(t, ToMake(t, "find", made.name, made.kind))
  <2> DEFINE next == ToMake(t, "find", made.name, made.kind)
  <2>1. next = [job[t] EXCEPT !.stage = "make", !.back = "find", !.made = made]
    BY <1>3 DEF ToMake
  <2>2. Step(t, next)
    BY <1>5
  <2> HIDE DEF next
  <2> QED
    BY <1>1, <1>2, <1>3, <1>5, <2>1, <2>2, GetsMadeKeeps
<1> QED
  BY <1>4, <1>5 DEF Synthesize, made

LEMMA MakeKeeps ==
  ASSUME DesignInv, NEW t \in Threads, Make(t)
  PROVE  DesignInv'
<1> DEFINE j == job[t]
           new == SkillOf(j.made.name, j.made.kind)
<1>1. Sound(j) /\ j \in JobState /\ j.stage = "make" /\ Busy(t) /\ (j.alone => Fits(j, skills, agents))
  BY JobIsSound DEF Make, At, Busy, Sound
<1>2. CASE SkillsNamed(j.made.name) # {} /\ Raises(t)
  <2>1. ~ j.alone
    BY <1>1, <1>2 DEF Fits, Vacant, SkillsNamed
  <2>2. Catalogue' /\ Roster' /\ Ends(t, FALSE)
    BY <1>2, SameTables DEF Raises
  <2> QED
    BY <1>1, <2>1, <2>2, EndKeeps
<1>3. CASE AddSkill(j.made.name, j.made.kind) /\ Step(t, Settled(t, lastId + 1))
  <2>1. j.made.name \in SkillNames /\ j.made.kind \in Kinds
    BY <1>1 DEF JobState
  <2>2. Catalogue' /\ Roster' /\ skills' = skills \cup {new} /\ agents' = agents
    BY <1>3, <2>1, AddSkillKeeps DEF AddSkill, DesignInv
  <2>3. new.id = lastId + 1 /\ new.name = j.made.name /\ lastId + 1 \in Nat
    BY DEF SkillOf, DesignInv, Catalogue
  <2> DEFINE given == Noting(job[t].resolved, job[t].seat, lastId + 1)
  <2>4. CASE j.back = "find"
    <3>1. Finding(j) /\ j.turn <= Len(j.todo) /\ NamedFor(j)
      BY <1>1, <2>4 DEF Finding, Sound, Shape, InList
    <3>2. given \in Seq(SUBSET Nat)
      BY <1>1, <2>3, NotingKeeps DEF JobState
    <3>3. Step(t, [job[t] EXCEPT !.turn = job[t].turn + 1, !.stage = "find", !.resolved = given])
      BY <1>3, <2>4, SettledIs
    <3>4. job[t].todo[job[t].turn] # Search => Serves(new, job[t].todo[job[t].turn])
      BY <1>1, <2>3, <2>4, <3>1 DEF NamedFor, Serves
    <3> HIDE DEF given, new
    <3>5. \E r \in skills' :
            /\ given = Noting(job[t].resolved, job[t].seat, r.id)
            /\ job[t].todo[job[t].turn] # Search => Serves(r, job[t].todo[job[t].turn])
      BY <2>2, <2>3, <3>4 DEF given
    <3> QED
      BY <2>2, <3>1, <3>2, <3>3, <3>5, GoesOnKeeps
  <2>5. CASE j.back = "seed"
    <3>1. Seeding(j)
      BY <1>1, <2>5 DEF Seeding
    <3>2. /\ j.todo = Builtins /\ j.turn \in 1..Len(Builtins)
          /\ j.team = <<>> /\ j.resolved = <<>> /\ j.seat = 0 /\ j.staff = <<>> /\ j.hired = {}
          /\ j.kind \in {"design", "template", "list"} /\ IsFiniteSet(j.tools) /\ IsFiniteSet(j.row.skills)
          /\ j.kind = "design" => j.row.name = NoName
      BY <1>1, <3>1, NoTeamYet
    <3> DEFINE next == [j EXCEPT !.turn = j.turn + 1, !.stage = "seed", !.resolved = j.resolved]
    <3>3. Step(t, next)
      <4>1. /\ given = Noting(j.resolved, j.seat, lastId + 1) /\ j.resolved \in Seq(SUBSET Nat)
            /\ j.resolved = <<>> /\ Len(<<>>) = 0
        BY <1>1, <3>2 DEF JobState
      <4> HIDE DEF given
      <4>2. given \in Seq(SUBSET Nat) /\ Len(given) = 0
        <5>1. /\ Noting(j.resolved, j.seat, lastId + 1) \in Seq(SUBSET Nat)
              /\ Len(Noting(j.resolved, j.seat, lastId + 1)) = Len(j.resolved)
          BY <2>3, <4>1, NotingKeeps
        <5> QED
          BY <4>1, <5>1
      <4>3. given = <<>>
        BY <4>2, SeqIsAFunction
      <4>4. Settled(t, lastId + 1) = [j EXCEPT !.turn = j.turn + 1, !.stage = "seed", !.resolved = given]
        <5>1. Settled(t, lastId + 1) = [j EXCEPT !.turn = j.turn + 1, !.stage = j.back,
                                                 !.resolved = Noting(j.resolved, j.seat, lastId + 1)]
          BY SettledIs, Zenon
        <5> QED
          BY <2>5, <4>1, <5>1
      <4> QED
        BY <1>3, <4>1, <4>3, <4>4
    <3>4. /\ next \in JobState /\ next.stage = "seed" /\ next.todo = Builtins /\ next.turn = j.turn + 1
          /\ next.team = <<>> /\ next.resolved = <<>> /\ next.seat = 0 /\ next.staff = <<>> /\ next.hired = {}
          /\ next.kind = j.kind /\ next.alone = j.alone /\ next.tools = j.tools /\ next.row = j.row
      <4>1. j.turn + 1 \in Nat /\ "seed" \in Stages
        BY <1>1 DEF Stages, JobState
      <4> QED
        BY <1>1, <3>2, <4>1 DEF JobState
    <3> HIDE DEF next
    <3>5. Sound(next)
      BY <3>2, <3>4, DesignAssumption, SeedingIsSound DEF Seeding
    <3>6. Fits(next, skills', agents')
      BY <3>4, NothingYet
    <3> QED
      BY <1>1, <2>2, <3>3, <3>4, <3>5, <3>6, StepKeeps
  <2>6. j.back # "idle"
    BY <1>1 DEF Sound, Shape, Suits, Seeding, Finding, Builds, Edits, Building
  <2> QED
    BY <1>1, <2>4, <2>5, <2>6 DEF JobState
<1> QED
  BY <1>2, <1>3 DEF Make

LEMMA EnsuredKeeps ==
  ASSUME DesignInv, NEW t \in Threads, Ensured(t)
  PROVE  DesignInv'
BY SameTables, EndKeeps, OthersEnd DEF Ensured, Resolved, Busy, At

-----------------------------------------------------------------------------
(* The agents. *)

\* What is so of a request that seats a team.
AtAgents(j) ==
  /\ j \in JobState
  /\ j.kind \in {"design", "template"} /\ (j.stage # "seat" => j.kind = "design")
  /\ j.turn \in 1..(Len(j.todo) + 1)
  /\ WellPlanned(j.team) /\ IsFiniteSet(j.tools)
  /\ Len(j.resolved) = Len(j.team)
  /\ \A i \in 1..Len(j.team) : Few(j.resolved[i], MaxSkills)
  /\ j.stage = "mark" => j.staff = <<>> /\ j.hired = {}
  /\ Len(j.staff) <= Len(j.team)
  /\ j.stage \in {"hire", "train", "save"} => Len(j.staff) < Len(j.team)
  /\ IsFiniteSet(j.row.skills)
  /\ j.kind = "design" => j.row.name = NoName

LEMMA AtAgentsIsSound ==
  ASSUME NEW j, j.stage \in Building, j.kind # "edit"
  PROVE  Sound(j) <=> AtAgents(j)
<1>1. j.stage \notin {"idle", "seed", "plan", "find", "design", "make"} /\ ~ Seeding(j) /\ ~ Finding(j) /\ ~ Edits(j)
  BY DEF Building, Seeding, Finding, Edits
<1>2. ASSUME Sound(j) PROVE AtAgents(j)
  <2>1. j \in JobState /\ Suits(j) /\ InList(j) /\ Staffed(j)
    BY <1>2 DEF Sound, Shape
  <2>2. Builds(j) /\ (j.stage # "seat" => j.kind = "design")
    BY <1>1, <2>1 DEF Suits
  <2>3. \A i \in 1..Len(j.team) : Few(j.resolved[i], MaxSkills)
    BY <2>1 DEF Staffed, Portion
  <2>4. j.stage \in {"hire", "train", "save"} => Len(j.staff) < Len(j.team)
    BY <2>1, <2>2 DEF Staffed
  <2> QED
    BY <2>1, <2>2, <2>3, <2>4 DEF AtAgents, Builds, InList, Staffed
<1>3. ASSUME AtAgents(j) PROVE Sound(j)
  <2>1. Suits(j) /\ InList(j) /\ NamedFor(j)
    BY <1>1, <1>3 DEF AtAgents, Suits, Builds, InList, NamedFor
  <2>2. Staffed(j)
    BY <1>1, <1>3 DEF AtAgents, Staffed, Portion
  <2> QED
    BY <1>3, <2>1, <2>2 DEF AtAgents, Sound, Shape
<1> QED
  BY <1>2, <1>3

\* When the list of a team's last agent is gone through, every skill had its turn.
LEMMA AllResolved ==
  ASSUME NEW j, Sound(j), Finding(j), j.kind # "ensure", j.turn > Len(j.todo), j.seat = Len(j.team)
  PROVE  /\ \A i \in 1..Len(j.team) : Few(j.resolved[i], MaxPlanned)
         /\ \A i \in 1..Len(j.team) : \A k \in 1..Len(j.team[i].skills) : Gone(j, i, k)
<1>1. /\ j \in JobState /\ Len(j.todo) \in Nat /\ j.turn = Len(j.todo) + 1
      /\ Len(j.team) \in Nat /\ WellPlanned(j.team) /\ j.seat \in 1..Len(j.team) /\ j.todo = j.team[j.seat].skills
      /\ \A i \in 1..Len(j.team) : Few(j.resolved[i], IF i < j.seat THEN MaxPlanned
                                                      ELSE IF i = j.seat THEN j.turn - 1 ELSE 0)
  <2>1. j.turn \in 1..(Len(j.todo) + 1) /\ Len(j.todo) \in Nat
    BY AmongSkills
  <2> QED
    BY <2>1, AmongSkills
<1>2. Len(j.todo) <= MaxPlanned /\ MaxPlanned \in Nat
  BY <1>1, DesignAssumption DEF WellPlanned
<1>3. \A i \in 1..Len(j.team) : i < j.seat \/ i = j.seat
  BY <1>1
<1>4. ASSUME NEW i \in 1..Len(j.team) PROVE Few(j.resolved[i], MaxPlanned)
  <2>1. CASE i < j.seat
    BY <1>1, <2>1
  <2>2. CASE i = j.seat
    <3>1. Few(j.resolved[i], Len(j.todo))
      BY <1>1, <2>2
    <3> QED
      BY <1>1, <1>2, <3>1, FewEnough
  <2> QED
    BY <1>3, <2>1, <2>2
<1>5. ASSUME NEW i \in 1..Len(j.team), NEW k \in 1..Len(j.team[i].skills) PROVE Gone(j, i, k)
  BY <1>1, <1>3 DEF Gone
<1> QED
  BY <1>4, <1>5

\* Once all skills are there, only what is new of the agents is left to show.
LEMMA StillServed ==
  ASSUME NEW j, NEW next, j.stage \in Building, next.stage \in Building,
         next.team = j.team, next.resolved = j.resolved, next.kind = j.kind, next.announced = j.announced,
         NEW sk, Served(j, sk), Noted(j, sk)
  PROVE  Served(next, sk) /\ Noted(next, sk)
BY DEF Served, Gone, Noted

LEMMA AttachKeeps ==
  ASSUME DesignInv, NEW t \in Threads, NEW chosen \in Choices(t), Attach(t, chosen)
  PROVE  DesignInv'
<1> DEFINE j == job[t]
           ids(i) == {s.id : s \in chosen[i]}
           given == [i \in DOMAIN chosen |-> j.resolved[i] \cup ids(i)]
           next == [j EXCEPT !.stage = "mark", !.resolved = given, !.announced = Announced(t, given)]
<1>1. /\ Sound(j) /\ Finding(j) /\ Busy(t) /\ j.kind = "design" /\ j.turn > Len(j.todo) /\ j.seat = Len(j.team)
      /\ Catalogue' /\ Roster' /\ skills' = skills /\ agents' = agents
  BY JobIsSound, SameTables DEF Attach, Resolved, At, Through, Finding, Busy
<1>2. /\ j \in JobState /\ j.turn \in 1..(Len(j.todo) + 1) /\ j.turn \in Nat /\ WellPlanned(j.team)
      /\ Len(j.resolved) = Len(j.team) /\ Len(j.team) \in Nat
      /\ j.staff = <<>> /\ j.hired = {} /\ IsFiniteSet(j.tools) /\ IsFiniteSet(j.row.skills)
      /\ j.kind = "design" => j.row.name = NoName
  <2>1. j.turn \in 1..(Len(j.todo) + 1) /\ Len(j.todo) \in Nat
    BY <1>1, AmongSkills
  <2> QED
    BY <1>1, <2>1, AmongSkills
<1>3. /\ \A i \in 1..Len(j.team) : Few(j.resolved[i], MaxPlanned) /\ j.resolved[i] \in SUBSET Nat
      /\ \A i \in 1..Len(j.team) : \A k \in 1..Len(j.team[i].skills) : Gone(j, i, k)
  <2>1. /\ \A i \in 1..Len(j.team) : Few(j.resolved[i], MaxPlanned)
        /\ \A i \in 1..Len(j.team) : \A k \in 1..Len(j.team[i].skills) : Gone(j, i, k)
    BY <1>1, AllResolved
  <2>2. j.resolved \in Seq(SUBSET Nat)
    BY <1>2 DEF JobState
  <2>3. \A i \in 1..Len(j.team) : j.resolved[i] \in SUBSET Nat
    BY <1>2, <2>2, SeqIsAFunction
  <2> QED
    BY <2>1, <2>3
<1>4. /\ DOMAIN chosen = 1..Len(j.team)
      /\ \A i \in 1..Len(j.team) : chosen[i] \subseteq j.tools /\ Few(chosen[i], MaxConnectors)
  <2>1. DOMAIN chosen = 1..Len(j.team)
    <3>1. j.team \in Seq(Members(Names))
      BY <1>2 DEF JobState
    <3> QED
      BY <3>1, SeqIsAFunction DEF Attach
  <2>2. ASSUME NEW i \in 1..Len(j.team) PROVE chosen[i] \subseteq j.tools /\ Few(chosen[i], MaxConnectors)
    <3>1. chosen[i] \subseteq j.tools /\ Cardinality(chosen[i]) <= MaxConnectors
      BY <2>1 DEF Attach, Matching
    <3> QED
      BY <1>2, <3>1, FS_Subset DEF Few
  <2> QED
    BY <2>1, <2>2
<1>5. \A i \in 1..Len(j.team) : given[i] \in SUBSET Nat /\ Few(given[i], MaxSkills)
  <2> SUFFICES ASSUME NEW i \in 1..Len(j.team)
               PROVE  given[i] \in SUBSET Nat /\ Few(given[i], MaxSkills)
    OBVIOUS
  <2>1. ids(i) \in SUBSET Nat
    BY <1>2, <1>4 DEF JobState, SkillRows
  <2>2. Few(ids(i), MaxConnectors)
    <3> DEFINE C == chosen[i]  f == [s \in C |-> s.id]
    <3>1. ids(i) = {f[s] : s \in C} /\ IsFiniteSet(C) /\ Cardinality(C) <= MaxConnectors /\ f = [s \in C |-> f[s]]
      BY <1>4 DEF Few
    <3> HIDE DEF C, f, ids
    <3>2. IsFiniteSet(ids(i)) /\ Cardinality(ids(i)) <= Cardinality(C)
      BY <3>1, FewValues
    <3>3. Cardinality(ids(i)) \in Nat /\ Cardinality(C) \in Nat /\ MaxConnectors \in Nat
      BY <3>1, <3>2, FS_CardinalityType, DesignAssumption
    <3> QED
      BY <3>1, <3>2, <3>3 DEF Few
  <2>3. given[i] = j.resolved[i] \cup ids(i)
    BY <1>4
  <2> HIDE DEF ids, given
  <2>4. /\ MaxPlanned \in Nat /\ MaxConnectors \in Nat /\ MaxSkills \in Nat /\ MaxPlanned + MaxConnectors \in Nat
        /\ MaxPlanned + MaxConnectors <= MaxSkills
    BY DesignAssumption, RegistriesAssumption
  <2>5. Few(j.resolved[i] \cup ids(i), MaxPlanned + MaxConnectors)
    BY <1>3, <2>2, <2>4, FewBoth
  <2>6. Few(j.resolved[i] \cup ids(i), MaxSkills)
    BY <2>4, <2>5, FewEnough
  <2> QED
    BY <1>3, <2>1, <2>3, <2>6
<1>6. given \in Seq(SUBSET Nat) /\ Len(given) = Len(j.team) /\ DOMAIN given = 1..Len(j.team)
      /\ \A i \in 1..Len(j.team) : j.resolved[i] \subseteq given[i]
  <2>1. given \in [1..Len(j.team) -> SUBSET Nat]
    BY <1>4, <1>5
  <2> QED
    BY <1>2, <1>4, <2>1, FunctionIsASeq
<1>7. Step(t, next)
  BY DEF Attach
<1>8. Announced(t, given) \in BOOLEAN
  BY DEF Announced
<1> HIDE DEF given
<1>9. /\ next \in JobState /\ next.stage = "mark" /\ next.resolved = given /\ next.announced = Announced(t, given)
      /\ next.kind = j.kind /\ next.alone = j.alone /\ next.todo = j.todo /\ next.turn = j.turn /\ next.team = j.team
      /\ next.staff = j.staff /\ next.hired = j.hired /\ next.tools = j.tools /\ next.row = j.row
  BY <1>2, <1>6, <1>8 DEF JobState, Stages, Building
<1> HIDE DEF next
<1>10. Sound(next)
  <2>1. next.stage \in Building /\ next.kind # "edit"
    BY <1>1, <1>9 DEF Building
  <2>2. AtAgents(next)
    <3>1. Len(next.staff) <= Len(next.team)
      BY <1>2, <1>9, EmptySeq
    <3> QED
      BY <1>1, <1>2, <1>5, <1>6, <1>9, <3>1 DEF AtAgents
  <2> QED
    BY <2>1, <2>2, AtAgentsIsSound
<1>11. ASSUME j.alone PROVE Fits(next, skills', agents')
  <2>1. Served(j, skills)
    BY <1>1, <1>11, JobIsSound DEF Fits
  <2>2. Served(next, skills')
    BY <1>1, <1>3, <1>6, <1>9, <2>1 DEF Served
  <2>3. Noted(next, skills')
    BY <1>1, <1>6, <1>9 DEF Noted, Announced, Held
  <2>4. Vacant(next, skills', agents') /\ RowKnown(next, agents') /\ Seats(next, agents') /\ Newcomers(next, agents')
    BY <1>2, <1>9 DEF Vacant, RowKnown, Edits, Seats, Newcomers
  <2> QED
    BY <2>2, <2>3, <2>4 DEF Fits
<1> QED
  BY <1>1, <1>7, <1>9, <1>10, <1>11, StepKeeps

LEMMA CopiedKeeps ==
  ASSUME DesignInv, NEW t \in Threads, Copied(t)
  PROVE  DesignInv'
<1> DEFINE j == job[t]
           next == [j EXCEPT !.stage = "seat"]
<1>1. /\ Sound(j) /\ Finding(j) /\ Busy(t) /\ j.kind = "template" /\ j.turn > Len(j.todo) /\ j.seat = Len(j.team)
      /\ Catalogue' /\ Roster' /\ skills' = skills /\ agents' = agents
  BY JobIsSound, SameTables DEF Copied, Resolved, At, Through, Finding, Busy
<1>2. /\ j \in JobState /\ j.turn \in 1..(Len(j.todo) + 1) /\ j.turn \in Nat /\ WellPlanned(j.team)
      /\ Len(j.resolved) = Len(j.team) /\ Len(j.team) \in Nat
      /\ j.staff = <<>> /\ j.hired = {} /\ IsFiniteSet(j.tools) /\ IsFiniteSet(j.row.skills)
  <2>1. j.turn \in 1..(Len(j.todo) + 1) /\ Len(j.todo) \in Nat
    BY <1>1, AmongSkills
  <2> QED
    BY <1>1, <2>1, AmongSkills
<1>3. /\ \A i \in 1..Len(j.team) : Few(j.resolved[i], MaxPlanned)
      /\ \A i \in 1..Len(j.team) : \A k \in 1..Len(j.team[i].skills) : Gone(j, i, k)
  BY <1>1, AllResolved
<1>4. /\ next \in JobState /\ next.stage = "seat" /\ next.resolved = j.resolved
      /\ next.kind = j.kind /\ next.alone = j.alone /\ next.todo = j.todo /\ next.turn = j.turn /\ next.team = j.team
      /\ next.staff = j.staff /\ next.hired = j.hired /\ next.tools = j.tools /\ next.row = j.row
  BY <1>2 DEF JobState, Stages, Building
<1>5. Step(t, next)
  BY DEF Copied
<1> HIDE DEF next
<1>6. Sound(next)
  <2>1. next.stage \in Building /\ next.kind # "edit"
    BY <1>1, <1>4 DEF Building
  <2>2. AtAgents(next)
    <3>1. Len(next.staff) <= Len(next.team)
      BY <1>2, <1>4, EmptySeq
    <3>2. MaxPlanned \in Nat /\ MaxSkills \in Nat /\ MaxPlanned <= MaxSkills
      BY DesignAssumption, RegistriesAssumption
    <3>3. \A i \in 1..Len(j.team) : Few(j.resolved[i], MaxSkills)
      BY <1>3, <3>2, FewEnough
    <3> QED
      BY <1>1, <1>2, <1>4, <3>1, <3>3 DEF AtAgents
  <2> QED
    BY <2>1, <2>2, AtAgentsIsSound
<1>7. ASSUME j.alone PROVE Fits(next, skills', agents')
  <2>1. Served(j, skills)
    BY <1>1, <1>7, JobIsSound DEF Fits
  <2>2. Served(next, skills')
    BY <1>1, <1>3, <1>4, <2>1 DEF Served
  <2>3. Noted(next, skills')
    BY <1>1, <1>4 DEF Noted
  <2>4. Vacant(next, skills', agents') /\ RowKnown(next, agents') /\ Seats(next, agents') /\ Newcomers(next, agents')
    BY <1>2, <1>4 DEF Vacant, RowKnown, Edits, Seats, Newcomers
  <2> QED
    BY <2>2, <2>3, <2>4 DEF Fits
<1> QED
  BY <1>1, <1>4, <1>5, <1>6, <1>7, StepKeeps

\* A name two agents have is what a design may fail over.
LEMMA TwoOfOneNameExplain ==
  ASSUME NEW t \in Threads, Raises(t), job[t].kind = "design", job[t].team \in Seq(Members(Names)),
         NEW i \in 1..Len(job[t].team), Cardinality(AgentsNamed(job[t].team[i].name)) > 1
  PROVE  (LoneDesignDelivers /\ LoneFailureIsExplained /\ WritesAreAnnounced)'
<1>1. last'.kind = "design" /\ ~ last'.ok /\ last'.team = job[t].team /\ agents' = agents
  BY DEF Raises, Ends, tables
<1>2. i \in DOMAIN last'.team /\ AgentsNamed(last.team[i].name)' = AgentsNamed(job[t].team[i].name)
  BY <1>1, SeqIsAFunction DEF AgentsNamed
<1> QED
  BY <1>1, <1>2 DEF LoneDesignDelivers, LoneFailureIsExplained, WritesAreAnnounced, Lone

LEMMA MarkKeeps ==
  ASSUME DesignInv, NEW t \in Threads, Mark(t)
  PROVE  DesignInv'
<1> DEFINE j == job[t]
           next == [j EXCEPT !.stage = "seat"]
<1>1. /\ Sound(j) /\ Busy(t) /\ j.stage = "mark" /\ j.stage \in Building /\ j.kind # "edit" /\ (j.alone => Fits(j, skills, agents))
  BY JobIsSound DEF Mark, At, Busy, Building, Sound, Shape, Suits, Seeding, Finding, Builds, Edits
<1>2. AtAgents(j) /\ j.kind = "design" /\ j \in JobState /\ DOMAIN j.team = 1..Len(j.team) /\ j.team \in Seq(Members(Names))
  <2>1. AtAgents(j)
    BY <1>1, AtAgentsIsSound
  <2>2. j.team \in Seq(Members(Names))
    BY <2>1 DEF AtAgents, JobState
  <2> QED
    BY <1>1, <2>1, <2>2, SeqIsAFunction DEF AtAgents
<1>3. CASE \E i \in DOMAIN j.team : Cardinality(AgentsNamed(j.team[i].name)) > 1
  <2>1. Raises(t) /\ Ends(t, FALSE) /\ Catalogue' /\ Roster'
    BY <1>3, SameTables DEF Mark, Raises
  <2>2. (LoneDesignDelivers /\ LoneFailureIsExplained /\ WritesAreAnnounced)'
    BY <1>2, <1>3, <2>1, TwoOfOneNameExplain
  <2> QED
    BY <1>1, <2>1, <2>2, EndKeeps
<1>4. CASE Step(t, next) /\ UNCHANGED tables
  <2>1. /\ next \in JobState /\ next.stage = "seat" /\ next.resolved = j.resolved /\ next.announced = j.announced
        /\ next.kind = j.kind /\ next.alone = j.alone /\ next.todo = j.todo /\ next.turn = j.turn /\ next.team = j.team
        /\ next.staff = j.staff /\ next.hired = j.hired /\ next.tools = j.tools /\ next.row = j.row
    BY <1>2 DEF JobState, Stages, Building
  <2> HIDE DEF next
  <2>2. next.stage \in Building /\ next.kind # "edit"
    BY <1>2, <2>1 DEF Building
  <2>3. Sound(next)
    <3>1. AtAgents(next)
      BY <1>2, <2>1 DEF AtAgents
    <3> QED
      BY <2>2, <3>1, AtAgentsIsSound
  <2>4. Catalogue' /\ Roster' /\ skills' = skills /\ agents' = agents
    BY <1>4, SameTables
  <2>5. ASSUME j.alone PROVE Fits(next, skills', agents')
    <3>1. Served(next, skills) /\ Noted(next, skills)
      BY <1>1, <2>1, <2>2, <2>5, StillServed DEF Fits
    <3>2. Vacant(next, skills, agents) /\ RowKnown(next, agents) /\ Seats(next, agents) /\ Newcomers(next, agents)
      BY <1>1, <2>1, <2>5 DEF Fits, Vacant, RowKnown, Edits, Seats, Newcomers
    <3> QED
      BY <2>4, <3>1, <3>2 DEF Fits
  <2> QED
    BY <1>1, <1>4, <2>1, <2>3, <2>4, <2>5, StepKeeps
<1> QED
  BY <1>3, <1>4 DEF Mark

\* What is so of a request that has an agent to seat.
LEMMA AtASeat ==
  ASSUME DesignInv, NEW t \in Threads, job[t].stage \in Building, job[t].kind # "edit", Open(t)
  PROVE  /\ AtAgents(job[t]) /\ Busy(t)
         /\ job[t] \in JobState /\ job[t].team \in Seq(Members(Names)) /\ job[t].resolved \in Seq(SUBSET Nat)
         /\ job[t].staff \in Seq(Nat) /\ Len(job[t].staff) \in Nat
         /\ Seat(t) \in 1..Len(job[t].team) /\ Seat(t) = SeatOf(job[t]) /\ Seat(t) = Len(job[t].staff) + 1
         /\ Name(t) \in Names /\ Gets(t) \in SUBSET Nat /\ Few(Gets(t), MaxSkills)
         /\ Name(t) = job[t].team[SeatOf(job[t])].name /\ Gets(t) = job[t].resolved[SeatOf(job[t])]
<1> DEFINE j == job[t]
<1>1. AtAgents(j)
  BY JobIsSound, AtAgentsIsSound
<1>2. j \in JobState /\ j.team \in Seq(Members(Names)) /\ j.resolved \in Seq(SUBSET Nat) /\ j.staff \in Seq(Nat)
      /\ Len(j.staff) \in Nat
  BY <1>1 DEF AtAgents, JobState
<1>3. Seat(t) \in 1..Len(j.team) /\ Seat(t) = SeatOf(j) /\ Seat(t) = Len(j.staff) + 1
  BY <1>2, SeqIsAFunction DEF Open, Seat, SeatOf
<1>4. Seat(t) \in 1..Len(j.resolved) /\ Few(j.resolved[Seat(t)], MaxSkills)
  BY <1>1, <1>3 DEF AtAgents
<1>5. j.team[Seat(t)] \in Members(Names) /\ j.resolved[Seat(t)] \in SUBSET Nat
  BY <1>2, <1>3, <1>4, SeqIsAFunction
<1>6. Busy(t)
  BY DEF Busy, At, Building
<1> QED
  BY <1>1, <1>2, <1>3, <1>4, <1>5, <1>6 DEF Name, Gets, Members

\* The agent of a seat is found, stored or saved, and the seat taken.
LEMMA SeatedKeeps ==
  ASSUME DesignInv, NEW t \in Threads, job[t].stage \in Building, job[t].kind # "edit", Open(t),
         Catalogue', Roster', skills' = skills,
         NEW id \in Nat, NEW more \in SUBSET Nat, NEW next,
         next = [job[t] EXCEPT !.stage = "seat", !.staff = Append(job[t].staff, id), !.row = NoRow,
                               !.hired = job[t].hired \cup more],
         Step(t, next),
         job[t].alone => Seats(next, agents') /\ Newcomers(next, agents')
  PROVE  DesignInv'
<1> DEFINE j == job[t]
<1>1. /\ AtAgents(j) /\ Busy(t) /\ j \in JobState /\ j.staff \in Seq(Nat) /\ Len(j.staff) \in Nat
      /\ Len(j.staff) + 1 \in 1..Len(j.team)
  BY AtASeat
<1>2. Append(j.staff, id) \in Seq(Nat) /\ Len(Append(j.staff, id)) = Len(j.staff) + 1
  BY <1>1
<1>3. NoRow \in RowOf /\ IsFiniteSet(NoRow.skills) /\ NoRow.name = NoName
  BY FS_EmptySet DEF NoRow, RowOf
<1>4. /\ next \in JobState /\ next.stage = "seat" /\ next.resolved = j.resolved /\ next.announced = j.announced
      /\ next.kind = j.kind /\ next.alone = j.alone /\ next.todo = j.todo /\ next.turn = j.turn /\ next.team = j.team
      /\ next.tools = j.tools /\ next.row = NoRow /\ Len(next.staff) = Len(j.staff) + 1
  BY <1>1, <1>2, <1>3 DEF JobState, Stages, Building
<1>5. next.stage \in Building /\ next.kind # "edit"
  BY <1>4 DEF Building
<1>6. Sound(next)
  <2>1. AtAgents(next)
    BY <1>1, <1>3, <1>4 DEF AtAgents
  <2> QED
    BY <1>5, <2>1, AtAgentsIsSound
<1>7. ASSUME j.alone PROVE Fits(next, skills', agents')
  <2>0. Served(j, skills) /\ Noted(j, skills)
    BY <1>1, <1>7, JobIsSound DEF Fits
  <2>1. Served(next, skills) /\ Noted(next, skills)
    BY <1>4, <1>5, <2>0, StillServed
  <2>2. Vacant(next, skills, agents') /\ RowKnown(next, agents')
    BY <1>4 DEF Vacant, RowKnown, Edits
  <2> QED
    BY <1>7, <2>1, <2>2 DEF Fits
<1> QED
  BY <1>1, <1>4, <1>6, <1>7, StepKeeps

LEMMA ReuseKeeps ==
  ASSUME DesignInv, NEW t \in Threads, Reuse(t)
  PROVE  DesignInv'
<1> DEFINE j == job[t]
           found == AgentsNamed(Name(t))
<1>1. /\ Sound(j) /\ j.stage = "seat" /\ j.stage \in Building /\ j.kind = "design" /\ j.kind # "edit" /\ Open(t)
      /\ j.alone => Fits(j, skills, agents)
  <2>1. j.stage = "seat" /\ j.kind = "design" /\ Open(t) /\ Busy(t)
    BY DEF Reuse, At, Busy
  <2> QED
    BY <2>1, JobIsSound DEF Building
<1>2. /\ AtAgents(j) /\ Busy(t) /\ j \in JobState /\ j.team \in Seq(Members(Names)) /\ j.resolved \in Seq(SUBSET Nat)
      /\ j.staff \in Seq(Nat) /\ Len(j.staff) \in Nat
      /\ Seat(t) \in 1..Len(j.team) /\ Seat(t) = SeatOf(j) /\ Seat(t) = Len(j.staff) + 1
      /\ Name(t) = j.team[SeatOf(j)].name /\ Gets(t) = j.resolved[SeatOf(j)]
  BY <1>1, AtASeat
<1>3. CASE found = {} /\ Step(t, [j EXCEPT !.stage = "hire"]) /\ UNCHANGED tables
  <2> DEFINE next == [j EXCEPT !.stage = "hire"]
  <2>1. /\ next \in JobState /\ next.stage = "hire" /\ next.resolved = j.resolved /\ next.announced = j.announced
        /\ next.kind = j.kind /\ next.alone = j.alone /\ next.todo = j.todo /\ next.turn = j.turn /\ next.team = j.team
        /\ next.staff = j.staff /\ next.hired = j.hired /\ next.tools = j.tools /\ next.row = j.row
    BY <1>2 DEF JobState, Stages, Building
  <2>2. Step(t, next)
    BY <1>3
  <2> HIDE DEF next
  <2>3. next.stage \in Building /\ next.kind # "edit"
    BY <1>1, <2>1 DEF Building
  <2>4. Sound(next)
    <3>1. Len(next.staff) < Len(next.team)
      BY <1>2, <2>1
    <3>2. AtAgents(next)
      BY <1>1, <1>2, <2>1, <3>1 DEF AtAgents
    <3> QED
      BY <2>3, <3>2, AtAgentsIsSound
  <2>5. Catalogue' /\ Roster' /\ skills' = skills /\ agents' = agents
    BY <1>3, SameTables
  <2>6. ASSUME j.alone PROVE Fits(next, skills', agents')
    <3>1. Served(next, skills) /\ Noted(next, skills)
      BY <1>1, <2>1, <2>3, <2>6, StillServed DEF Fits
    <3>2. Vacant(next, skills, agents)
      BY <1>2, <1>3, <2>1 DEF Vacant, AgentsNamed, SeatOf
    <3>3. RowKnown(next, agents) /\ Seats(next, agents) /\ Newcomers(next, agents)
      BY <1>1, <2>1, <2>6 DEF Fits, RowKnown, Edits, Seats, Newcomers
    <3> QED
      BY <2>5, <3>1, <3>2, <3>3 DEF Fits
  <2> QED
    BY <1>2, <2>1, <2>2, <2>4, <2>5, <2>6, StepKeeps
<1>4. CASE Cardinality(found) > 1 /\ Raises(t)
  <2>1. Ends(t, FALSE) /\ Catalogue' /\ Roster'
    BY <1>4, SameTables DEF Raises
  <2>2. (LoneDesignDelivers /\ LoneFailureIsExplained /\ WritesAreAnnounced)'
    <3>1. Seat(t) \in 1..Len(j.team) /\ Cardinality(AgentsNamed(j.team[Seat(t)].name)) > 1
      BY <1>2, <1>4 DEF Name
    <3> QED
      BY <1>1, <1>2, <1>4, <3>1, TwoOfOneNameExplain
  <2> QED
    BY <1>2, <2>1, <2>2, EndKeeps
<1>5. ASSUME NEW a \in found, UNCHANGED tables, Gets(t) \subseteq a.skills, Step(t, Seated(t, a.id))
      PROVE  DesignInv'
  <2> DEFINE next == [j EXCEPT !.stage = "seat", !.staff = Append(j.staff, a.id), !.row = NoRow,
                               !.hired = j.hired \cup {}]
  <2>1. Catalogue' /\ Roster' /\ skills' = skills /\ agents' = agents
    BY <1>5, SameTables
  <2>2. a \in agents /\ a.id \in Nat /\ a.name = Name(t)
    BY DEF AgentsNamed, DesignInv, Roster, AgentRows
  <2>3. Seated(t, a.id) = next
    BY <1>2 DEF Seated, JobState
  <2>4. next.staff = Append(j.staff, a.id) /\ next.team = j.team /\ next.resolved = j.resolved /\ next.hired = j.hired
    BY <1>2 DEF JobState
  <2>5. Step(t, next)
    BY <1>5, <2>3
  <2>6. ASSUME j.alone PROVE Seats(next, agents') /\ Newcomers(next, agents')
    <3>1. Newcomers(next, agents)
      BY <1>1, <2>4, <2>6 DEF Fits, Newcomers
    <3>2. Seats(next, agents)
      <4> HIDE DEF next
      <4> SUFFICES ASSUME NEW i \in 1..(Len(j.staff) + 1)
                   PROVE  \E b \in agents : b.id = Append(j.staff, a.id)[i] /\ b.name = j.team[i].name
                                            /\ j.resolved[i] \subseteq b.skills
        BY <1>2, <2>4 DEF Seats
      <4>1. CASE i = Len(j.staff) + 1
        <5>1. Append(j.staff, a.id)[i] = a.id /\ i = SeatOf(j)
          BY <1>2, <4>1
        <5> QED
          BY <1>2, <1>5, <2>2, <5>1
      <4>2. CASE i \in 1..Len(j.staff)
        <5>1. Append(j.staff, a.id)[i] = j.staff[i]
          BY <1>2, <2>2, <4>2
        <5> QED
          BY <1>1, <2>6, <4>2, <5>1 DEF Fits, Seats
      <4> QED
        BY <1>2, <4>1, <4>2
    <3> QED
      BY <2>1, <3>1, <3>2
  <2> HIDE DEF next
  <2>7. next = [job[t] EXCEPT !.stage = "seat", !.staff = Append(job[t].staff, a.id), !.row = NoRow,
                               !.hired = job[t].hired \cup {}]
    BY DEF next
  <2> QED
    BY <1>1, <2>1, <2>2, <2>5, <2>6, <2>7, SeatedKeeps
<1>6. ASSUME NEW a \in found, UNCHANGED tables,
             Step(t, [j EXCEPT !.stage = "train", !.row = [NoRow EXCEPT !.id = a.id, !.skills = a.skills]])
      PROVE  DesignInv'
  <2> DEFINE row == [NoRow EXCEPT !.id = a.id, !.skills = a.skills]
             next == [j EXCEPT !.stage = "train", !.row = row]
  <2>1. a \in agents /\ a.id \in Nat /\ a.name = Name(t) /\ a.skills \in SUBSET Nat /\ IsFiniteSet(a.skills)
    BY DEF AgentsNamed, DesignInv, Roster, AgentRows, Few
  <2>2. row \in RowOf /\ row.id = a.id /\ row.skills = a.skills /\ row.name = NoName
    BY <2>1 DEF NoRow, RowOf
  <2> HIDE DEF row
  <2>3. /\ next \in JobState /\ next.stage = "train" /\ next.resolved = j.resolved /\ next.announced = j.announced
        /\ next.kind = j.kind /\ next.alone = j.alone /\ next.todo = j.todo /\ next.turn = j.turn /\ next.team = j.team
        /\ next.staff = j.staff /\ next.hired = j.hired /\ next.tools = j.tools /\ next.row = row
    BY <1>2, <2>2 DEF JobState, Stages, Building
  <2>4. Step(t, next)
    BY <1>6 DEF row
  <2> HIDE DEF next
  <2>5. next.stage \in Building /\ next.kind # "edit"
    BY <1>1, <2>3 DEF Building
  <2>6. Sound(next)
    <3>1. Len(next.staff) < Len(next.team)
      BY <1>2, <2>3
    <3>2. AtAgents(next)
      BY <1>1, <1>2, <2>1, <2>2, <2>3, <3>1 DEF AtAgents
    <3> QED
      BY <2>5, <3>2, AtAgentsIsSound
  <2>7. Catalogue' /\ Roster' /\ skills' = skills /\ agents' = agents
    BY <1>6, SameTables
  <2>8. ASSUME j.alone PROVE Fits(next, skills', agents')
    <3>1. Served(next, skills) /\ Noted(next, skills)
      BY <1>1, <2>3, <2>5, <2>8, StillServed DEF Fits
    <3>2. RowKnown(next, agents)
      BY <1>2, <2>1, <2>2, <2>3 DEF RowKnown, Edits, SeatOf
    <3>3. Vacant(next, skills, agents) /\ Seats(next, agents) /\ Newcomers(next, agents)
      BY <1>1, <2>3, <2>8 DEF Fits, Vacant, Seats, Newcomers
    <3> QED
      BY <2>7, <3>1, <3>2, <3>3 DEF Fits
  <2> QED
    BY <1>2, <2>3, <2>4, <2>6, <2>7, <2>8, StepKeeps
<1>7. CASE found # {} /\ UNCHANGED tables /\ \A a \in found :
             Step(t, IF Gets(t) \subseteq a.skills THEN Seated(t, a.id)
                     ELSE [j EXCEPT !.stage = "train", !.row = [NoRow EXCEPT !.id = a.id, !.skills = a.skills]])
  <2>1. PICK a \in found : TRUE
    BY <1>7
  <2>2. CASE Gets(t) \subseteq a.skills
    BY <1>5, <1>7, <2>1, <2>2
  <2>3. CASE ~ (Gets(t) \subseteq a.skills)
    BY <1>6, <1>7, <2>1, <2>3
  <2> QED
    BY <2>2, <2>3
<1> QED
  BY <1>3, <1>4, <1>7 DEF Reuse

\* A sequence with one more at its end.
LEMMA OneMore ==
  ASSUME NEW S, NEW s \in Seq(S), NEW x \in S
  PROVE  /\ Append(s, x) \in Seq(S) /\ Len(Append(s, x)) = Len(s) + 1 /\ Len(s) \in Nat
         /\ Append(s, x)[Len(s) + 1] = x
         /\ \A i \in 1..Len(s) : Append(s, x)[i] = s[i]
         /\ \A i \in 1..(Len(s) + 1) : i = Len(s) + 1 \/ i \in 1..Len(s)
OBVIOUS

LEMMA HireKeeps ==
  ASSUME DesignInv, NEW t \in Threads, Hire(t)
  PROVE  DesignInv'
<1> DEFINE j == job[t]
           id == lastId + 1
           new == [id |-> id, name |-> Name(t), skills |-> Gets(t), version |-> 1]
           next == [j EXCEPT !.stage = "seat", !.staff = Append(j.staff, id), !.row = NoRow,
                             !.hired = j.hired \cup {id}]
<1>1. j.stage \in Building /\ j.kind # "edit" /\ Busy(t) /\ Open(t)
  <2>1. CASE At(t, "seat") /\ Open(t) /\ j.kind = "template"
    BY <2>1 DEF At, Busy, Building
  <2>2. CASE At(t, "hire")
    <3>1. j.stage = "hire" /\ j.stage \in Building /\ Busy(t)
      BY <2>2 DEF At, Busy, Building
    <3>2. j.kind # "edit"
      BY <3>1, JobIsSound DEF Sound, Shape, Suits, Seeding, Finding, Edits, Builds
    <3>3. AtAgents(j)
      BY <3>1, <3>2, JobIsSound, AtAgentsIsSound
    <3>4. Len(j.staff) < Len(j.team) /\ j.staff \in Seq(Nat) /\ j.team \in Seq(Members(Names))
      BY <3>1, <3>3 DEF AtAgents, JobState
    <3>5. Open(t)
      <4>1. Len(j.staff) \in Nat /\ Len(j.team) \in Nat /\ DOMAIN j.team = 1..Len(j.team)
        BY <3>4, SeqIsAFunction
      <4> QED
        BY <3>4, <4>1 DEF Open, Seat
    <3> QED
      BY <3>1, <3>2, <3>5
  <2> QED
    BY <2>1, <2>2 DEF Hire
<1>2. /\ AtAgents(j) /\ j \in JobState /\ j.team \in Seq(Members(Names)) /\ j.resolved \in Seq(SUBSET Nat)
      /\ j.staff \in Seq(Nat) /\ Len(j.staff) \in Nat
      /\ Seat(t) \in 1..Len(j.team) /\ Seat(t) = SeatOf(j) /\ Seat(t) = Len(j.staff) + 1
      /\ Name(t) \in Names /\ Gets(t) \in SUBSET Nat /\ Few(Gets(t), MaxSkills)
      /\ Name(t) = j.team[SeatOf(j)].name /\ Gets(t) = j.resolved[SeatOf(j)]
  BY <1>1, AtASeat
<1>3. AddAgent(Name(t), Gets(t)) /\ Step(t, [Seated(t, lastId + 1) EXCEPT !.hired = @ \cup {lastId + 1}])
  BY DEF Hire
<1>4. /\ Catalogue' /\ Roster' /\ skills' = skills /\ agents' = agents \cup {new}
      /\ id \in Nat /\ \A a \in agents : a.id # id
  <2>1. Catalogue' /\ Roster'
    BY <1>2, <1>3, AddAgentKeeps DEF DesignInv
  <2>2. \A a \in agents : a.id # lastId + 1
    BY DEF DesignInv, Roster, Catalogue, AgentRows
  <2> QED
    BY <1>3, <2>1, <2>2 DEF AddAgent, DesignInv, Catalogue
<1>5. Step(t, next)
  <2>1. Seated(t, lastId + 1).hired = j.hired
    BY <1>2 DEF Seated, JobState
  <2>2. [Seated(t, lastId + 1) EXCEPT !.hired = Seated(t, lastId + 1).hired \cup {lastId + 1}] = next
    BY <1>2, <2>1 DEF Seated, JobState
  <2> QED
    BY <1>3, <2>2
<1>6. next.staff = Append(j.staff, id) /\ next.team = j.team /\ next.resolved = j.resolved /\ next.hired = j.hired \cup {id}
  BY <1>2 DEF JobState
<1>7. new.id = id /\ new.name = Name(t) /\ new.skills = Gets(t)
  OBVIOUS
<1> HIDE DEF id, new, next
<1>8. ASSUME j.alone PROVE Seats(next, agents') /\ Newcomers(next, agents')
  <2>1. Fits(j, skills, agents)
    BY <1>1, <1>8, JobIsSound
  <2>0. Len(Append(j.staff, id)) = Len(j.staff) + 1
    BY <1>2, <1>4, OneMore
  <2>2. Seats(next, agents')
    <3> SUFFICES ASSUME NEW i \in 1..(Len(j.staff) + 1)
                 PROVE  \E b \in agents' : b.id = Append(j.staff, id)[i] /\ b.name = j.team[i].name
                                           /\ j.resolved[i] \subseteq b.skills
      BY <1>6, <2>0 DEF Seats
    <3>1. CASE i = Len(j.staff) + 1
      <4>1. Append(j.staff, id)[i] = id /\ i = SeatOf(j)
        BY <1>2, <1>4, <3>1, OneMore
      <4> QED
        BY <1>2, <1>4, <1>7, <4>1
    <3>2. CASE i \in 1..Len(j.staff)
      <4>1. Append(j.staff, id)[i] = j.staff[i]
        BY <1>2, <1>4, <3>2, OneMore
      <4>2. PICK b \in agents : b.id = j.staff[i] /\ b.name = j.team[i].name /\ j.resolved[i] \subseteq b.skills
        BY <2>1, <3>2 DEF Fits, Seats
      <4> QED
        BY <1>4, <4>1, <4>2
    <3> QED
      BY <1>2, <3>1, <3>2
  <2>3. Newcomers(next, agents')
    <3> SUFFICES ASSUME NEW a \in agents', a.id \in j.hired \cup {id}, NEW x \in a.skills
                 PROVE  \E i \in 1..Len(j.team) : x \in j.resolved[i]
      BY <1>6 DEF Newcomers
    <3>1. CASE a = new
      BY <1>2, <1>7, <3>1
    <3>2. CASE a \in agents
      BY <1>4, <2>1, <3>2 DEF Fits, Newcomers
    <3> QED
      BY <1>4, <3>1, <3>2
  <2> QED
    BY <2>2, <2>3
<1>9. next = [job[t] EXCEPT !.stage = "seat", !.staff = Append(job[t].staff, id), !.row = NoRow,
                            !.hired = job[t].hired \cup {id}]
  BY DEF next
<1> QED
  BY <1>1, <1>4, <1>5, <1>8, <1>9, SeatedKeeps

\* A request at the agents, and not at a seat, is a design; it has an agent in turn.
LEMMA AtOneAgent ==
  ASSUME DesignInv, NEW t \in Threads, job[t].stage \in {"train", "save"}, job[t].kind # "edit"
  PROVE  job[t].kind = "design" /\ job[t].stage \in Building /\ Open(t) /\ Busy(t)
<1> DEFINE j == job[t]
<1>1. j.stage \in Building /\ Busy(t)
  BY DEF Building, Busy, At
<1>2. AtAgents(j)
  BY <1>1, JobIsSound, AtAgentsIsSound
<1>3. j.kind = "design" /\ Len(j.staff) < Len(j.team) /\ j.staff \in Seq(Nat) /\ j.team \in Seq(Members(Names))
  BY <1>2 DEF AtAgents, JobState
<1>4. Len(j.staff) \in Nat /\ Len(j.team) \in Nat /\ DOMAIN j.team = 1..Len(j.team)
  BY <1>3, SeqIsAFunction
<1> QED
  BY <1>1, <1>3, <1>4 DEF Open, Seat

LEMMA TrainKeeps ==
  ASSUME DesignInv, NEW t \in Threads, Train(t)
  PROVE  DesignInv'
<1> DEFINE j == job[t]
           rows == {a \in agents : a.id = j.row.id}
<1>1. j.stage = "train" /\ j.kind # "edit"
  <2>1. j.stage = "train"
    BY DEF Train, At
  <2> QED
    BY <2>1, JobIsSound DEF Sound, Shape, Suits, Seeding, Finding, Edits, Builds
<1>2. j.kind = "design" /\ j.stage \in Building /\ Open(t) /\ Busy(t)
  BY <1>1, AtOneAgent
<1>3. /\ AtAgents(j) /\ j \in JobState /\ Seat(t) \in 1..Len(j.team) /\ Seat(t) = SeatOf(j)
      /\ Gets(t) \in SUBSET Nat /\ Few(Gets(t), MaxSkills) /\ Gets(t) = j.resolved[SeatOf(j)]
      /\ Len(j.staff) \in Nat /\ Seat(t) = Len(j.staff) + 1
  BY <1>1, <1>2, AtASeat
<1>4. j.alone => Fits(j, skills, agents)
  BY <1>2, JobIsSound
<1>5. CASE rows = {} /\ Raises(t)
  <2>1. ~ j.alone
    BY <1>1, <1>2, <1>4, <1>5 DEF Fits, RowKnown
  <2>2. Ends(t, FALSE) /\ Catalogue' /\ Roster'
    BY <1>5, SameTables DEF Raises
  <2> QED
    BY <1>2, <2>1, <2>2, EndKeeps
<1>6. ASSUME NEW a \in rows, UNCHANGED tables,
             Step(t, [j EXCEPT !.stage = "save", !.row =
                        [NoRow EXCEPT !.id = a.id, !.skills = Gained(t), !.version = a.version]])
      PROVE  DesignInv'
  <2> DEFINE row == [NoRow EXCEPT !.id = a.id, !.skills = Gained(t), !.version = a.version]
             next == [j EXCEPT !.stage = "save", !.row = row]
  <2>1. a \in agents /\ a \in AgentRows /\ a.id = j.row.id
    BY DEF DesignInv, Roster
  <2>2. Gained(t) \in SUBSET Nat /\ IsFiniteSet(Gained(t)) /\ Gained(t) = j.row.skills \cup Gets(t)
    <3>1. IsFiniteSet(j.row.skills) /\ j.row.skills \in SUBSET Nat
      BY <1>3 DEF AtAgents, JobState, RowOf
    <3> QED
      BY <1>3, <3>1, FS_Union DEF Gained, Few
  <2>3. row \in RowOf /\ row.id = a.id /\ row.skills = Gained(t) /\ row.name = NoName
    BY <2>1, <2>2 DEF NoRow, RowOf, AgentRows
  <2>4. Step(t, next)
    BY <1>6
  <2> HIDE DEF row
  <2>5. /\ next \in JobState /\ next.stage = "save" /\ next.resolved = j.resolved /\ next.announced = j.announced
        /\ next.kind = j.kind /\ next.alone = j.alone /\ next.todo = j.todo /\ next.turn = j.turn /\ next.team = j.team
        /\ next.staff = j.staff /\ next.hired = j.hired /\ next.tools = j.tools /\ next.row = row
    BY <1>3, <2>3 DEF JobState, Stages, Building
  <2> HIDE DEF next
  <2>6. next.stage \in Building /\ next.kind # "edit"
    BY <1>1, <2>5 DEF Building
  <2>7. Sound(next)
    <3>1. Len(next.staff) < Len(next.team)
      BY <1>1, <1>3, <2>5 DEF AtAgents
    <3>2. AtAgents(next)
      BY <1>2, <1>3, <2>2, <2>3, <2>5, <3>1 DEF AtAgents
    <3> QED
      BY <2>6, <3>2, AtAgentsIsSound
  <2>8. Catalogue' /\ Roster' /\ skills' = skills /\ agents' = agents
    BY <1>6, SameTables
  <2>9. ASSUME j.alone PROVE Fits(next, skills', agents')
    <3>1. Served(next, skills) /\ Noted(next, skills)
      BY <1>2, <1>4, <2>5, <2>6, <2>9, StillServed DEF Fits
    <3>2. RowKnown(next, agents)
      <4>1. PICK b \in agents : b.id = j.row.id /\ b.name = j.team[SeatOf(j)].name /\ j.row.skills = b.skills
        BY <1>1, <1>2, <1>4, <2>9 DEF Fits, RowKnown
      <4>2. b = a
        BY <2>1, <4>1 DEF DesignInv, Roster
      <4>3. SeatOf(next) = SeatOf(j)
        BY <2>5 DEF SeatOf
      <4> QED
        BY <1>3, <2>1, <2>2, <2>3, <2>5, <2>6, <4>1, <4>2, <4>3 DEF RowKnown, Edits
    <3>3. Vacant(next, skills, agents) /\ Seats(next, agents) /\ Newcomers(next, agents)
      BY <1>4, <2>5, <2>9 DEF Fits, Vacant, Seats, Newcomers
    <3> QED
      BY <2>8, <3>1, <3>2, <3>3 DEF Fits
  <2> QED
    BY <1>2, <2>4, <2>5, <2>7, <2>8, <2>9, StepKeeps
<1>7. CASE rows # {}
  <2>1. PICK a \in rows : TRUE
    BY <1>7
  <2> QED
    BY <1>6, <1>7, <2>1 DEF Train
<1> QED
  BY <1>5, <1>7 DEF Train

LEMMA SaveKeeps ==
  ASSUME DesignInv, NEW t \in Threads, Save(t)
  PROVE  DesignInv'
<1> DEFINE j == job[t]
           row == j.row
           f == [a \in agents |->
                  IF a.id # row.id THEN a
                  ELSE [a EXCEPT !.name = IF row.name = NoName THEN a.name ELSE row.name,
                                 !.skills = row.skills, !.version = row.version + 1]]
<1>1. j.stage = "save" /\ j.stage \in Building /\ Busy(t) /\ Sound(j) /\ (j.alone => Fits(j, skills, agents))
  <2>1. j.stage = "save" /\ j.stage \in Building /\ Busy(t)
    BY DEF Save, At, Busy, Building
  <2> QED
    BY <2>1, JobIsSound
<1>2. row \in RowOf /\ IsFiniteSet(row.skills) /\ (Edits(j) => Few(row.skills, MaxSkills)) /\ j \in JobState
  BY <1>1 DEF Sound, Shape, Staffed, JobState
<1>3. Cardinality(row.skills) \in Nat /\ MaxSkills \in Nat
  BY <1>2, FS_CardinalityType, RegistriesAssumption
<1>4. ASSUME j.kind # "edit"
      PROVE  /\ j.kind = "design" /\ Open(t) /\ AtAgents(j) /\ row.name = NoName
             /\ j.team \in Seq(Members(Names)) /\ j.staff \in Seq(Nat) /\ Len(j.staff) \in Nat
             /\ Seat(t) \in 1..Len(j.team) /\ Seat(t) = SeatOf(j) /\ SeatOf(j) = Len(j.staff) + 1
  <2>1. j.kind = "design" /\ j.stage \in Building /\ Open(t)
    BY <1>1, <1>4, AtOneAgent
  <2>2. AtAgents(j) /\ j.team \in Seq(Members(Names)) /\ j.staff \in Seq(Nat) /\ Len(j.staff) \in Nat
        /\ Seat(t) \in 1..Len(j.team) /\ Seat(t) = SeatOf(j) /\ Seat(t) = Len(j.staff) + 1
    BY <1>1, <1>4, <2>1, AtASeat
  <2> QED
    BY <2>1, <2>2 DEF AtAgents
<1>5. ASSUME (\A a \in agents : a.id # row.id) \/ Cardinality(row.skills) > MaxSkills, Raises(t)
      PROVE  DesignInv'
  <2>1. Ends(t, FALSE) /\ Catalogue' /\ Roster' /\ agents' = agents
    BY <1>5, SameTables DEF Raises
  <2>2. ASSUME j.alone PROVE (LoneDesignDelivers /\ LoneFailureIsExplained /\ WritesAreAnnounced)'
    <3>1. j.kind # "edit"
      <4> SUFFICES ASSUME j.kind = "edit" PROVE FALSE
        OBVIOUS
      <4>1. Edits(j)
        BY <1>1 DEF Edits
      <4>2. \E a \in agents : a.id = row.id
        BY <1>1, <2>2, <4>1 DEF Fits, RowKnown
      <4>3. Cardinality(row.skills) <= MaxSkills
        BY <1>2, <4>1 DEF Few
      <4> QED
        BY <1>3, <1>5, <4>2, <4>3
    <3>2. PICK a \in agents : a.id = row.id /\ a.name = j.team[SeatOf(j)].name
                              /\ row.skills = a.skills \cup j.resolved[SeatOf(j)]
      BY <1>1, <1>4, <2>2, <3>1 DEF Fits, RowKnown
    <3>3. Cardinality(a.skills \cup j.resolved[SeatOf(j)]) > MaxSkills
      BY <1>5, <3>2
    <3>4. last'.kind = "design" /\ ~ last'.ok /\ last'.team = j.team /\ last'.resolved = j.resolved
      BY <1>4, <2>1, <3>1 DEF Ends
    <3>5. SeatOf(j) \in 1..Len(j.team) /\ DOMAIN j.team = 1..Len(j.team)
      BY <1>4, <3>1, SeqIsAFunction
    <3>6. LoneFailureIsExplained'
      <4>1. PICK i \in DOMAIN j.team : i = SeatOf(j)
        BY <3>5
      <4>2. AgentsNamed(last.team[i].name)' = AgentsNamed(j.team[i].name)
        BY <2>1, <3>4 DEF AgentsNamed
      <4>3. a \in AgentsNamed(j.team[i].name) /\ Cardinality(a.skills \cup j.resolved[i]) > MaxSkills
        BY <3>2, <3>3, <4>1 DEF AgentsNamed
      <4>4. i \in DOMAIN last'.team
            /\ \E b \in AgentsNamed(last.team[i].name)' : Cardinality(b.skills \cup last'.resolved[i]) > MaxSkills
        BY <3>4, <4>1, <4>2, <4>3
      <4> QED
        BY <3>4, <4>4 DEF LoneFailureIsExplained
    <3> QED
      BY <3>4, <3>6 DEF LoneDesignDelivers, WritesAreAnnounced, Lone
  <2> QED
    BY <1>1, <2>1, <2>2, EndKeeps
<1>6. ASSUME Cardinality(row.skills) <= MaxSkills,
             agents' = {f[a] : a \in agents}, UNCHANGED <<skills, lastId>>,
             IF j.kind = "edit" THEN Ends(t, TRUE) ELSE Step(t, Seated(t, row.id))
      PROVE  DesignInv'
  <2>1. /\ agents \subseteq AgentRows /\ IsFiniteSet(agents) /\ Catalogue
        /\ \A a \in agents : a.id <= lastId /\ Few(a.skills, MaxSkills)
        /\ \A a, b \in agents : a.id = b.id => a = b
    BY DEF DesignInv, Roster
  <2>2. \A a \in agents :
          /\ f[a] \in AgentRows /\ f[a].id = a.id
          /\ a.id # row.id => f[a] = a
          /\ a.id = row.id => f[a].skills = row.skills
          /\ row.name = NoName => f[a].name = a.name
    <3> SUFFICES ASSUME NEW a \in agents
                 PROVE  /\ f[a] \in AgentRows /\ f[a].id = a.id
                        /\ a.id # row.id => f[a] = a
                        /\ a.id = row.id => f[a].skills = row.skills
                        /\ row.name = NoName => f[a].name = a.name
      OBVIOUS
    <3>1. a \in AgentRows /\ row.skills \in SUBSET Nat /\ row.version + 1 \in Nat
          /\ (row.name # NoName => row.name \in Names)
      BY <1>2, <2>1 DEF RowOf
    <3>2. CASE a.id # row.id
      BY <3>1, <3>2
    <3>3. CASE a.id = row.id
      BY <3>1, <3>3 DEF AgentRows
    <3> QED
      BY <3>2, <3>3
  <2>3. f = [a \in agents |-> f[a]]
    OBVIOUS
  <2> HIDE DEF f
  <2>4. Catalogue' /\ Roster'
    <3>1. IsFiniteSet(agents')
      BY <1>6, <2>1, <2>3, FewValues
    <3>2. agents' \subseteq AgentRows
      BY <1>6, <2>2
    <3>3. \A b \in agents' : b.id <= lastId' /\ Few(b.skills, MaxSkills)
      <4>1. Few(row.skills, MaxSkills)
        BY <1>2, <1>6 DEF Few
      <4> SUFFICES ASSUME NEW a \in agents PROVE f[a].id <= lastId' /\ Few(f[a].skills, MaxSkills)
        BY <1>6
      <4> QED
        BY <1>6, <2>1, <2>2, <4>1
    <3>4. \A b, c \in agents' : b.id = c.id => b = c
      BY <1>6, <2>1, <2>2
    <3>5. Catalogue'
      BY <1>6, <2>1 DEF Catalogue
    <3> QED
      BY <3>1, <3>2, <3>3, <3>4, <3>5 DEF Roster
  <2>5. CASE j.kind = "edit"
    BY <1>1, <1>6, <2>4, <2>5, EndKeeps, OthersEnd
  <2>6. CASE j.kind # "edit"
    <3> DEFINE next == [j EXCEPT !.stage = "seat", !.staff = Append(j.staff, row.id), !.row = NoRow,
                                 !.hired = j.hired \cup {}]
    <3>1. row.id \in Nat
      BY <1>2 DEF RowOf
    <3>2. Seated(t, row.id) = next
      BY <1>2 DEF Seated, JobState
    <3>3. next.staff = Append(j.staff, row.id) /\ next.team = j.team /\ next.resolved = j.resolved /\ next.hired = j.hired
      BY <1>2 DEF JobState
    <3>4. Step(t, next)
      BY <1>6, <2>6, <3>2
    <3>5. next = [job[t] EXCEPT !.stage = "seat", !.staff = Append(job[t].staff, row.id), !.row = NoRow,
                                !.hired = job[t].hired \cup {}]
      OBVIOUS
    <3> HIDE DEF next
    <3>6. ASSUME j.alone PROVE Seats(next, agents') /\ Newcomers(next, agents')
      <4>1. Fits(j, skills, agents) /\ row.name = NoName
        BY <1>1, <1>4, <2>6, <3>6
      <4>2. PICK c \in agents : c.id = row.id /\ c.name = j.team[SeatOf(j)].name
                                /\ row.skills = c.skills \cup j.resolved[SeatOf(j)]
        BY <1>1, <1>4, <2>6, <4>1 DEF Fits, RowKnown
      <4>3. \A a \in agents : f[a] \in agents' /\ f[a].id = a.id /\ f[a].name = a.name /\ a.skills \subseteq f[a].skills
        <5> SUFFICES ASSUME NEW a \in agents
                     PROVE  f[a] \in agents' /\ f[a].id = a.id /\ f[a].name = a.name /\ a.skills \subseteq f[a].skills
          OBVIOUS
        <5>1. f[a] \in agents' /\ f[a].id = a.id /\ f[a].name = a.name
          BY <1>6, <2>2, <4>1
        <5>2. CASE a.id # row.id
          BY <2>2, <5>1, <5>2
        <5>3. CASE a.id = row.id
          BY <2>1, <2>2, <4>2, <5>1, <5>3
        <5> QED
          BY <5>2, <5>3
      <4>4. Seats(next, agents')
        <5>1. /\ Len(Append(j.staff, row.id)) = Len(j.staff) + 1 /\ Append(j.staff, row.id)[Len(j.staff) + 1] = row.id
              /\ \A i \in 1..Len(j.staff) : Append(j.staff, row.id)[i] = j.staff[i]
              /\ \A i \in 1..(Len(j.staff) + 1) : i = Len(j.staff) + 1 \/ i \in 1..Len(j.staff)
          BY <1>4, <2>6, <3>1, OneMore
        <5> SUFFICES ASSUME NEW i \in 1..(Len(j.staff) + 1)
                     PROVE  \E b \in agents' : b.id = Append(j.staff, row.id)[i] /\ b.name = j.team[i].name
                                               /\ j.resolved[i] \subseteq b.skills
          BY <3>3, <5>1 DEF Seats
        <5>2. CASE i = Len(j.staff) + 1
          <6>1. i = SeatOf(j)
            BY <5>2 DEF SeatOf
          <6>2. f[c].skills = row.skills
            BY <2>2, <4>2
          <6> QED
            BY <4>2, <4>3, <5>1, <5>2, <6>1, <6>2
        <5>3. CASE i \in 1..Len(j.staff)
          <6>1. PICK b \in agents : b.id = j.staff[i] /\ b.name = j.team[i].name /\ j.resolved[i] \subseteq b.skills
            BY <4>1, <5>3 DEF Fits, Seats
          <6> QED
            BY <4>3, <5>1, <5>3, <6>1
        <5> QED
          BY <5>1, <5>2, <5>3
      <4>5. Newcomers(next, agents')
        <5> SUFFICES ASSUME NEW a \in agents, a.id \in j.hired, NEW x \in f[a].skills
                     PROVE  \E i \in 1..Len(j.team) : x \in j.resolved[i]
          BY <1>6, <2>2, <3>3 DEF Newcomers
        <5>1. CASE x \in a.skills
          BY <4>1, <5>1 DEF Fits, Newcomers
        <5>2. CASE x \notin a.skills
          <6>1. a.id = row.id /\ x \in row.skills
            BY <2>2, <5>2
          <6>2. a = c
            BY <2>1, <4>2, <6>1
          <6>3. x \in j.resolved[SeatOf(j)] /\ SeatOf(j) \in 1..Len(j.team)
            BY <1>4, <2>6, <4>2, <5>2, <6>1, <6>2
          <6> QED
            BY <6>3
        <5> QED
          BY <5>1, <5>2
      <4> QED
        BY <4>4, <4>5
    <3>7. skills' = skills /\ Open(t) /\ {} \in SUBSET Nat
      BY <1>4, <1>6, <2>6
    <3> QED
      BY <1>1, <2>4, <2>6, <3>1, <3>4, <3>5, <3>6, <3>7, SeatedKeeps
  <2> QED
    BY <2>5, <2>6
<1> QED
  <2>1. CASE (\A a \in agents : a.id # row.id) \/ Cardinality(row.skills) > MaxSkills
    BY <1>5, <2>1 DEF Save
  <2>2. CASE ~ ((\A a \in agents : a.id # row.id) \/ Cardinality(row.skills) > MaxSkills)
    <3>1. Cardinality(row.skills) <= MaxSkills
      BY <1>3, <2>2
    <3>2. /\ agents' = {f[a] : a \in agents} /\ UNCHANGED <<skills, lastId>>
          /\ IF j.kind = "edit" THEN Ends(t, TRUE) ELSE Step(t, Seated(t, row.id))
      BY <2>2 DEF Save
    <3> HIDE DEF f
    <3> QED
      BY <1>6, <3>1, <3>2
  <2> QED
    BY <2>1, <2>2

LEMMA RespondKeeps ==
  ASSUME DesignInv, NEW t \in Threads, Respond(t)
  PROVE  DesignInv'
<1> DEFINE j == job[t]
<1>1. /\ j.stage = "seat" /\ j.stage \in Building /\ Busy(t) /\ Sound(j) /\ (j.alone => Fits(j, skills, agents))
      /\ Ends(t, TRUE) /\ UNCHANGED tables /\ Catalogue' /\ Roster' /\ skills' = skills /\ agents' = agents
  <2>1. j.stage = "seat" /\ j.stage \in Building /\ Busy(t) /\ Ends(t, TRUE) /\ UNCHANGED tables
    BY DEF Respond, At, Busy, Building
  <2> QED
    BY <2>1, JobIsSound, SameTables
<1>2. CASE j.kind # "design"
  BY <1>1, <1>2, EndKeeps, OthersEnd
<1>3. CASE j.kind = "design"
  <2>1. AtAgents(j)
    BY <1>1, <1>3, AtAgentsIsSound
  <2>2. /\ j.team \in Seq(Members(Names)) /\ j.staff \in Seq(Nat) /\ DOMAIN j.team = 1..Len(j.team)
        /\ Len(j.team) \in Nat /\ Len(j.staff) \in Nat /\ Len(j.staff) <= Len(j.team)
        /\ \A i \in 1..Len(j.team) : DOMAIN j.team[i].skills = 1..Len(j.team[i].skills)
    <3>1. j.team \in Seq(Members(Names)) /\ j.staff \in Seq(Nat) /\ Len(j.staff) <= Len(j.team)
      BY <2>1 DEF AtAgents, JobState
    <3>2. \A i \in 1..Len(j.team) : j.team[i] \in Members(Names)
      BY <3>1, SeqIsAFunction
    <3>3. \A i \in 1..Len(j.team) : j.team[i].skills \in Seq(Wishes)
      BY <3>2 DEF Members
    <3> QED
      BY <3>1, <3>3, SeqIsAFunction
  <2>3. Len(j.staff) = Len(j.team)
    BY <2>2 DEF Respond, Open, Seat
  <2>4. ASSUME j.alone PROVE (LoneDesignDelivers /\ LoneFailureIsExplained /\ WritesAreAnnounced)'
    <3>1. /\ last'.kind = "design" /\ last'.ok /\ last'.team = j.team /\ last'.resolved = j.resolved
          /\ last'.staff = j.staff /\ last'.hired = j.hired /\ last'.announced = j.announced
      BY <1>1, <1>3 DEF Ends
    <3>2. Fits(j, skills, agents)
      BY <1>1, <2>4
    <3>3. LoneDesignDelivers'
      <4> SUFFICES ASSUME NEW i \in 1..Len(j.team)
                   PROVE  \E a \in agents :
                            /\ a.id = j.staff[i] /\ a.name = j.team[i].name /\ j.resolved[i] \subseteq a.skills
                            /\ \A k \in DOMAIN j.team[i].skills : j.team[i].skills[k] # Search =>
                                 \E s \in Answering(j.team[i].skills[k]) : s.id \in a.skills
        <5>2. DOMAIN last'.team = 1..Len(j.team) /\ agents' = agents
          BY <1>1, <2>2, <3>1
        <5>3. \A i \in DOMAIN last'.team : \E a \in agents' :
                 /\ a.id = last'.staff[i] /\ a.name = last'.team[i].name /\ last'.resolved[i] \subseteq a.skills
                 /\ \A k \in DOMAIN last'.team[i].skills : last'.team[i].skills[k] # Search =>
                      \E s \in Answering(j.team[i].skills[k]) : s.id \in a.skills
          BY <3>1, <5>2
        <5>4. \A i, k : Answering(last.team[i].skills[k])' = Answering(j.team[i].skills[k])
          BY <1>1, <3>1 DEF Answering
        <5> QED
          BY <5>3, <5>4 DEF LoneDesignDelivers
      <4>1. PICK a \in agents : a.id = j.staff[i] /\ a.name = j.team[i].name /\ j.resolved[i] \subseteq a.skills
        BY <2>3, <3>2 DEF Fits, Seats
      <4>2. ASSUME NEW k \in DOMAIN j.team[i].skills, j.team[i].skills[k] # Search
            PROVE  \E s \in Answering(j.team[i].skills[k]) : s.id \in a.skills
        <5>1. PICK s \in skills : s.id \in j.resolved[i] /\ Serves(s, j.team[i].skills[k])
          BY <1>1, <2>2, <3>2, <4>2 DEF Fits, Served, Gone
        <5> QED
          BY <4>1, <4>2, <5>1 DEF Answering, Serves
      <4> QED
        BY <4>1, <4>2
    <3>4. WritesAreAnnounced'
      <4> SUFFICES ASSUME ~ j.announced, NEW a \in agents, a.id \in j.hired, NEW s \in skills, s.id \in a.skills, Outward(s)
                   PROVE  FALSE
        BY <1>1, <3>1 DEF WritesAreAnnounced, NeedsWrite, Held, Outward
      <4>1. PICK i \in 1..Len(j.team) : s.id \in j.resolved[i]
        BY <3>2 DEF Fits, Newcomers
      <4> QED
        BY <1>1, <1>3, <3>2, <4>1 DEF Fits, Noted
    <3> QED
      BY <3>1, <3>3, <3>4 DEF LoneFailureIsExplained
  <2> QED
    BY <1>1, <2>4, EndKeeps
<1> QED
  BY <1>2, <1>3

LEMMA WorkKeeps ==
  ASSUME DesignInv, NEW t \in Threads, Work(t)
  PROVE  DesignInv'
<1>1. CASE \E answer \in Answers \cup {NoTeam} : Plan(t, answer)
  BY <1>1, PlanKeeps
<1>2. CASE \E sketch \in Sketches \cup {NoSketch} : Synthesize(t, sketch)
  BY <1>2, SynthesizeKeeps
<1>3. CASE \E chosen \in Choices(t) : Attach(t, chosen)
  BY <1>3, AttachKeeps
<1>4. CASE Seed(t) \/ Seeded(t) \/ Find(t) \/ NextAgent(t) \/ Make(t) \/ Ensured(t)
  BY <1>4, SeedKeeps, SeededKeeps, FindKeeps, NextAgentKeeps, MakeKeeps, EnsuredKeeps
<1>5. CASE Mark(t) \/ Copied(t) \/ Reuse(t) \/ Hire(t) \/ Train(t) \/ Save(t) \/ Respond(t)
  BY <1>5, MarkKeeps, CopiedKeeps, ReuseKeeps, HireKeeps, TrainKeeps, SaveKeeps, RespondKeeps
<1> QED
  BY <1>1, <1>2, <1>3, <1>4, <1>5 DEF Work

LEMMA NextKeeps == DesignInv /\ [Next]_vars => DesignInv'
<1> SUFFICES ASSUME DesignInv, [Next]_vars PROVE DesignInv'
  OBVIOUS
<1>1. CASE Next
  BY <1>1, ArriveKeeps, WorkKeeps DEF Next
<1>2. CASE UNCHANGED vars
  <2>1. Catalogue' /\ Roster'
    BY <1>2, SameTables DEF vars
  <2>2. Jobs' /\ LoneInv'
    <3>1. job' = job /\ skills' = skills /\ agents' = agents
      BY <1>2 DEF vars, tables
    <3>2. Jobs'
      BY <3>1 DEF DesignInv, Jobs
    <3>3. LoneInv'
      <4> SUFFICES ASSUME NEW t \in Threads, Busy(t)', job'[t].alone
                   PROVE  (\A u \in Threads : u # t => ~ Busy(u)') /\ Fits(job'[t], skills', agents')
        BY DEF LoneInv
      <4>1. Busy(t) /\ job[t].alone
        BY <3>1 DEF Busy, At
      <4>2. (\A u \in Threads : u # t => ~ Busy(u)) /\ Fits(job[t], skills, agents)
        BY <4>1 DEF DesignInv, LoneInv
      <4> QED
        BY <3>1, <4>2 DEF Busy, At
    <3> QED
      BY <3>2, <3>3
  <2>3. LastInv'
    <3>1. job' = job /\ last' = last /\ skills' = skills /\ agents' = agents
      BY <1>2 DEF vars, tables
    <3>2. LoneDesignDelivers' <=> LoneDesignDelivers
      BY <3>1 DEF LoneDesignDelivers, Lone, Answering
    <3>3. LoneFailureIsExplained' <=> LoneFailureIsExplained
      BY <3>1 DEF LoneFailureIsExplained, AgentsNamed
    <3>4. WritesAreAnnounced' <=> WritesAreAnnounced
      BY <3>1 DEF WritesAreAnnounced, Lone, NeedsWrite, Held
    <3> QED
      BY <3>1, <3>2, <3>3, <3>4 DEF DesignInv, LastInv, Busy, At
  <2> QED
    BY <2>1, <2>2, <2>3 DEF DesignInv
<1> QED
  BY <1>1, <1>2

\* Every step of every request keeps what the theorems below rest on: the rows, where
\* each request is and with what, and, of one that nothing has overlapped, that the
\* tables still are as it last read or left them.
THEOREM DesignInductive == Spec => []DesignInv
BY DesignStarts, NextKeeps, PTL DEF Spec

-----------------------------------------------------------------------------
(* What a design does to the agents. *)

\* Of all the steps of a request two write agents.
LEMMA TwoStepsWriteAgents ==
  ASSUME NEW t \in Threads, Work(t)
  PROVE  agents' = agents \/ Hire(t) \/ Save(t)
<1>1. CASE \E answer \in Answers \cup {NoTeam} : Plan(t, answer)
  BY <1>1 DEF Plan, tables
<1>2. CASE \E sketch \in Sketches \cup {NoSketch} : Synthesize(t, sketch)
  BY <1>2 DEF Synthesize, tables
<1>3. CASE \E chosen \in Choices(t) : Attach(t, chosen)
  BY <1>3 DEF Attach, tables
<1>4. CASE Seed(t) \/ Seeded(t) \/ Find(t) \/ NextAgent(t) \/ Ensured(t)
  BY <1>4 DEF Seed, Seeded, Find, NextAgent, Ensured, tables
<1>5. CASE Make(t)
  BY <1>5 DEF Make, AddSkill, Raises, tables
<1>6. CASE Mark(t) \/ Copied(t) \/ Respond(t)
  BY <1>6 DEF Mark, Copied, Respond, Raises, tables
<1>7. CASE Reuse(t)
  BY <1>7 DEF Reuse, Raises, tables
<1>8. CASE Train(t)
  BY <1>8 DEF Train, Raises, tables
<1> QED
  BY <1>1, <1>2, <1>3, <1>4, <1>5, <1>6, <1>7, <1>8 DEF Work

\* The step of a request leaves those of all others where they are.
LEMMA OthersStay ==
  ASSUME DesignInv, NEW t \in Threads, NEW u \in Threads, u # t, Arrive(u) \/ Work(u)
  PROVE  job'[t].stage = job[t].stage
<1>1. job \in [Threads -> JobState]
  BY DEF DesignInv, Jobs
<1>2. CASE Arrive(u)
  <2>1. ASSUME NEW kind, NEW first, Begin(u, kind, first) PROVE job'[t].stage = job[t].stage
    BY <1>1, <2>1 DEF Begin, JobState
  <2>2. ASSUME NEW kind, Once(u, kind) PROVE job'[t].stage = job[t].stage
    BY <1>1, <2>2 DEF Once, JobState
  <2>3. CASE Small(u)
    BY <2>2, <2>3 DEF Small
  <2>4. CASE BeginList(u)
    BY <2>1, <2>4 DEF BeginList
  <2>5. CASE \E documents \in BOOLEAN : BeginDesign(u, documents) \/ BeginTemplate(u, documents)
                                        \/ \E name \in Capabilities : BeginEnsure(u, name, documents)
    BY <2>1, <2>5 DEF BeginDesign, BeginTemplate, BeginEnsure
  <2>6. CASE \E a \in agents : \E name \in Names, held \in SUBSET a.skills : BeginEdit(u, a.id, name, held)
    BY <2>1, <2>6 DEF BeginEdit
  <2> QED
    BY <1>2, <2>3, <2>4, <2>5, <2>6 DEF Arrive
<1>3. CASE Work(u)
  <2>1. ASSUME NEW next, Step(u, next) PROVE job'[t] = job[t]
    BY <1>1, <2>1 DEF Step
  <2>2. ASSUME NEW ok, Ends(u, ok) PROVE job'[t] = job[t]
    BY <1>1, <2>2 DEF Ends
  <2>3. CASE \E answer \in Answers \cup {NoTeam} : Plan(u, answer)
    BY <2>1, <2>3 DEF Plan
  <2>4. CASE \E sketch \in Sketches \cup {NoSketch} : Synthesize(u, sketch)
    BY <2>1, <2>4 DEF Synthesize
  <2>5. CASE \E chosen \in Choices(u) : Attach(u, chosen)
    BY <2>1, <2>5 DEF Attach
  <2>6. CASE Seed(u) \/ Seeded(u) \/ Find(u) \/ NextAgent(u) \/ Make(u) \/ Ensured(u)
    BY <2>1, <2>2, <2>6 DEF Seed, Seeded, Find, NextAgent, Make, Ensured, Raises
  <2>7. CASE Mark(u) \/ Copied(u) \/ Hire(u) \/ Save(u) \/ Respond(u)
    BY <2>1, <2>2, <2>7 DEF Mark, Copied, Hire, Save, Respond, Raises
  <2>8. CASE Reuse(u)
    BY <2>1, <2>2, <2>8 DEF Reuse, Raises
  <2>9. CASE Train(u)
    BY <2>1, <2>2, <2>9 DEF Train, Raises
  <2> QED
    BY <1>3, <2>3, <2>4, <2>5, <2>6, <2>7, <2>8, <2>9 DEF Work
<1> QED
  BY <1>2, <1>3

\* Agents keep names and skills, and no name gets a second agent.
OnlyAdds ==
  /\ \A a \in agents : \E b \in agents' : a.id = b.id /\ a.name = b.name /\ a.skills \subseteq b.skills
  /\ \A name \in Names : Cardinality(AgentsNamed(name)') <=
       IF AgentsNamed(name) = {} THEN 1 ELSE Cardinality(AgentsNamed(name))

LEMMA FiniteNames ==
  ASSUME DesignInv, NEW name
  PROVE  IsFiniteSet(AgentsNamed(name)) /\ Cardinality(AgentsNamed(name)) \in Nat
<1>1. AgentsNamed(name) \subseteq agents /\ IsFiniteSet(agents)
  BY DEF DesignInv, Roster, AgentsNamed
<1> QED
  BY <1>1, FS_Subset, FS_CardinalityType

LEMMA NothingOnlyAdds ==
  ASSUME DesignInv, agents' = agents
  PROVE  OnlyAdds
<1>1. \A name \in Names : AgentsNamed(name)' = AgentsNamed(name)
  BY DEF AgentsNamed
<1>2. Cardinality({}) = 0
  BY FS_EmptySet
<1> QED
  BY <1>1, <1>2, FiniteNames DEF OnlyAdds

LEMMA HireOnlyAdds ==
  ASSUME DesignInv, NEW t \in Threads, job[t].kind = "design", job[t].alone, Hire(t)
  PROVE  OnlyAdds
<1> DEFINE j == job[t]
           new == [id |-> lastId + 1, name |-> Name(t), skills |-> Gets(t), version |-> 1]
<1>1. j.stage = "hire" /\ Busy(t)
  BY DEF Hire, At, Busy
<1>2. Fits(j, skills, agents)
  BY <1>1, JobIsSound
<1>3. \A a \in agents : a.name # Name(t)
  BY <1>1, <1>2 DEF Fits, Vacant, SeatOf, Name, Seat
<1>4. agents' = agents \cup {new} /\ new.name = Name(t)
  BY DEF Hire, AddAgent
<1> HIDE DEF new
<1>5. ASSUME NEW name \in Names
      PROVE  Cardinality(AgentsNamed(name)') <=
               IF AgentsNamed(name) = {} THEN 1 ELSE Cardinality(AgentsNamed(name))
  <2>1. CASE name = Name(t)
    <3>1. AgentsNamed(name) = {} /\ AgentsNamed(name)' = {new}
      BY <1>3, <1>4, <2>1 DEF AgentsNamed
    <3>2. Cardinality({new}) = 1
      BY FS_Singleton
    <3> QED
      BY <3>1, <3>2
  <2>2. CASE name # Name(t)
    <3>1. AgentsNamed(name)' = AgentsNamed(name)
      BY <1>4, <2>2 DEF AgentsNamed
    <3> QED
      BY <3>1, FiniteNames, FS_EmptySet
  <2> QED
    BY <2>1, <2>2
<1> QED
  BY <1>4, <1>5 DEF OnlyAdds

LEMMA SaveOnlyAdds ==
  ASSUME DesignInv, NEW t \in Threads, job[t].kind = "design", job[t].alone, Save(t)
  PROVE  OnlyAdds
<1> DEFINE j == job[t]
           row == j.row
           f == [a \in agents |->
                  IF a.id # row.id THEN a
                  ELSE [a EXCEPT !.name = IF row.name = NoName THEN a.name ELSE row.name,
                                 !.skills = row.skills, !.version = row.version + 1]]
<1>1. j.stage = "save" /\ j.kind = "design" /\ Busy(t) /\ Sound(j) /\ Fits(j, skills, agents)
  <2>1. j.stage = "save" /\ Busy(t)
    BY DEF Save, At, Busy
  <2> QED
    BY <2>1, JobIsSound
<1>2. row.name = NoName
  BY <1>1 DEF Sound, Shape, Staffed
<1>3. PICK c \in agents : c.id = row.id /\ row.skills = c.skills \cup j.resolved[SeatOf(j)]
  BY <1>1 DEF Fits, RowKnown
<1>4. agents' = agents \/ agents' = {f[a] : a \in agents}
  BY DEF Save, Raises, tables
<1>5. \A a \in agents : f[a].id = a.id /\ f[a].name = a.name /\ a.skills \subseteq f[a].skills
  <2> SUFFICES ASSUME NEW a \in agents
               PROVE  f[a].id = a.id /\ f[a].name = a.name /\ a.skills \subseteq f[a].skills
    OBVIOUS
  <2>1. a \in AgentRows /\ (a.id = row.id => a = c)
    BY <1>3 DEF DesignInv, Roster
  <2>2. CASE a.id # row.id
    BY <2>2
  <2>3. CASE a.id = row.id
    BY <1>2, <1>3, <2>1, <2>3 DEF AgentRows
  <2> QED
    BY <2>2, <2>3
<1>6. CASE agents' = {f[a] : a \in agents}
  <2>1. f = [a \in agents |-> f[a]]
    OBVIOUS
  <2> HIDE DEF f
  <2>2. ASSUME NEW name \in Names
        PROVE  Cardinality(AgentsNamed(name)') <=
                 IF AgentsNamed(name) = {} THEN 1 ELSE Cardinality(AgentsNamed(name))
    <3> DEFINE S == AgentsNamed(name)
               g == [a \in S |-> f[a]]
    <3>1. AgentsNamed(name)' = {g[a] : a \in S}
      BY <1>5, <1>6 DEF AgentsNamed
    <3>2. g = [a \in S |-> g[a]] /\ IsFiniteSet(S) /\ Cardinality(S) \in Nat
      BY FiniteNames
    <3> HIDE DEF S, g
    <3>3. IsFiniteSet(AgentsNamed(name)') /\ Cardinality(AgentsNamed(name)') <= Cardinality(S)
      BY <3>1, <3>2, FewValues
    <3>4. S = {} => Cardinality(S) = 0
      BY FS_EmptySet
    <3>5. Cardinality(AgentsNamed(name)') \in Nat
      BY <3>3, FS_CardinalityType
    <3> QED
      BY <3>2, <3>3, <3>4, <3>5 DEF S
  <2> QED
    BY <1>5, <1>6, <2>2 DEF OnlyAdds
<1> QED
  BY <1>4, <1>6, NothingOnlyAdds

LEMMA LoneStepOnlyAdds ==
  ASSUME DesignInv, [Next]_vars, NEW t \in Threads,
         job[t].kind = "design", job[t].alone, job'[t].stage # job[t].stage
  PROVE  OnlyAdds
<1>1. CASE UNCHANGED vars
  BY <1>1 DEF vars
<1>2. CASE Next
  <2>1. PICK u \in Threads : Arrive(u) \/ Work(u)
    BY <1>2 DEF Next
  <2>2. u = t
    BY <2>1, OthersStay
  <2>3. Busy(t)
    BY JobIsSound DEF Sound, Shape, Suits, Seeding, Finding, Builds, Edits, Building, Busy, At
  <2>4. ~ Arrive(t)
    BY <2>3 DEF Arrive, BeginDesign, BeginTemplate, BeginEnsure, BeginList, BeginEdit, Small, Begin, Once
  <2>5. Work(t)
    BY <2>1, <2>2, <2>4
  <2> QED
    BY <2>5, TwoStepsWriteAgents, NothingOnlyAdds, HireOnlyAdds, SaveOnlyAdds
<1> QED
  BY <1>1, <1>2

-----------------------------------------------------------------------------
(* The theorems. *)

\* In whatever order requests take their transactions, no agent comes to hold
\* more skills than its definition may, and no two rows have one number.
THEOREM AgentsKeepToTheirDefinition == Spec => [](Catalogue /\ Roster)
<1>1. DesignInv => Catalogue /\ Roster
  BY DEF DesignInv
<1> QED
  BY <1>1, DesignInductive, PTL

\* A design that no other request overlapped delivers its plan, whatever state
\* requests that did overlap left the workspace in before it (_build).
THEOREM DesignsDeliver == Spec => []LoneDesignDelivers
<1>1. DesignInv => LoneDesignDelivers
  BY DEF DesignInv, LastInv, LoneDesignDelivers, Lone
<1> QED
  BY <1>1, DesignInductive, PTL

\* It fails over nothing but a name two agents have or an agent with too many
\* skills: no other exception reaches the route.
THEOREM FailuresAreExplained == Spec => []LoneFailureIsExplained
<1>1. DesignInv => LoneFailureIsExplained
  BY DEF DesignInv, LastInv, LoneFailureIsExplained
<1> QED
  BY <1>1, DesignInductive, PTL

\* What the run route will ask permission for, the design has announced
\* (_note_write_scope, _needs_write_scope).
THEOREM PermissionsAreAnnounced == Spec => []WritesAreAnnounced
<1>1. DesignInv => WritesAreAnnounced
  BY DEF DesignInv, LastInv, WritesAreAnnounced, Lone
<1> QED
  BY <1>1, DesignInductive, PTL

\* It adds to the workspace's agents and takes nothing from them, at any step.
THEOREM DesignsOnlyAdd == Spec => LoneDesignOnlyAdds
<1>1. DesignInv /\ [Next]_vars =>
        [\A t \in Threads :
           job[t].kind = "design" /\ job[t].alone /\ job'[t].stage # job[t].stage =>
             /\ \A a \in agents : \E b \in agents' :
                  a.id = b.id /\ a.name = b.name /\ a.skills \subseteq b.skills
             /\ \A name \in Names : Cardinality(AgentsNamed(name)') <=
                  IF AgentsNamed(name) = {} THEN 1 ELSE Cardinality(AgentsNamed(name))]_vars
  BY LoneStepOnlyAdds DEF OnlyAdds
<1> QED
  BY <1>1, DesignInductive, PTL DEF Spec, LoneDesignOnlyAdds

=============================================================================
