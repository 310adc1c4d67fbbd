-------------------------------- MODULE Memory --------------------------------
(***************************************************************************)
(* The memories table and the calls of services/memory/service.py on it.   *)
(* A call is several transactions: remember looks for a duplicate in one,  *)
(* strengthens it or adds a row in another, and prunes in a third, while   *)
(* other processes do the same.  Rows are loaded, changed in the process   *)
(* and written back with the value computed from what was loaded, so the   *)
(* two halves of such a change are two actions.                            *)
(*                                                                         *)
(* A text is a model value; an embedder, when it answers, also finds the   *)
(* pairs of texts in Near alike.  Usefulness is counted in tenths.         *)
(***************************************************************************)
EXTENDS Integers, FiniteSets

CONSTANTS
  Clients,   \* the processes that call the memory
  Scopes,    \* whose memory it is: an agent, a skill, a workflow
  Texts,     \* what a memory can say
  Near,      \* pairs of texts that are about the same
  Capacity,  \* DEFAULT_CAPACITY, the rows a scope may keep
  Limit,     \* how many memories a recall hands out
  Best       \* the top of the usefulness scale, 10.0 in the code

Kinds == {"learning", "failure", "fact", "preference"}
Lesson == [scope : Scopes, kind : Kinds, text : Texts]

Fresh  == 10  \* a new memory
Again  == 5   \* ... learned once more
Proved == 2   \* ... recalled by a run that met its objective
Failed == 3   \* ... or by one that did not
Usable(use) == use >= 2  \* MIN_USEFULNESS, 0.15

ASSUME ScopesAssumption == Scopes # {} /\ Texts # {}
ASSUME ClientsAssumption == Clients # {} /\ IsFiniteSet(Clients)
ASSUME NearAssumption == Near \subseteq Texts \X Texts
ASSUME SizesAssumption == Capacity \in Nat \ {0} /\ Limit \in Nat \ {0} /\ Best \in Nat /\ Best >= Fresh

VARIABLES
  memories,  \* the rows, by id: a lesson and its usefulness; who stored it and
             \* the sums of what was added and taken are history
  made,      \* ids given out so far; a later row has a greater id
  memo       \* what each client's call is doing

memoryVars == <<memories, made, memo>>

Ids == Nat \ {0}
Row == [lesson : Lesson, use : 0..Best, by : Clients, up : Nat, down : Nat]
Stages == {"idle", "found", "raising", "new", "stored", "pruning", "adjusting", "broken"}

NoLesson == [scope |-> "none", kind |-> "none", text |-> "none"]
NoCall == [pc |-> "idle", lesson |-> NoLesson, rows |-> {}, values |-> <<>>, delta |-> 0]

atStage(c, s) == memo[c].pc = s
Return(c)  == memo' = [memo EXCEPT ![c] = NoCall]
\* An exception leaves the call: a row that was there is not there any more.
Raises(c)  == memo' = [memo EXCEPT ![c] = [NoCall EXCEPT !.pc = "broken"]]

RowsOf(s) == {i \in DOMAIN memories : memories[i].lesson.scope = s}
Without(rows) == [i \in DOMAIN memories \ rows |-> memories[i]]
Clamp(use) == IF use > Best THEN Best ELSE IF use < 0 THEN 0 ELSE use

\* The new usefulness of the loaded rows that it changes: the others are not written.
Targets(rows, delta) ==
  [i \in {r \in rows : Clamp(memories[r].use + delta) # memories[r].use} |->
     Clamp(memories[i].use + delta)]

\* Mutant: a transaction that is tried again adds what it has added.
WrittenSlip(values, delta) ==
  [i \in DOMAIN memories |->
     IF i \notin DOMAIN values THEN memories[i]
     ELSE IF delta > 0
          THEN [memories[i] EXCEPT !.use = Clamp(values[i] + delta), !.up = @ + delta]
          ELSE [memories[i] EXCEPT !.use = Clamp(values[i] + delta), !.down = @ - delta]]

\* The rows as a call leaves them that writes these values; up and down count
\* what it meant to add or to take.
Written(values, delta) ==
  [i \in DOMAIN memories |->
     IF i \notin DOMAIN values THEN memories[i]
     ELSE IF delta > 0
          THEN [memories[i] EXCEPT !.use = values[i], !.up = @ + delta]
          ELSE [memories[i] EXCEPT !.use = values[i], !.down = @ - delta]]

-----------------------------------------------------------------------------
(* remember *)

\* Mutant: only an embedder can tell that a lesson is known.
SameSlip(l) == {}

Same(l)  == {i \in DOMAIN memories : memories[i].lesson = l}
Alike(l) == {i \in DOMAIN memories :
               /\ memories[i].lesson.scope = l.scope /\ memories[i].lesson.kind = l.kind
               /\ <<l.text, memories[i].lesson.text>> \in Near}

\* The rows of the scope and kind are compared in any order; an embedder that
\* does not answer leaves the comparison of the words.
Look(c, l) ==
  /\ atStage(c, "idle")
  /\ \/ \E i \in Same(l) \cup Alike(l) :
          memo' = [memo EXCEPT ![c] = [NoCall EXCEPT !.pc = "found", !.lesson = l, !.rows = {i}]]
     \/ /\ Same(l) = {}
        /\ memo' = [memo EXCEPT ![c] = [NoCall EXCEPT !.pc = "new", !.lesson = l]]
  /\ UNCHANGED <<memories, made>>

\* Mutant: a duplicate that has gone is waited for.
LoadSlip(c) ==
  /\ atStage(c, "found") /\ memo[c].rows \subseteq DOMAIN memories
  /\ LET values == Targets(memo[c].rows, Again) IN
     IF DOMAIN values = {} THEN Return(c)
     ELSE memo' = [memo EXCEPT ![c].pc = "raising", ![c].values = values]
  /\ UNCHANGED <<memories, made>>

\* Load the duplicate to strengthen it; it may have gone since it was found.
Load(c) ==
  /\ atStage(c, "found")
  /\ IF memo[c].rows \subseteq DOMAIN memories
     THEN LET values == Targets(memo[c].rows, Again) IN
          IF DOMAIN values = {} THEN Return(c)
          ELSE memo' = [memo EXCEPT ![c].pc = "raising", ![c].values = values]
     ELSE Raises(c)
  /\ UNCHANGED <<memories, made>>

Raise(c) ==
  /\ atStage(c, "raising")
  /\ IF DOMAIN memo[c].values \subseteq DOMAIN memories
     THEN memories' = Written(memo[c].values, Again) /\ Return(c)
     ELSE Raises(c) /\ UNCHANGED memories
  /\ UNCHANGED made

Store(c) ==
  /\ atStage(c, "new")
  /\ made' = made + 1
  /\ memories' = [i \in DOMAIN memories \cup {made'} |->
       IF i = made' THEN [lesson |-> memo[c].lesson, use |-> Fresh, by |-> c, up |-> 0, down |-> 0]
       ELSE memories[i]]
  /\ memo' = [memo EXCEPT ![c].pc = "stored"]

\* Mutant: one row goes, however many there are too many.
LeastUsefulSlip(s, n) ==
  CHOOSE D \in SUBSET RowsOf(s) :
    Cardinality(D) = 1 /\ \A i \in D, j \in RowsOf(s) \ D :
                            \/ memories[i].use < memories[j].use
                            \/ memories[i].use = memories[j].use /\ i < j

\* The n least useful rows of a scope, the older first among equals.
LeastUseful(s, n) ==
  CHOOSE D \in SUBSET RowsOf(s) :
    Cardinality(D) = n /\ \A i \in D, j \in RowsOf(s) \ D :
                            \/ memories[i].use < memories[j].use
                            \/ memories[i].use = memories[j].use /\ i < j

Excess(s) == Cardinality(RowsOf(s)) - Capacity

Count(c) ==
  LET s == memo[c].lesson.scope IN
  /\ atStage(c, "stored")
  /\ IF Excess(s) <= 0 THEN Return(c)
     ELSE memo' = [memo EXCEPT ![c].pc = "pruning", ![c].rows = LeastUseful(s, Excess(s))]
  /\ UNCHANGED <<memories, made>>

Prune(c) ==
  /\ atStage(c, "pruning")
  /\ memories' = Without(memo[c].rows)
  /\ Return(c)
  /\ UNCHANGED made

-----------------------------------------------------------------------------
(* reinforce, recall, forget *)

\* Load the rows that are still there and compute their new usefulness.
Fetch(c, rows, delta) ==
  LET values == Targets(rows \cap DOMAIN memories, delta) IN
  /\ atStage(c, "idle")
  /\ IF DOMAIN values = {} THEN UNCHANGED memo
     ELSE memo' = [memo EXCEPT ![c] =
            [NoCall EXCEPT !.pc = "adjusting", !.values = values, !.delta = delta]]
  /\ UNCHANGED <<memories, made>>

\* An update that finds fewer rows than it was given is an error, where the
\* database's driver counts them.
Adjust(c) ==
  /\ atStage(c, "adjusting")
  /\ \/ memories' = Written(memo[c].values, memo[c].delta) /\ Return(c)
     \/ /\ ~ (DOMAIN memo[c].values \subseteq DOMAIN memories)
        /\ Raises(c) /\ UNCHANGED memories
  /\ UNCHANGED made

\* What a recall may hand out: useful rows only, those that match the query
\* before those that are standing knowledge, and of these the most useful.
Matches(q, i) == memories[i].lesson.text = q \/ <<q, memories[i].lesson.text>> \in Near

Recalls(s, q) ==
  LET worth == {i \in RowsOf(s) : Usable(memories[i].use)}
      ahead(i, j) == \/ Matches(q, i)
                     \/ ~ Matches(q, j) /\ memories[i].use > memories[j].use
                     \/ ~ Matches(q, j) /\ memories[i].use = memories[j].use /\ i < j
  IN {S \in SUBSET worth :
        /\ Cardinality(S) <= Limit
        /\ S = worth \/ Cardinality(S) = Limit
        /\ \A i \in S, j \in worth \ S : ahead(i, j)}

Forget(s) ==
  /\ RowsOf(s) # {}
  /\ memories' = Without(RowsOf(s))
  /\ UNCHANGED <<made, memo>>

ForgetEntry(i) ==
  /\ i \in DOMAIN memories
  /\ memories' = Without({i})
  /\ UNCHANGED <<made, memo>>

-----------------------------------------------------------------------------

MemoryInit ==
  /\ memories = <<>> /\ made = 0
  /\ memo = [c \in Clients |-> NoCall]

\* A call under way takes its next step.
Proceed(c) == Load(c) \/ Raise(c) \/ Store(c) \/ Count(c) \/ Prune(c) \/ Adjust(c)

\* The caller of a call that raised goes on without it.
Recover(c) == atStage(c, "broken") /\ Return(c) /\ UNCHANGED <<memories, made>>

Begin(c) ==
  \/ \E l \in Lesson : Look(c, l)
  \/ \E rows \in SUBSET Ids, delta \in {Proved, -Failed} : Fetch(c, rows, delta)

MemoryNext ==
  \/ \E c \in Clients : Begin(c) \/ Proceed(c) \/ Recover(c)
  \/ \E s \in Scopes : Forget(s)
  \/ \E i \in Ids : ForgetEntry(i)

MemorySpec == MemoryInit /\ [][MemoryNext]_memoryVars

=============================================================================
