----------------------------- MODULE AgentProofs -----------------------------
(***************************************************************************)
(* Theorems about the memory and the agents that use it, for any number of *)
(* workers, any agents, skills, lessons, capacity and budgets.             *)
(*                                                                         *)
(* The memory's own theorems are about MemorySpec, in which any client may *)
(* make any call at any time.  AgentsUseMemory, that what the workers do   *)
(* to the memory are such calls, carries them over to Spec.                *)
(***************************************************************************)
EXTENDS AgentProperties, FiniteSetTheorems, SequenceTheorems, WellFoundedInduction, TLAPS

-----------------------------------------------------------------------------
(* The types of the memory. *)

Values == UNION {[D -> 0..Best] : D \in SUBSET Ids}
MemoCall == [pc : Stages, lesson : Lesson \cup {NoLesson}, rows : SUBSET Ids,
             values : Values, delta : {0, Proved, -Failed}]

MemoryTypes ==
  /\ made \in Nat
  /\ DOMAIN memories \subseteq 1..made
  /\ memories \in [DOMAIN memories -> Row]
  /\ memo \in [Clients -> MemoCall]
  /\ \A c \in Clients :
       /\ memo[c].pc \in {"new", "stored", "pruning"} => memo[c].lesson \in Lesson
       /\ memo[c].pc = "adjusting" => memo[c].delta # 0

LEMMA ValuesAreFunctions ==
  \A v : v \in Values <=> DOMAIN v \subseteq Ids /\ v \in [DOMAIN v -> 0..Best]
<1>1. ASSUME NEW v, v \in Values
      PROVE  DOMAIN v \subseteq Ids /\ v \in [DOMAIN v -> 0..Best]
  BY <1>1 DEF Values
<1>2. ASSUME NEW v, DOMAIN v \subseteq Ids, v \in [DOMAIN v -> 0..Best]
      PROVE  v \in Values
  BY <1>2 DEF Values
<1>. QED  BY <1>1, <1>2

LEMMA Clamped ==
  ASSUME NEW use \in Int
  PROVE  /\ Clamp(use) \in 0..Best
         /\ use <= Best => Clamp(use) >= use
         /\ use >= 0 => Clamp(use) <= use
         /\ use > Best => Clamp(use) = Best
         /\ use < 0 => Clamp(use) = 0
BY SizesAssumption DEF Clamp

LEMMA TargetsAreValues ==
  ASSUME MemoryTypes, NEW rows \in SUBSET DOMAIN memories, NEW delta \in Int
  PROVE  /\ Targets(rows, delta) \in Values
         /\ DOMAIN Targets(rows, delta) \subseteq rows
         /\ \A i \in DOMAIN Targets(rows, delta) :
              Targets(rows, delta)[i] = Clamp(memories[i].use + delta)
<1>. DEFINE D == {r \in rows : Clamp(memories[r].use + delta) # memories[r].use}
            f == [i \in D |-> Clamp(memories[i].use + delta)]
<1>1. f = Targets(rows, delta)
  BY DEF Targets
<1>2. DOMAIN f = D /\ D \subseteq Ids
  BY DEF MemoryTypes, Ids
<1>3. \A i \in D : f[i] \in 0..Best
  <2>. SUFFICES ASSUME NEW i \in D PROVE Clamp(memories[i].use + delta) \in 0..Best
    OBVIOUS
  <2>1. memories[i] \in Row
    BY DEF MemoryTypes
  <2>2. memories[i].use + delta \in Int
    BY <2>1, SizesAssumption DEF Row
  <2>. QED  BY <2>2, Clamped
<1>4. f \in [D -> 0..Best]
  BY <1>3
<1>. QED  BY <1>1, <1>2, <1>4, ValuesAreFunctions

\* What a write leaves of each row.
LEMMA WrittenRows ==
  ASSUME MemoryTypes, NEW values \in Values, NEW delta \in {Again, Proved, -Failed},
         memories' = Written(values, delta)
  PROVE  /\ DOMAIN memories' = DOMAIN memories
         /\ memories' \in [DOMAIN memories -> Row]
         /\ \A i \in DOMAIN memories :
              /\ memories'[i].lesson = memories[i].lesson /\ memories'[i].by = memories[i].by
              /\ memories'[i].up >= memories[i].up /\ memories'[i].down >= memories[i].down
              /\ i \notin DOMAIN values => memories'[i] = memories[i]
              /\ i \in DOMAIN values =>
                   /\ memories'[i].use = values[i]
                   /\ delta > 0 => memories'[i].up = memories[i].up + delta
                   /\ delta < 0 => memories'[i].down = memories[i].down - delta
<1>1. DOMAIN memories' = DOMAIN memories
  BY DEF Written
<1>d. delta \in Int /\ (delta > 0 \/ delta < 0)
  BY DEF Again, Proved, Failed
<1>2. ASSUME NEW i \in DOMAIN memories
      PROVE  /\ memories'[i] \in Row
             /\ memories'[i].lesson = memories[i].lesson /\ memories'[i].by = memories[i].by
             /\ memories'[i].up >= memories[i].up /\ memories'[i].down >= memories[i].down
             /\ i \notin DOMAIN values => memories'[i] = memories[i]
             /\ i \in DOMAIN values =>
                   /\ memories'[i].use = values[i]
                   /\ delta > 0 => memories'[i].up = memories[i].up + delta
                   /\ delta < 0 => memories'[i].down = memories[i].down - delta
  <2>. DEFINE r == memories[i]
  <2>1. r \in Row
    BY DEF MemoryTypes
  <2>2. CASE i \notin DOMAIN values
    <3>1. memories'[i] = r
      BY <2>2 DEF Written
    <3>. QED  BY <2>1, <2>2, <3>1 DEF Row
  <2>3. CASE i \in DOMAIN values /\ delta > 0
    <3>1. memories'[i] = [r EXCEPT !.use = values[i], !.up = r.up + delta]
      BY <2>3 DEF Written
    <3>2. values[i] \in 0..Best
      BY <2>3, ValuesAreFunctions
    <3>3. r.up \in Nat /\ r.down \in Nat /\ r.up + delta \in Nat
      BY <1>d, <2>1, <2>3 DEF Row
    <3>. HIDE DEF r
    <3>. DEFINE n == r.up + delta
                u == values[i]
    <3>4. memories'[i] = [r EXCEPT !.use = u, !.up = n] /\ n \in Nat /\ u \in 0..Best
      BY <3>1, <3>2, <3>3
    <3>. HIDE DEF n, u
    <3>5. /\ memories'[i] \in Row /\ memories'[i].lesson = r.lesson /\ memories'[i].by = r.by
          /\ memories'[i].use = u
          /\ memories'[i].up = n /\ memories'[i].down = r.down
      <4>. DEFINE s == [r EXCEPT !.use = u]
      <4>1. /\ s \in Row /\ s.lesson = r.lesson /\ s.by = r.by
            /\ s.use = u /\ s.up = r.up /\ s.down = r.down
        BY <2>1, <3>4 DEF Row
      <4>2. memories'[i] = [s EXCEPT !.up = n]
        BY <3>4
      <4>. HIDE DEF s
      <4>. QED  BY <3>4, <4>1, <4>2 DEF Row
    <3>. QED  BY <1>d, <2>3, <3>3, <3>5 DEF r, n, u
  <2>4. CASE i \in DOMAIN values /\ delta < 0
    <3>0. ~ (delta > 0)
      BY <1>d, <2>4
    <3>1. memories'[i] = [r EXCEPT !.use = values[i], !.down = r.down - delta]
      BY <2>4, <3>0 DEF Written
    <3>2. values[i] \in 0..Best
      BY <2>4, ValuesAreFunctions
    <3>3. r.up \in Nat /\ r.down \in Nat /\ r.down - delta \in Nat
      BY <1>d, <2>1, <2>4 DEF Row
    <3>. HIDE DEF r
    <3>. DEFINE n == r.down - delta
                u == values[i]
    <3>4. memories'[i] = [r EXCEPT !.use = u, !.down = n] /\ n \in Nat /\ u \in 0..Best
      BY <3>1, <3>2, <3>3
    <3>. HIDE DEF n, u
    <3>5. /\ memories'[i] \in Row /\ memories'[i].lesson = r.lesson /\ memories'[i].by = r.by
          /\ memories'[i].use = u
          /\ memories'[i].up = r.up /\ memories'[i].down = n
      <4>. DEFINE s == [r EXCEPT !.use = u]
      <4>1. /\ s \in Row /\ s.lesson = r.lesson /\ s.by = r.by
            /\ s.use = u /\ s.up = r.up /\ s.down = r.down
        BY <2>1, <3>4 DEF Row
      <4>2. memories'[i] = [s EXCEPT !.down = n]
        BY <3>4
      <4>. HIDE DEF s
      <4>. QED  BY <3>4, <4>1, <4>2 DEF Row
    <3>. QED  BY <1>d, <2>4, <3>3, <3>5 DEF r, n, u
  <2>. QED  BY <1>d, <2>2, <2>3, <2>4
<1>3. memories' \in [DOMAIN memories -> Row]
  BY <1>2 DEF Written
<1>. QED  BY <1>1, <1>2, <1>3

-----------------------------------------------------------------------------
(* The choice of the least useful rows. *)

Less(i, j) == \/ memories[i].use < memories[j].use
              \/ memories[i].use = memories[j].use /\ i < j

LEMMA SetsOfNaturalsHaveLeast ==
  ASSUME NEW S \in SUBSET Nat, S # {}
  PROVE  \E m \in S : \A n \in S : m <= n
<1>1. PICK m \in S : \A n \in S : ~ (<<n, m>> \in OpToRel(<, Nat))
  BY WFMin, NatLessThanWellFounded, Zenon
<1>2. \A n \in S : <<n, m>> \in Nat \X Nat
  OBVIOUS
<1>3. \A n \in S : ~ (n < m)
  BY <1>1, <1>2, Zenon DEF OpToRel
<1>4. \A n \in S : m <= n
  BY <1>3
<1>. QED  BY <1>4

LEMMA RowsHaveLeast ==
  ASSUME MemoryTypes, NEW S \in SUBSET DOMAIN memories, S # {}
  PROVE  \E m \in S : \A i \in S \ {m} : Less(m, i)
<1>. DEFINE U == {memories[i].use : i \in S}
<1>0. \A i \in S : memories[i].use \in Nat /\ i \in Nat
  <2>. SUFFICES ASSUME NEW i \in S PROVE memories[i].use \in Nat /\ i \in Nat
    OBVIOUS
  <2>1. memories[i] \in Row
    BY DEF MemoryTypes
  <2>. QED  BY <2>1, SizesAssumption DEF Row, MemoryTypes
<1>1. U \in SUBSET Nat /\ U # {}
  BY <1>0
<1>2. PICK u \in U : \A v \in U : u <= v
  <2>. HIDE DEF U
  <2>. QED  BY <1>1, SetsOfNaturalsHaveLeast
<1>. DEFINE E == {i \in S : memories[i].use = u}
<1>3. E \in SUBSET Nat /\ E # {}
  BY <1>0, <1>2
<1>4. PICK m \in E : \A i \in E : m <= i
  <2>. HIDE DEF E
  <2>. QED  BY <1>3, SetsOfNaturalsHaveLeast
<1>5. ASSUME NEW i \in S \ {m}
      PROVE  Less(m, i)
  <2>1. memories[m].use = u /\ u <= memories[i].use /\ u \in Nat /\ m \in Nat
    BY <1>0, <1>2, <1>4
  <2>2. CASE i \in E
    <3>1. m <= i /\ m # i /\ i \in Nat /\ memories[i].use = u
      BY <1>0, <1>4, <1>5, <2>2
    <3>. HIDE DEF E, U
    <3>. QED  BY <2>1, <3>1 DEF Less
  <2>3. CASE i \notin E
    <3>1. memories[i].use # u /\ memories[i].use \in Nat
      BY <1>0, <2>3
    <3>. HIDE DEF E, U
    <3>. QED  BY <2>1, <3>1 DEF Less
  <2>. QED  BY <2>2, <2>3
<1>. QED  BY <1>4, <1>5

\* The first n rows of a set, by usefulness and age.
FirstOf(S, n, D) ==
  /\ D \in SUBSET S
  /\ Cardinality(D) = n
  /\ \A i \in D, j \in S \ D : Less(i, j)

LEMMA FirstRowsExist ==
  ASSUME MemoryTypes, NEW S \in SUBSET DOMAIN memories, IsFiniteSet(S),
         NEW n \in 0..Cardinality(S)
  PROVE  \E D : FirstOf(S, n, D)
<1>0. Cardinality(S) \in Nat
  BY FS_CardinalityType
<1>. DEFINE Bad == {k \in 0..Cardinality(S) : ~ \E D : FirstOf(S, k, D)}
<1>1. SUFFICES ASSUME Bad # {} PROVE FALSE
  OBVIOUS
<1>2. PICK k \in Bad : \A l \in Bad : k <= l
  <2>1. Bad \in SUBSET Nat
    BY <1>0
  <2>. HIDE DEF Bad
  <2>. QED  BY <1>1, <2>1, SetsOfNaturalsHaveLeast
<1>3. k # 0
  <2>1. FirstOf(S, 0, {})
    BY FS_EmptySet DEF FirstOf
  <2>. QED  BY <2>1
<1>4. k - 1 \in 0..Cardinality(S) /\ k \in 0..Cardinality(S) /\ k - 1 \notin Bad
  <2>1. k \in 0..Cardinality(S)
    OBVIOUS
  <2>2. k - 1 \in 0..Cardinality(S) /\ ~ (k <= k - 1)
    BY <1>0, <1>3, <2>1
  <2>3. k - 1 \notin Bad
    BY <1>2, <2>2
  <2>. QED  BY <2>1, <2>2, <2>3
<1>5. PICK D : FirstOf(S, k - 1, D)
  BY <1>4
<1>6. D \in SUBSET S /\ Cardinality(D) = k - 1 /\ IsFiniteSet(D) /\ S \ D # {}
  <2>1. D \in SUBSET S /\ Cardinality(D) = k - 1
    BY <1>5 DEF FirstOf
  <2>2. IsFiniteSet(D)
    BY <2>1, FS_Subset
  <2>3. D # S
    BY <1>0, <1>4, <2>1
  <2>. QED  BY <2>1, <2>2, <2>3
<1>7. PICK m \in S \ D : \A i \in (S \ D) \ {m} : Less(m, i)
  BY <1>6, RowsHaveLeast
<1>8. FirstOf(S, k, D \cup {m})
  <2>1. Cardinality(D \cup {m}) = k
    <3>1. Cardinality(D \cup {m}) = Cardinality(D) + 1
      BY <1>6, <1>7, FS_AddElement
    <3>2. k \in Int
      BY <1>0, <1>4
    <3>. QED  BY <1>6, <3>1, <3>2
  <2>2. \A i \in D \cup {m}, j \in S \ (D \cup {m}) : Less(i, j)
    BY <1>5, <1>7 DEF FirstOf
  <2>. QED  BY <1>6, <2>1, <2>2 DEF FirstOf
<1>. QED  BY <1>2, <1>8

LEMMA RowsAreFinite ==
  ASSUME MemoryTypes
  PROVE  IsFiniteSet(DOMAIN memories) /\ \A S \in SUBSET DOMAIN memories :
           IsFiniteSet(S) /\ Cardinality(S) \in Nat
<1>1. IsFiniteSet(1..made)
  BY FS_Interval DEF MemoryTypes
<1>2. IsFiniteSet(DOMAIN memories)
  BY <1>1, FS_Subset DEF MemoryTypes
<1>. QED  BY <1>2, FS_Subset, FS_CardinalityType

\* What Count is handed: as many rows of the scope as it asked for.
LEMMA LeastUsefulRows ==
  ASSUME MemoryTypes, NEW s, NEW n \in 0..Cardinality(RowsOf(s))
  PROVE  FirstOf(RowsOf(s), n, LeastUseful(s, n))
<1>1. RowsOf(s) \in SUBSET DOMAIN memories /\ IsFiniteSet(RowsOf(s))
  BY RowsAreFinite DEF RowsOf
<1>2. PICK D : FirstOf(RowsOf(s), n, D)
  BY <1>1, FirstRowsExist
<1>. QED  BY <1>2 DEF FirstOf, LeastUseful, Less

-----------------------------------------------------------------------------
(* What each call does to the memory's state. *)

\* The call of client c is now r.
Turns(c, r) == r \in MemoCall /\ memo' = [memo EXCEPT ![c] = r]

LEMMA Turned ==
  ASSUME MemoryTypes, NEW c \in Clients, NEW r, Turns(c, r)
  PROVE  /\ memo' \in [Clients -> MemoCall] /\ memo'[c] = r
         /\ \A d \in Clients \ {c} : memo'[d] = memo[d]
BY DEF MemoryTypes, Turns

LEMMA NoCallIsACall == <<>> \in Values /\ NoCall \in MemoCall /\ NoCall.pc = "idle"
<1>1. <<>> \in Values
  <2>1. <<>> \in [1..0 -> 0..Best] /\ DOMAIN <<>> = 1..0
    OBVIOUS
  <2>2. DOMAIN <<>> \subseteq Ids /\ <<>> \in [DOMAIN <<>> -> 0..Best]
    BY <2>1
  <2>. QED  BY <2>2, ValuesAreFunctions
<1>. QED  BY <1>1 DEF NoCall, MemoCall, Stages, Ids

LEMMA Returns ==
  ASSUME NEW c \in Clients, Return(c) \/ Raises(c)
  PROVE  \E r : Turns(c, r) /\ r.pc \in {"idle", "broken"}
<1>1. [NoCall EXCEPT !.pc = "broken"] \in MemoCall
  BY NoCallIsACall DEF MemoCall, Stages
<1>2. [NoCall EXCEPT !.pc = "broken"].pc = "broken"
  BY DEF NoCall
<1>. QED  BY <1>1, <1>2, NoCallIsACall DEF Return, Raises, Turns

LEMMA Looks ==
  ASSUME MemoryTypes, NEW c \in Clients, NEW l \in Lesson, Look(c, l)
  PROVE  /\ memo[c].pc = "idle" /\ memories' = memories /\ made' = made
         /\ \E r : /\ Turns(c, r) /\ r.lesson = l /\ r.pc \in {"found", "new"}
                   /\ r.pc = "new" => Same(l) = {}
<1>1. ASSUME NEW s \in {"found", "new"}, NEW a, a = [NoCall EXCEPT !.pc = s],
             NEW b, b = [a EXCEPT !.lesson = l]
      PROVE  b \in MemoCall /\ b.lesson = l /\ b.pc = s
  <2>1. a \in MemoCall /\ a.pc = s
    BY <1>1, NoCallIsACall DEF MemoCall, Stages
  <2>. QED  BY <1>1, <2>1 DEF MemoCall
<1>2. ASSUME NEW i \in Same(l) \cup Alike(l),
             memo' = [memo EXCEPT ![c] = [NoCall EXCEPT !.pc = "found", !.lesson = l, !.rows = {i}]]
      PROVE  \E r : Turns(c, r) /\ r.lesson = l /\ r.pc = "found"
  <2>. DEFINE a == [NoCall EXCEPT !.pc = "found"]
              b == [a EXCEPT !.lesson = l]
              r == [b EXCEPT !.rows = {i}]
  <2>1. memo' = [memo EXCEPT ![c] = r]
    BY <1>2
  <2>2. b \in MemoCall /\ b.lesson = l /\ b.pc = "found"
    <3>. HIDE DEF a, b
    <3>. QED  BY <1>1 DEF a, b
  <2>3. {i} \in SUBSET Ids
    BY DEF Same, Alike, MemoryTypes, Ids
  <2>. HIDE DEF b
  <2>4. r \in MemoCall /\ r.lesson = l /\ r.pc = "found"
    BY <2>2, <2>3 DEF MemoCall
  <2>. HIDE DEF r
  <2>. QED  BY <2>1, <2>4 DEF Turns
<1>3. ASSUME memo' = [memo EXCEPT ![c] = [NoCall EXCEPT !.pc = "new", !.lesson = l]]
      PROVE  \E r : Turns(c, r) /\ r.lesson = l /\ r.pc = "new"
  <2>. DEFINE a == [NoCall EXCEPT !.pc = "new"]
              b == [a EXCEPT !.lesson = l]
  <2>1. memo' = [memo EXCEPT ![c] = b]
    BY <1>3
  <2>2. b \in MemoCall /\ b.lesson = l /\ b.pc = "new"
    <3>. HIDE DEF a, b
    <3>. QED  BY <1>1 DEF a, b
  <2>. HIDE DEF b
  <2>. QED  BY <2>1, <2>2 DEF Turns
<1>4. memo[c].pc = "idle" /\ memories' = memories /\ made' = made
  BY DEF Look, atStage
<1>5. \/ \E i \in Same(l) \cup Alike(l) : memo' =
            [memo EXCEPT ![c] = [NoCall EXCEPT !.pc = "found", !.lesson = l, !.rows = {i}]]
      \/ /\ Same(l) = {}
         /\ memo' = [memo EXCEPT ![c] = [NoCall EXCEPT !.pc = "new", !.lesson = l]]
  BY DEF Look
<1>. QED  BY <1>2, <1>3, <1>4, <1>5

LEMMA Loads ==
  ASSUME MemoryTypes, NEW c \in Clients, Load(c)
  PROVE  /\ memo[c].pc = "found" /\ memories' = memories /\ made' = made
         /\ \E r : /\ Turns(c, r) /\ r.pc \in {"idle", "broken", "raising"}
                   /\ r.pc = "raising" => /\ memo[c].rows \subseteq DOMAIN memories
                                          /\ r.values = Targets(memo[c].rows, Again)
<1>. DEFINE v == Targets(memo[c].rows, Again)
            r == [memo[c] EXCEPT !.pc = "raising", !.values = v]
<1>1. CASE Return(c) \/ Raises(c)
  BY <1>1, Returns DEF Load, atStage
<1>2. ASSUME memo[c].rows \subseteq DOMAIN memories, memo' = [memo EXCEPT ![c] = r]
      PROVE  Turns(c, r) /\ r.pc = "raising" /\ r.values = v
  <2>1. v \in Values
    <3>1. Again \in Int
      BY DEF Again
    <3>. QED  BY <1>2, <3>1, TargetsAreValues
  <2>2. memo[c] \in MemoCall
    BY DEF MemoryTypes
  <2>. HIDE DEF v
  <2>3. r \in MemoCall /\ r.pc = "raising" /\ r.values = v
    BY <2>1, <2>2 DEF MemoCall, Stages
  <2>. QED  BY <1>2, <2>3 DEF Turns
<1>3. \/ Return(c) \/ Raises(c)
      \/ memo[c].rows \subseteq DOMAIN memories /\ memo' = [memo EXCEPT ![c] = r]
  BY DEF Load
<1>. QED  BY <1>1, <1>2, <1>3 DEF Load, atStage

LEMMA Stores ==
  ASSUME MemoryTypes, NEW c \in Clients, Store(c)
  PROVE  /\ memo[c].pc = "new" /\ made' = made + 1 /\ made' \notin DOMAIN memories
         /\ memories'[made'].lesson = memo[c].lesson /\ memories'[made'].by = c
         /\ memories'[made'].use = Fresh /\ memories'[made'].up = 0 /\ memories'[made'].down = 0
         /\ DOMAIN memories' = DOMAIN memories \cup {made'}
         /\ memories'[made'] = [lesson |-> memo[c].lesson, use |-> Fresh, by |-> c,
                                up |-> 0, down |-> 0]
         /\ \A i \in DOMAIN memories : memories'[i] = memories[i]
         /\ \E r : Turns(c, r) /\ r.pc = "stored" /\ r.lesson = memo[c].lesson
<1>. DEFINE r == [memo[c] EXCEPT !.pc = "stored"]
<1>1. memo[c] \in MemoCall
  BY DEF MemoryTypes
<1>2. r \in MemoCall /\ r.pc = "stored" /\ r.lesson = memo[c].lesson
  BY <1>1 DEF MemoCall, Stages
<1>3. Turns(c, r)
  BY <1>2 DEF Store, Turns
<1>4. made' = made + 1 /\ made' \notin DOMAIN memories
  BY DEF Store, MemoryTypes
<1>5. /\ DOMAIN memories' = DOMAIN memories \cup {made'}
      /\ memories'[made'] = [lesson |-> memo[c].lesson, use |-> Fresh, by |-> c,
                             up |-> 0, down |-> 0]
      /\ \A i \in DOMAIN memories : memories'[i] = memories[i]
  BY <1>4 DEF Store
<1>6. /\ memories'[made'].lesson = memo[c].lesson /\ memories'[made'].by = c
      /\ memories'[made'].use = Fresh /\ memories'[made'].up = 0 /\ memories'[made'].down = 0
  BY <1>5
<1>7. memo[c].pc = "new"
  BY DEF Store, atStage
<1>. HIDE DEF r
<1>. QED  BY <1>2, <1>3, <1>4, <1>5, <1>6, <1>7, Zenon

LEMMA Counts ==
  ASSUME MemoryTypes, NEW c \in Clients, Count(c)
  PROVE  /\ memo[c].pc = "stored" /\ memories' = memories /\ made' = made
         /\ \E r : /\ Turns(c, r)
                   /\ LET s == memo[c].lesson.scope IN
                      \/ r.pc \in {"idle", "broken"} /\ Excess(s) <= 0
                      \/ /\ r.pc = "pruning" /\ r.lesson = memo[c].lesson /\ Excess(s) > 0
                         /\ FirstOf(RowsOf(s), Excess(s), r.rows)
<1>. DEFINE s == memo[c].lesson.scope
            D == LeastUseful(s, Excess(s))
            r == [memo[c] EXCEPT !.pc = "pruning", !.rows = D]
<1>0. Excess(s) \in Int /\ (Excess(s) > 0 => Excess(s) \in 0..Cardinality(RowsOf(s)))
  <2>1. RowsOf(s) \in SUBSET DOMAIN memories
    BY DEF RowsOf
  <2>2. Cardinality(RowsOf(s)) \in Nat
    BY <2>1, RowsAreFinite
  <2>. QED  BY <2>2, SizesAssumption DEF Excess
<1>1. CASE Excess(s) <= 0
  BY <1>1, Returns DEF Count, atStage
<1>2. CASE Excess(s) > 0
  <2>1. FirstOf(RowsOf(s), Excess(s), D)
    BY <1>0, <1>2, LeastUsefulRows
  <2>2. D \in SUBSET Ids /\ memo[c] \in MemoCall
    BY <2>1 DEF FirstOf, RowsOf, MemoryTypes, Ids
  <2>3. memo' = [memo EXCEPT ![c] = r]
    <3>1. ~ (Excess(s) <= 0)
      BY <1>0, <1>2
    <3>. QED  BY <3>1 DEF Count
  <2>. HIDE DEF D
  <2>4. r \in MemoCall /\ r.pc = "pruning" /\ r.lesson = memo[c].lesson /\ r.rows = D
    BY <2>2 DEF MemoCall, Stages
  <2>5. Turns(c, r)
    BY <2>3, <2>4 DEF Turns
  <2>6. memo[c].pc = "stored" /\ memories' = memories /\ made' = made
    BY DEF Count, atStage
  <2>. HIDE DEF r, s
  <2>. QED  BY <1>2, <2>1, <2>4, <2>5, <2>6 DEF s
<1>. QED  BY <1>0, <1>1, <1>2

LEMMA Fetches ==
  ASSUME MemoryTypes, NEW c \in Clients, NEW rows, NEW delta \in {Proved, -Failed},
         Fetch(c, rows, delta)
  PROVE  /\ memo[c].pc = "idle" /\ memories' = memories /\ made' = made
         /\ \/ memo' = memo
            \/ \E r : /\ Turns(c, r) /\ r.pc = "adjusting" /\ r.delta = delta
                      /\ r.values = Targets(rows \cap DOMAIN memories, delta)
<1>. DEFINE v == Targets(rows \cap DOMAIN memories, delta)
            r == [NoCall EXCEPT !.pc = "adjusting", !.values = v, !.delta = delta]
<1>1. v \in Values
  BY TargetsAreValues DEF Proved, Failed
<1>2. memo[c].pc = "idle" /\ memories' = memories /\ made' = made
      /\ (memo' = memo \/ memo' = [memo EXCEPT ![c] = r])
  BY DEF Fetch, atStage
<1>. HIDE DEF v
<1>3. r \in MemoCall /\ r.pc = "adjusting" /\ r.delta = delta /\ r.values = v
  BY <1>1, NoCallIsACall DEF NoCall, MemoCall, Stages
<1>. HIDE DEF r
<1>. QED  BY <1>2, <1>3 DEF Turns, v

\* What a client is about to add to the rows that it has loaded.
Delta(c) == IF memo[c].pc = "raising" THEN Again ELSE memo[c].delta

LEMMA Writes ==
  ASSUME MemoryTypes, NEW c \in Clients, Raise(c) \/ Adjust(c)
  PROVE  /\ memo[c].pc \in {"raising", "adjusting"} /\ made' = made
         /\ memo[c].values \in Values /\ Delta(c) \in {Again, Proved, -Failed}
         /\ memories' = memories \/ memories' = Written(memo[c].values, Delta(c))
         /\ \E r : Turns(c, r) /\ r.pc \in {"idle", "broken"}
<1>1. memo[c] \in MemoCall
  BY DEF MemoryTypes
<1>2. memo[c].values \in Values
  BY <1>1 DEF MemoCall
<1>3. memo[c].pc \in {"raising", "adjusting"} /\ made' = made
  BY DEF Raise, Adjust, atStage
<1>4. Delta(c) \in {Again, Proved, -Failed}
  BY <1>1, <1>3 DEF MemoryTypes, MemoCall, Delta
<1>5. memories' = memories \/ memories' = Written(memo[c].values, Delta(c))
  BY DEF Raise, Adjust, atStage, Delta
<1>6. Return(c) \/ Raises(c)
  BY DEF Raise, Adjust
<1>. QED  BY <1>2, <1>3, <1>4, <1>5, <1>6, Returns

LEMMA Drops ==
  ASSUME MemoryTypes, NEW D, memories' = Without(D)
  PROVE  /\ DOMAIN memories' = DOMAIN memories \ D
         /\ memories' \in [DOMAIN memories' -> Row]
         /\ \A i \in DOMAIN memories' : memories'[i] = memories[i]
BY DEF Without, MemoryTypes

-----------------------------------------------------------------------------
(* Type correctness of the memory. *)

\* A call of one client, of which the rows keep their types.
LEMMA TypesKept ==
  ASSUME MemoryTypes, made' \in Nat, DOMAIN memories' \subseteq 1..made',
         memories' \in [DOMAIN memories' -> Row],
         NEW c \in Clients, NEW r, Turns(c, r),
         r.pc \in {"new", "stored", "pruning"} => r.lesson \in Lesson,
         r.pc = "adjusting" => r.delta # 0
  PROVE  MemoryTypes'
BY Turned DEF MemoryTypes

LEMMA MemoryTypesStep == MemoryTypes /\ [MemoryNext]_memoryVars => MemoryTypes'
<1>. SUFFICES ASSUME MemoryTypes, [MemoryNext]_memoryVars PROVE MemoryTypes'
  OBVIOUS
<1>0. /\ made \in Nat /\ DOMAIN memories \subseteq 1..made /\ memories \in [DOMAIN memories -> Row]
      /\ memo \in [Clients -> MemoCall]
  BY DEF MemoryTypes
<1>1. CASE UNCHANGED memoryVars
  BY <1>1 DEF memoryVars, MemoryTypes
<1>2. ASSUME NEW c \in Clients, NEW l \in Lesson, Look(c, l)
      PROVE  MemoryTypes'
  <2>1. PICK r : Turns(c, r) /\ r.lesson = l /\ r.pc \in {"found", "new"}
    BY <1>2, Looks
  <2>2. made' = made /\ memories' = memories
    BY <1>2 DEF Look
  <2>. QED  BY <1>0, <2>1, <2>2, TypesKept
<1>3. ASSUME NEW c \in Clients, NEW rows, NEW delta \in {Proved, -Failed}, Fetch(c, rows, delta)
      PROVE  MemoryTypes'
  <2>1. made' = made /\ memories' = memories
    BY <1>3 DEF Fetch
  <2>2. CASE memo' = memo
    BY <2>1, <2>2 DEF MemoryTypes
  <2>3. ASSUME NEW r, Turns(c, r), r.pc = "adjusting", r.delta = delta
        PROVE  MemoryTypes'
    <3>1. r.delta # 0
      BY <2>3 DEF Proved, Failed
    <3>. QED  BY <1>0, <2>1, <2>3, <3>1, TypesKept
  <2>. QED  BY <1>3, <2>2, <2>3, Fetches
<1>4. ASSUME NEW c \in Clients, Load(c)
      PROVE  MemoryTypes'
  <2>1. /\ made' = made /\ memories' = memories
        /\ \E r : Turns(c, r) /\ r.pc \in {"idle", "broken", "raising"}
    BY <1>4, Loads
  <2>. QED  BY <1>0, <2>1, TypesKept
<1>5. ASSUME NEW c \in Clients, Raise(c) \/ Adjust(c)
      PROVE  MemoryTypes'
  <2>1. DOMAIN memories' = DOMAIN memories /\ memories' \in [DOMAIN memories' -> Row]
    BY <1>0, <1>5, Writes, WrittenRows
  <2>2. made' = made /\ \E r : Turns(c, r) /\ r.pc \in {"idle", "broken"}
    BY <1>5, Writes
  <2>. QED  BY <1>0, <2>1, <2>2, TypesKept
<1>6. ASSUME NEW c \in Clients, Store(c)
      PROVE  MemoryTypes'
  <2>1. /\ made' = made + 1
        /\ DOMAIN memories' = DOMAIN memories \cup {made'}
        /\ memories'[made'] = [lesson |-> memo[c].lesson, use |-> Fresh, by |-> c,
                               up |-> 0, down |-> 0]
        /\ \A i \in DOMAIN memories : memories'[i] = memories[i]
        /\ memo[c].pc = "new"
    BY <1>6, Stores
  <2>2. memo[c].lesson \in Lesson
    BY <2>1 DEF MemoryTypes
  <2>3. Fresh \in 0..Best
    BY SizesAssumption DEF Fresh
  <2>4. memories'[made'] \in Row
    BY <2>1, <2>2, <2>3 DEF Row
  <2>5. memories' \in [DOMAIN memories' -> Row]
    <3>1. memories' = [i \in DOMAIN memories' |-> memories'[i]]
      BY <1>6 DEF Store
    <3>. QED  BY <1>0, <2>1, <2>4, <3>1
  <2>6. PICK r : Turns(c, r) /\ r.pc = "stored" /\ r.lesson = memo[c].lesson
    BY <1>6, Stores
  <2>7. made' \in Nat /\ DOMAIN memories' \subseteq 1..made'
    BY <1>0, <2>1
  <2>. QED  BY <2>2, <2>5, <2>6, <2>7, TypesKept
<1>7. ASSUME NEW c \in Clients, Count(c)
      PROVE  MemoryTypes'
  <2>1. PICK r : /\ Turns(c, r)
                 /\ r.pc \in {"idle", "broken"} \/ (r.pc = "pruning" /\ r.lesson = memo[c].lesson)
    BY <1>7, Counts
  <2>2. made' = made /\ memories' = memories /\ memo[c].lesson \in Lesson
    BY <1>7 DEF Count, atStage, MemoryTypes
  <2>. QED  BY <1>0, <2>1, <2>2, TypesKept
<1>8. ASSUME NEW c \in Clients, Prune(c) \/ Recover(c)
      PROVE  MemoryTypes'
  <2>1. PICK r : Turns(c, r) /\ r.pc \in {"idle", "broken"}
    BY <1>8, Returns DEF Prune, Recover
  <2>2. /\ made' = made /\ DOMAIN memories' \subseteq DOMAIN memories
        /\ memories' \in [DOMAIN memories' -> Row]
    BY <1>0, <1>8, Drops DEF Prune, Recover
  <2>. QED  BY <1>0, <2>1, <2>2, TypesKept
<1>9. ASSUME NEW D, memories' = Without(D), UNCHANGED <<made, memo>>
      PROVE  MemoryTypes'
  <2>1. DOMAIN memories' \subseteq DOMAIN memories /\ memories' \in [DOMAIN memories' -> Row]
    BY <1>9, Drops
  <2>. QED  BY <1>0, <1>9, <2>1 DEF MemoryTypes
<1>. QED
  BY <1>1, <1>2, <1>3, <1>4, <1>5, <1>6, <1>7, <1>8, <1>9
     DEF MemoryNext, Begin, Proceed, Forget, ForgetEntry

LEMMA MemoryInitTypes == MemoryInit => MemoryTypes
<1>. SUFFICES ASSUME MemoryInit PROVE MemoryTypes
  OBVIOUS
<1>1. memories = <<>> /\ made = 0 /\ memo \in [Clients -> MemoCall]
      /\ \A c \in Clients : memo[c].pc = "idle"
  BY NoCallIsACall DEF MemoryInit
<1>2. <<>> \in [1..0 -> Row] /\ DOMAIN <<>> = 1..0
  OBVIOUS
<1>. QED  BY <1>1, <1>2 DEF MemoryTypes

\* Ids, rows and calls have their types, whatever the clients do and in which order.
THEOREM MemoryTypeCorrect == MemorySpec => []MemoryTypes
<1>. QED  BY MemoryInitTypes, MemoryTypesStep, PTL DEF MemorySpec

-----------------------------------------------------------------------------
(* What a step can change: rows other than by a store, and one client's call. *)

LEMMA RowsLast ==
  ASSUME MemoryTypes, [MemoryNext]_memoryVars, \A c \in Clients : ~ Store(c)
  PROVE  /\ made' = made /\ DOMAIN memories' \subseteq DOMAIN memories
         /\ \A i \in DOMAIN memories' :
              /\ memories'[i].lesson = memories[i].lesson /\ memories'[i].by = memories[i].by
              /\ memories'[i].up >= memories[i].up /\ memories'[i].down >= memories[i].down
<1>. DEFINE Same1(i) == memories'[i] = memories[i]
<1>0. \A i \in DOMAIN memories : memories[i].up \in Nat /\ memories[i].down \in Nat
  BY DEF MemoryTypes, Row
<1>1. CASE memories' = memories /\ made' = made
  BY <1>0, <1>1
<1>2. ASSUME NEW D, memories' = Without(D), made' = made
      PROVE  /\ DOMAIN memories' \subseteq DOMAIN memories
             /\ \A i \in DOMAIN memories' : Same1(i)
  BY <1>2, Drops
<1>3. ASSUME NEW c \in Clients, Raise(c) \/ Adjust(c)
      PROVE  /\ made' = made /\ DOMAIN memories' \subseteq DOMAIN memories
             /\ \A i \in DOMAIN memories' :
                  /\ memories'[i].lesson = memories[i].lesson /\ memories'[i].by = memories[i].by
                  /\ memories'[i].up >= memories[i].up /\ memories'[i].down >= memories[i].down
  <2>1. CASE memories' = memories
    BY <1>0, <1>3, <2>1, Writes
  <2>2. CASE memories' # memories
    BY <1>3, <2>2, Writes, WrittenRows
  <2>. QED  BY <2>1, <2>2
<1>4. \/ memories' = memories /\ made' = made
      \/ \E D : memories' = Without(D) /\ made' = made
      \/ \E c \in Clients : Raise(c) \/ Adjust(c)
  BY DEF MemoryNext, memoryVars, Begin, Look, Fetch, Proceed, Load, Count, Prune, Recover,
         Forget, ForgetEntry
<1>. QED  BY <1>0, <1>1, <1>2, <1>3, <1>4

\* Where a call can be after its own step.
LEMMA CallsMove ==
  ASSUME MemoryTypes, [MemoryNext]_memoryVars, NEW c \in Clients, memo'[c] # memo[c]
  PROVE  \/ memo'[c].pc \in {"idle", "broken", "found"}
         \/ /\ memo'[c].pc = "new" /\ memories' = memories /\ made' = made
            /\ Same(memo'[c].lesson) = {}
         \/ /\ memo'[c].pc \in {"raising", "adjusting"} /\ memories' = memories /\ made' = made
            /\ Delta(c)' \in {Again, Proved, -Failed}
            /\ \E R \in SUBSET DOMAIN memories : memo'[c].values = Targets(R, Delta(c)')
         \/ memo'[c].pc = "stored" /\ Store(c)
         \/ memo'[c].pc = "pruning" /\ Count(c)
<1>. DEFINE Goal ==
       \/ memo'[c].pc \in {"idle", "broken", "found"}
       \/ /\ memo'[c].pc = "new" /\ memories' = memories /\ made' = made
          /\ Same(memo'[c].lesson) = {}
       \/ /\ memo'[c].pc \in {"raising", "adjusting"} /\ memories' = memories /\ made' = made
          /\ Delta(c)' \in {Again, Proved, -Failed}
          /\ \E R \in SUBSET DOMAIN memories : memo'[c].values = Targets(R, Delta(c)')
       \/ memo'[c].pc = "stored" /\ Store(c)
       \/ memo'[c].pc = "pruning" /\ Count(c)
<1>0. \A d \in Clients : \A r : Turns(d, r) => d = c
  BY Turned
<1>1. ASSUME NEW d \in Clients, NEW r, Turns(d, r), r.pc \in {"idle", "broken", "found"}
      PROVE  Goal
  BY <1>0, <1>1, Turned
<1>2. ASSUME NEW d \in Clients, NEW l \in Lesson, Look(d, l)
      PROVE  Goal
  <2>1. PICK r : /\ Turns(d, r) /\ r.lesson = l /\ r.pc \in {"found", "new"}
                 /\ r.pc = "new" => Same(l) = {}
    BY <1>2, Looks
  <2>2. d = c /\ memo'[c] = r /\ memories' = memories /\ made' = made
    BY <1>0, <1>2, <2>1, Turned, Looks
  <2>. QED  BY <2>1, <2>2
<1>3. ASSUME NEW d \in Clients, NEW rows, NEW delta \in {Proved, -Failed}, Fetch(d, rows, delta)
      PROVE  Goal
  <2>1. PICK r : /\ Turns(d, r) /\ r.pc = "adjusting" /\ r.delta = delta
                 /\ r.values = Targets(rows \cap DOMAIN memories, delta)
    BY <1>3, Fetches
  <2>2. d = c /\ memo'[c] = r /\ memories' = memories /\ made' = made
    BY <1>0, <1>3, <2>1, Turned, Fetches
  <2>3. Delta(c)' = delta
    BY <2>1, <2>2 DEF Delta
  <2>. QED  BY <2>1, <2>2, <2>3
<1>4. ASSUME NEW d \in Clients, Load(d)
      PROVE  Goal
  <2>1. PICK r : /\ Turns(d, r) /\ r.pc \in {"idle", "broken", "raising"}
                 /\ r.pc = "raising" => /\ memo[d].rows \subseteq DOMAIN memories
                                        /\ r.values = Targets(memo[d].rows, Again)
    BY <1>4, Loads
  <2>2. d = c /\ memo'[c] = r /\ memories' = memories /\ made' = made
    BY <1>0, <1>4, <2>1, Turned, Loads
  <2>3. r.pc = "raising" => Delta(c)' = Again
    BY <2>2 DEF Delta
  <2>. QED  BY <2>1, <2>2, <2>3
<1>5. ASSUME NEW d \in Clients, Raise(d) \/ Adjust(d) \/ Prune(d) \/ Recover(d)
      PROVE  Goal
  <2>1. PICK r : Turns(d, r) /\ r.pc \in {"idle", "broken"}
    BY <1>5, Writes, Returns DEF Prune, Recover
  <2>. QED  BY <1>1, <2>1
<1>6. ASSUME NEW d \in Clients, Store(d)
      PROVE  Goal
  <2>1. PICK r : Turns(d, r) /\ r.pc = "stored"
    BY <1>6, Stores
  <2>2. d = c /\ memo'[c] = r
    BY <1>0, <2>1, Turned
  <2>. QED  BY <1>6, <2>1, <2>2
<1>7. ASSUME NEW d \in Clients, Count(d)
      PROVE  Goal
  <2>1. PICK r : Turns(d, r) /\ r.pc \in {"idle", "broken", "pruning"}
    BY <1>7, Counts
  <2>2. d = c /\ memo'[c] = r
    BY <1>0, <2>1, Turned
  <2>. QED  BY <1>7, <2>1, <2>2
<1>8. memo' # memo
  OBVIOUS
<1>. HIDE DEF Goal
<1>9. Goal
  BY <1>2, <1>3, <1>4, <1>5, <1>6, <1>7, <1>8
     DEF MemoryNext, memoryVars, Begin, Proceed, Forget, ForgetEntry
<1>. QED  BY <1>9 DEF Goal

-----------------------------------------------------------------------------
(* Copies. *)

CopiesInv ==
  /\ OneCopyEach
  /\ \A c \in Clients : memo[c].pc = "new" =>
       \A i \in DOMAIN memories : ~ (memories[i].lesson = memo[c].lesson /\ memories[i].by = c)

LEMMA CopiesStep == MemoryTypes /\ CopiesInv /\ [MemoryNext]_memoryVars => CopiesInv'
<1>. SUFFICES ASSUME MemoryTypes, CopiesInv, [MemoryNext]_memoryVars PROVE CopiesInv'
  OBVIOUS
<1>1. CASE \A c \in Clients : ~ Store(c)
  <2>1. OneCopyEach'
    BY <1>1, RowsLast DEF CopiesInv, OneCopyEach
  <2>2. ASSUME NEW c \in Clients, (memo[c].pc = "new")', NEW i \in DOMAIN memories'
        PROVE  ~ (memories'[i].lesson = memo'[c].lesson /\ memories'[i].by = c)
    <3>1. CASE memo'[c] = memo[c]
      BY <1>1, <2>2, <3>1, RowsLast DEF CopiesInv
    <3>2. CASE memo'[c] # memo[c]
      <4>1. memories' = memories /\ Same(memo'[c].lesson) = {}
        BY <2>2, <3>2, CallsMove
      <4>. QED  BY <2>2, <4>1 DEF Same
    <3>. QED  BY <3>1, <3>2
  <2>. QED  BY <2>1, <2>2 DEF CopiesInv
<1>2. ASSUME NEW c \in Clients, Store(c)
      PROVE  CopiesInv'
  <2>1. /\ memo[c].pc = "new" /\ made' \notin DOMAIN memories
        /\ DOMAIN memories' = DOMAIN memories \cup {made'}
        /\ memories'[made'].lesson = memo[c].lesson /\ memories'[made'].by = c
        /\ \A i \in DOMAIN memories : memories'[i] = memories[i]
    BY <1>2, Stores
  <2>2. memo'[c].pc = "stored" /\ \A d \in Clients \ {c} : memo'[d] = memo[d]
    <3>1. PICK r : Turns(c, r) /\ r.pc = "stored"
      BY <1>2, Stores
    <3>. QED  BY <3>1, Turned
  <2>3. OneCopyEach'
    BY <2>1 DEF CopiesInv, OneCopyEach
  <2>4. ASSUME NEW d \in Clients, (memo[d].pc = "new")', NEW i \in DOMAIN memories'
        PROVE  ~ (memories'[i].lesson = memo'[d].lesson /\ memories'[i].by = d)
    BY <2>1, <2>2, <2>4 DEF CopiesInv
  <2>. QED  BY <2>3, <2>4 DEF CopiesInv
<1>. QED  BY <1>1, <1>2

\* However many processes remember at once, none of them stores a lesson again that
\* it has stored: the copies of a lesson are those of different processes.
THEOREM LessonsAreStoredOnce == MemorySpec => []OneCopyEach
<1>1. MemoryInit => CopiesInv
  BY DEF MemoryInit, CopiesInv, OneCopyEach, NoCall
<1>2. MemoryTypes /\ CopiesInv /\ [MemoryNext]_memoryVars => CopiesInv'
  BY CopiesStep
<1>3. CopiesInv => OneCopyEach
  BY DEF CopiesInv
<1>. QED  BY <1>1, <1>2, <1>3, MemoryTypeCorrect, PTL DEF MemorySpec

-----------------------------------------------------------------------------
(* Usefulness. *)

\* What a client has computed for a row is no more than the row will have earned
\* when that is written, and no less.
Owed(i, value, delta) ==
  /\ value <= Fresh + memories[i].up + (IF delta > 0 THEN delta ELSE 0)
  /\ value >= Fresh - memories[i].down + (IF delta < 0 THEN delta ELSE 0)

TrustInv ==
  /\ TrustIsEarned
  /\ \A c \in Clients : memo[c].pc \in {"raising", "adjusting"} =>
       \A i \in DOMAIN memo[c].values :
         /\ i \in 1..made
         /\ i \in DOMAIN memories => Owed(i, memo[c].values[i], Delta(c))

LEMMA OwedWhenLoaded ==
  ASSUME MemoryTypes, TrustIsEarned, NEW i \in DOMAIN memories,
         NEW delta \in {Again, Proved, -Failed}
  PROVE  Owed(i, Clamp(memories[i].use + delta), delta)
<1>1. /\ memories[i].use \in 0..Best /\ memories[i].up \in Nat /\ memories[i].down \in Nat
      /\ memories[i].use <= Fresh + memories[i].up
      /\ memories[i].use >= Fresh - memories[i].down
  BY DEF MemoryTypes, Row, TrustIsEarned
<1>. DEFINE u == memories[i].use + delta
<1>2. delta \in Int /\ u \in Int /\ delta # 0
  BY <1>1, SizesAssumption DEF Again, Proved, Failed
<1>3. /\ Clamp(u) \in 0..Best
      /\ u <= Best => Clamp(u) >= u
      /\ u >= 0 => Clamp(u) <= u
      /\ u > Best => Clamp(u) = Best
      /\ u < 0 => Clamp(u) = 0
  <2>. HIDE DEF u
  <2>. QED  BY <1>2, Clamped
<1>. QED  BY <1>1, <1>2, <1>3, SizesAssumption DEF Owed, Fresh

LEMMA TrustStep == MemoryTypes /\ TrustInv /\ [MemoryNext]_memoryVars => TrustInv'
<1>. SUFFICES ASSUME MemoryTypes, TrustInv, [MemoryNext]_memoryVars PROVE TrustInv'
  OBVIOUS
<1>0. /\ made \in Nat /\ DOMAIN memories \subseteq 1..made
      /\ \A i \in DOMAIN memories : memories[i] \in Row
      /\ \A c \in Clients : memo[c].values \in Values /\ memo[c].pc = "adjusting" => memo[c].delta # 0
  BY DEF MemoryTypes, MemoCall
<1>m. made' \in Nat /\ made' >= made
      /\ \A i \in 1..made : i \in DOMAIN memories' =>
           /\ i \in DOMAIN memories
           /\ memories'[i].up >= memories[i].up /\ memories'[i].down >= memories[i].down
           /\ memories'[i] \in Row
  <2>1. MemoryTypes'
    BY MemoryTypesStep
  <2>2. CASE \A c \in Clients : ~ Store(c)
    BY <1>0, <2>1, <2>2, RowsLast DEF MemoryTypes
  <2>3. ASSUME NEW c \in Clients, Store(c)
        PROVE  /\ made' = made + 1 /\ made' \in Nat
               /\ \A i \in 1..made : i \in DOMAIN memories' =>
                    i \in DOMAIN memories /\ memories'[i] = memories[i]
    <3>1. made' = made + 1 /\ DOMAIN memories' = DOMAIN memories \cup {made'}
          /\ \A i \in DOMAIN memories : memories'[i] = memories[i]
      BY <2>3, Stores
    <3>2. \A i \in 1..made : i # made'
      BY <1>0, <3>1
    <3>. QED  BY <1>0, <3>1, <3>2
  <2>. QED  BY <1>0, <2>1, <2>2, <2>3 DEF MemoryTypes, Row
<1>1. TrustIsEarned'
  <2>1. CASE \A c \in Clients : ~ Store(c) /\ ~ Raise(c) /\ ~ Adjust(c)
    <3>1. /\ DOMAIN memories' \subseteq DOMAIN memories
          /\ \A i \in DOMAIN memories' : memories'[i] = memories[i]
      <4>1. memories' = memories \/ \E D : memories' = Without(D)
        BY <2>1 DEF MemoryNext, memoryVars, Begin, Look, Fetch, Proceed, Load, Count, Prune,
                    Recover, Forget, ForgetEntry
      <4>. QED  BY <4>1, Drops
    <3>. QED  BY <3>1 DEF TrustInv, TrustIsEarned
  <2>2. ASSUME NEW c \in Clients, Store(c)
        PROVE  TrustIsEarned'
    <3>1. /\ DOMAIN memories' = DOMAIN memories \cup {made'}
          /\ memories'[made'].use = Fresh /\ memories'[made'].up = 0 /\ memories'[made'].down = 0
          /\ \A i \in DOMAIN memories : memories'[i] = memories[i]
      BY <2>2, Stores
    <3>2. ASSUME NEW i \in DOMAIN memories'
          PROVE  /\ memories'[i].use <= Fresh + memories'[i].up
                 /\ memories'[i].use >= Fresh - memories'[i].down
      BY <3>1, <3>2 DEF TrustInv, TrustIsEarned, Fresh
    <3>. QED  BY <3>2 DEF TrustIsEarned
  <2>3. ASSUME NEW c \in Clients, Raise(c) \/ Adjust(c)
        PROVE  TrustIsEarned'
    <3>1. CASE memories' = memories
      BY <3>1 DEF TrustInv, TrustIsEarned
    <3>2. CASE memories' # memories
      <4>1. /\ memo[c].values \in Values /\ Delta(c) \in {Again, Proved, -Failed}
            /\ memories' = Written(memo[c].values, Delta(c))
            /\ memo[c].pc \in {"raising", "adjusting"}
        BY <2>3, <3>2, Writes
      <4>. DEFINE v == memo[c].values
                  d == Delta(c)
      <4>2. d \in Int /\ d # 0
        BY <4>1 DEF Again, Proved, Failed
      <4>3. ASSUME NEW i \in DOMAIN memories', i \in DOMAIN v
            PROVE  /\ memories'[i].use <= Fresh + memories'[i].up
                   /\ memories'[i].use >= Fresh - memories'[i].down
        <5>1. /\ i \in DOMAIN memories
              /\ memories'[i].use = v[i]
              /\ d > 0 => memories'[i].up = memories[i].up + d
              /\ d < 0 => memories'[i].down = memories[i].down - d
              /\ memories'[i].up >= memories[i].up /\ memories'[i].down >= memories[i].down
              /\ memories'[i] \in Row
          BY <4>1, <4>3, WrittenRows
        <5>2. Owed(i, v[i], d)
          BY <4>1, <4>3, <5>1 DEF TrustInv
        <5>3. /\ memories[i].up \in Nat /\ memories[i].down \in Nat /\ v[i] \in Int
              /\ memories'[i].up \in Nat /\ memories'[i].down \in Nat
          <6>1. memories[i] \in Row /\ v[i] \in 0..Best
            BY <1>0, <4>1, <4>3, <5>1, ValuesAreFunctions
          <6>. QED  BY <5>1, <6>1, SizesAssumption DEF Row
        <5>. HIDE DEF v, d
        <5>. QED  BY <4>2, <5>1, <5>2, <5>3 DEF Owed, Fresh
      <4>4. ASSUME NEW i \in DOMAIN memories', i \notin DOMAIN v
            PROVE  /\ memories'[i].use <= Fresh + memories'[i].up
                   /\ memories'[i].use >= Fresh - memories'[i].down
        <5>1. i \in DOMAIN memories /\ memories'[i] = memories[i]
          BY <4>1, <4>4, WrittenRows
        <5>. QED  BY <5>1 DEF TrustInv, TrustIsEarned
      <4>. QED  BY <4>3, <4>4 DEF TrustIsEarned
    <3>. QED  BY <3>1, <3>2
  <2>. QED  BY <2>1, <2>2, <2>3
<1>2. ASSUME NEW c \in Clients, (memo[c].pc \in {"raising", "adjusting"})',
             NEW i \in DOMAIN memo'[c].values
      PROVE  /\ i \in 1..made'
             /\ i \in DOMAIN memories' => Owed(i, memo[c].values[i], Delta(c))'
  <2>1. CASE memo'[c] = memo[c]
    <3>1. i \in 1..made /\ (i \in DOMAIN memories => Owed(i, memo[c].values[i], Delta(c)))
      BY <1>2, <2>1 DEF TrustInv
    <3>2. i \in 1..made'
      BY <1>0, <1>m, <3>1
    <3>3. ASSUME i \in DOMAIN memories'
          PROVE  Owed(i, memo[c].values[i], Delta(c))'
      <4>. DEFINE v == memo[c].values[i]
                  d == Delta(c)
      <4>1. /\ i \in DOMAIN memories
            /\ memories'[i].up >= memories[i].up /\ memories'[i].down >= memories[i].down
            /\ memories'[i] \in Row /\ memories[i] \in Row
        BY <1>0, <1>m, <3>1, <3>3
      <4>2. v \in Int /\ d \in Int
        <5>1. memo[c] \in MemoCall
          BY DEF MemoryTypes
        <5>2. v \in 0..Best
          BY <1>2, <2>1, <5>1, ValuesAreFunctions DEF MemoCall
        <5>. QED  BY <5>1, <5>2, SizesAssumption DEF MemoCall, Delta, Again, Proved, Failed
      <4>3. Owed(i, v, d)
        BY <3>1, <4>1
      <4>4. memo'[c].values[i] = v /\ Delta(c)' = d
        BY <2>1 DEF Delta
      <4>5. memories[i].up \in Nat /\ memories[i].down \in Nat
            /\ memories'[i].up \in Nat /\ memories'[i].down \in Nat
        BY <4>1 DEF Row
      <4>. HIDE DEF v, d
      <4>. QED  BY <4>1, <4>2, <4>3, <4>4, <4>5 DEF Owed, Fresh
    <3>. QED  BY <3>2, <3>3
  <2>2. CASE memo'[c] # memo[c]
    <3>1. PICK R \in SUBSET DOMAIN memories :
            /\ memories' = memories /\ made' = made /\ Delta(c)' \in {Again, Proved, -Failed}
            /\ memo'[c].values = Targets(R, Delta(c)')
      BY <1>2, <2>2, CallsMove
    <3>. DEFINE d == Delta(c)'
    <3>2. d \in Int
      BY <3>1 DEF Again, Proved, Failed
    <3>3. i \in R /\ memo'[c].values[i] = Clamp(memories[i].use + d)
      BY <1>2, <3>1, <3>2, TargetsAreValues
    <3>4. Owed(i, Clamp(memories[i].use + d), d)
      BY <3>1, <3>3, OwedWhenLoaded DEF TrustInv
    <3>. QED  BY <1>0, <3>1, <3>3, <3>4 DEF Owed
  <2>. QED  BY <2>1, <2>2
<1>. QED  BY <1>1, <1>2 DEF TrustInv

\* Though updates of a row that meet are lost, no row is ever more useful than the
\* outcomes of its recalls have made it, or less.
THEOREM UsefulnessIsEarned == MemorySpec => []TrustIsEarned
<1>1. MemoryInit => TrustInv
  BY DEF MemoryInit, TrustInv, TrustIsEarned, NoCall
<1>2. MemoryTypes /\ TrustInv /\ [MemoryNext]_memoryVars => TrustInv'
  BY TrustStep
<1>3. TrustInv => TrustIsEarned
  BY DEF TrustInv
<1>. QED  BY <1>1, <1>2, <1>3, MemoryTypeCorrect, PTL DEF MemorySpec

-----------------------------------------------------------------------------
(* Capacity. *)

Pruning(s) == {c \in Clients : memo[c].pc = "pruning" /\ memo[c].lesson.scope = s}

\* The rows of the scope that are left when the clients P have pruned.
Spared(s, P) == {i \in RowsOf(s) : \A c \in P : i \notin memo[c].rows}

\* Whichever of the prunings under way are over, the scope outgrows its capacity by
\* the rows of the others at most: an invariant of all the sets P, for two clients
\* may have chosen the same rows.
FitsWithout(s, P) == Cardinality(Spared(s, P)) <= Capacity + Cardinality(Growing(s) \ P)
CapacityInv == \A s \in Scopes : \A P \in SUBSET Pruning(s) : FitsWithout(s, P)

LEMMA SparedAreFinite ==
  ASSUME MemoryTypes, NEW s, NEW P
  PROVE  /\ Spared(s, P) \in SUBSET DOMAIN memories
         /\ IsFiniteSet(Spared(s, P)) /\ Cardinality(Spared(s, P)) \in Nat
         /\ IsFiniteSet(Growing(s) \ P) /\ Cardinality(Growing(s) \ P) \in Nat
<1>1. Spared(s, P) \in SUBSET DOMAIN memories
  BY DEF Spared, RowsOf
<1>2. Growing(s) \ P \in SUBSET Clients
  BY DEF Growing
<1>. QED
  BY <1>1, <1>2, RowsAreFinite, ClientsAssumption, FS_Subset, FS_CardinalityType

LEMMA FewerSpared ==
  ASSUME MemoryTypes, MemoryTypes', NEW s, NEW P, NEW Q,
         FitsWithout(s, Q), Spared(s, P)' \subseteq Spared(s, Q),
         Growing(s) \ Q \subseteq Growing(s)' \ P
  PROVE  FitsWithout(s, P)'
<1>1. /\ IsFiniteSet(Spared(s, Q)) /\ Cardinality(Spared(s, Q)) \in Nat
      /\ Cardinality(Growing(s) \ Q) \in Nat
  BY SparedAreFinite
<1>2. /\ IsFiniteSet(Growing(s)' \ P) /\ Cardinality(Growing(s)' \ P) \in Nat
      /\ Cardinality(Spared(s, P)') \in Nat
  <2>1. Growing(s)' \ P \in SUBSET Clients
    BY DEF Growing
  <2>2. IsFiniteSet(Spared(s, P)')
    BY <1>1, FS_Subset
  <2>. QED  BY <2>1, <2>2, ClientsAssumption, FS_Subset, FS_CardinalityType
<1>3. Cardinality(Spared(s, P)') <= Cardinality(Spared(s, Q))
  BY <1>1, FS_Subset
<1>4. Cardinality(Growing(s) \ Q) <= Cardinality(Growing(s)' \ P)
  BY <1>2, FS_Subset
<1>. QED  BY <1>1, <1>2, <1>3, <1>4, SizesAssumption DEF FitsWithout

\* A step by which rows go and no client comes to prune or stops growing.
LEMMA CapacityKept ==
  ASSUME MemoryTypes, MemoryTypes', CapacityInv, NEW s \in Scopes,
         RowsOf(s)' \subseteq RowsOf(s), Growing(s) \subseteq Growing(s)',
         Pruning(s)' \subseteq Pruning(s), \A c \in Pruning(s)' : memo'[c] = memo[c]
  PROVE  \A P \in SUBSET Pruning(s)' : FitsWithout(s, P)'
<1>. SUFFICES ASSUME NEW P \in SUBSET Pruning(s)' PROVE FitsWithout(s, P)'
  OBVIOUS
<1>1. FitsWithout(s, P)
  BY DEF CapacityInv
<1>2. Spared(s, P)' \subseteq Spared(s, P)
  BY DEF Spared
<1>3. Growing(s) \ P \subseteq Growing(s)' \ P
  OBVIOUS
<1>. QED  BY <1>1, <1>2, <1>3, FewerSpared

\* Nobody's growing or pruning changes by a call that does neither.
LEMMA BystanderCall ==
  ASSUME MemoryTypes, NEW c \in Clients, NEW r, Turns(c, r),
         memo[c].pc \notin {"stored", "pruning"}, r.pc \notin {"stored", "pruning"}, NEW s
  PROVE  /\ Growing(s)' = Growing(s) /\ Pruning(s)' = Pruning(s)
         /\ \A d \in Pruning(s)' : memo'[d] = memo[d]
BY Turned DEF Growing, Pruning

LEMMA CapacityStep == MemoryTypes /\ CapacityInv /\ [MemoryNext]_memoryVars => CapacityInv'
<1>. SUFFICES ASSUME MemoryTypes, CapacityInv, [MemoryNext]_memoryVars, NEW s \in Scopes
              PROVE  \A P \in SUBSET Pruning(s)' : FitsWithout(s, P)'
  BY DEF CapacityInv
<1>0. MemoryTypes'
  BY MemoryTypesStep
<1>1. CASE memo' = memo /\ ((\E D : memories' = Without(D)) \/ memories' = memories)
  <2>1. RowsOf(s)' \subseteq RowsOf(s)
    <3>1. CASE memories' = memories
      BY <3>1 DEF RowsOf
    <3>2. ASSUME NEW D, memories' = Without(D)
          PROVE  RowsOf(s)' \subseteq RowsOf(s)
      BY <3>2, Drops DEF RowsOf
    <3>. QED  BY <1>1, <3>1, <3>2
  <2>2. Growing(s)' = Growing(s) /\ Pruning(s)' = Pruning(s)
    BY <1>1 DEF Growing, Pruning
  <2>. QED  BY <1>0, <1>1, <2>1, <2>2, CapacityKept
<1>2. ASSUME NEW c \in Clients, NEW r, Turns(c, r), memo[c].pc \notin {"stored", "pruning"},
             r.pc \notin {"stored", "pruning"}, RowsOf(s)' \subseteq RowsOf(s)
      PROVE  \A P \in SUBSET Pruning(s)' : FitsWithout(s, P)'
  BY <1>0, <1>2, BystanderCall, CapacityKept
<1>3. ASSUME NEW c \in Clients,
             (\E l \in Lesson : Look(c, l)) \/ Load(c) \/ Raise(c) \/ Adjust(c) \/ Recover(c)
      PROVE  \A P \in SUBSET Pruning(s)' : FitsWithout(s, P)'
  <2>1. /\ memo[c].pc \notin {"stored", "pruning"}
        /\ \E r : Turns(c, r) /\ r.pc \notin {"stored", "pruning"}
    <3>1. CASE \E l \in Lesson : Look(c, l)
      <4>1. PICK l \in Lesson : Look(c, l)
        BY <3>1
      <4>2. memo[c].pc = "idle" /\ \E r : Turns(c, r) /\ r.pc \in {"found", "new"}
        BY <4>1, Looks
      <4>. QED  BY <4>2
    <3>2. CASE Load(c)
      <4>1. /\ memo[c].pc = "found"
            /\ \E r : Turns(c, r) /\ r.pc \in {"idle", "broken", "raising"}
        BY <3>2, Loads
      <4>. QED  BY <4>1
    <3>3. CASE Raise(c) \/ Adjust(c)
      BY <3>3, Writes
    <3>4. CASE Recover(c)
      BY <3>4, Returns DEF Recover, atStage
    <3>. QED  BY <1>3, <3>1, <3>2, <3>3, <3>4
  <2>2. RowsOf(s)' \subseteq RowsOf(s)
    <3>1. CASE memories' = memories
      BY <3>1 DEF RowsOf
    <3>2. CASE memories' # memories
      <4>1. /\ memories' = Written(memo[c].values, Delta(c)) /\ memo[c].values \in Values
            /\ Delta(c) \in {Again, Proved, -Failed}
        BY <1>3, <3>2, Writes DEF Look, Load, Recover
      <4>. QED  BY <4>1, WrittenRows DEF RowsOf
    <3>. QED  BY <3>1, <3>2
  <2>. QED  BY <1>2, <2>1, <2>2
<1>4. ASSUME NEW c \in Clients, NEW rows, NEW delta \in {Proved, -Failed}, Fetch(c, rows, delta)
      PROVE  \A P \in SUBSET Pruning(s)' : FitsWithout(s, P)'
  <2>1. memories' = memories /\ RowsOf(s)' \subseteq RowsOf(s)
    BY <1>4 DEF Fetch, RowsOf
  <2>2. CASE memo' = memo
    BY <1>1, <2>1, <2>2
  <2>3. CASE memo' # memo
    <3>1. memo[c].pc = "idle" /\ \E r : Turns(c, r) /\ r.pc = "adjusting"
      BY <1>4, <2>3, Fetches
    <3>. QED  BY <1>2, <2>1, <3>1
  <2>. QED  BY <2>2, <2>3
<1>5. ASSUME NEW c \in Clients, Store(c)
      PROVE  \A P \in SUBSET Pruning(s)' : FitsWithout(s, P)'
  <2>1. PICK r : Turns(c, r) /\ r.pc = "stored" /\ r.lesson = memo[c].lesson
    BY <1>5, Stores
  <2>2. /\ memo[c].pc = "new" /\ made' \notin DOMAIN memories
        /\ DOMAIN memories' = DOMAIN memories \cup {made'}
        /\ memories'[made'].lesson = memo[c].lesson
        /\ \A i \in DOMAIN memories : memories'[i] = memories[i]
    BY <1>5, Stores
  <2>3. memo'[c] = r /\ \A d \in Clients \ {c} : memo'[d] = memo[d]
    BY <2>1, Turned
  <2>4. /\ Pruning(s)' = Pruning(s) /\ c \notin Pruning(s) /\ c \notin Growing(s)
        /\ \A d \in Pruning(s) : memo'[d] = memo[d]
    BY <2>1, <2>2, <2>3 DEF Pruning, Growing
  <2>5. CASE memo[c].lesson.scope # s
    <3>1. RowsOf(s)' = RowsOf(s)
      BY <2>2, <2>5 DEF RowsOf
    <3>2. Growing(s)' = Growing(s)
      BY <2>1, <2>2, <2>3, <2>5 DEF Growing
    <3>. QED  BY <1>0, <2>4, <3>1, <3>2, CapacityKept
  <2>6. CASE memo[c].lesson.scope = s
    <3>1. Growing(s)' = Growing(s) \cup {c}
      BY <2>1, <2>2, <2>3, <2>6 DEF Growing
    <3>2. RowsOf(s)' = RowsOf(s) \cup {made'}
      BY <2>2, <2>6 DEF RowsOf
    <3>3. ASSUME NEW P \in SUBSET Pruning(s)'
          PROVE  FitsWithout(s, P)'
      <4>1. FitsWithout(s, P) /\ c \notin P
        BY <2>4 DEF CapacityInv
      <4>2. Spared(s, P)' \subseteq Spared(s, P) \cup {made'}
        BY <2>4, <3>2 DEF Spared
      <4>3. Growing(s)' \ P = (Growing(s) \ P) \cup {c} /\ c \notin Growing(s) \ P
        BY <2>4, <3>1, <4>1
      <4>4. /\ IsFiniteSet(Spared(s, P)) /\ Cardinality(Spared(s, P)) \in Nat
            /\ IsFiniteSet(Growing(s) \ P) /\ Cardinality(Growing(s) \ P) \in Nat
        BY SparedAreFinite
      <4>5. Cardinality(Growing(s)' \ P) = Cardinality(Growing(s) \ P) + 1
        BY <4>3, <4>4, FS_AddElement
      <4>6. /\ IsFiniteSet(Spared(s, P) \cup {made'})
            /\ Cardinality(Spared(s, P) \cup {made'}) \in Nat
            /\ Cardinality(Spared(s, P) \cup {made'}) <= Cardinality(Spared(s, P)) + 1
        <5>. DEFINE S == Spared(s, P)
                    n == Cardinality(S \cup {made'})
        <5>1. IsFiniteSet(S) /\ Cardinality(S) \in Nat
          BY <4>4
        <5>. HIDE DEF S
        <5>2. IsFiniteSet(S \cup {made'}) /\ (n = Cardinality(S) \/ n = Cardinality(S) + 1)
          BY <5>1, FS_AddElement
        <5>. HIDE DEF n
        <5>. QED  BY <5>1, <5>2 DEF S, n
      <4>7. /\ Cardinality(Spared(s, P)') <= Cardinality(Spared(s, P) \cup {made'})
            /\ Cardinality(Spared(s, P)') \in Nat
        BY <4>2, <4>6, FS_Subset, FS_CardinalityType
      <4>. QED  BY <4>1, <4>4, <4>5, <4>6, <4>7, SizesAssumption DEF FitsWithout
    <3>. QED  BY <3>3
  <2>. QED  BY <2>5, <2>6
<1>6. ASSUME NEW c \in Clients, Count(c)
      PROVE  \A P \in SUBSET Pruning(s)' : FitsWithout(s, P)'
  <2>. DEFINE mine == memo[c].lesson.scope
  <2>1. PICK r : /\ Turns(c, r)
                 /\ \/ r.pc \in {"idle", "broken"} /\ Excess(mine) <= 0
                    \/ /\ r.pc = "pruning" /\ r.lesson = memo[c].lesson /\ Excess(mine) > 0
                       /\ FirstOf(RowsOf(mine), Excess(mine), r.rows)
    BY <1>6, Counts
  <2>2. memo[c].pc = "stored" /\ memories' = memories
    BY <1>6, Counts
  <2>3. memo'[c] = r /\ \A d \in Clients \ {c} : memo'[d] = memo[d]
    BY <2>1, Turned
  <2>4. RowsOf(s)' = RowsOf(s)
    BY <2>2 DEF RowsOf
  <2>5. CASE mine # s
    <3>1. Growing(s)' = Growing(s) /\ Pruning(s)' = Pruning(s) /\ c \notin Pruning(s)
      BY <2>1, <2>2, <2>3, <2>5 DEF Growing, Pruning
    <3>2. \A d \in Pruning(s)' : memo'[d] = memo[d]
      BY <2>3, <3>1 DEF Pruning
    <3>. QED  BY <1>0, <2>4, <3>1, <3>2, CapacityKept
  <2>6. ASSUME mine = s, r.pc \in {"idle", "broken"}, Excess(mine) <= 0,
               NEW P \in SUBSET Pruning(s)'
        PROVE  FitsWithout(s, P)'
    <3>1. RowsOf(s) \in SUBSET DOMAIN memories
      BY DEF RowsOf
    <3>2. Cardinality(RowsOf(s)) \in Nat /\ IsFiniteSet(RowsOf(s))
      BY <3>1, RowsAreFinite
    <3>3. Cardinality(RowsOf(s)) <= Capacity
      BY <2>6, <3>2, SizesAssumption DEF Excess
    <3>4. Spared(s, P)' \subseteq RowsOf(s)
      BY <2>4 DEF Spared
    <3>5. Cardinality(Spared(s, P)') <= Cardinality(RowsOf(s)) /\ Cardinality(Spared(s, P)') \in Nat
      BY <3>2, <3>4, FS_Subset, FS_CardinalityType
    <3>6. Cardinality(Growing(s)' \ P) \in Nat
      <4>1. Growing(s)' \ P \in SUBSET Clients
        BY DEF Growing
      <4>. QED  BY <4>1, ClientsAssumption, FS_Subset, FS_CardinalityType
    <3>. QED  BY <3>2, <3>3, <3>5, <3>6, SizesAssumption DEF FitsWithout
  <2>7. ASSUME mine = s, r.pc = "pruning", r.lesson = memo[c].lesson, Excess(s) > 0,
               FirstOf(RowsOf(s), Excess(s), r.rows), NEW P \in SUBSET Pruning(s)'
        PROVE  FitsWithout(s, P)'
    <3>1. Growing(s)' = Growing(s)
      BY <2>2, <2>3, <2>7 DEF Growing
    <3>2. CASE c \notin P
      <4>1. P \in SUBSET Pruning(s) /\ \A d \in P : memo'[d] = memo[d]
        BY <2>3, <3>2 DEF Pruning
      <4>2. FitsWithout(s, P)
        BY <4>1 DEF CapacityInv
      <4>3. Spared(s, P)' \subseteq Spared(s, P)
        BY <2>4, <4>1 DEF Spared
      <4>. QED  BY <1>0, <3>1, <4>2, <4>3, FewerSpared
    <3>3. CASE c \in P
      <4>1. Spared(s, P)' \subseteq RowsOf(s) \ r.rows
        BY <2>3, <2>4, <3>3 DEF Spared
      <4>2. RowsOf(s) \in SUBSET DOMAIN memories
        BY DEF RowsOf
      <4>3. Cardinality(RowsOf(s)) \in Nat /\ IsFiniteSet(RowsOf(s))
        BY <4>2, RowsAreFinite
      <4>4. r.rows \in SUBSET RowsOf(s) /\ Cardinality(r.rows) = Cardinality(RowsOf(s)) - Capacity
        BY <2>7 DEF FirstOf, Excess
      <4>5. /\ IsFiniteSet(RowsOf(s) \ r.rows)
            /\ Cardinality(RowsOf(s) \ r.rows) =
                 Cardinality(RowsOf(s)) - Cardinality(RowsOf(s) \cap r.rows)
        BY <4>3, FS_Difference
      <4>6. RowsOf(s) \cap r.rows = r.rows
        BY <4>4
      <4>7. Cardinality(RowsOf(s) \ r.rows) = Capacity
        BY <4>3, <4>4, <4>5, <4>6, SizesAssumption
      <4>8. Cardinality(Spared(s, P)') <= Capacity /\ Cardinality(Spared(s, P)') \in Nat
        BY <4>1, <4>5, <4>7, FS_Subset, FS_CardinalityType
      <4>9. Cardinality(Growing(s)' \ P) \in Nat
        BY <3>1, SparedAreFinite
      <4>. QED  BY <4>8, <4>9, SizesAssumption DEF FitsWithout
    <3>. QED  BY <3>2, <3>3
  <2>. QED  BY <2>1, <2>5, <2>6, <2>7
<1>7. ASSUME NEW c \in Clients, Prune(c)
      PROVE  \A P \in SUBSET Pruning(s)' : FitsWithout(s, P)'
  <2>1. PICK r : Turns(c, r) /\ r.pc \in {"idle", "broken"}
    BY <1>7, Returns DEF Prune
  <2>2. /\ memo[c].pc = "pruning"
        /\ DOMAIN memories' = DOMAIN memories \ memo[c].rows
        /\ \A i \in DOMAIN memories' : memories'[i] = memories[i]
    BY <1>7, Drops DEF Prune, atStage
  <2>3. memo'[c] = r /\ \A d \in Clients \ {c} : memo'[d] = memo[d]
    BY <2>1, Turned
  <2>4. RowsOf(s)' = RowsOf(s) \ memo[c].rows
    BY <2>2 DEF RowsOf
  <2>5. CASE memo[c].lesson.scope # s
    <3>1. Growing(s)' = Growing(s) /\ Pruning(s)' = Pruning(s) /\ c \notin Pruning(s)
      BY <2>1, <2>2, <2>3, <2>5 DEF Growing, Pruning
    <3>2. \A d \in Pruning(s)' : memo'[d] = memo[d]
      BY <2>3, <3>1 DEF Pruning
    <3>. QED  BY <1>0, <2>4, <3>1, <3>2, CapacityKept
  <2>6. ASSUME memo[c].lesson.scope = s, NEW P \in SUBSET Pruning(s)'
        PROVE  FitsWithout(s, P)'
    <3>. DEFINE Q == P \cup {c}
    <3>1. c \notin P /\ Q \in SUBSET Pruning(s) /\ \A d \in P : memo'[d] = memo[d]
      BY <2>1, <2>2, <2>3, <2>6 DEF Pruning
    <3>2. Growing(s) \ Q \subseteq Growing(s)' \ P
      BY <2>3 DEF Growing
    <3>3. FitsWithout(s, Q)
      BY <3>1 DEF CapacityInv
    <3>4. Spared(s, P)' \subseteq Spared(s, Q)
      BY <2>4, <3>1 DEF Spared
    <3>. QED  BY <1>0, <3>2, <3>3, <3>4, FewerSpared
  <2>. QED  BY <2>5, <2>6
<1>. QED
  BY <1>1, <1>3, <1>4, <1>5, <1>6, <1>7
     DEF MemoryNext, memoryVars, Begin, Proceed, Forget, ForgetEntry

\* However the transactions of concurrent prunings interleave, and though two of them
\* may choose the same rows, a scope is over its capacity only by rows of calls that
\* have not yet pruned.
THEOREM ScopesKeepTheirCapacity == MemorySpec => []CapacityHolds
<1>1. MemoryInit => CapacityInv
  <2>. SUFFICES ASSUME MemoryInit, NEW s \in Scopes, NEW P \in SUBSET Pruning(s)
                PROVE  FitsWithout(s, P)
    BY DEF CapacityInv
  <2>1. MemoryTypes
    BY MemoryInitTypes
  <2>2. DOMAIN memories = {}
    BY DEF MemoryInit
  <2>3. Spared(s, P) = {}
    BY <2>2 DEF Spared, RowsOf
  <2>. QED  BY <2>1, <2>3, SparedAreFinite, FS_EmptySet, SizesAssumption DEF FitsWithout
<1>2. MemoryTypes /\ CapacityInv /\ [MemoryNext]_memoryVars => CapacityInv'
  BY CapacityStep
<1>3. MemoryTypes /\ CapacityInv => CapacityHolds
  <2>. SUFFICES ASSUME MemoryTypes, CapacityInv, NEW s \in Scopes
                PROVE  Excess(s) <= Cardinality(Growing(s))
    BY DEF CapacityHolds
  <2>1. FitsWithout(s, {})
    BY DEF CapacityInv
  <2>2. Spared(s, {}) = RowsOf(s) /\ Growing(s) \ {} = Growing(s)
    BY DEF Spared
  <2>3. Cardinality(RowsOf(s)) \in Nat /\ Cardinality(Growing(s)) \in Nat
    BY <2>2, SparedAreFinite
  <2>. QED  BY <2>1, <2>2, <2>3, SizesAssumption DEF FitsWithout, Excess
<1>. QED  BY <1>1, <1>2, <1>3, MemoryTypeCorrect, PTL DEF MemorySpec

-----------------------------------------------------------------------------
(* The workers' steps: their types, what they cost and what they say at the end. *)

Pcs == {"idle", "recall", "think", "invoke", "count", "counting", "conclude", "learn",
        "tell", "told", "over"}
Endings == {"none", "failed", "broken", "approved", "unapproved", "answered"}
Invocations == [invocations : Nat, failures : Nat]
Ran == [skill : Skills, failed : BOOLEAN]

StepState ==
  [pc : Pcs, phase : {"draft", "review", "revise"}, objective : Objectives \cup {Trouble},
   reviewed : BOOLEAN, round : Nat, iteration : Nat, kit : SUBSET Skills, left : Int,
   tally : Seq(Ran), seen : Invocations \cup {<<>>}, used : BOOLEAN, todo : Seq(Lesson),
   recalled : SUBSET Ids, met : BOOLEAN, asked : Nat, draft : Nat, judged : Nat,
   outcome : Endings]

\* While skills are counted there are some to count.
Counting(r) == /\ r.pc \in {"count", "counting"} => r.tally # <<>>
               /\ r.pc = "counting" => r.seen \in Invocations

\* The turns of n runs of an agent, each with its closing question.
Budget(n) == (MaxIterations + 1) * n
Whole == Budget(1 + 2 * MaxRounds)

\* The runs of an agent that are over: the draft, then two for each round.
RunsOver(r) == IF r.phase = "draft" THEN 0
               ELSE IF r.phase = "review" THEN 2 * r.round - 1 ELSE 2 * r.round

Costs(r) ==
  /\ r.pc \in {"recall", "think", "invoke", "count", "counting", "conclude", "learn"}
       /\ r.phase # "draft" => r.round \in 1..MaxRounds
  /\ r.pc = "recall" => r.asked <= Budget(RunsOver(r))
  /\ r.pc \in {"think", "invoke", "count", "counting", "conclude"} =>
       r.iteration <= MaxIterations /\ r.asked <= Budget(RunsOver(r)) + r.iteration
  /\ r.pc = "think" => r.iteration < MaxIterations
  /\ r.pc = "learn" => r.asked <= Budget(RunsOver(r) + 1)
  /\ r.pc \in {"idle", "tell", "told", "over"} => r.asked <= Whole

Stands(r) ==
  /\ r.outcome = "approved" => r.judged = r.draft
  /\ r.outcome = "unapproved" => /\ r.round = MaxRounds
                                 /\ r.draft = MaxRounds + 1 /\ r.judged = MaxRounds

Says(r) ==
  IF r.pc \in {"tell", "told", "over"} THEN Stands(r)
  ELSE /\ r.outcome = "none"
       /\ r.phase = "draft" => r.draft = 0
       /\ r.phase = "review" => r.draft = r.round
       /\ r.phase = "revise" => r.draft = r.round /\ r.judged = r.round

GoodStep(r) == r \in StepState /\ Counting(r) /\ Costs(r) /\ Says(r)

AgentInv ==
  /\ MemoryTypes
  /\ DOMAIN skills \subseteq Skills /\ skills \in [DOMAIN skills -> Invocations]
  /\ delivered \in Nat
  /\ step \in [Clients -> StepState]
  /\ \A w \in Clients : GoodStep(step[w])

-----------------------------------------------------------------------------

LEMMA BudgetGrows ==
  ASSUME NEW n \in Nat
  PROVE  /\ Budget(n) \in Nat
         /\ Budget(n + 1) = Budget(n) + MaxIterations + 1
<1>. DEFINE k == MaxIterations + 1
<1>1. k \in Nat
  BY BoundsOfAgents
<1>. HIDE DEF k
<1>2. k * n \in Nat /\ k * (n + 1) = k * n + k
  BY <1>1
<1>. QED  BY <1>1, <1>2, BoundsOfAgents DEF Budget, k

LEMMA BudgetIsMonotone ==
  ASSUME NEW m \in Nat, NEW n \in Nat, m <= n
  PROVE  Budget(m) <= Budget(n)
<1>. DEFINE k == MaxIterations + 1
<1>1. k \in Nat /\ n - m \in Nat
  BY BoundsOfAgents
<1>. HIDE DEF k
<1>2. k * (n - m) \in Nat /\ k * m \in Nat /\ k * n \in Nat
  BY <1>1
<1>3. k * n = k * m + k * (n - m)
  BY <1>1
<1>. QED  BY <1>2, <1>3 DEF Budget, k

\* What a step has cost so far is within what it may cost.
LEMMA CostsFit ==
  ASSUME NEW r, GoodStep(r)
  PROVE  /\ r.asked \in Nat /\ r.asked <= Whole /\ Whole \in Nat
         /\ r.pc \in {"recall", "think", "invoke", "count", "counting", "conclude", "learn"} =>
              /\ RunsOver(r) \in Nat /\ Budget(RunsOver(r)) \in Nat
              /\ Budget(RunsOver(r) + 1) = Budget(RunsOver(r)) + MaxIterations + 1
              /\ Budget(RunsOver(r) + 1) <= Whole
<1>0. /\ MaxIterations \in Nat /\ MaxRounds \in Nat /\ r.asked \in Nat /\ r.round \in Nat
      /\ r.iteration \in Nat /\ r.phase \in {"draft", "review", "revise"} /\ r.pc \in Pcs
  BY BoundsOfAgents DEF GoodStep, StepState
<1>1. 1 + 2 * MaxRounds \in Nat /\ Whole \in Nat
  BY <1>0, BudgetGrows DEF Whole
<1>2. CASE r.pc \in {"recall", "think", "invoke", "count", "counting", "conclude", "learn"}
  <2>1. RunsOver(r) \in Nat /\ RunsOver(r) + 1 <= 1 + 2 * MaxRounds
    BY <1>0, <1>2 DEF RunsOver, GoodStep, Costs
  <2>2. /\ Budget(RunsOver(r)) \in Nat
        /\ Budget(RunsOver(r) + 1) = Budget(RunsOver(r)) + MaxIterations + 1
    BY <2>1, BudgetGrows
  <2>3. Budget(RunsOver(r) + 1) <= Whole
    BY <1>1, <2>1, BudgetIsMonotone DEF Whole
  <2>4. r.asked <= Budget(RunsOver(r) + 1)
    BY <1>0, <1>2, <2>2 DEF GoodStep, Costs
  <2>. QED  BY <1>0, <1>1, <2>1, <2>2, <2>3, <2>4
<1>3. CASE r.pc \notin {"recall", "think", "invoke", "count", "counting", "conclude", "learn"}
  BY <1>0, <1>1, <1>3 DEF GoodStep, Costs, Pcs
<1>. QED  BY <1>2, <1>3

\* A worker's step is now r, and that is a good one.
Becomes(w, r) == GoodStep(r) /\ step' = [step EXCEPT ![w] = r]

LEMMA WorkerMoved ==
  ASSUME AgentInv, NEW w \in Clients, NEW r, Becomes(w, r)
  PROVE  step' \in [Clients -> StepState] /\ \A v \in Clients : GoodStep(step'[v])
BY DEF AgentInv, Becomes, GoodStep

LEMMA NoStepIsAStep ==
  /\ NoStep \in StepState /\ NoStep.phase = "draft" /\ NoStep.draft = 0
  /\ NoStep.outcome = "none" /\ NoStep.asked = 0 /\ NoStep.pc = "idle"
<1>1. <<>> \in Seq(Ran) /\ <<>> \in Seq(Lesson)
  BY EmptySeq
<1>. QED  BY <1>1 DEF NoStep, StepState, Pcs, Endings

\* A step that ends without a verdict, or with the one that it has.
LEMMA StepsEnd ==
  ASSUME AgentInv, NEW w \in Clients, NEW o \in Endings, Ends(w, o),
         o \in {"approved", "unapproved"} => /\ step[w].pc = "told" /\ o = step[w].outcome
  PROVE  \E r : Becomes(w, r)
<1>. DEFINE old == step[w]
            r == [NoStep EXCEPT !.pc = "over", !.outcome = o, !.asked = old.asked,
                                !.round = old.round, !.draft = old.draft, !.judged = old.judged]
<1>0. GoodStep(old) /\ old \in StepState
  BY DEF AgentInv, GoodStep
<1>. HIDE DEF old
<1>2. /\ r \in StepState /\ r.pc = "over" /\ r.outcome = o /\ r.asked = old.asked
      /\ r.round = old.round /\ r.draft = old.draft /\ r.judged = old.judged
  BY <1>0, NoStepIsAStep DEF StepState, Pcs
<1>3. step' = [step EXCEPT ![w] = r]
  BY DEF Ends, old
<1>. HIDE DEF r
<1>4. Counting(r)
  BY <1>2 DEF Counting
<1>5. Costs(r)
  BY <1>0, <1>2, CostsFit DEF Costs
<1>6. Says(r)
  BY <1>0, <1>2 DEF Says, Stands, GoodStep, old
<1>. QED  BY <1>2, <1>3, <1>4, <1>5, <1>6 DEF Becomes, GoodStep

-----------------------------------------------------------------------------
(* Each action of a worker leaves it with a good step. *)

Running == {"recall", "think", "invoke", "count", "counting", "conclude", "learn"}

LEMMA OldStep ==
  ASSUME AgentInv, NEW w \in Clients
  PROVE  /\ GoodStep(step[w]) /\ step[w] \in StepState
         /\ MaxIterations \in Nat \ {0} /\ MaxRounds \in Nat \ {0}
         /\ Agent(w) \in Agents /\ Agents \subseteq Scopes /\ Skills \subseteq Scopes /\ Flow \in Scopes
         /\ Trouble \in Texts /\ Objectives \subseteq Texts
BY ScopesOfAgents, BoundsOfAgents DEF AgentInv, GoodStep, Agent, Agents

LEMMA Delivers == ASSUME AgentInv, NEW w \in Clients, Deliver(w) PROVE \E r : Becomes(w, r)
<1>. DEFINE job == Jobs[delivered + 1]
            r == [NoStep EXCEPT !.pc = "recall", !.objective = job.objective, !.reviewed = job.reviewed]
            f == [NoStep EXCEPT !.pc = "over", !.outcome = "failed"]
<1>0. job.objective \in Objectives /\ job.reviewed \in BOOLEAN
  <2>1. delivered + 1 \in 1..Len(Jobs)
    BY BoundsOfAgents, LenProperties DEF Deliver, AgentInv
  <2>2. job \in [objective : Objectives, reviewed : BOOLEAN]
    BY <2>1, BoundsOfAgents, ElementOfSeq
  <2>. QED  BY <2>2
<1>1. step' = [step EXCEPT ![w] = r] \/ step' = [step EXCEPT ![w] = f]
  BY DEF Deliver
<1>. HIDE DEF job
<1>2. /\ r \in StepState /\ r.pc = "recall" /\ r.phase = "draft" /\ r.draft = 0
      /\ r.outcome = "none" /\ r.asked = 0
  BY <1>0, NoStepIsAStep DEF StepState, Pcs
<1>3. f \in StepState /\ f.pc = "over" /\ f.outcome = "failed" /\ f.asked = 0
  BY NoStepIsAStep DEF StepState, Pcs, Endings
<1>. HIDE DEF r, f
<1>4. Budget(0) \in Nat /\ Whole \in Nat
  <2>1. 0 \in Nat /\ 1 + 2 * MaxRounds \in Nat
    BY BoundsOfAgents
  <2>. QED  BY <2>1, BudgetGrows DEF Whole
<1>5. GoodStep(r)
  BY <1>2, <1>4 DEF GoodStep, Counting, Costs, Says, RunsOver
<1>6. GoodStep(f)
  BY <1>3, <1>4 DEF GoodStep, Counting, Costs, Says, Stands
<1>. QED  BY <1>1, <1>5, <1>6 DEF Becomes

LEMMA Recalling == ASSUME AgentInv, NEW w \in Clients, Recall(w) PROVE \E r : Becomes(w, r)
<1>. DEFINE old == step[w]
            asks(s) == IF Agent(w) \in Learning THEN Recalls(s, old.objective) ELSE {{}}
<1>1. ASSUME NEW s, NEW R \in asks(s)
      PROVE  R \in SUBSET Ids
  <2>1. Recalls(s, old.objective) \subseteq SUBSET DOMAIN memories
    BY DEF Recalls, RowsOf
  <2>. QED  BY <1>1, <2>1 DEF AgentInv, MemoryTypes, Ids
<1>2. PICK own \in asks(Agent(w)), shared \in asks(Flow) :
        step' = [step EXCEPT ![w].pc = "think", ![w].iteration = 0, ![w].used = FALSE,
                             ![w].kit = SkillsOf[Agent(w)] \cap DOMAIN skills,
                             ![w].recalled = own \cup shared]
  BY DEF Recall
<1>. DEFINE k == SkillsOf[Agent(w)] \cap DOMAIN skills
            q == own \cup shared
            r == [old EXCEPT !.pc = "think", !.iteration = 0, !.used = FALSE, !.kit = k,
                             !.recalled = q]
<1>3. step' = [step EXCEPT ![w] = r]
  BY <1>2
<1>4. k \in SUBSET Skills /\ q \in SUBSET Ids
  BY <1>1, <1>2 DEF AgentInv
<1>5. GoodStep(old) /\ old \in StepState /\ MaxIterations \in Nat \ {0} /\ old.pc = "recall"
  BY OldStep DEF Recall, At
<1>. HIDE DEF k, q, old
<1>6. /\ r \in StepState /\ r.pc = "think" /\ r.iteration = 0 /\ r.phase = old.phase
      /\ r.round = old.round /\ r.asked = old.asked /\ r.outcome = old.outcome
      /\ r.draft = old.draft /\ r.judged = old.judged
  BY <1>4, <1>5 DEF StepState, Pcs
<1>. HIDE DEF r
<1>7. RunsOver(r) = RunsOver(old) /\ Budget(RunsOver(old)) \in Nat
  BY <1>5, <1>6, CostsFit DEF RunsOver
<1>8. GoodStep(r)
  BY <1>5, <1>6, <1>7 DEF GoodStep, Counting, Costs, Says, StepState
<1>. QED  BY <1>3, <1>8 DEF Becomes

LEMMA LessonsOfRuns ==
  ASSUME AgentInv, NEW w \in Clients
  PROVE  /\ \A s \in Skills : Fault(s) \in Lesson
         /\ \A o \in Objectives \cup {Trouble} :
              /\ Worked(Agent(w), o) \in Lesson /\ Needed(Agent(w), o) \in Lesson
              /\ Outcome(o) \in Lesson
         /\ \A met \in BOOLEAN : Taught(w, met) \in Seq(Lesson)
<1>1. /\ \A s \in Skills : Fault(s) \in Lesson
      /\ \A o \in Objectives \cup {Trouble} :
           /\ Worked(Agent(w), o) \in Lesson /\ Needed(Agent(w), o) \in Lesson
           /\ Outcome(o) \in Lesson
  BY OldStep DEF Lesson, Fault, Worked, Needed, Outcome, Kinds
<1>2. ASSUME NEW met \in BOOLEAN
      PROVE  Taught(w, met) \in Seq(Lesson)
  <2>. DEFINE o == step[w].objective
              own == IF ~ met THEN <<Needed(Agent(w), o)>>
                     ELSE IF step[w].used THEN <<Worked(Agent(w), o)>> ELSE <<>>
  <2>1. o \in Objectives \cup {Trouble} /\ step[w].todo \in Seq(Lesson)
    BY OldStep DEF StepState
  <2>2. <<Needed(Agent(w), o)>> \in Seq(Lesson) /\ <<Worked(Agent(w), o)>> \in Seq(Lesson)
        /\ <<>> \in Seq(Lesson)
    <3>1. Needed(Agent(w), o) \in Lesson /\ Worked(Agent(w), o) \in Lesson
      BY <1>1, <2>1
    <3>. HIDE DEF o
    <3>. QED  BY <3>1
  <2>3. own \in Seq(Lesson)
    BY <2>2
  <2>4. step[w].todo \o own \in Seq(Lesson)
    <3>. HIDE DEF own
    <3>. QED  BY <2>1, <2>3, ConcatProperties
  <2>5. Taught(w, met) = <<>> \/ Taught(w, met) = step[w].todo \o own
    BY DEF Taught
  <2>. QED  BY <2>2, <2>4, <2>5
<1>. QED  BY <1>1, <1>2

\* The end of a run of the agent, of whose turns there was one for the asking.
LEMMA RunsEnd ==
  ASSUME AgentInv, NEW w \in Clients, NEW met \in BOOLEAN, step' = Ending(w, met),
         step[w].pc \in {"think", "conclude"}
  PROVE  \E r : Becomes(w, r)
<1>. DEFINE old == step[w]
            t == Taught(w, met)
            a == old.asked + 1
            m == met
            q == [old EXCEPT !.pc = "learn", !.met = m, !.todo = t]
            none == 0
            r == [q EXCEPT !.asked = a, !.left = none]
<1>1. step' = [step EXCEPT ![w] = r]
  BY DEF Ending
<1>2. t \in Seq(Lesson)
  BY LessonsOfRuns
<1>3. GoodStep(old) /\ old \in StepState /\ old.asked \in Nat /\ old.iteration \in Nat
      /\ MaxIterations \in Nat \ {0} /\ old.pc \in {"think", "conclude"}
  BY OldStep DEF StepState
<1>. HIDE DEF old, t
<1>a. a \in Nat /\ a = old.asked + 1
  BY <1>3
<1>b. m \in BOOLEAN /\ none \in Int
  OBVIOUS
<1>. HIDE DEF a, m, none
<1>4. /\ r \in StepState /\ r.pc = "learn" /\ r.asked = a /\ r.phase = old.phase
      /\ r.round = old.round /\ r.outcome = old.outcome
      /\ r.draft = old.draft /\ r.judged = old.judged
  <2>1. /\ q \in StepState /\ q.pc = "learn" /\ q.asked = old.asked /\ q.phase = old.phase
        /\ q.round = old.round /\ q.outcome = old.outcome
        /\ q.draft = old.draft /\ q.judged = old.judged
    BY <1>2, <1>3, <1>b DEF StepState, Pcs
  <2>. HIDE DEF q
  <2>. QED  BY <1>a, <1>b, <2>1 DEF StepState
<1>. HIDE DEF r
<1>5. /\ RunsOver(r) = RunsOver(old) /\ Budget(RunsOver(old)) \in Nat
      /\ Budget(RunsOver(old) + 1) = Budget(RunsOver(old)) + MaxIterations + 1
  BY <1>3, <1>4, CostsFit DEF RunsOver
<1>6. r.asked <= Budget(RunsOver(r) + 1)
  BY <1>3, <1>4, <1>5, <1>a DEF GoodStep, Costs
<1>7. GoodStep(r)
  BY <1>3, <1>4, <1>6 DEF GoodStep, Counting, Costs, Says
<1>. QED  BY <1>1, <1>7 DEF Becomes

LEMMA Thinks == ASSUME AgentInv, NEW w \in Clients, Think(w) PROVE \E r : Becomes(w, r)
<1>0. step[w].pc = "think"
  BY DEF Think, At
<1>1. CASE Ends(w, "failed")
  BY <1>1, StepsEnd DEF Endings
<1>2. CASE step' = Ending(w, TRUE)
  BY <1>0, <1>2, RunsEnd
<1>3. ASSUME NEW n \in 1..MaxCalls,
             step' = [step EXCEPT ![w].asked = @ + 1, ![w].iteration = @ + 1, ![w].left = n,
                                  ![w].pc = "invoke"]
      PROVE  \E r : Becomes(w, r)
  <2>. DEFINE old == step[w]
              a == old.asked + 1
              i == old.iteration + 1
              r == [old EXCEPT !.asked = a, !.iteration = i, !.left = n, !.pc = "invoke"]
  <2>1. step' = [step EXCEPT ![w] = r]
    BY <1>3
  <2>2. GoodStep(old) /\ old \in StepState /\ old.asked \in Nat /\ old.iteration \in Nat
        /\ MaxIterations \in Nat \ {0} /\ old.pc = "think" /\ n \in Int
    BY <1>0, BoundsOfAgents, OldStep DEF StepState
  <2>. HIDE DEF old
  <2>a. a \in Nat /\ a = old.asked + 1 /\ i \in Nat /\ i = old.iteration + 1
    BY <2>2
  <2>. HIDE DEF a, i
  <2>3. /\ r \in StepState /\ r.pc = "invoke" /\ r.asked = a /\ r.phase = old.phase
        /\ r.iteration = i /\ r.round = old.round /\ r.outcome = old.outcome
        /\ r.draft = old.draft /\ r.judged = old.judged
    BY <2>2, <2>a DEF StepState, Pcs
  <2>. HIDE DEF r
  <2>4. RunsOver(r) = RunsOver(old) /\ Budget(RunsOver(old)) \in Nat
    BY <2>2, <2>3, CostsFit DEF RunsOver
  <2>5. GoodStep(r)
    BY <2>2, <2>3, <2>4, <2>a DEF GoodStep, Counting, Costs, Says
  <2>. QED  BY <2>1, <2>5 DEF Becomes
<1>. QED  BY <1>1, <1>2, <1>3 DEF Think

\* The turns of one run: neither the phase nor the cost changes.
LEMMA GoesOn ==
  ASSUME AgentInv, NEW w \in Clients, NEW r \in StepState, step' = [step EXCEPT ![w] = r],
         step[w].pc \in {"invoke", "count", "counting"},
         r.pc \in {"think", "invoke", "count", "counting", "conclude"},
         r.pc = "think" => step[w].iteration < MaxIterations, Counting(r),
         r.phase = step[w].phase, r.round = step[w].round, r.iteration = step[w].iteration,
         r.asked = step[w].asked, r.draft = step[w].draft, r.judged = step[w].judged,
         r.outcome = step[w].outcome
  PROVE  Becomes(w, r)
<1>. DEFINE old == step[w]
<1>1. GoodStep(old)
  BY OldStep
<1>2. RunsOver(r) = RunsOver(old)
  BY DEF RunsOver
<1>3. Costs(r)
  BY <1>1, <1>2 DEF GoodStep, Costs
<1>4. Says(r)
  BY <1>1 DEF GoodStep, Says
<1>. QED  BY <1>3, <1>4 DEF Becomes, GoodStep

LEMMA CallsFollow ==
  ASSUME NEW w, NEW left
  PROVE  /\ AfterCalls(w, left) \in {"think", "invoke", "conclude"}
         /\ AfterCalls(w, left) = "think" => step[w].iteration < MaxIterations
BY DEF AfterCalls

LEMMA TalliesOfSkills ==
  ASSUME NEW s \in Skills, NEW t \in {Works(s)} \cup Fails(s)
  PROVE  t \in Seq(Ran) /\ t # <<>>
<1>. DEFINE p == Parts[s]
            n == Len(p)
<1>1. p \in Seq(Skills) /\ n \in Nat /\ \A k \in 1..n : p[k] \in Skills
  BY ScopesOfAgents
<1>2. \A x \in Skills : \A b \in BOOLEAN : [skill |-> x, failed |-> b] \in Ran
  BY DEF Ran
<1>. HIDE DEF p
<1>3. ASSUME NEW k \in Nat \ {0}, NEW x \in [1..k -> Ran]
      PROVE  x \in Seq(Ran) /\ x # <<>>
  <2>1. x \in Seq(Ran) /\ Len(x) = k
    BY <1>3
  <2>. QED  BY <2>1
<1>4. CASE t = Works(s)
  <2>. DEFINE x == [k \in 1..n |-> [skill |-> p[k], failed |-> FALSE]]
              last == [skill |-> s, failed |-> FALSE]
  <2>1. x \in Seq(Ran)
    <3>1. x \in [1..n -> Ran]
      BY <1>1, <1>2
    <3>. QED  BY <1>1, <3>1
  <2>2. last \in Ran
    BY <1>2
  <2>3. t = Append(x, last)
    BY <1>4 DEF Works, p
  <2>. HIDE DEF x, last
  <2>. QED  BY <2>1, <2>2, <2>3, AppendProperties
<1>5. ASSUME NEW k \in {1} \cup 1..n,
             t = [j \in 1..k |-> [skill |-> IF j < k THEN p[j] ELSE s, failed |-> j = k]]
      PROVE  t \in Seq(Ran) /\ t # <<>>
  <2>1. ASSUME NEW j \in 1..k
        PROVE  [skill |-> IF j < k THEN p[j] ELSE s, failed |-> j = k] \in Ran
    <3>1. (IF j < k THEN p[j] ELSE s) \in Skills /\ (j = k) \in BOOLEAN
      BY <1>1, <1>5
    <3>. QED  BY <1>2, <3>1
  <2>2. t \in [1..k -> Ran] /\ k \in Nat \ {0}
    BY <1>1, <1>5, <2>1
  <2>. QED  BY <1>3, <2>2
<1>6. ASSUME NEW k \in 1..n,
             t = [j \in 1..k + 1 |-> [skill |-> IF j <= k THEN p[j] ELSE s, failed |-> j >= k]]
      PROVE  t \in Seq(Ran) /\ t # <<>>
  <2>1. ASSUME NEW j \in 1..k + 1
        PROVE  [skill |-> IF j <= k THEN p[j] ELSE s, failed |-> j >= k] \in Ran
    <3>1. (IF j <= k THEN p[j] ELSE s) \in Skills /\ (j >= k) \in BOOLEAN
      BY <1>1, <1>6
    <3>. QED  BY <1>2, <3>1
  <2>2. t \in [1..k + 1 -> Ran] /\ k + 1 \in Nat \ {0}
    BY <1>1, <1>6, <2>1
  <2>. QED  BY <1>3, <2>2
<1>. QED  BY <1>4, <1>5, <1>6 DEF Fails, p

LEMMA Invokes == ASSUME AgentInv, NEW w \in Clients, Invoke(w) PROVE \E r : Becomes(w, r)
<1>. DEFINE old == step[w]
            l == old.left - 1
<1>0. old \in StepState /\ old.pc = "invoke" /\ l \in Int
  <2>1. old \in StepState /\ old.pc = "invoke"
    BY OldStep DEF Invoke, At
  <2>2. old.left \in Int
    BY <2>1 DEF StepState
  <2>. QED  BY <2>1, <2>2
<1>1. CASE step' = [step EXCEPT ![w].left = l, ![w].pc = AfterCalls(w, l)]
  <2>. DEFINE p == AfterCalls(w, l)
              r == [old EXCEPT !.left = l, !.pc = p]
  <2>1. step' = [step EXCEPT ![w] = r]
    BY <1>1
  <2>2. p \in {"think", "invoke", "conclude"} /\ (p = "think" => old.iteration < MaxIterations)
    BY CallsFollow
  <2>. HIDE DEF p, l
  <2>3. /\ r \in StepState /\ r.pc = p
        /\ r.phase = old.phase /\ r.round = old.round /\ r.iteration = old.iteration
        /\ r.asked = old.asked /\ r.draft = old.draft /\ r.judged = old.judged
        /\ r.outcome = old.outcome
    <3>1. p \in Pcs
      BY <2>2 DEF Pcs
    <3>. HIDE DEF old
    <3>. QED  BY <1>0, <3>1 DEF StepState
  <2>. HIDE DEF r
  <2>4. Counting(r)
    BY <2>2, <2>3 DEF Counting
  <2>. QED  BY <1>0, <2>1, <2>2, <2>3, <2>4, GoesOn
<1>2. ASSUME NEW s \in old.kit, NEW tally \in {Works(s)} \cup Fails(s),
             step' = [step EXCEPT ![w].left = l, ![w].pc = "count", ![w].tally = tally,
                                  ![w].used = TRUE,
                                  ![w].todo = IF tally = Works(s) THEN @ ELSE Append(@, Fault(s))]
      PROVE  \E r : Becomes(w, r)
  <2>. DEFINE d == IF tally = Works(s) THEN old.todo ELSE Append(old.todo, Fault(s))
              q == [old EXCEPT !.left = l, !.pc = "count", !.tally = tally]
              r == [q EXCEPT !.used = TRUE, !.todo = d]
  <2>1. step' = [step EXCEPT ![w] = r]
    BY <1>2
  <2>2. s \in Skills /\ tally \in Seq(Ran) /\ tally # <<>>
    <3>1. s \in Skills
      BY <1>0, <1>2 DEF StepState
    <3>. QED  BY <1>2, <3>1, TalliesOfSkills
  <2>3. d \in Seq(Lesson)
    <3>1. Fault(s) \in Lesson /\ old.todo \in Seq(Lesson)
      BY <1>0, <2>2, LessonsOfRuns DEF StepState
    <3>. QED  BY <3>1, AppendProperties
  <2>. HIDE DEF l, d
  <2>4. /\ q \in StepState /\ q.pc = "count" /\ q.tally = tally
        /\ q.phase = old.phase /\ q.round = old.round /\ q.iteration = old.iteration
        /\ q.asked = old.asked /\ q.draft = old.draft /\ q.judged = old.judged
        /\ q.outcome = old.outcome
    <3>. HIDE DEF old
    <3>. QED  BY <1>0, <2>2 DEF StepState, Pcs
  <2>. HIDE DEF q
  <2>5. /\ r \in StepState /\ r.pc = "count" /\ r.tally = tally
        /\ r.phase = old.phase /\ r.round = old.round /\ r.iteration = old.iteration
        /\ r.asked = old.asked /\ r.draft = old.draft /\ r.judged = old.judged
        /\ r.outcome = old.outcome
    <3>. HIDE DEF old
    <3>. QED  BY <2>3, <2>4 DEF StepState
  <2>. HIDE DEF r
  <2>6. Counting(r)
    BY <2>2, <2>5 DEF Counting
  <2>. QED  BY <1>0, <2>1, <2>5, <2>6, GoesOn
<1>. QED  BY <1>1, <1>2 DEF Invoke

LEMMA CountsOn ==
  ASSUME AgentInv, NEW w \in Clients, step[w].pc \in {"count", "counting"}, step' = CountNext(w)
  PROVE  \E r : Becomes(w, r)
<1>. DEFINE old == step[w]
            rest == Tail(old.tally)
            p == IF rest # <<>> THEN "count" ELSE AfterCalls(w, old.left)
            r == [old EXCEPT !.tally = rest, !.seen = <<>>, !.pc = p]
<1>1. step' = [step EXCEPT ![w] = r]
  BY DEF CountNext
<1>2. old \in StepState /\ old.tally # <<>> /\ old.tally \in Seq(Ran)
  BY OldStep DEF GoodStep, Counting, StepState
<1>3. rest \in Seq(Ran)
  BY <1>2, HeadTailProperties
<1>4. /\ p \in {"think", "invoke", "conclude", "count"}
      /\ p = "think" => old.iteration < MaxIterations
      /\ p = "count" => rest # <<>>
  BY CallsFollow
<1>. HIDE DEF rest, p
<1>5. /\ r \in StepState /\ r.pc = p /\ r.tally = rest
      /\ r.phase = old.phase /\ r.round = old.round /\ r.iteration = old.iteration
      /\ r.asked = old.asked /\ r.draft = old.draft /\ r.judged = old.judged
      /\ r.outcome = old.outcome
  <2>1. p \in Pcs
    BY <1>4 DEF Pcs
  <2>. HIDE DEF old
  <2>. QED  BY <1>2, <1>3, <2>1 DEF StepState
<1>. HIDE DEF r
<1>6. Counting(r)
  BY <1>4, <1>5 DEF Counting
<1>. QED  BY <1>1, <1>4, <1>5, <1>6, GoesOn

\* What the step loads or writes is an existing row.
LEMMA RowsOfSkills ==
  ASSUME AgentInv, NEW w \in Clients, step[w].pc \in {"count", "counting"}
  PROVE  Head(step[w].tally) \in Ran
<1>1. step[w].tally # <<>> /\ step[w].tally \in Seq(Ran)
  BY OldStep DEF GoodStep, Counting, StepState
<1>. QED  BY <1>1, HeadTailProperties

LEMMA LoadsCount == ASSUME AgentInv, NEW w \in Clients, LoadCount(w) PROVE \E r : Becomes(w, r)
<1>. DEFINE old == step[w]
            s == Head(old.tally).skill
<1>0. old.pc = "count" /\ old \in StepState /\ old.tally # <<>>
  BY OldStep DEF LoadCount, At, GoodStep, Counting
<1>1. CASE s \in DOMAIN skills
  <2>. DEFINE c == skills[s]
              r == [old EXCEPT !.pc = "counting", !.seen = c]
  <2>1. step' = [step EXCEPT ![w] = r]
    BY <1>1 DEF LoadCount
  <2>2. c \in Invocations
    BY <1>1 DEF AgentInv
  <2>. HIDE DEF c
  <2>3. /\ r \in StepState /\ r.pc = "counting" /\ r.tally = old.tally /\ r.seen = c
        /\ r.phase = old.phase /\ r.round = old.round /\ r.iteration = old.iteration
        /\ r.asked = old.asked /\ r.draft = old.draft /\ r.judged = old.judged
        /\ r.outcome = old.outcome
    <3>. HIDE DEF old
    <3>. QED  BY <1>0, <2>2 DEF StepState, Pcs
  <2>. HIDE DEF r
  <2>4. Counting(r)
    BY <1>0, <2>2, <2>3 DEF Counting
  <2>. QED  BY <1>0, <2>1, <2>3, <2>4, GoesOn
<1>2. CASE s \notin DOMAIN skills
  BY <1>0, <1>2, CountsOn DEF LoadCount
<1>. QED  BY <1>1, <1>2

LEMMA WritesCount ==
  ASSUME AgentInv, NEW w \in Clients, WriteCount(w)
  PROVE  /\ \E r : Becomes(w, r)
         /\ DOMAIN skills' = DOMAIN skills /\ skills' \in [DOMAIN skills' -> Invocations]
<1>. DEFINE t == Head(step[w].tally)
            seen == step[w].seen
            n == Counted(skills[t.skill], seen, t.failed)
<1>0. step[w].pc = "counting" /\ seen \in Invocations
  BY OldStep DEF WriteCount, At, GoodStep, Counting
<1>1. CASE t.skill \in DOMAIN skills
  <2>1. skills' = [skills EXCEPT ![t.skill] = n] /\ step' = CountNext(w)
    BY <1>1 DEF WriteCount
  <2>2. n \in Invocations
    <3>1. skills[t.skill] \in Invocations
      BY <1>1 DEF AgentInv
    <3>. HIDE DEF seen
    <3>2. seen.invocations + 1 \in Nat /\ seen.failures + 1 \in Nat /\ skills[t.skill].failures \in Nat
      BY <1>0, <3>1 DEF Invocations
    <3>. QED  BY <3>2 DEF Counted, Invocations
  <2>. HIDE DEF n, t
  <2>3. DOMAIN skills' = DOMAIN skills /\ skills' \in [DOMAIN skills -> Invocations]
    BY <2>1, <2>2 DEF AgentInv
  <2>. QED  BY <1>0, <2>1, <2>3, CountsOn
<1>2. CASE t.skill \notin DOMAIN skills
  <2>1. Ends(w, "broken") /\ UNCHANGED skills
    BY <1>2 DEF WriteCount
  <2>. QED  BY <2>1, StepsEnd DEF Endings, AgentInv
<1>. QED  BY <1>1, <1>2

LEMMA AsksFinally == ASSUME AgentInv, NEW w \in Clients, FinalAnswer(w) PROVE \E r : Becomes(w, r)
BY RunsEnd DEF FinalAnswer, At

-----------------------------------------------------------------------------
(* What a run taught, and the review. *)

\* A step whose course stays as it is.
LEMMA SameCourse ==
  ASSUME AgentInv, NEW w \in Clients, NEW r \in StepState, step' = [step EXCEPT ![w] = r],
         r.pc = step[w].pc, r.tally = step[w].tally, r.seen = step[w].seen,
         r.phase = step[w].phase, r.round = step[w].round, r.iteration = step[w].iteration,
         r.asked = step[w].asked, r.draft = step[w].draft, r.judged = step[w].judged,
         r.outcome = step[w].outcome
  PROVE  Becomes(w, r)
<1>1. GoodStep(step[w])
  BY OldStep
<1>2. RunsOver(r) = RunsOver(step[w])
  BY DEF RunsOver
<1>3. Counting(r) /\ Costs(r) /\ Says(r)
  BY <1>1, <1>2 DEF GoodStep, Counting, Costs, Says, Stands
<1>. QED  BY <1>3 DEF Becomes, GoodStep

LEMMA Learns ==
  ASSUME AgentInv, NEW w \in Clients, Learn(w)
  PROVE  /\ \E r : Becomes(w, r)
         /\ Head(step[w].todo) \in Lesson
<1>. DEFINE old == step[w]
            rest == Tail(old.todo)
            r == [old EXCEPT !.todo = rest]
<1>0. old \in StepState /\ old.todo \in Seq(Lesson) /\ old.todo # <<>>
  BY OldStep DEF Learn, StepState
<1>1. step' = [step EXCEPT ![w] = r]
  BY DEF Learn
<1>2. rest \in Seq(Lesson) /\ Head(old.todo) \in Lesson
  BY <1>0, HeadTailProperties
<1>. HIDE DEF rest
<1>3. /\ r \in StepState /\ r.pc = old.pc /\ r.tally = old.tally /\ r.seen = old.seen
      /\ r.phase = old.phase /\ r.round = old.round /\ r.iteration = old.iteration
      /\ r.asked = old.asked /\ r.draft = old.draft /\ r.judged = old.judged
      /\ r.outcome = old.outcome
  <2>. HIDE DEF old
  <2>. QED  BY <1>0, <1>2 DEF StepState
<1>. HIDE DEF r
<1>. QED  BY <1>1, <1>2, <1>3, SameCourse

LEMMA Trusts ==
  ASSUME AgentInv, NEW w \in Clients, Trust(w)
  PROVE  /\ \E r : Becomes(w, r)
         /\ step[w].recalled \in SUBSET Ids
<1>. DEFINE old == step[w]
            r == [old EXCEPT !.recalled = {}]
<1>0. old \in StepState /\ old.recalled \in SUBSET Ids
  BY OldStep DEF StepState
<1>1. step' = [step EXCEPT ![w] = r]
  BY DEF Trust
<1>3. /\ r \in StepState /\ r.pc = old.pc /\ r.tally = old.tally /\ r.seen = old.seen
      /\ r.phase = old.phase /\ r.round = old.round /\ r.iteration = old.iteration
      /\ r.asked = old.asked /\ r.draft = old.draft /\ r.judged = old.judged
      /\ r.outcome = old.outcome
  <2>. HIDE DEF old
  <2>. QED  BY <1>0 DEF StepState
<1>. HIDE DEF r
<1>. QED  BY <1>0, <1>1, <1>3, SameCourse

LEMMA Loses == ASSUME AgentInv, NEW w \in Clients, Lost(w) PROVE \E r : Becomes(w, r)
BY StepsEnd DEF Lost, Endings

\* What is known of a step whose agent's run is over.
LEMMA RunIsOver ==
  ASSUME AgentInv, NEW w \in Clients, step[w].pc = "learn"
  PROVE  /\ GoodStep(step[w]) /\ step[w] \in StepState /\ step[w].round \in Nat
         /\ step[w].phase # "draft" => step[w].round \in 1..MaxRounds
         /\ step[w].asked \in Nat /\ Whole \in Nat /\ step[w].asked <= Whole
         /\ step[w].asked <= Budget(RunsOver(step[w]) + 1)
         /\ step[w].outcome = "none"
         /\ step[w].phase = "draft" => step[w].draft = 0
         /\ step[w].phase = "review" => step[w].draft = step[w].round
         /\ step[w].phase = "revise" => /\ step[w].draft = step[w].round
                                        /\ step[w].judged = step[w].round
<1>1. GoodStep(step[w]) /\ step[w] \in StepState
  BY OldStep
<1>2. step[w].asked \in Nat /\ Whole \in Nat /\ step[w].asked <= Whole
  BY <1>1, CostsFit
<1>3. step[w].round \in Nat
  BY <1>1 DEF StepState
<1>4. /\ step[w].phase # "draft" => step[w].round \in 1..MaxRounds
      /\ step[w].asked <= Budget(RunsOver(step[w]) + 1)
  BY <1>1 DEF GoodStep, Costs
<1>5. /\ step[w].outcome = "none"
      /\ step[w].phase = "draft" => step[w].draft = 0
      /\ step[w].phase = "review" => step[w].draft = step[w].round
      /\ step[w].phase = "revise" => /\ step[w].draft = step[w].round
                                     /\ step[w].judged = step[w].round
  BY <1>1 DEF GoodStep, Says
<1>. QED  BY <1>1, <1>2, <1>3, <1>4, <1>5

\* The author's text goes to the reviewer for the nth time.
LEMMA GoesToReview ==
  ASSUME AgentInv, NEW w \in Clients, step[w].pc = "learn", NEW n \in 1..MaxRounds,
         \/ step[w].phase = "draft" /\ n = 1
         \/ step[w].phase = "revise" /\ n = step[w].round + 1,
         step' = [step EXCEPT ![w].phase = "review", ![w].pc = "recall", ![w].round = n,
                              ![w].draft = @ + 1]
  PROVE  \E r : Becomes(w, r)
<1>. DEFINE old == step[w]
            d == old.draft + 1
            r == [old EXCEPT !.phase = "review", !.pc = "recall", !.round = n, !.draft = d]
<1>1. step' = [step EXCEPT ![w] = r]
  OBVIOUS
<1>2. /\ old \in StepState /\ old.asked \in Nat /\ old.asked <= Budget(RunsOver(old) + 1)
      /\ old.outcome = "none" /\ d = n /\ old.round \in Nat
  BY RunIsOver
<1>3. n \in Nat /\ MaxRounds \in Nat
  BY BoundsOfAgents
<1>4. RunsOver(old) + 1 = 2 * n - 1
  BY <1>2, <1>3 DEF RunsOver
<1>. HIDE DEF d
<1>5. /\ r \in StepState /\ r.pc = "recall" /\ r.phase = "review" /\ r.round = n /\ r.draft = d
      /\ r.asked = old.asked /\ r.outcome = old.outcome
  <2>. HIDE DEF old
  <2>. QED  BY <1>2, <1>3 DEF StepState, Pcs
<1>. HIDE DEF r
<1>6. Costs(r)
  <2>1. RunsOver(r) = RunsOver(old) + 1
    BY <1>4, <1>5 DEF RunsOver
  <2>. QED  BY <1>2, <1>5, <2>1 DEF Costs
<1>7. Counting(r) /\ Says(r)
  BY <1>2, <1>5 DEF Counting, Says
<1>. QED  BY <1>1, <1>5, <1>6, <1>7 DEF Becomes, GoodStep

\* The step has its text, and tells it.
LEMMA Finishes ==
  ASSUME AgentInv, NEW w \in Clients, step[w].pc = "learn", NEW r \in StepState,
         step' = [step EXCEPT ![w] = r], r.pc = "tell", r.asked = step[w].asked, Stands(r)
  PROVE  Becomes(w, r)
<1>1. Counting(r)
  BY DEF Counting
<1>2. Costs(r)
  BY RunIsOver DEF Costs
<1>3. Says(r)
  BY DEF Says
<1>. QED  BY <1>1, <1>2, <1>3 DEF Becomes, GoodStep

LEMMA Drafts == ASSUME AgentInv, NEW w \in Clients, Drafted(w) PROVE \E r : Becomes(w, r)
<1>. DEFINE old == step[w]
<1>0. old.pc = "learn" /\ old.phase = "draft"
  BY DEF Drafted, Reflected, At
<1>1. CASE Review(w, 1)
  <2>1. CASE Reviewer \in hired
    <3>1. 1 \in 1..MaxRounds
      BY BoundsOfAgents
    <3>2. step' = [step EXCEPT ![w].phase = "review", ![w].pc = "recall", ![w].round = 1,
                               ![w].draft = @ + 1]
      BY <1>1, <2>1 DEF Review
    <3>. QED  BY <1>0, <3>1, <3>2, GoesToReview
  <2>2. CASE Reviewer \notin hired
    BY <1>1, <2>2, StepsEnd DEF Review, Endings
  <2>. QED  BY <2>1, <2>2
<1>2. CASE Goes(w, "tell")
  <2>. DEFINE r == [old EXCEPT !.pc = "tell"]
  <2>1. step' = [step EXCEPT ![w] = r]
    BY <1>2 DEF Goes
  <2>2. old \in StepState /\ old.outcome = "none"
    BY <1>0, RunIsOver
  <2>3. r \in StepState /\ r.pc = "tell" /\ r.asked = old.asked /\ r.outcome = old.outcome
    <3>. HIDE DEF old
    <3>. QED  BY <2>2 DEF StepState, Pcs
  <2>. HIDE DEF r
  <2>4. Stands(r)
    BY <2>2, <2>3 DEF Stands
  <2>. QED  BY <1>0, <2>1, <2>3, <2>4, Finishes
<1>. QED  BY <1>1, <1>2 DEF Drafted

LEMMA Judges == ASSUME AgentInv, NEW w \in Clients, Judged(w) PROVE \E r : Becomes(w, r)
<1>. DEFINE old == step[w]
            d == old.draft
<1>0. old.pc = "learn" /\ old.phase = "review"
  BY DEF Judged, Reflected, At
<1>1. /\ GoodStep(old) /\ old \in StepState /\ old.round \in 1..MaxRounds /\ d = old.round
      /\ old.asked \in Nat /\ old.asked <= Budget(RunsOver(old) + 1) /\ old.outcome = "none"
  BY <1>0, RunIsOver
<1>2. d \in Nat /\ old.round \in Nat
  BY <1>1 DEF StepState
<1>3. CASE step' = [step EXCEPT ![w].pc = "tell", ![w].judged = old.draft,
                                ![w].outcome = "approved"]
  <2>. DEFINE r == [old EXCEPT !.pc = "tell", !.judged = d, !.outcome = "approved"]
  <2>1. step' = [step EXCEPT ![w] = r]
    BY <1>3
  <2>. HIDE DEF d
  <2>2. r \in StepState /\ r.pc = "tell" /\ r.asked = old.asked /\ r.outcome = "approved"
        /\ r.judged = d /\ r.draft = old.draft
    <3>. HIDE DEF old
    <3>. QED  BY <1>1, <1>2 DEF StepState, Pcs, Endings
  <2>. HIDE DEF r
  <2>3. Stands(r)
    BY <2>2 DEF Stands, d
  <2>. QED  BY <1>0, <2>1, <2>2, <2>3, Finishes
<1>4. CASE step' = [step EXCEPT ![w].pc = "recall", ![w].phase = "revise",
                                ![w].judged = old.draft]
  <2>. DEFINE r == [old EXCEPT !.pc = "recall", !.phase = "revise", !.judged = d]
  <2>1. step' = [step EXCEPT ![w] = r]
    BY <1>4
  <2>. HIDE DEF d
  <2>2. /\ r \in StepState /\ r.pc = "recall" /\ r.phase = "revise" /\ r.asked = old.asked
        /\ r.outcome = old.outcome /\ r.judged = d /\ r.draft = old.draft /\ r.round = old.round
    <3>. HIDE DEF old
    <3>. QED  BY <1>1, <1>2 DEF StepState, Pcs
  <2>. HIDE DEF r
  <2>3. RunsOver(r) = RunsOver(old) + 1
    BY <1>0, <1>2, <2>2 DEF RunsOver
  <2>4. Costs(r)
    BY <1>1, <2>2, <2>3 DEF Costs
  <2>5. Counting(r) /\ Says(r)
    BY <1>1, <2>2 DEF Counting, Says, d
  <2>. QED  BY <2>1, <2>2, <2>4, <2>5 DEF Becomes, GoodStep
<1>. QED  BY <1>3, <1>4 DEF Judged

LEMMA Revises == ASSUME AgentInv, NEW w \in Clients, Revised(w) PROVE \E r : Becomes(w, r)
<1>. DEFINE old == step[w]
            d == old.draft + 1
<1>0. old.pc = "learn" /\ old.phase = "revise"
  BY DEF Revised, Reflected, At
<1>1. /\ old \in StepState /\ old.round \in 1..MaxRounds /\ MaxRounds \in Nat
      /\ old.draft = old.round /\ old.judged = old.round
  BY <1>0, RunIsOver, BoundsOfAgents
<1>2. CASE old.round < MaxRounds
  <2>. DEFINE n == old.round + 1
  <2>1. n \in 1..MaxRounds
    BY <1>1, <1>2
  <2>2. step' = [step EXCEPT ![w].phase = "review", ![w].pc = "recall", ![w].round = n,
                             ![w].draft = @ + 1]
    BY <1>2 DEF Revised
  <2>. QED  BY <1>0, <2>1, <2>2, GoesToReview
<1>3. CASE ~ (old.round < MaxRounds)
  <2>. DEFINE r == [old EXCEPT !.pc = "tell", !.draft = d, !.outcome = "unapproved"]
  <2>1. step' = [step EXCEPT ![w] = r]
    BY <1>3 DEF Revised
  <2>2. old.round = MaxRounds /\ d \in Nat /\ d = MaxRounds + 1 /\ old.judged = MaxRounds
    BY <1>1, <1>3
  <2>. HIDE DEF d
  <2>3. /\ r \in StepState /\ r.pc = "tell" /\ r.asked = old.asked /\ r.outcome = "unapproved"
        /\ r.judged = old.judged /\ r.draft = d /\ r.round = old.round
    <3>. HIDE DEF old
    <3>. QED  BY <1>1, <2>2 DEF StepState, Pcs, Endings
  <2>. HIDE DEF r
  <2>4. Stands(r)
    BY <2>2, <2>3 DEF Stands
  <2>. QED  BY <1>0, <2>1, <2>3, <2>4, Finishes
<1>. QED  BY <1>2, <1>3

LEMMA Tells ==
  ASSUME AgentInv, NEW w \in Clients, Tell(w)
  PROVE  /\ \E r : Becomes(w, r)
         /\ Outcome(step[w].objective) \in Lesson
<1>. DEFINE old == step[w]
            r == [old EXCEPT !.pc = "told"]
<1>0. GoodStep(old) /\ old \in StepState /\ old.pc = "tell"
  BY OldStep DEF Tell, At
<1>1. step' = [step EXCEPT ![w] = r]
  BY DEF Tell, Goes
<1>2. old.objective \in Objectives \cup {Trouble}
  BY <1>0 DEF StepState
<1>3. /\ r \in StepState /\ r.pc = "told" /\ r.asked = old.asked /\ r.outcome = old.outcome
      /\ r.judged = old.judged /\ r.draft = old.draft /\ r.round = old.round
  <2>. HIDE DEF old
  <2>. QED  BY <1>0 DEF StepState, Pcs
<1>. HIDE DEF r
<1>4. Counting(r) /\ Costs(r) /\ Says(r)
  BY <1>0, <1>3 DEF GoodStep, Counting, Costs, Says, Stands
<1>. QED  BY <1>1, <1>2, <1>3, <1>4, LessonsOfRuns DEF Becomes, GoodStep

LEMMA Tolds == ASSUME AgentInv, NEW w \in Clients, Told(w) PROVE \E r : Becomes(w, r)
<1>. DEFINE o == IF step[w].reviewed THEN step[w].outcome ELSE "answered"
<1>1. step[w].pc = "told" /\ step[w].outcome \in Endings
  BY OldStep DEF Told, At, StepState
<1>2. o \in Endings /\ (o \in {"approved", "unapproved"} => o = step[w].outcome)
  BY <1>1 DEF Endings
<1>3. Ends(w, o)
  BY DEF Told
<1>. QED  BY <1>1, <1>2, <1>3, StepsEnd

-----------------------------------------------------------------------------
(* What the workers do to the memory is what the memory allows anyone to do. *)

LEMMA AgentsUseMemoryStep ==
  ASSUME AgentInv, [Next]_vars
  PROVE  [MemoryNext]_memoryVars
<1>1. CASE vars' = vars
  BY <1>1 DEF vars
<1>2. ASSUME NEW w \in Clients, Deliver(w) \/ Runs(w)
      PROVE  [MemoryNext]_memoryVars
  <2>1. CASE \/ Deliver(w) \/ Recall(w) \/ Think(w) \/ Invoke(w) \/ LoadCount(w) \/ WriteCount(w)
             \/ FinalAnswer(w) \/ Drafted(w) \/ Judged(w) \/ Revised(w)
    BY <2>1 DEF Deliver, Recall, Think, Invoke, LoadCount, WriteCount, FinalAnswer, Drafted, Judged,
                Revised
  <2>2. CASE Learn(w)
    <3>1. Head(step[w].todo) \in Lesson
      BY <2>2, Learns
    <3>. QED  BY <2>2, <3>1 DEF Learn, MemoryNext, Begin
  <2>3. CASE Trust(w)
    <3>1. step[w].recalled \in SUBSET Ids
      BY <2>3, Trusts
    <3>2. \E delta \in {Proved, -Failed} : Fetch(w, step[w].recalled, delta)
      BY <2>3 DEF Trust
    <3>. QED  BY <3>1, <3>2 DEF MemoryNext, Begin
  <2>4. CASE Lost(w)
    BY <2>4 DEF Lost, MemoryNext
  <2>5. CASE Tell(w)
    <3>1. Outcome(step[w].objective) \in Lesson
      BY <2>5, Tells
    <3>. QED  BY <2>5, <3>1 DEF Tell, MemoryNext, Begin
  <2>6. CASE Told(w)
    BY <2>6 DEF Told, MemoryNext
  <2>7. CASE Remember(w)
    BY <2>7 DEF Remember, MemoryNext
  <2>. QED  BY <1>2, <2>1, <2>2, <2>3, <2>4, <2>5, <2>6, <2>7 DEF Runs
<1>3. CASE Remove
  <2>1. CASE UNCHANGED memoryVars
    BY <2>1
  <2>2. CASE \E s \in Scopes : Forget(s)
    BY <2>2 DEF MemoryNext
  <2>3. ASSUME NEW i \in DOMAIN memories, ForgetEntry(i)
        PROVE  MemoryNext
    <3>1. i \in Ids
      BY DEF AgentInv, MemoryTypes, Ids
    <3>. QED  BY <2>3, <3>1 DEF MemoryNext
  <2>. QED  BY <1>3, <2>1, <2>2, <2>3 DEF Remove
<1>. QED  BY <1>1, <1>2, <1>3 DEF Next

LEMMA AgentInvInit == Init => AgentInv
<1>. SUFFICES ASSUME Init PROVE AgentInv
  OBVIOUS
<1>1. MemoryTypes
  BY MemoryInitTypes DEF Init
<1>2. DOMAIN skills \subseteq Skills /\ skills \in [DOMAIN skills -> Invocations] /\ delivered \in Nat
  BY DEF Init, Invocations
<1>3. GoodStep(NoStep)
  <2>1. Whole \in Nat
    <3>1. 1 + 2 * MaxRounds \in Nat
      BY BoundsOfAgents
    <3>. QED  BY <3>1, BudgetGrows DEF Whole
  <2>. QED  BY <2>1, NoStepIsAStep DEF GoodStep, Counting, Costs, Says
<1>4. step \in [Clients -> StepState] /\ \A w \in Clients : GoodStep(step[w])
  BY <1>3, NoStepIsAStep DEF Init
<1>. QED  BY <1>1, <1>2, <1>4 DEF AgentInv

LEMMA AgentInvStep == AgentInv /\ [Next]_vars => AgentInv'
<1>. SUFFICES ASSUME AgentInv, [Next]_vars PROVE AgentInv'
  OBVIOUS
<1>1. MemoryTypes'
  BY AgentsUseMemoryStep, MemoryTypesStep DEF AgentInv
<1>2. CASE vars' = vars
  <2>1. skills' = skills /\ step' = step /\ delivered' = delivered
    BY <1>2 DEF vars, loopVars
  <2>. QED  BY <1>1, <2>1 DEF AgentInv, GoodStep, Counting, Costs, Says, Stands, RunsOver
<1>3. ASSUME NEW w \in Clients, Deliver(w) \/ Runs(w)
      PROVE  AgentInv'
  <2>1. (\E r : Becomes(w, r)) \/ step' = step
    BY <1>3, Delivers, Recalling, Thinks, Invokes, LoadsCount, WritesCount, AsksFinally, Learns,
       Trusts, Loses, Drafts, Judges, Revises, Tells, Tolds DEF Runs, Remember, loopVars
  <2>2. step' \in [Clients -> StepState] /\ \A v \in Clients : GoodStep(step'[v])
    <3>1. CASE step' = step
      BY <3>1 DEF AgentInv
    <3>. QED  BY <2>1, <3>1, WorkerMoved
  <2>3. DOMAIN skills' \subseteq Skills /\ skills' \in [DOMAIN skills' -> Invocations]
    <3>1. CASE WriteCount(w)
      BY <3>1, WritesCount DEF AgentInv
    <3>2. CASE ~ WriteCount(w)
      <4>1. skills' = skills
        BY <1>3, <3>2 DEF Runs, Deliver, Recall, Think, Invoke, LoadCount, FinalAnswer, Learn, Trust,
                          Lost, Drafted, Judged, Revised, Tell, Told, Remember, loopVars
      <4>. QED  BY <4>1 DEF AgentInv
    <3>. QED  BY <3>1, <3>2
  <2>4. delivered' \in Nat
    <3>1. delivered' = delivered \/ delivered' = delivered + 1
      BY <1>3 DEF Runs, Deliver, Recall, Think, Invoke, LoadCount, WriteCount, FinalAnswer,
                  Learn, Trust, Lost, Drafted, Judged, Revised, Tell, Told, Remember, loopVars
    <3>. QED  BY <3>1 DEF AgentInv
  <2>. QED  BY <1>1, <2>2, <2>3, <2>4 DEF AgentInv
<1>4. CASE Remove
  <2>1. step' = step /\ delivered' = delivered
    BY <1>4 DEF Remove
  <2>2. DOMAIN skills' \subseteq Skills /\ skills' \in [DOMAIN skills' -> Invocations]
    <3>1. CASE skills' = skills
      BY <3>1 DEF AgentInv
    <3>2. ASSUME NEW s \in DOMAIN skills, skills' = [t \in DOMAIN skills \ {s} |-> skills[t]]
          PROVE  DOMAIN skills' \subseteq Skills /\ skills' \in [DOMAIN skills' -> Invocations]
      BY <3>2 DEF AgentInv
    <3>. QED  BY <1>4, <3>1, <3>2 DEF Remove
  <2>3. step' \in [Clients -> StepState] /\ \A v \in Clients : GoodStep(step'[v])
    BY <2>1 DEF AgentInv
  <2>. QED  BY <1>1, <2>1, <2>2, <2>3 DEF AgentInv
<1>. QED  BY <1>2, <1>3, <1>4 DEF Next

-----------------------------------------------------------------------------
(* The theorems about the whole: workers, skills and memory together. *)

\* Every worker's step, its review and its skills' counts stay in their types, and the
\* strengthening that the others rest on holds: what a step has cost by the runs that are
\* over, and what its texts have been through.
THEOREM AgentTypeCorrect == Spec => []AgentInv
BY AgentInvInit, AgentInvStep, PTL DEF Spec

\* The agents use the memory as it may be used: every lesson they store is a lesson,
\* every outcome they report is of memories they were given.  What is proved of the memory
\* for any user of it therefore holds of theirs.
THEOREM AgentsUseMemory == Spec => MemorySpec
<1>1. Init => MemoryInit
  BY DEF Init
<1>2. AgentInv /\ [Next]_vars => [MemoryNext]_memoryVars
  BY AgentsUseMemoryStep
<1>. QED  BY <1>1, <1>2, AgentTypeCorrect, PTL DEF Spec, MemorySpec

\* However many workers reflect at once, and whatever is deleted meanwhile, a process
\* stores one copy of a lesson.
THEOREM AgentsLessonsAreStoredOnce == Spec => []OneCopyEach
BY AgentsUseMemory, LessonsAreStoredOnce, PTL

\* ... no scope grows past its capacity but by the calls that have yet to prune it
THEOREM AgentsKeepTheCapacity == Spec => []CapacityHolds
BY AgentsUseMemory, ScopesKeepTheirCapacity, PTL

\* ... and no memory is trusted more, or less, than outcomes account for.
THEOREM AgentsEarnTheirTrust == Spec => []TrustIsEarned
BY AgentsUseMemory, UsefulnessIsEarned, PTL

\* An approved text is the one last seen by the reviewer, and an unapproved one has been
\* through every round: for any number of rounds, turns and workers.
THEOREM VerdictsFit == Spec => []VerdictFits
<1>1. AgentInv => VerdictFits
  BY DEF AgentInv, VerdictFits, GoodStep, Says, Stands, At
<1>. QED  BY <1>1, AgentTypeCorrect, PTL

\* No step asks the model more often than its rounds and turns allow.
THEOREM CostsAreKnown == Spec => []CostIsKnown
<1>1. AgentInv => CostIsKnown
  <2>. SUFFICES ASSUME AgentInv, NEW w \in Clients
                PROVE  step[w].asked <= (MaxIterations + 1) * (1 + 2 * MaxRounds)
    BY DEF CostIsKnown
  <2>1. step[w].asked <= Whole
    BY CostsFit DEF AgentInv
  <2>. QED  BY <2>1 DEF Whole, Budget
<1>. QED  BY <1>1, AgentTypeCorrect, PTL

=============================================================================
