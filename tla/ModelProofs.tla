----------------------------- MODULE ModelProofs -----------------------------
(***************************************************************************)
(* Theorems about the calls of models: type correctness and the safety     *)
(* invariants of ModelProperties, for any number of threads, providers,    *)
(* choices and servers.                                                    *)
(***************************************************************************)
EXTENDS ModelProperties, SequenceTheorems, FiniteSetTheorems, TLAPS

Pcs == {"idle", "specific", "load", "lookup", "keep", "default", "building", "return",
        "build", "post", "wait", "read", "over"}
Outcomes == {"none", "broken", "shapeless", "refused", "failed", "whole", "answered", "declined"}
Sinks == [reasoning : Nat, content : Nat]

CallState ==
  [pc : Pcs, want : Providers \cup {Nobody}, found : SUBSET Row, choice : Row, object : Nat,
   tools : BOOLEAN, prompted : BOOLEAN, payload : SUBSET Params, asks : BOOLEAN, tries : Nat,
   speaks : BOOLEAN, got : Nat, pending : Sinks, shown : Sinks, outcome : Outcomes]

\* The calls that have their object.
Holding == {"keep", "build", "post", "wait", "read"}

ModelTypes ==
  /\ DOMAIN settings \subseteq Kinds /\ settings \in [DOMAIN settings -> Row]
  /\ built \in Seq([choice : Row, refused : SUBSET Params])
  /\ DOMAIN cached \subseteq Row /\ cached \in [DOMAIN cached -> 1..Len(built)]
  /\ default \in 0..Len(built)
  /\ refuses \in Servers
  /\ heard \in [1..Len(built) -> [Params \X Threads -> Nat]]
  /\ call \in [Threads -> CallState]
  /\ \A t \in Threads : call[t].pc \in Holding => call[t].object \in 1..Len(built)

DeploymentChoice == [provider |-> Deployment, model |-> AnyModel, key |-> NoKey]
AnyKey(want) == [provider : {want}, model : {AnyModel}, key : Providers \cup {NoKey}]

\* What is kept for a choice was built from it.
KeptWell ==
  /\ \A k \in DOMAIN cached : built[cached[k]].choice = k
  /\ default # 0 => built[default].choice = DeploymentChoice

\* A refusal is heard once a thread, and noted; reasoning is noted when it was refused.
HeardWell ==
  \A i \in 1..Len(built) :
    /\ \A p \in Params, t \in Threads : heard[i][<<p, t>>] <= 1
    /\ \A p \in Params, t \in Threads : heard[i][<<p, t>>] = 1 => p \in built[i].refused
    /\ "reasoning" \in built[i].refused => \E t \in Threads : heard[i][<<"reasoning", t>>] = 1

\* What a call may still find, and what it has found.
Finds(c) ==
  /\ c.pc = "specific" => c.want # Nobody /\ MayFind(settings, c.want) \subseteq c.found
  /\ c.pc = "load" => /\ c.want = Nobody => MayFind(settings, Nobody) \subseteq c.found
                      /\ c.want # Nobody => AnyKey(c.want) \subseteq c.found
  /\ c.pc \in {"lookup", "keep"} => c.choice \in c.found
  /\ c.pc \in {"default", "building", "return"} => DeploymentChoice \in c.found
  /\ c.pc = "keep" => built[c.object].choice = c.choice
  /\ c.pc \in {"build", "post", "wait", "read"} => built[c.object].choice \in c.found

\* The refusals that a payload leaves room for, short of tools.
One(p, c) == IF p \in c.payload THEN 1 ELSE 0
Room(c) == One("reasoning", c) + One("usage", c) + One("stream", c)

Attempts(t, c) ==
  /\ c.pc = "post" => built[c.object].choice.provider \notin Claude /\ c.tries + Room(c) <= 3
  /\ c.pc = "wait" /\ built[c.object].choice.provider \notin Claude =>
       /\ c.tries + Room(c) <= 4
       /\ ~ c.asks => "reasoning" \in built[c.object].refused
  /\ c.pc \in {"post", "wait"} /\ built[c.object].choice.provider \notin Claude =>
       \A p \in c.payload : heard[c.object][<<p, t>>] = 0
  /\ c.outcome # "shapeless"
  /\ c.outcome = "refused" =>
       /\ c.object \in 1..Len(built)
       /\ \E u \in Threads \ {t} : heard[c.object][<<"reasoning", u>>] = 1

\* Where the fragments go, and how many of the first n went to one sink.
SinkOf(c, n) == IF n = 1 THEN {"reasoning"}
                ELSE IF c.speaks /\ ~ c.prompted THEN {"content"} ELSE {}
Went(c, n, k) == {m \in 1..n : k \in SinkOf(c, m)}

Shows(c) ==
  /\ c.pc # "over" => c.outcome = "none"
  /\ c.pc \notin {"read", "over"} => c.got = 0 /\ c.pending = Zero /\ c.shown = Zero
  /\ \A k \in {"reasoning", "content"} :
       c.shown[k] + c.pending[k] = Cardinality(Went(c, c.got, k))

Whole(c) == c.outcome = "answered" => c.pc = "over" /\ c.got = Pieces

Good(t, c) == Finds(c) /\ Attempts(t, c) /\ Shows(c) /\ (~ CleanCuts => Whole(c))

ModelInv ==
  /\ ModelTypes /\ KeptWell /\ HeardWell
  /\ \A t \in Threads : Good(t, call[t])

-----------------------------------------------------------------------------
(* The calls' records. *)

With(c, fields) == [f \in DOMAIN c |-> IF f \in DOMAIN fields THEN fields[f] ELSE c[f]]

LEMMA Stepped ==
  ASSUME ModelTypes, NEW t \in Threads, NEW fields, Step(t, fields)
  PROVE  call' = [call EXCEPT ![t] = With(call[t], fields)]
BY DEF Step, With, ModelTypes

LEMMA AnyModelIsAModel == AnyModel \in Models /\ DeploymentChoice \in Row
<1>1. AnyModel \in Models
  BY ChoiceAssumption DEF AnyModel
<1>. QED  BY <1>1, ChoiceAssumption DEF DeploymentChoice, Row

LEMMA ZeroIsNothing == Zero \in Sinks /\ Zero["reasoning"] = 0 /\ Zero["content"] = 0
                       /\ DOMAIN Zero = {"reasoning", "content"}
BY DEF Zero, Sinks

LEMMA NoCallIsACall ==
  /\ NoCall \in CallState /\ NoCall.pc = "idle" /\ NoCall.got = 0 /\ NoCall.pending = Zero
  /\ NoCall.shown = Zero /\ NoCall.outcome = "none"
<1>1. [provider |-> Deployment, model |-> AnyModel, key |-> NoKey] \in Row
  BY AnyModelIsAModel DEF DeploymentChoice
<1>. QED  BY <1>1, ZeroIsNothing DEF NoCall, CallState, Pcs, Outcomes

LEMMA NothingWent ==
  ASSUME NEW c, c.got = 0
  PROVE  \A k : Cardinality(Went(c, c.got, k)) = 0
<1>1. \A k : Went(c, c.got, k) = {}
  BY DEF Went
<1>. QED  BY <1>1, FS_EmptySet

LEMMA FragmentsAreCounted ==
  ASSUME NEW c, NEW n \in Nat, NEW k
  PROVE  /\ IsFiniteSet(Went(c, n, k)) /\ Cardinality(Went(c, n, k)) \in Nat
         /\ Cardinality(Went(c, n + 1, k)) =
              Cardinality(Went(c, n, k)) + IF k \in SinkOf(c, n + 1) THEN 1 ELSE 0
<1>1. IsFiniteSet(Went(c, n, k)) /\ Cardinality(Went(c, n, k)) \in Nat
  <2>1. IsFiniteSet(1..n) /\ Went(c, n, k) \subseteq 1..n
    BY FS_Interval DEF Went
  <2>. QED  BY <2>1, FS_Subset, FS_CardinalityType
<1>2. CASE k \in SinkOf(c, n + 1)
  <2>1. Went(c, n + 1, k) = Went(c, n, k) \cup {n + 1} /\ n + 1 \notin Went(c, n, k)
    BY <1>2 DEF Went
  <2>. QED  BY <1>1, <1>2, <2>1, FS_AddElement
<1>3. CASE k \notin SinkOf(c, n + 1)
  <2>1. Went(c, n + 1, k) = Went(c, n, k)
    BY <1>3 DEF Went
  <2>. QED  BY <1>1, <1>3, <2>1
<1>. QED  BY <1>1, <1>2, <1>3

-----------------------------------------------------------------------------
(* Choosing. *)

\* A thread's next record, which is a good one as things are now.
Settles(t) ==
  \E r \in CallState : /\ call' = [call EXCEPT ![t] = r]
                       /\ Good(t, r)
                       /\ r.pc \in Holding => r.object \in 1..Len(built)

LEMMA OldCall ==
  ASSUME ModelInv, NEW t \in Threads
  PROVE  /\ call[t] \in CallState /\ Good(t, call[t]) /\ call[t].got \in Nat
         /\ call[t].pc \in Holding => /\ call[t].object \in 1..Len(built)
                                      /\ built[call[t].object] \in [choice : Row, refused : SUBSET Params]
<1>1. call[t] \in CallState /\ Good(t, call[t])
  BY DEF ModelInv, ModelTypes
<1>2. call[t].got \in Nat
  BY <1>1 DEF CallState
<1>3. call[t].pc \in Holding => call[t].object \in 1..Len(built)
  BY DEF ModelInv, ModelTypes
<1>4. \A i \in 1..Len(built) : built[i] \in [choice : Row, refused : SUBSET Params]
  BY ElementOfSeq DEF ModelInv, ModelTypes
<1>. QED  BY <1>1, <1>2, <1>3, <1>4

\* A call in which nothing is read, and that is not yet at its server.
LEMMA StillSilent ==
  ASSUME ModelInv, NEW t \in Threads, NEW r \in CallState,
         call[t].pc \notin {"read", "over"}, r.pc \notin {"read", "over"},
         r.got = call[t].got, r.pending = call[t].pending, r.shown = call[t].shown,
         r.outcome = call[t].outcome
  PROVE  /\ Shows(r) /\ Whole(r) /\ r.outcome = "none"
         /\ r.pc \notin {"post", "wait"} => Attempts(t, r)
<1>1. Shows(call[t])
  BY OldCall DEF Good
<1>2. r.got = 0 /\ r.pending = Zero /\ r.shown = Zero /\ r.outcome = "none"
  BY <1>1 DEF Shows
<1>3. Shows(r)
  BY <1>2, NothingWent, ZeroIsNothing DEF Shows
<1>. QED  BY <1>2, <1>3 DEF Whole, Attempts

\* What lookups of the settings find is a row.
LEMMA RowsAreFound ==
  ASSUME ModelInv
  PROVE  /\ \A k \in DOMAIN settings : settings[k] \in Row
         /\ \A p \in DOMAIN settings : [settings[p] EXCEPT !.model = AnyModel] \in Row
         /\ \A p \in Providers : Matching(p) \in AnyKey(p) /\ Matching(p) \in Row
         /\ \A want \in Providers \cup {Nobody} : want # Nobody => AnyKey(want) \subseteq Row
<1>1. \A k \in DOMAIN settings : settings[k] \in Row
  BY DEF ModelInv, ModelTypes
<1>2. ASSUME NEW p \in DOMAIN settings
      PROVE  [settings[p] EXCEPT !.model = AnyModel] \in Row
  BY <1>1, AnyModelIsAModel DEF Row
<1>3. ASSUME NEW p \in Providers
      PROVE  Matching(p) \in AnyKey(p) /\ Matching(p) \in Row
  <2>1. Main \in DOMAIN settings => settings[Main].key \in Providers \cup {NoKey}
    BY <1>1 DEF Row
  <2>. QED  BY <2>1, AnyModelIsAModel DEF Matching, AnyKey, Row
<1>4. ASSUME NEW want \in Providers
      PROVE  AnyKey(want) \subseteq Row
  BY AnyModelIsAModel DEF AnyKey, Row
<1>. QED  BY <1>1, <1>2, <1>3, <1>4

LEMMA FindsSpecific ==
  ASSUME ModelInv, NEW t \in Threads, FindSpecific(t) PROVE Settles(t) /\ UNCHANGED choiceVars
<1>. DEFINE c == call[t]
<1>0. /\ c \in CallState /\ c.pc = "specific" /\ c.want # Nobody
      /\ MayFind(settings, c.want) \subseteq c.found
  BY OldCall DEF FindSpecific, At, Good, Finds
<1>1. CASE c.want \in DOMAIN settings
  <2>. DEFINE x == [settings[c.want] EXCEPT !.model = AnyModel]
              r == With(c, [pc |-> "lookup", choice |-> x])
  <2>1. call' = [call EXCEPT ![t] = r]
    BY <1>1, Stepped DEF FindSpecific, ModelInv
  <2>2. x \in Row /\ x \in c.found
    BY <1>0, <1>1, RowsAreFound DEF MayFind
  <2>. HIDE DEF x, c
  <2>3. /\ r \in CallState /\ r.pc = "lookup" /\ r.choice = x /\ r.found = c.found
        /\ r.got = c.got /\ r.pending = c.pending /\ r.shown = c.shown /\ r.outcome = c.outcome
    BY <1>0, <2>2 DEF With, CallState, Pcs
  <2>. HIDE DEF r
  <2>. USE DEF c
  <2>4. Shows(r) /\ Whole(r) /\ Attempts(t, r)
    BY <1>0, <2>3, StillSilent
  <2>5. Finds(r)
    BY <2>2, <2>3 DEF Finds
  <2>. QED  BY <2>1, <2>3, <2>4, <2>5 DEF Settles, Good, Holding, FindSpecific
<1>2. CASE c.want \notin DOMAIN settings
  <2>. DEFINE r == With(c, [pc |-> "load"])
  <2>1. call' = [call EXCEPT ![t] = r]
    BY <1>2, Stepped DEF FindSpecific, ModelInv
  <2>2. AnyKey(c.want) \subseteq c.found
    BY <1>0, <1>2 DEF MayFind, AnyKey
  <2>. HIDE DEF c
  <2>3. /\ r \in CallState /\ r.pc = "load" /\ r.want = c.want /\ r.found = c.found
        /\ r.got = c.got /\ r.pending = c.pending /\ r.shown = c.shown /\ r.outcome = c.outcome
    BY <1>0 DEF With, CallState, Pcs
  <2>. HIDE DEF r
  <2>. USE DEF c
  <2>4. Shows(r) /\ Whole(r) /\ Attempts(t, r)
    BY <1>0, <2>3, StillSilent
  <2>5. Finds(r)
    BY <1>0, <2>2, <2>3 DEF Finds
  <2>. QED  BY <2>1, <2>3, <2>4, <2>5 DEF Settles, Good, Holding, FindSpecific
<1>. QED  BY <1>1, <1>2

LEMMA LoadsMain ==
  ASSUME ModelInv, NEW t \in Threads, LoadMain(t) PROVE Settles(t) /\ UNCHANGED choiceVars
<1>. DEFINE c == call[t]
<1>0. /\ c \in CallState /\ c.pc = "load" /\ c.want \in Providers \cup {Nobody}
      /\ c.want = Nobody => MayFind(settings, Nobody) \subseteq c.found
      /\ c.want # Nobody => AnyKey(c.want) \subseteq c.found
  <2>1. c \in CallState /\ c.pc = "load"
    BY OldCall DEF LoadMain, At
  <2>2. c.want \in Providers \cup {Nobody}
    BY <2>1 DEF CallState
  <2>. QED  BY <2>1, <2>2, OldCall DEF Good, Finds
<1>1. ASSUME NEW x \in Row, x \in c.found, Step(t, [pc |-> "lookup", choice |-> x])
      PROVE  Settles(t)
  <2>. DEFINE r == With(c, [pc |-> "lookup", choice |-> x])
  <2>1. call' = [call EXCEPT ![t] = r]
    BY <1>1, Stepped DEF ModelInv
  <2>. HIDE DEF c
  <2>3. /\ r \in CallState /\ r.pc = "lookup" /\ r.choice = x /\ r.found = c.found
        /\ r.got = c.got /\ r.pending = c.pending /\ r.shown = c.shown /\ r.outcome = c.outcome
    BY <1>0, <1>1 DEF With, CallState, Pcs
  <2>. HIDE DEF r
  <2>. USE DEF c
  <2>4. Shows(r) /\ Whole(r) /\ Attempts(t, r)
    BY <1>0, <2>3, StillSilent
  <2>5. Finds(r)
    BY <1>1, <2>3 DEF Finds
  <2>. QED  BY <2>1, <2>3, <2>4, <2>5 DEF Settles, Good, Holding
<1>2. ASSUME DeploymentChoice \in c.found, Step(t, [pc |-> "default"])
      PROVE  Settles(t)
  <2>. DEFINE r == With(c, [pc |-> "default"])
  <2>1. call' = [call EXCEPT ![t] = r]
    BY <1>2, Stepped DEF ModelInv
  <2>. HIDE DEF c
  <2>3. /\ r \in CallState /\ r.pc = "default" /\ r.found = c.found
        /\ r.got = c.got /\ r.pending = c.pending /\ r.shown = c.shown /\ r.outcome = c.outcome
    BY <1>0 DEF With, CallState, Pcs
  <2>. HIDE DEF r
  <2>. USE DEF c
  <2>4. Shows(r) /\ Whole(r) /\ Attempts(t, r)
    BY <1>0, <2>3, StillSilent
  <2>5. Finds(r)
    BY <1>2, <2>3 DEF Finds
  <2>. QED  BY <2>1, <2>3, <2>4, <2>5 DEF Settles, Good, Holding
<1>3. CASE c.want # Nobody
  <2>1. Matching(c.want) \in Row /\ Matching(c.want) \in c.found
    BY <1>0, <1>3, RowsAreFound
  <2>2. Step(t, [pc |-> "lookup", choice |-> Matching(c.want)])
    BY <1>3 DEF LoadMain
  <2>. QED  BY <1>1, <2>1, <2>2 DEF LoadMain
<1>4. CASE c.want = Nobody /\ Main \in DOMAIN settings
  <2>1. settings[Main] \in Row /\ settings[Main] \in c.found
    BY <1>0, <1>4, RowsAreFound DEF MayFind
  <2>2. Step(t, [pc |-> "lookup", choice |-> settings[Main]])
    BY <1>4 DEF LoadMain
  <2>. QED  BY <1>1, <2>1, <2>2 DEF LoadMain
<1>5. CASE c.want = Nobody /\ Main \notin DOMAIN settings
  <2>1. DeploymentChoice \in c.found
    BY <1>0, <1>5 DEF MayFind, DeploymentChoice
  <2>2. Step(t, [pc |-> "default"])
    BY <1>5 DEF LoadMain
  <2>. QED  BY <1>2, <2>1, <2>2 DEF LoadMain
<1>. QED  BY <1>3, <1>4, <1>5

-----------------------------------------------------------------------------
(* Objects only gain: others are built, refusals are noted. *)

Objects == [choice : Row, refused : SUBSET Params]

Gains ==
  /\ settings' = settings /\ refuses' = refuses
  /\ built' \in Seq(Objects) /\ Len(built') \in Nat /\ Len(built) <= Len(built')
  /\ \A i \in 1..Len(built) :
       built'[i].choice = built[i].choice /\ built[i].refused \subseteq built'[i].refused
  /\ heard' \in [1..Len(built') -> [Params \X Threads -> Nat]]
  /\ \A i \in 1..Len(built), p \in Params, v \in Threads :
       heard[i][<<p, v>>] = 1 => heard'[i][<<p, v>>] = 1

\* What this thread was refused is what it was refused before.
HearsNothing(u) ==
  \A i \in 1..Len(built), p \in Params : heard'[i][<<p, u>>] = heard[i][<<p, u>>]

LEMMA GoodStaysGood ==
  ASSUME ModelInv, Gains, NEW u \in Threads, HearsNothing(u), NEW c \in CallState, Good(u, c),
         c.pc \in Holding => c.object \in 1..Len(built)
  PROVE  Good(u, c)'
<1>0. Len(built) \in Nat /\ "reasoning" \in Params
  BY LenProperties DEF ModelInv, ModelTypes, Params
<1>1. Finds(c)'
  BY DEF Good, Finds, Gains, MayFind, Holding
<1>2. Attempts(u, c)'
  <2>1. \A p \in c.payload : p \in Params
    BY DEF CallState
  <2>2. /\ c.pc = "post" => built'[c.object].choice.provider \notin Claude /\ c.tries + Room(c) <= 3
        /\ c.pc = "wait" /\ built'[c.object].choice.provider \notin Claude =>
             /\ c.tries + Room(c) <= 4
             /\ ~ c.asks => "reasoning" \in built'[c.object].refused
        /\ c.pc \in {"post", "wait"} /\ built'[c.object].choice.provider \notin Claude =>
             \A p \in c.payload : heard'[c.object][<<p, u>>] = 0
    BY <2>1 DEF Good, Attempts, Gains, HearsNothing, Holding
  <2>3. c.outcome = "refused" =>
          /\ c.object \in 1..Len(built')
          /\ \E v \in Threads \ {u} : heard'[c.object][<<"reasoning", v>>] = 1
    <3>. SUFFICES ASSUME c.outcome = "refused"
         PROVE  /\ c.object \in 1..Len(built')
                /\ \E v \in Threads \ {u} : heard'[c.object][<<"reasoning", v>>] = 1
      OBVIOUS
    <3>1. c.object \in 1..Len(built)
      BY DEF Good, Attempts
    <3>2. PICK v \in Threads \ {u} : heard[c.object][<<"reasoning", v>>] = 1
      BY DEF Good, Attempts
    <3>3. heard'[c.object][<<"reasoning", v>>] = 1
      BY <1>0, <3>1, <3>2 DEF Gains
    <3>4. c.object \in 1..Len(built')
      BY <1>0, <3>1 DEF Gains
    <3>. QED  BY <3>3, <3>4
  <2>. QED  BY <2>2, <2>3 DEF Good, Attempts, Room, One
<1>. QED  BY <1>1, <1>2 DEF Good, Shows, Whole, Went, SinkOf, Zero

LEMMA GoodIsOfTheRecord ==
  ASSUME NEW t, NEW r, call'[t] = r, Good(t, r)'
  PROVE  Good(t, call[t])'
<1>1. Finds(call[t])'
  BY DEF Good, Finds
<1>2. Attempts(t, call[t])'
  BY DEF Good, Attempts, Room, One
<1>3. Shows(call[t])' /\ (~ CleanCuts => Whole(call[t])')
  BY DEF Good, Shows, Whole, Went, SinkOf
<1>. QED  BY <1>1, <1>2, <1>3 DEF Good

\* A step of one thread.
LEMMA ThreadMoved ==
  ASSUME ModelInv, Gains, NEW t \in Threads, NEW r \in CallState,
         call' = [call EXCEPT ![t] = r], Good(t, r)',
         r.pc \in Holding => r.object \in 1..Len(built'),
         \A u \in Threads \ {t} : HearsNothing(u), HeardWell', KeptWell',
         DOMAIN cached' \subseteq Row /\ cached' \in [DOMAIN cached' -> 1..Len(built')],
         default' \in 0..Len(built')
  PROVE  ModelInv'
<1>1. call' \in [Threads -> CallState]
  BY DEF ModelInv, ModelTypes
<1>2. ASSUME NEW u \in Threads
      PROVE  (call[u].pc \in Holding => call[u].object \in 1..Len(built))'
  <2>1. CASE u = t
    BY <2>1 DEF ModelInv, ModelTypes
  <2>2. CASE u # t
    <3>1. call'[u] = call[u] /\ Len(built) \in Nat
      BY <2>2, LenProperties DEF ModelInv, ModelTypes
    <3>. QED  BY <3>1 DEF ModelInv, ModelTypes, Gains
  <2>. QED  BY <2>1, <2>2
<1>3. ASSUME NEW u \in Threads
      PROVE  Good(u, call[u])'
  <2>1. CASE u = t
    <3>1. call'[u] = r
      BY <2>1 DEF ModelInv, ModelTypes
    <3>. QED  BY <2>1, <3>1, GoodIsOfTheRecord
  <2>2. CASE u # t
    <3>. DEFINE c == call[u]
    <3>1. call'[u] = c
      BY <2>2 DEF ModelInv, ModelTypes
    <3>2. Good(u, c) /\ c \in CallState /\ (c.pc \in Holding => c.object \in 1..Len(built))
      BY OldCall
    <3>. HIDE DEF c
    <3>3. ASSUME NEW d, d = c
          PROVE  Good(u, d)'
      BY <2>2, <3>2, <3>3, GoodStaysGood
    <3>. QED  BY <3>1, <3>3, GoodIsOfTheRecord
  <2>. QED  BY <2>1, <2>2
<1>4. ModelTypes'
  BY <1>1, <1>2 DEF ModelInv, ModelTypes, Gains, Objects
<1>. QED  BY <1>3, <1>4 DEF ModelInv

\* ... in which nothing is built or heard.
LEMMA ThreadSettled ==
  ASSUME ModelInv, NEW t \in Threads, Settles(t), UNCHANGED <<settings, built, refuses, heard, default>>,
         DOMAIN cached' \subseteq Row /\ cached' \in [DOMAIN cached' -> 1..Len(built)],
         \A k \in DOMAIN cached' : built[cached'[k]].choice = k
  PROVE  ModelInv'
<1>1. PICK r \in CallState :
        /\ call' = [call EXCEPT ![t] = r] /\ Good(t, r)
        /\ r.pc \in Holding => r.object \in 1..Len(built)
  BY DEF Settles
<1>2. Len(built) \in Nat /\ built \in Seq(Objects)
  BY LenProperties DEF ModelInv, ModelTypes, Objects
<1>3. Gains /\ \A u \in Threads : HearsNothing(u)
  <2>1. settings' = settings /\ built' = built /\ refuses' = refuses /\ heard' = heard
    OBVIOUS
  <2>2. heard \in [1..Len(built) -> [Params \X Threads -> Nat]]
    BY DEF ModelInv, ModelTypes
  <2>3. Gains
    <3>1. Len(built) <= Len(built)
      BY <1>2
    <3>2. Len(built') = Len(built)
      BY <2>1
    <3>. QED  BY <1>2, <2>1, <2>2, <3>1, <3>2 DEF Gains
  <2>. QED  BY <2>1, <2>3 DEF HearsNothing
<1>4. HeardWell' /\ KeptWell'
  BY DEF ModelInv, HeardWell, KeptWell
<1>5. Good(t, r)'
  BY <1>1, <1>3, GoodStaysGood
<1>. QED  BY <1>1, <1>3, <1>4, <1>5, ThreadMoved DEF ModelInv, ModelTypes

\* An object more.
LEMMA ObjectBuilt ==
  ASSUME ModelInv, NEW x \in Row, built' = New(x), Counts, UNCHANGED <<settings, refuses>>
  PROVE  /\ Gains /\ HeardWell' /\ \A u \in Threads : HearsNothing(u)
         /\ Len(built') = Len(built) + 1 /\ Len(built) \in Nat
         /\ built'[Len(built) + 1].choice = x
<1>. DEFINE o == [choice |-> x, refused |-> {}]
            none == [d \in Params \X Threads |-> 0]
            n == Len(built)
<1>1. o \in Objects /\ o.choice = x /\ o.refused = {}
  BY DEF Objects
<1>2. built \in Seq(Objects) /\ n \in Nat
  BY LenProperties DEF ModelInv, ModelTypes, Objects
<1>3. built' = Append(built, o)
  BY DEF New
<1>. HIDE DEF o
<1>4. /\ built' \in Seq(Objects) /\ Len(built') = n + 1 /\ built'[n + 1] = o
      /\ \A i \in 1..n : built'[i] = built[i]
  BY <1>1, <1>2, <1>3, AppendProperties
<1>5. /\ heard \in [1..n -> [Params \X Threads -> Nat]]
      /\ heard' = [i \in 1..n + 1 |-> IF i \in 1..n THEN heard[i] ELSE none]
  BY <1>4 DEF ModelInv, ModelTypes, Counts
<1>6. none \in [Params \X Threads -> Nat] /\ \A p \in Params, u \in Threads : none[<<p, u>>] = 0
  OBVIOUS
<1>. HIDE DEF n, none
<1>7. heard' \in [1..n + 1 -> [Params \X Threads -> Nat]]
  BY <1>5, <1>6
<1>8. (\A i \in 1..n : heard'[i] = heard[i]) /\ heard'[n + 1] = none
  BY <1>2, <1>5
<1>9. HeardWell'
  <2>. SUFFICES ASSUME NEW i \in 1..n + 1
       PROVE  /\ \A p \in Params, t \in Threads : heard'[i][<<p, t>>] <= 1
              /\ \A p \in Params, t \in Threads : heard'[i][<<p, t>>] = 1 => p \in built'[i].refused
              /\ "reasoning" \in built'[i].refused =>
                   \E t \in Threads : heard'[i][<<"reasoning", t>>] = 1
    BY <1>4 DEF HeardWell
  <2>1. CASE i \in 1..n
    <3>1. heard'[i] = heard[i] /\ built'[i] = built[i]
      BY <1>4, <1>8, <2>1
    <3>. QED  BY <2>1, <3>1 DEF ModelInv, HeardWell, n
  <2>2. CASE i = n + 1
    <3>1. heard'[i] = none /\ built'[i].refused = {}
      BY <1>1, <1>4, <1>8, <2>2
    <3>2. \A p \in Params, u \in Threads : heard'[i][<<p, u>>] = 0
      BY <1>6, <3>1
    <3>3. "reasoning" \notin built'[i].refused
      BY <3>1
    <3>. QED  BY <3>2, <3>3
  <2>3. i \in 1..n \/ i = n + 1
    BY <1>2
  <2>. QED  BY <2>1, <2>2, <2>3
<1>10. Gains
  <2>1. built' \in Seq(Objects) /\ Len(built') \in Nat /\ n <= Len(built')
    BY <1>2, <1>4
  <2>2. \A i \in 1..n : built'[i].choice = built[i].choice /\ built[i].refused \subseteq built'[i].refused
    BY <1>4
  <2>3. heard' \in [1..Len(built') -> [Params \X Threads -> Nat]]
    BY <1>4, <1>7
  <2>4. \A i \in 1..n, p \in Params, v \in Threads :
          heard[i][<<p, v>>] = 1 => heard'[i][<<p, v>>] = 1
    BY <1>8
  <2>. QED  BY <2>1, <2>2, <2>3, <2>4 DEF Gains, n
<1>11. ASSUME NEW u \in Threads
       PROVE  HearsNothing(u)
  BY <1>8 DEF HearsNothing, n
<1>. QED  BY <1>1, <1>2, <1>4, <1>9, <1>10, <1>11 DEF n

-----------------------------------------------------------------------------
(* The objects of a choice. *)

\* The thread has its object and will call with it.
LEMMA TakesObject ==
  ASSUME ModelInv, NEW t \in Threads, call[t].pc \in {"lookup", "keep", "building", "return"},
         NEW r \in CallState, r.pc \in {"keep", "build", "return"},
         r.pc = "keep" => call[t].pc = "lookup" /\ r.choice = call[t].choice,
         r.found = call[t].found,
         r.got = call[t].got, r.pending = call[t].pending, r.shown = call[t].shown,
         r.outcome = call[t].outcome,
         r.pc = "keep" => built'[r.object].choice = r.choice,
         r.pc = "build" => built'[r.object].choice \in r.found,
         r.pc = "return" => call[t].pc = "building"
  PROVE  Good(t, r)'
<1>1. Shows(r) /\ Whole(r) /\ r.outcome = "none"
  BY StillSilent
<1>2. call[t].pc = "building" => DeploymentChoice \in call[t].found
  BY OldCall DEF Good, Finds
<1>3. call[t].pc = "lookup" => call[t].choice \in call[t].found
  BY OldCall DEF Good, Finds
<1>4. Finds(r)'
  BY <1>2, <1>3 DEF Finds
<1>5. Attempts(t, r)'
  BY <1>1 DEF Attempts
<1>. QED  BY <1>1, <1>4, <1>5 DEF Good, Shows, Whole, Went, SinkOf

LEMMA LooksUp ==
  ASSUME ModelInv, NEW t \in Threads, Lookup(t), Counts, UNCHANGED refuses
  PROVE  ModelInv'
<1>. DEFINE c == call[t]
            x == c.choice
<1>0. c \in CallState /\ c.pc = "lookup" /\ x \in c.found /\ x \in Row
  <2>1. c \in CallState /\ c.pc = "lookup" /\ x \in c.found
    BY OldCall DEF Lookup, At, Good, Finds
  <2>. QED  BY <2>1 DEF CallState
<1>1. CASE x \in DOMAIN cached
  <2>. DEFINE i == cached[x]
              q == With(c, [pc |-> "build", object |-> i])
  <2>1. call' = [call EXCEPT ![t] = q]
    BY <1>1, Stepped DEF Lookup, CacheKey, ModelInv
  <2>2. i \in 1..Len(built) /\ i \in Nat /\ built[i].choice = x
    <3>1. i \in 1..Len(built) /\ built[i].choice = x
      BY <1>1 DEF ModelInv, ModelTypes, KeptWell
    <3>. QED  BY <3>1
  <2>3. /\ built' = built /\ UNCHANGED <<settings, cached, default>>
    BY <1>1 DEF Lookup, CacheKey
  <2>4. heard' = heard
    BY <2>3 DEF Counts, ModelInv, ModelTypes
  <2>. HIDE DEF i, c
  <2>5. /\ q \in CallState /\ q.pc = "build" /\ q.object = i /\ q.found = c.found
        /\ q.got = c.got /\ q.pending = c.pending /\ q.shown = c.shown /\ q.outcome = c.outcome
    BY <1>0, <2>2 DEF With, CallState, Pcs
  <2>. HIDE DEF q
  <2>r. PICK r \in CallState : r = q
    BY <2>5
  <2>. USE DEF c
  <2>6. Good(t, r)'
    BY <1>0, <2>2, <2>3, <2>5, <2>r, TakesObject
  <2>7. Good(t, r)
    BY <2>3, <2>4, <2>6 DEF Good, Finds, Attempts, Shows, Whole, MayFind, Room, One, Went, SinkOf
  <2>8. Settles(t)
    BY <2>1, <2>2, <2>5, <2>7, <2>r DEF Settles
  <2>. QED  BY <2>3, <2>4, <2>8, ThreadSettled DEF ModelInv, ModelTypes, KeptWell
<1>2. CASE x \notin DOMAIN cached
  <2>. DEFINE i == Len(built')
              q == With(c, [pc |-> "keep", object |-> i])
  <2>1. call' = [call EXCEPT ![t] = q]
    BY <1>2, Stepped DEF Lookup, CacheKey, ModelInv
  <2>2. built' = New(x) /\ UNCHANGED <<settings, cached, default>>
    BY <1>2 DEF Lookup, CacheKey
  <2>3. /\ Gains /\ HeardWell' /\ \A u \in Threads : HearsNothing(u)
        /\ Len(built') = Len(built) + 1 /\ Len(built) \in Nat
        /\ built'[Len(built) + 1].choice = x
    BY <1>0, <2>2, ObjectBuilt
  <2>4. i \in Nat /\ i \in 1..Len(built') /\ built'[i].choice = x
    BY <2>3
  <2>. HIDE DEF i, c
  <2>5. /\ q \in CallState /\ q.pc = "keep" /\ q.object = i /\ q.found = c.found
        /\ q.choice = c.choice
        /\ q.got = c.got /\ q.pending = c.pending /\ q.shown = c.shown /\ q.outcome = c.outcome
    BY <1>0, <2>4 DEF With, CallState, Pcs
  <2>. HIDE DEF q
  <2>r. PICK r \in CallState : r = q
    BY <2>5
  <2>. USE DEF c
  <2>6. Good(t, r)'
    BY <1>0, <2>4, <2>5, <2>r, TakesObject
  <2>7. KeptWell' /\ DOMAIN cached' \subseteq Row /\ cached' \in [DOMAIN cached' -> 1..Len(built')]
        /\ default' \in 0..Len(built')
    <3>1. /\ DOMAIN cached \subseteq Row /\ cached \in [DOMAIN cached -> 1..Len(built)]
          /\ default \in 0..Len(built) /\ KeptWell
      BY DEF ModelInv, ModelTypes
    <3>2. cached \in [DOMAIN cached -> 1..Len(built')] /\ default \in 0..Len(built')
      BY <2>3, <3>1
    <3>3. /\ \A k \in DOMAIN cached : built'[cached[k]].choice = built[cached[k]].choice
          /\ default # 0 => built'[default].choice = built[default].choice
      BY <2>3, <3>1 DEF Gains
    <3>. QED  BY <2>2, <3>1, <3>2, <3>3 DEF KeptWell
  <2>. QED  BY <2>1, <2>3, <2>4, <2>5, <2>6, <2>7, <2>r, ThreadMoved
<1>. QED  BY <1>1, <1>2

LEMMA Keeps ==
  ASSUME ModelInv, NEW t \in Threads, Keep(t), Counts, UNCHANGED refuses
  PROVE  ModelInv'
<1>. DEFINE c == call[t]
            x == c.choice
            q == With(c, [pc |-> "build"])
<1>0. /\ c \in CallState /\ c.pc = "keep" /\ x \in c.found /\ x \in Row
      /\ built[c.object].choice = x /\ c.object \in 1..Len(built)
  <2>1. c \in CallState /\ c.pc = "keep" /\ x \in c.found /\ built[c.object].choice = x
    BY OldCall DEF Keep, At, Good, Finds
  <2>2. c.object \in 1..Len(built)
    BY <2>1, OldCall DEF Holding
  <2>. QED  BY <2>1, <2>2 DEF CallState
<1>1. call' = [call EXCEPT ![t] = q]
  BY Stepped DEF Keep, ModelInv
<1>2. /\ UNCHANGED <<settings, built, default>> /\ heard' = heard
      /\ cached' = [j \in DOMAIN cached \cup {x} |-> IF j = x THEN c.object ELSE cached[j]]
  <2>1. /\ UNCHANGED <<settings, built, default>>
        /\ cached' = [j \in DOMAIN cached \cup {x} |-> IF j = x THEN c.object ELSE cached[j]]
    BY DEF Keep, CacheKey
  <2>. QED  BY <2>1 DEF Counts, ModelInv, ModelTypes
<1>3. /\ DOMAIN cached' \subseteq Row /\ cached' \in [DOMAIN cached' -> 1..Len(built)]
      /\ \A k \in DOMAIN cached' : built[cached'[k]].choice = k
  BY <1>0, <1>2 DEF ModelInv, ModelTypes, KeptWell
<1>. HIDE DEF c
<1>5. /\ q \in CallState /\ q.pc = "build" /\ q.object = c.object /\ q.found = c.found
      /\ q.got = c.got /\ q.pending = c.pending /\ q.shown = c.shown /\ q.outcome = c.outcome
  BY <1>0 DEF With, CallState, Pcs
<1>. HIDE DEF q
<1>r. PICK r \in CallState : r = q
  BY <1>5
<1>. USE DEF c
<1>6. Good(t, r)'
  BY <1>0, <1>2, <1>5, <1>r, TakesObject
<1>7. Good(t, r)
  BY <1>2, <1>6 DEF Good, Finds, Attempts, Shows, Whole, MayFind, Room, One, Went, SinkOf
<1>8. Settles(t)
  BY <1>0, <1>1, <1>5, <1>7, <1>r DEF Settles
<1>. QED  BY <1>2, <1>3, <1>8, ThreadSettled

LEMMA TakesDefault ==
  ASSUME ModelInv, NEW t \in Threads, TakeDefault(t), Counts, UNCHANGED refuses
  PROVE  ModelInv'
<1>. DEFINE c == call[t]
<1>0. /\ c \in CallState
      /\ c.pc \in {"default", "building", "return"} => DeploymentChoice \in c.found
  BY OldCall DEF Good, Finds
<1>a. ASSUME UNCHANGED choiceVars, Settles(t)
      PROVE  ModelInv'
  <2>1. UNCHANGED <<settings, built, cached, default>>
    BY <1>a DEF choiceVars
  <2>2. heard' = heard
    BY <2>1 DEF Counts, ModelInv, ModelTypes
  <2>3. /\ DOMAIN cached' \subseteq Row /\ cached' \in [DOMAIN cached' -> 1..Len(built)]
        /\ \A k \in DOMAIN cached' : built[cached'[k]].choice = k
    BY <2>1 DEF ModelInv, ModelTypes, KeptWell
  <2>. QED  BY <1>a, <2>1, <2>2, <2>3, ThreadSettled
<1>1. ASSUME At(t, "default"), NEW pc \in {"building", "return"}, Step(t, [pc |-> pc]),
             UNCHANGED choiceVars
      PROVE  ModelInv'
  <2>. DEFINE q == With(c, [pc |-> pc])
  <2>1. call' = [call EXCEPT ![t] = q]
    BY <1>1, Stepped DEF ModelInv
  <2>2. c.pc = "default"
    BY <1>1 DEF At
  <2>. HIDE DEF c
  <2>3. /\ q \in CallState /\ q.pc = pc /\ q.found = c.found
        /\ q.got = c.got /\ q.pending = c.pending /\ q.shown = c.shown /\ q.outcome = c.outcome
    BY <1>0, <1>1 DEF With, CallState, Pcs
  <2>. HIDE DEF q
  <2>. USE DEF c
  <2>4. Shows(q) /\ Whole(q) /\ Attempts(t, q)
    BY <1>1, <2>2, <2>3, StillSilent
  <2>5. Finds(q)
    BY <1>0, <1>1, <2>2, <2>3 DEF Finds
  <2>6. Settles(t)
    BY <1>1, <2>1, <2>3, <2>4, <2>5 DEF Settles, Good, Holding
  <2>. QED  BY <1>1, <1>a, <2>6
<1>2. ASSUME At(t, "building"), built' = New(DeploymentChoice), default' = Len(built'),
             Step(t, [pc |-> "return"]), UNCHANGED <<settings, saving, cached, edits>>
      PROVE  ModelInv'
  <2>. DEFINE q == With(c, [pc |-> "return"])
  <2>1. call' = [call EXCEPT ![t] = q]
    BY <1>2, Stepped DEF ModelInv
  <2>2. c.pc = "building"
    BY <1>2 DEF At
  <2>3. /\ Gains /\ HeardWell' /\ \A u \in Threads : HearsNothing(u)
        /\ Len(built') = Len(built) + 1 /\ Len(built) \in Nat
        /\ built'[Len(built) + 1].choice = DeploymentChoice
    BY <1>2, AnyModelIsAModel, ObjectBuilt
  <2>. HIDE DEF c
  <2>5. /\ q \in CallState /\ q.pc = "return" /\ q.found = c.found
        /\ q.got = c.got /\ q.pending = c.pending /\ q.shown = c.shown /\ q.outcome = c.outcome
    BY <1>0 DEF With, CallState, Pcs
  <2>. HIDE DEF q
  <2>r. PICK r \in CallState : r = q
    BY <2>5
  <2>. USE DEF c
  <2>6. Good(t, r)'
    BY <2>2, <2>5, <2>r, TakesObject
  <2>7. KeptWell' /\ DOMAIN cached' \subseteq Row /\ cached' \in [DOMAIN cached' -> 1..Len(built')]
        /\ default' \in 0..Len(built')
    <3>1. /\ DOMAIN cached \subseteq Row /\ cached \in [DOMAIN cached -> 1..Len(built)] /\ KeptWell
      BY DEF ModelInv, ModelTypes
    <3>2. cached \in [DOMAIN cached -> 1..Len(built')] /\ default' \in 0..Len(built')
      BY <1>2, <2>3, <3>1
    <3>3. \A k \in DOMAIN cached : built'[cached[k]].choice = built[cached[k]].choice
      BY <2>3, <3>1 DEF Gains
    <3>. QED  BY <1>2, <2>3, <3>1, <3>2, <3>3 DEF KeptWell
  <2>. QED  BY <2>1, <2>3, <2>5, <2>6, <2>7, <2>r, ThreadMoved DEF Holding
<1>3. ASSUME At(t, "return"), default = 0, Step(t, [pc |-> "over", outcome |-> "broken"]),
             UNCHANGED choiceVars
      PROVE  ModelInv'
  <2>. DEFINE q == With(c, [pc |-> "over", outcome |-> "broken"])
  <2>1. call' = [call EXCEPT ![t] = q]
    BY <1>3, Stepped DEF ModelInv
  <2>2. c.got = 0 /\ c.pending = Zero /\ c.shown = Zero
    BY <1>3, OldCall DEF At, Good, Shows
  <2>. HIDE DEF c
  <2>3. /\ q \in CallState /\ q.pc = "over" /\ q.outcome = "broken"
        /\ q.got = c.got /\ q.pending = c.pending /\ q.shown = c.shown
    BY <1>0 DEF With, CallState, Pcs, Outcomes
  <2>. HIDE DEF q
  <2>4. Shows(q)
    BY <2>2, <2>3, NothingWent, ZeroIsNothing DEF Shows
  <2>5. Whole(q) /\ Attempts(t, q) /\ Finds(q)
    BY <2>3 DEF Whole, Attempts, Finds
  <2>6. Settles(t)
    BY <2>1, <2>3, <2>4, <2>5 DEF Settles, Good, Holding
  <2>. QED  BY <1>3, <1>a, <2>6
<1>4. ASSUME At(t, "return"), default # 0, UNCHANGED choiceVars,
             Step(t, [pc |-> "build", object |-> default, choice |-> built[default].choice])
      PROVE  ModelInv'
  <2>. DEFINE q == With(c, [pc |-> "build", object |-> default, choice |-> DeploymentChoice])
  <2>2. c.pc = "return" /\ default \in 1..Len(built) /\ default \in Nat
        /\ built[default].choice = DeploymentChoice
    <3>1. default \in 0..Len(built) /\ Len(built) \in Nat /\ built[default].choice = DeploymentChoice
      BY <1>4, LenProperties DEF ModelInv, ModelTypes, KeptWell
    <3>. QED  BY <1>4, <3>1 DEF At
  <2>1. call' = [call EXCEPT ![t] = q]
    BY <1>4, <2>2, Stepped DEF ModelInv
  <2>. HIDE DEF c
  <2>3. /\ q \in CallState /\ q.pc = "build" /\ q.object = default /\ q.found = c.found
        /\ q.got = c.got /\ q.pending = c.pending /\ q.shown = c.shown /\ q.outcome = c.outcome
    BY <1>0, <2>2, AnyModelIsAModel DEF With, CallState, Pcs
  <2>. HIDE DEF q
  <2>. USE DEF c
  <2>4. Shows(q) /\ Whole(q) /\ Attempts(t, q)
    BY <2>2, <2>3, StillSilent
  <2>5. Finds(q)
    BY <1>0, <2>2, <2>3 DEF Finds
  <2>6. Settles(t)
    BY <2>1, <2>2, <2>3, <2>4, <2>5 DEF Settles, Good
  <2>. QED  BY <1>4, <1>a, <2>6
<1>5. /\ "building" \in {"building", "return"} /\ "return" \in {"building", "return"}
      /\ DeploymentChoice = [provider |-> Deployment, model |-> AnyModel, key |-> NoKey]
  BY DEF DeploymentChoice
<1>6. CASE At(t, "default") /\ Step(t, [pc |-> IF default = 0 THEN "building" ELSE "return"])
           /\ UNCHANGED choiceVars
  BY <1>1, <1>6
<1>7. CASE At(t, "building") /\ built' = New(DeploymentChoice) /\ default' = Len(built')
           /\ Step(t, [pc |-> "return"]) /\ UNCHANGED <<settings, saving, cached, edits>>
  BY <1>2, <1>7
<1>8. CASE /\ At(t, "return")
           /\ Step(t, IF default = 0 THEN [pc |-> "over", outcome |-> "broken"]
                      ELSE [pc |-> "build", object |-> default, choice |-> built[default].choice])
           /\ UNCHANGED choiceVars
  BY <1>3, <1>4, <1>8
<1>. QED  BY <1>5, <1>6, <1>7, <1>8 DEF TakeDefault

LEMMA Chooses ==
  ASSUME ModelInv, NEW t \in Threads, Choose(t), Counts, UNCHANGED refuses
  PROVE  ModelInv'
<1>1. ASSUME Settles(t), UNCHANGED choiceVars
      PROVE  ModelInv'
  <2>1. UNCHANGED <<settings, built, cached, default>>
    BY <1>1 DEF choiceVars
  <2>2. heard' = heard
    BY <2>1 DEF Counts, ModelInv, ModelTypes
  <2>3. /\ DOMAIN cached' \subseteq Row /\ cached' \in [DOMAIN cached' -> 1..Len(built)]
        /\ \A k \in DOMAIN cached' : built[cached'[k]].choice = k
    BY <2>1 DEF ModelInv, ModelTypes, KeptWell
  <2>. QED  BY <1>1, <2>1, <2>2, <2>3, ThreadSettled
<1>. QED  BY <1>1, FindsSpecific, LoadsMain, LooksUp, Keeps, TakesDefault DEF Choose

-----------------------------------------------------------------------------
(* The call itself. *)

\* A step in which the objects stay as they are.
LEMMA QuietStep ==
  ASSUME ModelInv, NEW t \in Threads, Settles(t), UNCHANGED <<choiceVars, refuses, heard>>
  PROVE  ModelInv'
<1>1. UNCHANGED <<settings, built, cached, default>>
  BY DEF choiceVars
<1>2. /\ DOMAIN cached' \subseteq Row /\ cached' \in [DOMAIN cached' -> 1..Len(built)]
      /\ \A k \in DOMAIN cached' : built[cached'[k]].choice = k
  BY <1>1 DEF ModelInv, ModelTypes, KeptWell
<1>. QED  BY <1>1, <1>2, ThreadSettled

LEMMA FoundAreRows ==
  ASSUME ModelInv, NEW want \in Providers \cup {Nobody}
  PROVE  MayFind(settings, want) \subseteq Row
<1>1. CASE want = Nobody
  BY <1>1, RowsAreFound, AnyModelIsAModel DEF MayFind, DeploymentChoice
<1>2. CASE want # Nobody
  BY <1>2, RowsAreFound DEF MayFind, AnyKey
<1>. QED  BY <1>1, <1>2

LEMMA Begins ==
  ASSUME ModelInv, NEW t \in Threads, NEW want \in Providers \cup {Nobody}, NEW tools \in BOOLEAN,
         Begin(t, want, tools)
  PROVE  ModelInv'
<1>. DEFINE pc == IF want = Nobody THEN "load" ELSE "specific"
            F == MayFind(settings, want)
            q == [NoCall EXCEPT !.pc = pc, !.want = want, !.tools = tools, !.found = F]
<1>1. call' = [call EXCEPT ![t] = q]
  BY DEF Begin
<1>2. F \in SUBSET Row
  BY FoundAreRows
<1>3. pc \in {"load", "specific"} /\ (pc = "load" <=> want = Nobody)
  OBVIOUS
<1>. HIDE DEF F, pc
<1>4. /\ q \in CallState /\ q.pc = pc /\ q.want = want /\ q.found = F /\ q.got = 0
      /\ q.pending = Zero /\ q.shown = Zero /\ q.outcome = "none"
  <2>. DEFINE m == [NoCall EXCEPT !.pc = pc, !.want = want, !.tools = tools]
  <2>1. /\ m \in CallState /\ m.pc = pc /\ m.want = want /\ m.got = 0
        /\ m.pending = Zero /\ m.shown = Zero /\ m.outcome = "none"
    BY <1>3, NoCallIsACall DEF CallState, Pcs
  <2>2. q = [m EXCEPT !.found = F]
    OBVIOUS
  <2>. HIDE DEF m
  <2>3. q.found = F /\ q \in CallState
    BY <1>2, <2>1, <2>2 DEF CallState
  <2>. HIDE DEF q
  <2>. QED  BY <2>1, <2>2, <2>3 DEF CallState
<1>. HIDE DEF q
<1>5. Shows(q) /\ Whole(q) /\ Attempts(t, q)
  BY <1>3, <1>4, NothingWent, ZeroIsNothing DEF Shows, Whole, Attempts
<1>6. Finds(q)
  <2>1. want # Nobody => AnyKey(want) \subseteq MayFind(settings, want) \/ pc = "specific"
    BY <1>3
  <2>. QED  BY <1>3, <1>4 DEF Finds, F
<1>7. Settles(t)
  BY <1>1, <1>3, <1>4, <1>5, <1>6 DEF Settles, Good, Holding
<1>. QED  BY <1>7, QuietStep DEF Begin

LEMMA Sends ==
  ASSUME ModelInv, NEW t \in Threads, NEW inWords \in BOOLEAN, At(t, "build"), ~ Anthropic(t),
         Send(t, inWords)
  PROVE  ModelInv'
<1>. DEFINE c == call[t]
            P == Payload(t)
            w == inWords
            zero == 0
            q == With(c, [pc |-> "post", payload |-> P, tries |-> zero, prompted |-> w])
<1>0. /\ c \in CallState /\ c.pc = "build" /\ c.object \in 1..Len(built)
      /\ built[c.object].choice \in c.found /\ built[c.object].choice.provider \notin Claude
  BY OldCall DEF At, Anthropic, Object, Good, Finds, Holding
<1>1. call' = [call EXCEPT ![t] = q]
  BY Stepped DEF Send, ModelInv
<1>2. P \in SUBSET Params /\ w \in BOOLEAN /\ zero \in Nat
  BY DEF Payload
<1>3. ASSUME NEW p \in P
      PROVE  heard[c.object][<<p, t>>] = 0
  <2>1. p \in Params /\ p \notin built[c.object].refused
    BY DEF Payload, Refused, Object
  <2>2. heard[c.object][<<p, t>>] \in Nat /\ heard[c.object][<<p, t>>] <= 1
        /\ heard[c.object][<<p, t>>] # 1
    BY <1>0, <2>1 DEF ModelInv, ModelTypes, HeardWell
  <2>. QED  BY <2>2
<1>. HIDE DEF P, c, w, zero
<1>4. /\ q \in CallState /\ q.pc = "post" /\ q.payload = P /\ q.tries = zero /\ q.object = c.object
      /\ q.found = c.found
      /\ q.got = c.got /\ q.pending = c.pending /\ q.shown = c.shown /\ q.outcome = c.outcome
  BY <1>0, <1>2 DEF With, CallState, Pcs
<1>. HIDE DEF q
<1>. USE DEF c
<1>5. Shows(q) /\ Whole(q) /\ q.outcome = "none"
  BY <1>0, <1>4, StillSilent
<1>6. Attempts(t, q)
  <2>1. Room(q) \in 0..3
    BY DEF Room, One
  <2>2. q.tries + Room(q) <= 3
    BY <1>4, <2>1 DEF zero
  <2>. QED  BY <1>0, <1>3, <1>4, <1>5, <2>2 DEF Attempts
<1>7. Finds(q)
  BY <1>0, <1>4 DEF Finds
<1>8. Settles(t)
  BY <1>0, <1>1, <1>4, <1>5, <1>6, <1>7 DEF Settles, Good
<1>. QED  BY <1>8, QuietStep DEF Send

LEMMA AsksClaude ==
  ASSUME ModelInv, NEW t \in Threads, Ask(t) PROVE ModelInv'
<1>. DEFINE c == call[t]
<1>1. PICK P \in Deliveries : Step(t, [pc |-> "wait", payload |-> P])
  BY DEF Ask
<1>. DEFINE q == With(c, [pc |-> "wait", payload |-> P])
<1>2. /\ c \in CallState /\ c.pc = "build" /\ c.object \in 1..Len(built)
      /\ built[c.object].choice \in c.found /\ built[c.object].choice.provider \in Claude
  BY OldCall DEF Ask, At, Anthropic, Object, Good, Finds, Holding
<1>3. call' = [call EXCEPT ![t] = q]
  BY <1>1, Stepped DEF ModelInv
<1>4. P \in SUBSET Params
  BY DEF Deliveries, Params
<1>. HIDE DEF c
<1>5. /\ q \in CallState /\ q.pc = "wait" /\ q.object = c.object /\ q.found = c.found
      /\ q.got = c.got /\ q.pending = c.pending /\ q.shown = c.shown /\ q.outcome = c.outcome
  BY <1>2, <1>4 DEF With, CallState, Pcs
<1>. HIDE DEF q
<1>. USE DEF c
<1>6. Shows(q) /\ Whole(q) /\ q.outcome = "none"
  BY <1>2, <1>5, StillSilent
<1>7. Attempts(t, q) /\ Finds(q)
  BY <1>2, <1>5, <1>6 DEF Attempts, Finds
<1>8. Settles(t)
  BY <1>2, <1>3, <1>5, <1>6, <1>7 DEF Settles, Good
<1>. QED  BY <1>8, QuietStep DEF Ask

\* A call ends, with all that it has read on the screen.
LEMMA EndsShown ==
  ASSUME ModelInv, NEW t \in Threads, NEW o \in Outcomes, Ends(t, o)
  PROVE  \E r \in CallState :
           /\ call' = [call EXCEPT ![t] = r]
           /\ r.pc = "over" /\ r.outcome = o /\ r.got = call[t].got /\ r.object = call[t].object
           /\ Shows(r)
<1>. DEFINE c == call[t]
            s == [k \in DOMAIN Zero |-> c.shown[k] + c.pending[k]]
            got == c.got
            speaks == c.speaks
            prompted == c.prompted
            object == c.object
            q == [NoCall EXCEPT !.pc = "over", !.outcome = o, !.shown = s, !.got = got,
                                !.speaks = speaks, !.prompted = prompted, !.object = object]
            m == [NoCall EXCEPT !.pc = "over", !.outcome = o, !.shown = s]
            n == [m EXCEPT !.got = got, !.speaks = speaks]
<1>1. call' = [call EXCEPT ![t] = q]
  BY DEF Ends, Over
<1>2. c \in CallState /\ Shows(c)
  BY OldCall DEF Good
<1>3. /\ c.shown \in Sinks /\ c.pending \in Sinks /\ got \in Nat /\ speaks \in BOOLEAN
      /\ prompted \in BOOLEAN /\ object \in Nat
  BY <1>2 DEF CallState
<1>4. s \in Sinks /\ \A k \in {"reasoning", "content"} : s[k] = c.shown[k] + c.pending[k]
  BY <1>3, ZeroIsNothing DEF Sinks
<1>5. q = [n EXCEPT !.prompted = prompted, !.object = object]
  OBVIOUS
<1>. HIDE DEF s, got, speaks, prompted, object
<1>6. m \in CallState /\ m.pc = "over" /\ m.outcome = o /\ m.shown = s /\ m.pending = Zero
  BY <1>4, NoCallIsACall DEF CallState, Pcs
<1>. HIDE DEF m
<1>7. /\ n \in CallState /\ n.pc = "over" /\ n.outcome = o /\ n.shown = s /\ n.pending = Zero
      /\ n.got = got /\ n.speaks = speaks
  BY <1>3, <1>6 DEF CallState
<1>. HIDE DEF n, q
<1>8. /\ q \in CallState /\ q.pc = "over" /\ q.outcome = o /\ q.shown = s /\ q.pending = Zero
      /\ q.got = got /\ q.speaks = speaks /\ q.prompted = prompted /\ q.object = object
  BY <1>3, <1>5, <1>7 DEF CallState
<1>9. Shows(q)
  <2>1. ASSUME NEW k \in {"reasoning", "content"}
        PROVE  q.shown[k] + q.pending[k] = Cardinality(Went(q, q.got, k))
    <3>1. q.shown[k] + q.pending[k] = c.shown[k] + c.pending[k]
      <4>1. q.pending[k] = 0 /\ c.shown[k] \in Nat /\ c.pending[k] \in Nat
        BY <1>3, <1>8, ZeroIsNothing DEF Sinks
      <4>. QED  BY <1>4, <1>8, <4>1
    <3>2. Went(q, q.got, k) = Went(c, c.got, k)
      BY <1>8 DEF Went, SinkOf, got, speaks, prompted
    <3>. QED  BY <1>2, <3>1, <3>2 DEF Shows
  <2>. QED  BY <1>8, <2>1 DEF Shows
<1>. QED  BY <1>1, <1>8, <1>9 DEF got, object

LEMMA CallsEnd ==
  ASSUME ModelInv, NEW t \in Threads, NEW o \in Outcomes \ {"shapeless", "refused"},
         Ends(t, o), o = "answered" => CleanCuts \/ call[t].got = Pieces,
         UNCHANGED <<choiceVars, refuses, heard>>
  PROVE  ModelInv'
<1>1. PICK r \in CallState :
        /\ call' = [call EXCEPT ![t] = r]
        /\ r.pc = "over" /\ r.outcome = o /\ r.got = call[t].got
        /\ Shows(r)
  BY EndsShown
<1>2. Attempts(t, r) /\ Finds(r) /\ (~ CleanCuts => Whole(r))
  BY <1>1 DEF Attempts, Finds, Whole
<1>3. Settles(t)
  BY <1>1, <1>2 DEF Settles, Good, Holding
<1>. QED  BY <1>3, QuietStep

LEMMA Posts ==
  ASSUME ModelInv, NEW t \in Threads, Post(t) PROVE ModelInv'
<1>. DEFINE c == call[t]
            n == c.tries + 1
            a == "reasoning" \notin Refused(t)
            q == With(c, [pc |-> "wait", tries |-> n, asks |-> a])
<1>0. /\ c \in CallState /\ c.pc = "post" /\ c.object \in 1..Len(built)
      /\ built[c.object].choice \in c.found /\ built[c.object].choice.provider \notin Claude
      /\ c.tries + Room(c) <= 3 /\ \A p \in c.payload : heard[c.object][<<p, t>>] = 0
  BY OldCall DEF Post, At, Good, Finds, Attempts, Holding
<1>1. c.tries \in Nat /\ Room(c) \in 0..3
  BY <1>0 DEF CallState, Room, One
<1>2. Step(t, [pc |-> "wait", tries |-> n, asks |-> a])
  BY <1>0, <1>1 DEF Post, MaxTries
<1>3. call' = [call EXCEPT ![t] = q]
  BY <1>2, Stepped DEF ModelInv
<1>4. n \in Nat /\ a \in BOOLEAN /\ n + Room(c) <= 4
      /\ (~ a => "reasoning" \in built[c.object].refused)
  BY <1>0, <1>1 DEF Refused, Object
<1>. HIDE DEF c, n, a
<1>5. /\ q \in CallState /\ q.pc = "wait" /\ q.object = c.object /\ q.found = c.found
      /\ q.tries = n /\ q.asks = a /\ q.payload = c.payload
      /\ q.got = c.got /\ q.pending = c.pending /\ q.shown = c.shown /\ q.outcome = c.outcome
  BY <1>0, <1>4 DEF With, CallState, Pcs
<1>. HIDE DEF q
<1>. USE DEF c
<1>6. Shows(q) /\ Whole(q) /\ q.outcome = "none"
  BY <1>0, <1>5, StillSilent
<1>7. Room(q) = Room(c)
  BY <1>5 DEF Room, One
<1>8. Attempts(t, q) /\ Finds(q)
  BY <1>0, <1>4, <1>5, <1>6, <1>7 DEF Attempts, Finds
<1>9. Settles(t)
  BY <1>0, <1>3, <1>5, <1>6, <1>8 DEF Settles, Good
<1>. QED  BY <1>9, QuietStep DEF Post

LEMMA Answers ==
  ASSUME ModelInv, NEW t \in Threads, Answer(t) PROVE ModelInv'
<1>. DEFINE c == call[t]
<1>0. /\ c \in CallState /\ c.pc = "wait" /\ c.object \in 1..Len(built)
      /\ built[c.object].choice \in c.found /\ Shows(c)
  BY OldCall DEF Answer, At, Good, Finds, Holding
<1>1. ASSUME NEW b \in BOOLEAN, Step(t, [pc |-> "read", speaks |-> b])
      PROVE  Settles(t)
  <2>. DEFINE v == b
              q == With(c, [pc |-> "read", speaks |-> v])
  <2>1. call' = [call EXCEPT ![t] = q]
    BY <1>1, Stepped DEF ModelInv
  <2>2. v \in BOOLEAN
    OBVIOUS
  <2>. HIDE DEF c, v
  <2>3. /\ q \in CallState /\ q.pc = "read" /\ q.object = c.object /\ q.found = c.found
        /\ q.got = c.got /\ q.pending = c.pending /\ q.shown = c.shown /\ q.outcome = c.outcome
    BY <1>0, <2>2 DEF With, CallState, Pcs
  <2>. HIDE DEF q
  <2>4. q.got = 0 /\ q.pending = Zero /\ q.shown = Zero /\ q.outcome = "none"
    BY <1>0, <2>3 DEF Shows
  <2>5. Shows(q)
    BY <2>3, <2>4, NothingWent, ZeroIsNothing DEF Shows
  <2>6. Whole(q) /\ Attempts(t, q) /\ Finds(q)
    BY <1>0, <2>3, <2>4 DEF Whole, Attempts, Finds
  <2>. QED  BY <1>0, <2>1, <2>3, <2>5, <2>6 DEF Settles, Good
<1>2. UNCHANGED <<choiceVars, refuses, heard>>
  BY DEF Answer
<1>3. CASE \E speaks \in {TRUE, ~ c.tools} : Step(t, [pc |-> "read", speaks |-> speaks])
  <2>1. PICK b \in {TRUE, ~ c.tools} : Step(t, [pc |-> "read", speaks |-> b])
    BY <1>3
  <2>2. b \in BOOLEAN
    BY <1>0 DEF CallState
  <2>. QED  BY <1>1, <1>2, <2>1, <2>2, QuietStep
<1>4. CASE Ends(t, "whole")
  BY <1>2, <1>4, CallsEnd DEF Outcomes
<1>. QED  BY <1>3, <1>4 DEF Answer

LEMMA Reads ==
  ASSUME ModelInv, NEW t \in Threads, Read(t) PROVE ModelInv'
<1>. DEFINE c == call[t]
            n == c.got + 1
            waiting == [k \in DOMAIN Zero |-> c.pending[k] + IF k \in Sink(t, n) THEN 1 ELSE 0]
<1>0. /\ c \in CallState /\ c.pc = "read" /\ c.object \in 1..Len(built)
      /\ built[c.object].choice \in c.found /\ Shows(c) /\ c.outcome = "none"
  BY OldCall DEF Read, At, Good, Finds, Holding, Shows
<1>1. c.shown \in Sinks /\ c.pending \in Sinks /\ c.got \in Nat /\ n \in Nat
  <2>1. c.shown \in Sinks /\ c.pending \in Sinks /\ c.got \in Nat
    BY <1>0 DEF CallState
  <2>. QED  BY <2>1
<1>2. /\ waiting \in Sinks /\ DOMAIN waiting = {"reasoning", "content"}
      /\ \A k \in {"reasoning", "content"} :
           /\ waiting[k] = c.pending[k] + IF k \in SinkOf(c, n) THEN 1 ELSE 0
           /\ waiting[k] \in Nat /\ c.shown[k] \in Nat /\ c.pending[k] \in Nat
  BY <1>1, ZeroIsNothing DEF Sinks, Sink, SinkOf
<1>3. \E q \in CallState :
        /\ call' = [call EXCEPT ![t] = q]
        /\ q.pc = c.pc /\ q.object = c.object /\ q.found = c.found /\ q.got = n
        /\ q.outcome = c.outcome /\ q.speaks = c.speaks /\ q.prompted = c.prompted
        /\ \A k \in {"reasoning", "content"} : q.shown[k] + q.pending[k] = c.shown[k] + waiting[k]
  <2>1. CASE Step(t, [got |-> n, pending |-> waiting])
    <3>. DEFINE q == With(c, [got |-> n, pending |-> waiting])
    <3>1. call' = [call EXCEPT ![t] = q]
      BY <2>1, Stepped DEF ModelInv
    <3>. HIDE DEF waiting, n, c
    <3>2. /\ q \in CallState /\ q.pc = c.pc /\ q.object = c.object /\ q.found = c.found
          /\ q.got = n /\ q.pending = waiting /\ q.shown = c.shown /\ q.outcome = c.outcome
          /\ q.speaks = c.speaks /\ q.prompted = c.prompted
      BY <1>0, <1>1, <1>2 DEF With, CallState
    <3>. HIDE DEF q
    <3>. QED  BY <3>1, <3>2
  <2>2. ASSUME NEW k \in Sink(t, n),
               Step(t, [got |-> n, pending |-> [waiting EXCEPT ![k] = 0],
                        shown |-> [c.shown EXCEPT ![k] = @ + waiting[k]]])
        PROVE  \E q \in CallState :
                 /\ call' = [call EXCEPT ![t] = q]
                 /\ q.pc = c.pc /\ q.object = c.object /\ q.found = c.found /\ q.got = n
                 /\ q.outcome = c.outcome /\ q.speaks = c.speaks /\ q.prompted = c.prompted
                 /\ \A j \in {"reasoning", "content"} :
                      q.shown[j] + q.pending[j] = c.shown[j] + waiting[j]
    <3>. DEFINE x == [waiting EXCEPT ![k] = 0]
                y == [c.shown EXCEPT ![k] = @ + waiting[k]]
                q == With(c, [got |-> n, pending |-> x, shown |-> y])
    <3>1. call' = [call EXCEPT ![t] = q]
      BY <2>2, Stepped DEF ModelInv
    <3>2. k \in {"reasoning", "content"}
      BY <2>2 DEF Sink
    <3>3. /\ c.shown \in [{"reasoning", "content"} -> Nat]
          /\ waiting \in [{"reasoning", "content"} -> Nat]
      <4>. HIDE DEF waiting, c
      <4>. QED  BY <1>1, <1>2 DEF Sinks
    <3>. HIDE DEF waiting, c, n
    <3>4. x \in [{"reasoning", "content"} -> Nat] /\ y \in [{"reasoning", "content"} -> Nat]
      BY <3>2, <3>3
    <3>5. \A j \in {"reasoning", "content"} : y[j] + x[j] = c.shown[j] + waiting[j]
      BY <3>2, <3>3
    <3>6. \A f \in [{"reasoning", "content"} -> Nat] : f \in Sinks
      BY DEF Sinks
    <3>7. x \in Sinks /\ y \in Sinks
      BY <3>4, <3>6
    <3>. HIDE DEF x, y
    <3>8. /\ q \in CallState /\ q.pc = c.pc /\ q.object = c.object /\ q.found = c.found
          /\ q.got = n /\ q.pending = x /\ q.shown = y /\ q.outcome = c.outcome
          /\ q.speaks = c.speaks /\ q.prompted = c.prompted
      BY <1>0, <1>1, <3>7 DEF With, CallState
    <3>. HIDE DEF q
    <3>. QED  BY <3>1, <3>5, <3>8
  <2>. QED  BY <2>1, <2>2 DEF Read
<1>4. PICK q \in CallState :
        /\ call' = [call EXCEPT ![t] = q]
        /\ q.pc = c.pc /\ q.object = c.object /\ q.found = c.found /\ q.got = n
        /\ q.outcome = c.outcome /\ q.speaks = c.speaks /\ q.prompted = c.prompted
        /\ \A k \in {"reasoning", "content"} : q.shown[k] + q.pending[k] = c.shown[k] + waiting[k]
  BY <1>3
<1>. HIDE DEF c, n
<1>5. ASSUME NEW k \in {"reasoning", "content"}
      PROVE  q.shown[k] + q.pending[k] = Cardinality(Went(q, q.got, k))
  <2>1. Went(q, q.got, k) = Went(c, n, k)
    BY <1>4 DEF Went, SinkOf
  <2>2. Cardinality(Went(c, n, k)) = Cardinality(Went(c, c.got, k))
                                     + IF k \in SinkOf(c, n) THEN 1 ELSE 0
    BY <1>1, FragmentsAreCounted DEF n
  <2>3. c.shown[k] + c.pending[k] = Cardinality(Went(c, c.got, k))
    BY <1>0 DEF Shows
  <2>. HIDE DEF waiting
  <2>. QED  BY <1>2, <1>4, <2>1, <2>2, <2>3
<1>6. Shows(q)
  BY <1>0, <1>4, <1>5 DEF Shows
<1>7. Whole(q) /\ Attempts(t, q) /\ Finds(q)
  BY <1>0, <1>4 DEF Whole, Attempts, Finds
<1>8. Settles(t)
  BY <1>0, <1>4, <1>6, <1>7 DEF Settles, Good, c
<1>. QED  BY <1>8, QuietStep DEF Read

LEMMA Finishes ==
  ASSUME ModelInv, NEW t \in Threads, NoAnswer(t) \/ Finish(t) \/ Declined(t) PROVE ModelInv'
<1>1. UNCHANGED <<choiceVars, refuses, heard>>
  BY DEF NoAnswer, Finish, Declined
<1>2. PICK o \in {"failed", "answered", "broken", "declined"} :
        Ends(t, o) /\ (o = "answered" => CleanCuts \/ call[t].got = Pieces)
  BY DEF NoAnswer, Finish, Declined, Stops
<1>. QED  BY <1>1, <1>2, CallsEnd DEF Outcomes

-----------------------------------------------------------------------------
(* Refusals. *)

LEMMA OneChanged ==
  ASSUME NEW D, NEW h \in [D -> Nat], NEW d \in D, NEW x \in Nat, NEW g, g = [h EXCEPT ![d] = x]
  PROVE  g \in [D -> Nat] /\ g[d] = x /\ \A e \in D : e # d => g[e] = h[e]
OBVIOUS

\* A refusal is heard; it is noted, or was before.
IsHeard(t, p) ==
  heard' = [i \in 1..Len(built) |-> [heard[i] EXCEPT ![<<p, t>>] =
              IF i = call[t].object THEN @ + 1 ELSE @]]
IsNoted(t, p) ==
  \/ built' = Notes(t, p)
  \/ built' = built /\ p \in built[call[t].object].refused

\* What a refusal adds to what was heard and noted.
LEMMA RefusalHeard ==
  ASSUME ModelInv, NEW t \in Threads, call[t].pc = "wait",
         NEW p \in call[t].payload \cap Server(t), IsHeard(t, p), IsNoted(t, p),
         UNCHANGED <<settings, refuses>>
  PROVE  /\ Gains /\ HeardWell' /\ \A u \in Threads \ {t} : HearsNothing(u)
         /\ p \in Params /\ Len(built') = Len(built) /\ Len(built) \in Nat
         /\ heard[call[t].object][<<p, t>>] = 0
         /\ \A q \in Params \ {p} : heard'[call[t].object][<<q, t>>] = heard[call[t].object][<<q, t>>]
         /\ \A i \in 1..Len(built) : built'[i].choice = built[i].choice
         /\ built[call[t].object].choice.provider \notin Claude
<1>. DEFINE c == call[t]
            i == c.object
            N == Len(built)
<1>0. /\ c \in CallState /\ c.pc = "wait" /\ i \in 1..N /\ Attempts(t, c)
      /\ built[i] \in [choice : Row, refused : SUBSET Params]
  BY OldCall DEF Good, Holding
<1>1. p \in Params /\ p \in c.payload
  BY <1>0 DEF CallState
<1>2. built[i].choice.provider \notin Claude
  <2>1. built[i].choice.provider \in Providers
    BY <1>0 DEF Row
  <2>2. p \in refuses[built[i].choice.provider]
    BY DEF Server, Object
  <2>. QED  BY <2>1, <2>2, CallsAssumption DEF ModelInv, ModelTypes
<1>3. heard[i][<<p, t>>] = 0
  BY <1>0, <1>1, <1>2 DEF Attempts
<1>4. built \in Seq(Objects) /\ N \in Nat /\ heard \in [1..N -> [Params \X Threads -> Nat]]
  BY LenProperties DEF ModelInv, ModelTypes, Objects
<1>. HIDE DEF N
<1>5. /\ built' \in Seq(Objects) /\ Len(built') = N
      /\ \A j \in 1..N : built'[j].choice = built[j].choice
                         /\ built[j].refused \subseteq built'[j].refused
      /\ p \in built'[i].refused
      /\ \A j \in 1..N : built'[j].refused \subseteq built[j].refused \cup {p}
      /\ \A j \in 1..N : j # i => built'[j].refused = built[j].refused
  <2>1. CASE built' = built /\ p \in built[i].refused
    BY <1>4, <2>1 DEF N
  <2>2. CASE built' = Notes(t, p)
    <3>. DEFINE o == [built[i] EXCEPT !.refused = @ \cup {p}]
    <3>1. o \in Objects /\ o.choice = built[i].choice /\ o.refused = built[i].refused \cup {p}
      BY <1>0, <1>1 DEF Objects
    <3>2. built' = [built EXCEPT ![i] = o]
      BY <2>2 DEF Notes
    <3>. HIDE DEF o
    <3>3. built' \in Seq(Objects) /\ Len(built') = N
      BY <1>0, <1>4, <3>1, <3>2 DEF N
    <3>4. \A j \in 1..N : built'[j] = IF j = i THEN o ELSE built[j]
      BY <1>4, <3>2 DEF N
    <3>. QED  BY <1>0, <3>1, <3>3, <3>4
  <2>. QED  BY <2>1, <2>2 DEF IsNoted
<1>6. /\ heard' \in [1..N -> [Params \X Threads -> Nat]]
      /\ heard'[i][<<p, t>>] = 1
      /\ \A j \in 1..N, q \in Params, u \in Threads :
           j # i \/ q # p \/ u # t => heard'[j][<<q, u>>] = heard[j][<<q, u>>]
  <2>. DEFINE d == <<p, t>>
              now(j) == IF j = i THEN heard[j][d] + 1 ELSE heard[j][d]
  <2>0. d \in Params \X Threads /\ d = <<p, t>>
    BY <1>1
  <2>1. heard' = [j \in 1..N |-> [heard[j] EXCEPT ![d] = now(j)]]
    BY DEF N, IsHeard
  <2>. HIDE DEF d
  <2>2. ASSUME NEW j \in 1..N
        PROVE  /\ heard'[j] \in [Params \X Threads -> Nat]
               /\ j = i => heard'[j][d] = 1
               /\ \A e \in Params \X Threads : j # i \/ e # d => heard'[j][e] = heard[j][e]
    <3>1. heard[j] \in [Params \X Threads -> Nat]
      BY <1>4
    <3>2. now(j) \in Nat /\ (j = i => now(j) = 1) /\ (j # i => now(j) = heard[j][d])
      BY <1>3, <2>0, <3>1
    <3>3. heard'[j] = [heard[j] EXCEPT ![d] = now(j)]
      BY <2>1
    <3>4. /\ heard'[j] \in [Params \X Threads -> Nat] /\ heard'[j][d] = now(j)
          /\ \A e \in Params \X Threads : e # d => heard'[j][e] = heard[j][e]
      <4>. DEFINE D == Params \X Threads
                  x == now(j)
                  h == heard[j]
                  g == heard'[j]
      <4>1. h \in [D -> Nat] /\ d \in D /\ x \in Nat /\ g = [h EXCEPT ![d] = x]
        BY <2>0, <3>1, <3>2, <3>3
      <4>. HIDE DEF D, x, h, g
      <4>2. g \in [D -> Nat] /\ g[d] = x /\ \A e \in D : e # d => g[e] = h[e]
        BY <4>1, OneChanged
      <4>. QED  BY <4>2 DEF D, x, h, g
    <3>. HIDE DEF now
    <3>. QED  BY <3>2, <3>4
  <2>4. heard' \in [1..N -> [Params \X Threads -> Nat]]
    <3>1. heard' = [j \in 1..N |-> heard'[j]]
      BY <2>1
    <3>. QED  BY <2>2, <3>1
  <2>5. heard'[i][<<p, t>>] = 1
    BY <1>0, <2>0, <2>2 DEF N
  <2>6. ASSUME NEW j \in 1..N, NEW q \in Params, NEW u \in Threads, j # i \/ q # p \/ u # t
        PROVE  heard'[j][<<q, u>>] = heard[j][<<q, u>>]
    <3>1. <<q, u>> \in Params \X Threads /\ (j # i \/ <<q, u>> # d)
      BY <2>0, <2>6
    <3>. QED  BY <2>2, <3>1
  <2>. QED  BY <2>4, <2>5, <2>6
<1>. HIDE DEF c, i
<1>7. HeardWell'
  <2>. SUFFICES ASSUME NEW j \in 1..N
       PROVE  /\ \A q \in Params, u \in Threads : heard'[j][<<q, u>>] <= 1
              /\ \A q \in Params, u \in Threads : heard'[j][<<q, u>>] = 1 => q \in built'[j].refused
              /\ "reasoning" \in built'[j].refused =>
                   \E u \in Threads : heard'[j][<<"reasoning", u>>] = 1
    BY <1>5 DEF HeardWell
  <2>1. /\ \A q \in Params, u \in Threads : heard[j][<<q, u>>] <= 1
        /\ \A q \in Params, u \in Threads : heard[j][<<q, u>>] = 1 => q \in built[j].refused
        /\ "reasoning" \in built[j].refused => \E u \in Threads : heard[j][<<"reasoning", u>>] = 1
    BY DEF ModelInv, HeardWell, N
  <2>2. \A q \in Params, u \in Threads :
          heard'[j][<<q, u>>] <= 1 /\ (heard'[j][<<q, u>>] = 1 => q \in built'[j].refused)
    <3>. SUFFICES ASSUME NEW q \in Params, NEW u \in Threads
         PROVE  heard'[j][<<q, u>>] <= 1 /\ (heard'[j][<<q, u>>] = 1 => q \in built'[j].refused)
      OBVIOUS
    <3>1. CASE j = i /\ q = p /\ u = t
      BY <1>5, <1>6, <3>1
    <3>2. CASE ~ (j = i /\ q = p /\ u = t)
      <4>1. heard'[j][<<q, u>>] = heard[j][<<q, u>>]
        BY <1>6, <3>2
      <4>. QED  BY <1>5, <2>1, <4>1
    <3>. QED  BY <3>1, <3>2
  <2>3. ASSUME "reasoning" \in built'[j].refused
        PROVE  \E u \in Threads : heard'[j][<<"reasoning", u>>] = 1
    <3>0. "reasoning" \in Params
      BY DEF Params
    <3>1. CASE j = i /\ p = "reasoning"
      BY <1>6, <3>1
    <3>2. CASE ~ (j = i /\ p = "reasoning")
      <4>1. "reasoning" \in built[j].refused
        BY <1>5, <2>3, <3>2
      <4>2. PICK u \in Threads : heard[j][<<"reasoning", u>>] = 1
        BY <2>1, <4>1
      <4>3. heard'[j][<<"reasoning", u>>] = heard[j][<<"reasoning", u>>]
        <5>1. j # i \/ "reasoning" # p
          BY <3>2
        <5>. QED  BY <1>6, <3>0, <5>1
      <4>. QED  BY <4>2, <4>3
    <3>. QED  BY <3>1, <3>2
  <2>. QED  BY <2>2, <2>3
<1>8. Gains
  <2>1. ASSUME NEW j \in 1..N, NEW q \in Params, NEW u \in Threads, heard[j][<<q, u>>] = 1
        PROVE  heard'[j][<<q, u>>] = 1
    <3>1. CASE j = i /\ q = p /\ u = t
      BY <1>6, <3>1
    <3>2. CASE ~ (j = i /\ q = p /\ u = t)
      <4>1. heard'[j][<<q, u>>] = heard[j][<<q, u>>]
        BY <1>6, <3>2
      <4>. QED  BY <2>1, <4>1
    <3>. QED  BY <3>1, <3>2
  <2>2. N <= Len(built') /\ Len(built') \in Nat
    BY <1>4, <1>5
  <2>3. heard' \in [1..Len(built') -> [Params \X Threads -> Nat]]
    BY <1>5, <1>6
  <2>. QED  BY <1>5, <2>1, <2>2, <2>3 DEF Gains, N
<1>9. \A u \in Threads \ {t} : HearsNothing(u)
  BY <1>6 DEF HearsNothing, N
<1>10. \A q \in Params \ {p} : heard'[i][<<q, t>>] = heard[i][<<q, t>>]
  BY <1>0, <1>6
<1>. QED  BY <1>1, <1>2, <1>3, <1>4, <1>5, <1>7, <1>8, <1>9, <1>10 DEF N, i, c

LEMMA Refuses ==
  ASSUME ModelInv, NEW t \in Threads, Refuse(t) PROVE ModelInv'
<1>. DEFINE c == call[t]
            i == c.object
<1>0. /\ c \in CallState /\ c.pc = "wait" /\ i \in 1..Len(built) /\ Shows(c) /\ Attempts(t, c)
      /\ built[i].choice \in c.found /\ c.outcome = "none" /\ c.got = 0
  BY OldCall DEF Refuse, At, Good, Finds, Holding, Shows
<1>1. PICK p \in c.payload \cap Server(t) :
        /\ IsHeard(t, p)
        /\ IF p = "reasoning" /\ ~ c.asks
           THEN Ends(t, "refused") /\ UNCHANGED built
           ELSE Again(t, p) /\ built' = Notes(t, p)
  BY DEF Refuse, IsHeard
<1>2. UNCHANGED <<settings, cached, default, refuses>>
  BY DEF Refuse
<1>3. p \in c.payload
  OBVIOUS
<1>4. /\ Gains /\ HeardWell' /\ \A u \in Threads \ {t} : HearsNothing(u)
      /\ p \in Params /\ Len(built') = Len(built) /\ Len(built) \in Nat
      /\ heard[i][<<p, t>>] = 0
      /\ \A q \in Params \ {p} : heard'[i][<<q, t>>] = heard[i][<<q, t>>]
      /\ \A j \in 1..Len(built) : built'[j].choice = built[j].choice
      /\ built[i].choice.provider \notin Claude
  <2>1. IsNoted(t, p)
    <3>1. CASE p = "reasoning" /\ ~ c.asks
      <4>1. built[i].choice.provider \notin Claude
        <5>1. built[i] \in [choice : Row, refused : SUBSET Params]
          BY <1>0, OldCall DEF Holding
        <5>2. built[i].choice.provider \in Providers
          BY <5>1 DEF Row
        <5>3. p \in refuses[built[i].choice.provider]
          BY DEF Server, Object
        <5>. QED  BY <5>2, <5>3, CallsAssumption DEF ModelInv, ModelTypes
      <4>2. p \in built[i].refused
        BY <1>0, <3>1, <4>1 DEF Attempts
      <4>3. built' = built
        BY <1>1, <3>1
      <4>. QED  BY <4>2, <4>3 DEF IsNoted
    <3>2. CASE ~ (p = "reasoning" /\ ~ c.asks)
      <4>1. built' = Notes(t, p)
        BY <1>1, <3>2
      <4>. QED  BY <4>1 DEF IsNoted
    <3>. QED  BY <3>1, <3>2
  <2>. QED  BY <1>0, <1>1, <1>2, <2>1, RefusalHeard
<1>5. KeptWell' /\ DOMAIN cached' \subseteq Row /\ cached' \in [DOMAIN cached' -> 1..Len(built')]
      /\ default' \in 0..Len(built')
  <2>1. /\ DOMAIN cached \subseteq Row /\ cached \in [DOMAIN cached -> 1..Len(built)]
        /\ default \in 0..Len(built) /\ KeptWell
    BY DEF ModelInv, ModelTypes
  <2>2. /\ \A k \in DOMAIN cached : built'[cached[k]].choice = built[cached[k]].choice
        /\ default # 0 => built'[default].choice = built[default].choice
    BY <1>4, <2>1
  <2>. QED  BY <1>2, <1>4, <2>1, <2>2 DEF KeptWell
<1>6. CASE p = "reasoning" /\ ~ c.asks
  <2>1. PICK r \in CallState :
          /\ call' = [call EXCEPT ![t] = r]
          /\ r.pc = "over" /\ r.outcome = "refused" /\ r.got = c.got /\ r.object = i
          /\ Shows(r)
    BY <1>1, <1>6, EndsShown DEF Outcomes
  <2>2. "reasoning" \in built[i].refused
    BY <1>0, <1>4, <1>6 DEF Attempts
  <2>3. PICK u \in Threads : heard[i][<<"reasoning", u>>] = 1
    BY <1>0, <2>2 DEF ModelInv, HeardWell
  <2>4. u # t
    BY <1>4, <1>6, <2>3
  <2>5. heard'[i][<<"reasoning", u>>] = 1 /\ i \in 1..Len(built')
    BY <1>0, <1>4, <1>6, <2>3 DEF Gains
  <2>6. (r.outcome = "refused" =>
           /\ r.object \in 1..Len(built')
           /\ \E v \in Threads \ {t} : heard'[r.object][<<"reasoning", v>>] = 1)
    BY <2>1, <2>4, <2>5
  <2>7. Attempts(t, r)'
    BY <2>1, <2>6 DEF Attempts
  <2>8. Good(t, r)'
    BY <2>1, <2>7 DEF Good, Finds, Shows, Whole, Went, SinkOf
  <2>. QED  BY <1>4, <1>5, <2>1, <2>8, ThreadMoved DEF Holding
<1>7. CASE ~ (p = "reasoning" /\ ~ c.asks) /\ p = "tools"
  <2>. DEFINE q == With(c, [pc |-> "build", prompted |-> TRUE])
  <2>1. call' = [call EXCEPT ![t] = q]
    BY <1>1, <1>7, Stepped DEF Again, ModelInv
  <2>. HIDE DEF c
  <2>2. /\ q \in CallState /\ q.pc = "build" /\ q.object = c.object /\ q.found = c.found
        /\ q.got = c.got /\ q.pending = c.pending /\ q.shown = c.shown /\ q.outcome = c.outcome
    BY <1>0 DEF With, CallState, Pcs
  <2>. HIDE DEF q
  <2>3. PICK r \in CallState : r = q
    BY <2>2
  <2>. USE DEF c
  <2>4. Shows(r) /\ Whole(r) /\ r.outcome = "none"
    BY <1>0, <2>2, <2>3, StillSilent
  <2>5. Finds(r)' /\ Attempts(t, r)'
    BY <1>0, <1>4, <2>2, <2>3, <2>4 DEF Finds, Attempts
  <2>6. Good(t, r)'
    BY <2>4, <2>5 DEF Good, Shows, Whole, Went, SinkOf
  <2>. QED  BY <1>0, <1>4, <1>5, <2>1, <2>2, <2>3, <2>6, ThreadMoved
<1>8. CASE ~ (p = "reasoning" /\ ~ c.asks) /\ p # "tools"
  <2>. DEFINE P == c.payload \ IF p = "stream" THEN {"stream", "usage"} ELSE {p}
              q == With(c, [pc |-> "post", payload |-> P])
  <2>1. call' = [call EXCEPT ![t] = q]
    BY <1>1, <1>8, Stepped DEF Again, ModelInv
  <2>a. P \in SUBSET Params /\ P \subseteq c.payload /\ p \notin P
    BY <1>0 DEF CallState
  <2>. HIDE DEF c, P
  <2>2. /\ q \in CallState /\ q.pc = "post" /\ q.object = c.object /\ q.found = c.found
        /\ q.payload = P /\ q.tries = c.tries
        /\ q.got = c.got /\ q.pending = c.pending /\ q.shown = c.shown /\ q.outcome = c.outcome
    BY <1>0, <2>a DEF With, CallState, Pcs
  <2>. HIDE DEF q
  <2>3. PICK r \in CallState : r = q
    BY <2>2
  <2>. USE DEF c
  <2>4. Shows(r) /\ Whole(r) /\ r.outcome = "none"
    BY <1>0, <2>2, <2>3, StillSilent
  <2>5. r.tries + Room(r) <= 3
    <3>1. c.tries + Room(c) <= 4 /\ c.tries \in Nat
      BY <1>0, <1>4 DEF Attempts, CallState
    <3>2. p \in {"reasoning", "usage", "stream"}
      BY <1>4, <1>8 DEF Params
    <3>3. Room(r) + 1 <= Room(c) /\ Room(c) \in 0..3 /\ Room(r) \in 0..3
      BY <1>3, <2>2, <2>3, <2>a, <3>2 DEF Room, One
    <3>. QED  BY <2>2, <2>3, <3>1, <3>3
  <2>6. \A q1 \in r.payload : heard'[r.object][<<q1, t>>] = 0
    <3>1. \A q1 \in c.payload : heard[i][<<q1, t>>] = 0
      BY <1>0, <1>4 DEF Attempts
    <3>. QED  BY <1>4, <2>2, <2>3, <2>a, <3>1
  <2>7. Finds(r)' /\ Attempts(t, r)'
    <3>1. built'[i].choice = built[i].choice
      BY <1>0, <1>4
    <3>2. Finds(r)'
      BY <1>0, <2>2, <2>3, <3>1 DEF Finds
    <3>3. Attempts(t, r)'
      BY <1>4, <2>2, <2>3, <2>4, <2>5, <2>6, <3>1 DEF Attempts, Room, One
    <3>. QED  BY <3>2, <3>3
  <2>8. Good(t, r)'
    BY <2>4, <2>7 DEF Good, Shows, Whole, Went, SinkOf
  <2>. QED  BY <1>0, <1>4, <1>5, <2>1, <2>2, <2>3, <2>8, ThreadMoved
<1>. QED  BY <1>6, <1>7, <1>8

-----------------------------------------------------------------------------
(* Saving meanwhile. *)

LEMMA MayFindRows ==
  ASSUME NEW rows, rows \in [DOMAIN rows -> Row], NEW want \in Providers \cup {Nobody}
  PROVE  MayFind(rows, want) \subseteq Row
<1>1. CASE want = Nobody
  BY <1>1, AnyModelIsAModel DEF MayFind, DeploymentChoice
<1>2. CASE want # Nobody /\ want \in DOMAIN rows
  <2>1. [rows[want] EXCEPT !.model = AnyModel] \in Row
    BY <1>2, AnyModelIsAModel DEF Row
  <2>. QED  BY <1>2, <2>1 DEF MayFind
<1>3. CASE want # Nobody /\ want \notin DOMAIN rows
  <2>1. [provider : {want}, model : {AnyModel}, key : Providers \cup {NoKey}] \subseteq Row
    BY <1>3, AnyModelIsAModel DEF Row
  <2>. QED  BY <1>3, <2>1 DEF MayFind
<1>. QED  BY <1>1, <1>2, <1>3

\* Who is choosing may find what is saved now, and everyone else has chosen.
LEMMA SavedMeanwhile ==
  ASSUME ModelInv, NEW where, Edited(where), UNCHANGED <<refuses, heard>>,
         DOMAIN settings' \subseteq Kinds, settings' \in [DOMAIN settings' -> Row]
  PROVE  ModelInv'
<1>1. /\ UNCHANGED <<built, cached, default>>
      /\ call' = [t \in Threads |->
           IF call[t].pc \in Choosing
           THEN [call[t] EXCEPT !.found = @ \cup MayFind(settings', call[t].want)] ELSE call[t]]
  BY DEF Edited, Noticed
<1>2. ASSUME NEW u \in Threads
      PROVE  /\ call'[u] \in CallState
             /\ call'[u].pc \in Holding => call'[u].object \in 1..Len(built)
             /\ Good(u, call[u])'
  <2>. DEFINE c == call[u]
  <2>0. /\ c \in CallState /\ Good(u, c) /\ c.want \in Providers \cup {Nobody} /\ c.found \subseteq Row
        /\ c.pc \in Holding => c.object \in 1..Len(built)
    <3>1. c \in CallState /\ Good(u, c) /\ (c.pc \in Holding => c.object \in 1..Len(built))
      BY OldCall
    <3>. QED  BY <3>1 DEF CallState
  <2>1. CASE c.pc \in Choosing
    <3>. DEFINE F == c.found \cup MayFind(settings', c.want)
                q == [c EXCEPT !.found = F]
    <3>1. call'[u] = q
      BY <1>1, <2>1
    <3>2. F \in SUBSET Row /\ MayFind(settings', c.want) \subseteq F /\ c.found \subseteq F
      BY <2>0, MayFindRows
    <3>3. c.pc \in {"specific", "load"}
      BY <2>1 DEF Choosing
    <3>. HIDE DEF F, c
    <3>4. /\ q \in CallState /\ q.pc = c.pc /\ q.want = c.want /\ q.found = F /\ q.got = c.got
          /\ q.pending = c.pending /\ q.shown = c.shown /\ q.outcome = c.outcome
      BY <2>0, <3>2 DEF CallState
    <3>. HIDE DEF q
    <3>5. PICK r \in CallState : r = q
      BY <3>4
    <3>. USE DEF c
    <3>6. Shows(r) /\ Whole(r) /\ Attempts(u, r)
      BY <3>3, <3>4, <3>5, StillSilent
    <3>7. r.outcome = "none"
      BY <3>3, <3>4, <3>5, StillSilent
    <3>8. Finds(r)'
      <4>1. r.pc = "specific" => r.want # Nobody /\ MayFind(settings', r.want) \subseteq r.found
        BY <2>0, <3>2, <3>4, <3>5 DEF Good, Finds
      <4>2. r.pc = "load" /\ r.want = Nobody => MayFind(settings', Nobody) \subseteq r.found
        BY <3>2, <3>4, <3>5
      <4>3. r.pc = "load" /\ r.want # Nobody => AnyKey(r.want) \subseteq r.found
        BY <2>0, <3>2, <3>4, <3>5 DEF Good, Finds
      <4>. QED  BY <3>3, <3>4, <3>5, <4>1, <4>2, <4>3 DEF Finds
    <3>9. Attempts(u, r)'
      BY <3>3, <3>4, <3>5, <3>7 DEF Attempts
    <3>10. Good(u, r)'
      BY <3>6, <3>8, <3>9 DEF Good, Shows, Whole, Went, SinkOf
    <3>. QED  BY <3>1, <3>3, <3>4, <3>5, <3>10, GoodIsOfTheRecord DEF Holding
  <2>2. CASE c.pc \notin Choosing
    <3>1. call'[u] = c
      BY <1>1, <2>2
    <3>2. PICK r \in CallState : r = c
      BY <2>0
    <3>3. r.pc \notin {"specific", "load"}
      BY <2>2, <3>2 DEF Choosing
    <3>4. Finds(r)' /\ Attempts(u, r)'
      BY <1>1, <2>0, <3>2, <3>3 DEF Good, Finds, Attempts, Room, One
    <3>5. Good(u, r)'
      BY <2>0, <3>2, <3>4 DEF Good, Shows, Whole, Went, SinkOf
    <3>. QED  BY <2>0, <3>1, <3>2, <3>5, GoodIsOfTheRecord
  <2>. QED  BY <2>1, <2>2
<1>3. call' \in [Threads -> CallState]
  <2>1. call' = [t \in Threads |-> call'[t]]
    BY <1>1
  <2>. QED  BY <1>2, <2>1
<1>4. ModelTypes'
  BY <1>1, <1>2, <1>3 DEF ModelInv, ModelTypes
<1>5. KeptWell' /\ HeardWell'
  BY <1>1 DEF ModelInv, KeptWell, HeardWell
<1>. QED  BY <1>2, <1>4, <1>5 DEF ModelInv

LEMMA EditsKeep ==
  ASSUME ModelInv, EditSettings, UNCHANGED <<refuses, heard>>
  PROVE  ModelInv'
<1>0. DOMAIN settings \subseteq Kinds /\ \A k \in DOMAIN settings : settings[k] \in Row
  BY DEF ModelInv, ModelTypes
<1>1. ASSUME NEW where, NEW r \in Requests, Save(where, r.only, r.provider, r.model, r.withKey)
      PROVE  ModelInv'
  <2>. DEFINE kind == IF r.only THEN r.provider ELSE Main
              key == IF r.withKey THEN r.provider ELSE KeptKey(kind)
              row == [provider |-> r.provider, model |-> r.model, key |-> key]
  <2>1. settings' = Stored(kind, row) /\ Edited(where)
    BY <1>1 DEF Save
  <2>2. r.provider \in Providers /\ r.model \in Models
    BY CallsAssumption
  <2>3. kind \in Kinds
    BY <2>2 DEF Kinds
  <2>4. key \in Providers \cup {NoKey}
    <3>. HIDE DEF kind
    <3>1. KeptKey(kind) \in Providers \cup {NoKey}
      BY <1>0 DEF KeptKey, Row
    <3>. QED  BY <2>2, <3>1
  <2>. HIDE DEF kind, key
  <2>5. row \in Row
    BY <2>2, <2>4 DEF Row
  <2>. HIDE DEF row
  <2>6. DOMAIN settings' \subseteq Kinds /\ settings' \in [DOMAIN settings' -> Row]
    BY <1>0, <2>1, <2>3, <2>5 DEF Stored
  <2>. QED  BY <2>1, <2>6, SavedMeanwhile
<1>2. ASSUME NEW where, ClearChoice(where)
      PROVE  ModelInv'
  <2>1. settings' = [k \in DOMAIN settings \ {Main} |-> settings[k]] /\ Edited(where)
    BY <1>2 DEF ClearChoice
  <2>2. DOMAIN settings' \subseteq Kinds /\ settings' \in [DOMAIN settings' -> Row]
    BY <1>0, <2>1
  <2>. QED  BY <2>1, <2>2, SavedMeanwhile
<1>3. CASE Reset
  <2>1. UNCHANGED <<settings, built, call>> /\ cached' = <<>> /\ default' = 0
    BY <1>3 DEF Reset
  <2>2. DOMAIN cached' = {} /\ cached' \in [DOMAIN cached' -> 1..Len(built)]
    BY <2>1
  <2>3. Len(built) \in Nat
    BY LenProperties DEF ModelInv, ModelTypes
  <2>4. ModelTypes'
    <3>1. refuses' = refuses /\ heard' = heard
      OBVIOUS
    <3>2. default' \in 0..Len(built)' /\ DOMAIN cached' \subseteq Row
      BY <2>1, <2>2, <2>3
    <3>. HIDE DEF ModelInv
    <3>3. ModelTypes
      BY DEF ModelInv
    <3>4. built' = built /\ call' = call /\ settings' = settings
      BY <2>1
    <3>. QED  BY <2>2, <3>1, <3>2, <3>3, <3>4 DEF ModelTypes
  <2>5. KeptWell' /\ HeardWell'
    BY <2>1, <2>2 DEF ModelInv, KeptWell, HeardWell
  <2>6. ASSUME NEW u \in Threads
        PROVE  Good(u, call[u])'
    <3>1. Good(u, call[u])
      BY OldCall
    <3>. QED  BY <2>1, <3>1 DEF Good, Finds, Attempts, Shows, Whole, MayFind
  <2>. QED  BY <2>4, <2>5, <2>6 DEF ModelInv
<1>. QED  BY <1>1, <1>2, <1>3 DEF EditSettings

-----------------------------------------------------------------------------
(* The theorems. *)

LEMMA ModelInvInit == Init => ModelInv
<1>. SUFFICES ASSUME Init PROVE ModelInv
  OBVIOUS
<1>1. /\ DOMAIN settings = {} /\ DOMAIN cached = {} /\ built = <<>> /\ Len(built) = 0 /\ default = 0
      /\ heard = <<>> /\ DOMAIN heard = {}
  BY DEF Init, ChoiceInit
<1>2. \A t \in Threads : call[t] = NoCall
  BY DEF Init
<1>3. ModelTypes
  <2>1. built \in Seq([choice : Row, refused : SUBSET Params])
    BY <1>1, EmptySeq
  <2>2. call \in [Threads -> CallState] /\ \A t \in Threads : call[t].pc \notin Holding
    BY NoCallIsACall DEF Init, Holding
  <2>3. heard \in [1..Len(built) -> [Params \X Threads -> Nat]]
    BY <1>1
  <2>4. /\ settings \in [DOMAIN settings -> Row]
        /\ cached \in [DOMAIN cached -> 1..Len(built)]
    BY <1>1 DEF Init, ChoiceInit
  <2>. QED  BY <1>1, <2>1, <2>2, <2>3, <2>4 DEF ModelTypes, Init
<1>4. KeptWell /\ HeardWell
  BY <1>1 DEF KeptWell, HeardWell
<1>5. ASSUME NEW t \in Threads
      PROVE  Good(t, NoCall)
  <2>1. Shows(NoCall)
    BY NoCallIsACall, NothingWent, ZeroIsNothing DEF Shows
  <2>2. Finds(NoCall) /\ Attempts(t, NoCall) /\ Whole(NoCall)
    BY NoCallIsACall DEF Finds, Attempts, Whole
  <2>. QED  BY <2>1, <2>2 DEF Good
<1>. QED  BY <1>2, <1>3, <1>4, <1>5 DEF ModelInv

LEMMA ModelInvStep == ModelInv /\ [Next]_vars => ModelInv'
<1>. SUFFICES ASSUME ModelInv, [Next]_vars PROVE ModelInv'
  OBVIOUS
<1>1. CASE UNCHANGED vars
  <2>1. UNCHANGED <<settings, built, cached, default, call, refuses, heard>>
    BY <1>1 DEF vars, choiceVars
  <2>2. ModelTypes' /\ KeptWell' /\ HeardWell'
    BY <2>1 DEF ModelInv, ModelTypes, KeptWell, HeardWell
  <2>3. ASSUME NEW u \in Threads
        PROVE  Good(u, call[u])'
    <3>1. Good(u, call[u])
      BY OldCall
    <3>. QED  BY <2>1, <3>1 DEF Good, Finds, Attempts, Shows, Whole, MayFind
  <2>. QED  BY <2>2, <2>3 DEF ModelInv
<1>2. ASSUME NEW t \in Threads, NEW use \in Uses, Begin(t, use.want, use.tools)
      PROVE  ModelInv'
  <2>1. use.want \in Providers \cup {Nobody} /\ use.tools \in BOOLEAN
    BY CallsAssumption
  <2>. QED  BY <1>2, <2>1, Begins
<1>3. ASSUME NEW t \in Threads, Converse(t)
      PROVE  ModelInv'
  <2>1. CASE Complete(t) \/ ConverseNative(t) \/ ConversePrompted(t)
    BY <2>1, Sends DEF Complete, ConverseNative, ConversePrompted
  <2>. QED  BY <1>3, <2>1, AsksClaude, Posts, Refuses, Answers, Reads, Finishes DEF Converse
<1>. QED  BY <1>1, <1>2, <1>3, Chooses, EditsKeep DEF Next

THEOREM ModelTypeCorrect == Spec => []ModelInv
BY ModelInvInit, ModelInvStep, PTL DEF Spec

\* No call runs on an object built from a choice that was not saved at some moment since
\* the call began, whoever saves and clears choices, resets the cache, and builds meanwhile.
THEOREM CallsUseSavedChoice == Spec => []UsesSavedChoice
<1>1. ModelInv => UsesSavedChoice
  BY DEF ModelInv, Good, Finds, UsesSavedChoice, At, Object
<1>. QED  BY <1>1, ModelTypeCorrect, PTL

\* A call is refused a parameter for good only when another thread was refused it on the
\* same object, and the attempts of a call suffice for any server.
THEOREM RefusalsAreShared == Spec => []RefusalsMeet
<1>1. ModelInv => RefusalsMeet
  BY DEF ModelInv, Good, Attempts, RefusalsMeet
<1>. QED  BY <1>1, ModelTypeCorrect, PTL

\* What is on the screen and in the buffers is what was read, whatever ends the call.
THEOREM ScreensFollow == Spec => []ScreenFollows
<1>1. ModelInv => ScreenFollows
  <2>. SUFFICES ASSUME ModelInv, NEW t \in Threads
       PROVE  /\ \A k \in DOMAIN Zero : call[t].shown[k] + call[t].pending[k]
                   = Cardinality({n \in 1..call[t].got : k \in Sink(t, n)})
              /\ call[t].prompted => call[t].shown["content"] = 0
    BY DEF ScreenFollows
  <2>. DEFINE c == call[t]
  <2>1. /\ c \in CallState /\ Shows(c)
    BY OldCall DEF Good
  <2>2. c.shown \in Sinks /\ c.pending \in Sinks /\ c.got \in Nat
    BY <2>1 DEF CallState
  <2>3. \A k : Went(c, c.got, k) = {n \in 1..c.got : k \in Sink(t, n)}
    BY DEF Went, Sink, SinkOf
  <2>4. ASSUME c.prompted
        PROVE  c.shown["content"] = 0
    <3>1. Went(c, c.got, "content") = {}
      BY <2>4 DEF Went, SinkOf
    <3>2. Cardinality(Went(c, c.got, "content")) = 0
      BY <3>1, FS_EmptySet
    <3>3. c.shown["content"] + c.pending["content"] = 0
      BY <2>1, <3>2 DEF Shows
    <3>. HIDE DEF c
    <3>. QED  BY <2>2, <3>3 DEF Sinks
  <2>. QED  BY <2>1, <2>3, <2>4, ZeroIsNothing DEF Shows
<1>. QED  BY <1>1, ModelTypeCorrect, PTL

\* Where a connection that ends early is told from an end, an answer that is returned is
\* all that the server wrote.
THEOREM AnswersAreWhole ==
  ASSUME ~ CleanCuts
  PROVE  Spec => []AnswerIsWhole
<1>1. ModelInv => AnswerIsWhole
  BY DEF ModelInv, Good, Whole, AnswerIsWhole
<1>. QED  BY <1>1, ModelTypeCorrect, PTL

=============================================================================
