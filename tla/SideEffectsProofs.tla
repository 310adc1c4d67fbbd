------------------------- MODULE SideEffectsProofs -------------------------
(***************************************************************************)
(* Theorems about gated calls, for any number of workers, deliveries and   *)
(* operations.                                                             *)
(***************************************************************************)
EXTENDS SideEffectsProperties, FiniteSetTheorems, TLAPS

-----------------------------------------------------------------------------
(* Types. *)

LEMMA KeysOfWorkers ==
  ASSUME NEW w \in Workers, NEW o \in Operations
  PROVE  Key(w, o) \in Keys
BY DEF Key, Keys

LEMMA MineIsAKey ==
  ASSUME TypeOK, NEW w \in Workers
  PROVE  Mine(w) \in Keys
BY KeysOfWorkers DEF TypeOK, WorkerState, Mine

\* A move to another stage changes that worker's stage and nothing else.
LEMMA Moves ==
  ASSUME TypeOK, NEW w \in Workers, NEW s \in Stages, Go(w, s)
  PROVE  /\ worker' \in [Workers -> WorkerState]
         /\ worker'[w].stage = s /\ worker'[w].answer = worker[w].answer
         /\ \A v \in Workers : Mine(v)' = Mine(v)
         /\ \A v \in Workers \ {w} : worker'[v] = worker[v]
<1>. DEFINE r == [worker[w] EXCEPT !.stage = s]
<1>1. worker \in [Workers -> WorkerState] /\ worker[w] \in WorkerState
  BY DEF TypeOK
<1>2. r \in WorkerState /\ r.stage = s /\ r.op = worker[w].op /\ r.answer = worker[w].answer
  BY <1>1 DEF WorkerState
<1>3. worker' = [worker EXCEPT ![w] = r]
  BY DEF Go
<1>. HIDE DEF r
<1>4. \A v \in Workers : worker'[v] = IF v = w THEN r ELSE worker[v]
  BY <1>1, <1>3
<1>5. worker' \in [Workers -> WorkerState]
  BY <1>1, <1>2, <1>3
<1>6. \A v \in Workers : Mine(v)' = Mine(v)
  BY <1>2, <1>4 DEF Mine, Key
<1>. QED  BY <1>2, <1>4, <1>5, <1>6

LEMMA InitTypes == Init => TypeOK
<1>. SUFFICES ASSUME Init PROVE TypeOK
  OBVIOUS
<1>1. (CHOOSE o \in Operations : TRUE) \in Operations
  BY OperationsAssumption
<1>2. Copies \in 0..Copies /\ 0 \in 0..MaxUses
  BY BoundsAssumption
<1>3. NoAnswer \in Answers
  BY DEF NoAnswer, Answers
<1>. QED
  BY <1>1, <1>2, <1>3 DEF Init, TypeOK, WorkerState, Stages, Entry, Absent

LEMMA NextTypes == TypeOK /\ [Next]_vars => TypeOK'
<1>. SUFFICES ASSUME TypeOK, [Next]_vars PROVE TypeOK'
  OBVIOUS
<1>. USE DEF TypeOK
<1>0. /\ OnError \in Stages /\ OnResult \in Stages
      /\ {"idle", "ready", "claiming", "reading", "reopening", "calling", "failing", "dead"}
           \subseteq Stages
  BY DEF OnError, OnResult, Stages
<1>1. CASE UNCHANGED vars
  BY <1>1 DEF vars
<1>2. ASSUME NEW w \in Workers, Step(w) \/ Crash(w)
      PROVE  TypeOK'
  <2>. USE MineIsAKey
  <2>1. CASE Take(w)
    <3>1. copies' \in 0..Copies
      BY <2>1, BoundsAssumption DEF Take
    <3>2. worker' \in [Workers -> WorkerState]
      <4>. DEFINE r == [worker[w] EXCEPT !.stage = "ready", !.uses = 0]
      <4>0. worker[w] \in WorkerState /\ 0 \in 0..MaxUses
        BY BoundsAssumption
      <4>1. r \in WorkerState
        BY <4>0 DEF WorkerState, Stages
      <4>2. worker' = worker \/ worker' = [worker EXCEPT ![w] = r]
        BY <2>1 DEF Take
      <4>. QED  BY <4>1, <4>2
    <3>. QED  BY <2>1, <3>1, <3>2 DEF Take
  <2>2. CASE Leave(w) \/ FailRun(w) \/ Crash(w)
    <3>1. worker' \in [Workers -> WorkerState]
      BY <1>0, <2>2, Moves DEF Leave, FailRun, Crash
    <3>. QED  BY <2>2, <3>1 DEF Leave, FailRun, Crash
  <2>3. ASSUME NEW o \in Operations, Use(w, o)
        PROVE  TypeOK'
    <3>. DEFINE r == [stage |-> IF Permitted(o) THEN "claiming" ELSE OnError,
                      op |-> o, answer |-> NoAnswer, uses |-> worker[w].uses + 1]
    <3>1. worker[w].uses + 1 \in 0..MaxUses
      BY <2>3, BoundsAssumption DEF Use, Allowance, WorkerState
    <3>2. r \in WorkerState
      BY <1>0, <3>1 DEF WorkerState, NoAnswer, Answers
    <3>3. worker' = [worker EXCEPT ![w] = r]
      BY <2>3 DEF Use
    <3>. HIDE DEF r
    <3>4. worker' \in [Workers -> WorkerState]
      BY <3>2, <3>3
    <3>. QED  BY <2>3, <3>4 DEF Use
  <2>4. CASE Claim(w)
    <3>1. worker' \in [Workers -> WorkerState]
      BY <1>0, <2>4, Moves DEF Claim
    <3>2. ledger' \in [Keys -> Entry]
      BY <2>4 DEF Claim, Entry
    <3>. QED  BY <2>4, <3>1, <3>2 DEF Claim
  <2>5. CASE Read(w)
    <3>1. worker' \in [Workers -> WorkerState]
      BY <1>0, <2>5, Moves DEF Read
    <3>2. told' \subseteq [key : Keys, answer : Answers]
      BY <2>5 DEF Read, Entry
    <3>. QED  BY <2>5, <3>1, <3>2 DEF Read
  <2>6. CASE Reopen(w)
    <3>1. worker' \in [Workers -> WorkerState]
      BY <1>0, <2>6, Moves DEF Reopen
    <3>2. ledger' \in [Keys -> Entry]
      BY <2>6 DEF Reopen, Reopened, Entry
    <3>. QED  BY <2>6, <3>1, <3>2 DEF Reopen
  <2>7. CASE Call(w)
    <3>1. acts' \in [Keys -> Nat]
      BY <2>7 DEF Call
    <3>2. PICK b \in BOOLEAN, s \in {"answered", "failed"} :
            worker' = [worker EXCEPT ![w] =
                         [@ EXCEPT !.answer = [by |-> w, ok |-> b], !.stage = s]]
      BY <2>7 DEF Call
    <3>3. [worker[w] EXCEPT !.answer = [by |-> w, ok |-> b], !.stage = s] \in WorkerState
      BY DEF WorkerState, Answers, Stages
    <3>4. worker' \in [Workers -> WorkerState]
      BY <3>2, <3>3
    <3>. QED  BY <2>7, <3>1, <3>4 DEF Call
  <2>8. CASE Commit(w) \/ Abandon(w)
    <3>1. worker' \in [Workers -> WorkerState]
      BY <1>0, <2>8, Moves DEF Commit, Abandon
    <3>2. ledger' \in [Keys -> Entry]
      <4>1. worker[w].answer \in Answers /\ NoAnswer \in Answers
        BY DEF WorkerState, NoAnswer, Answers
      <4>2. /\ Guarded(ledger[Mine(w)], "SUCCEEDED", worker[w].answer) \in Entry
            /\ Guarded(ledger[Mine(w)], "FAILED", NoAnswer) \in Entry
        BY <4>1 DEF Guarded, Entry
      <4>. QED  BY <2>8, <4>2 DEF Commit, Abandon
    <3>3. failures' \in [Keys -> Nat]
      BY <2>8 DEF Commit, Abandon
    <3>. QED  BY <2>8, <3>1, <3>2, <3>3 DEF Commit, Abandon
  <2>. QED
    BY <1>2, <2>1, <2>2, <2>3, <2>4, <2>5, <2>6, <2>7, <2>8 DEF Step
<1>. QED  BY <1>1, <1>2 DEF Next

\* All state has its type, however many workers execute however many deliveries.
THEOREM TypeCorrect == Spec => []TypeOK
<1>. QED  BY InitTypes, NextTypes, PTL DEF Spec

-----------------------------------------------------------------------------
(* Claims. *)

HolderStages == {"calling", "answered", "failed", "dead"}

\* What the others hold they go on holding when one that holds nothing moves.
LEMMA OthersHold ==
  ASSUME ClaimHasHolder, NEW w \in Workers, worker[w].stage \notin HolderStages,
         \A v \in Workers \ {w} : worker'[v] = worker[v],
         NEW k \in Keys, ledger[k].status = "IN_FLIGHT"
  PROVE  \E v \in Workers : Holds(v, k)'
<1>1. PICK v \in Workers : Holds(v, k)
  BY DEF ClaimHasHolder
<1>2. v # w
  BY <1>1 DEF Holds, HolderStages
<1>3. worker'[v] = worker[v]
  BY <1>2
<1>4. Holds(v, k)'
  BY <1>1, <1>3 DEF Holds, Mine, Key
<1>. QED  BY <1>4

\* One that holds a key and moves to another of the holder's stages keeps it.
LEMMA HolderKeeps ==
  ASSUME ClaimHasHolder, NEW w \in Workers, Mine(w)' = Mine(w),
         worker[w].stage \in HolderStages => worker'[w].stage \in HolderStages,
         \A v \in Workers \ {w} : worker'[v] = worker[v],
         NEW k \in Keys, ledger[k].status = "IN_FLIGHT"
  PROVE  \E v \in Workers : Holds(v, k)'
<1>1. CASE worker[w].stage \notin HolderStages
  BY <1>1, OthersHold
<1>2. CASE worker[w].stage \in HolderStages
  <2>1. PICK v \in Workers : Holds(v, k)
    BY DEF ClaimHasHolder
  <2>2. CASE v = w
    BY <1>2, <2>1, <2>2 DEF Holds, HolderStages
  <2>3. CASE v # w
    <3>1. worker'[v] = worker[v]
      BY <2>3
    <3>. QED  BY <2>1, <3>1 DEF Holds, Mine, Key
  <2>. QED  BY <2>2, <2>3
<1>. QED  BY <1>1, <1>2

LEMMA ClaimsStep == TypeOK /\ ClaimHasHolder /\ [Next]_vars => ClaimHasHolder'
<1>. SUFFICES ASSUME TypeOK, ClaimHasHolder, [Next]_vars,
                     NEW k \in Keys, (ledger[k].status = "IN_FLIGHT")'
              PROVE  \E v \in Workers : Holds(v, k)'
  BY DEF ClaimHasHolder, Keys
<1>0. /\ OnError \in Stages /\ OnResult \in Stages
      /\ {"idle", "ready", "claiming", "reading", "reopening", "calling", "failing", "dead"}
           \subseteq Stages
      /\ ledger \in [Keys -> Entry] /\ worker \in [Workers -> WorkerState]
  BY DEF OnError, OnResult, Stages, TypeOK
<1>1. CASE UNCHANGED vars
  <2>1. PICK v \in Workers : Holds(v, k)
    BY <1>1 DEF vars, ClaimHasHolder
  <2>2. worker' = worker
    BY <1>1 DEF vars
  <2>. QED  BY <2>1, <2>2 DEF Holds, Mine, Key
<1>2. ASSUME NEW w \in Workers, Step(w) \/ Crash(w)
      PROVE  \E v \in Workers : Holds(v, k)'
  <2>0. Mine(w) \in Keys
    BY MineIsAKey
  <2>1. CASE Take(w) \/ (\E o \in Operations : Use(w, o))
    <3>1. \A v \in Workers \ {w} : worker'[v] = worker[v]
      BY <1>0, <2>1 DEF Take, Use
    <3>2. worker[w].stage \notin HolderStages /\ ledger' = ledger
      BY <2>1 DEF Take, Use, At, HolderStages
    <3>. QED  BY <3>1, <3>2, OthersHold
  <2>2. CASE Leave(w) \/ FailRun(w) \/ Read(w)
    <3>1. \A v \in Workers \ {w} : worker'[v] = worker[v]
      BY <1>0, <2>2, Moves DEF Leave, FailRun, Read
    <3>2. worker[w].stage \notin HolderStages /\ ledger' = ledger
      BY <2>2 DEF Leave, FailRun, Read, At, HolderStages
    <3>. QED  BY <3>1, <3>2, OthersHold
  <2>3. CASE Crash(w)
    <3>1. /\ \A v \in Workers \ {w} : worker'[v] = worker[v]
          /\ Mine(w)' = Mine(w) /\ worker'[w].stage = "dead"
      BY <1>0, <2>3, Moves DEF Crash
    <3>2. ledger' = ledger
      BY <2>3 DEF Crash
    <3>. QED  BY <3>1, <3>2, HolderKeeps DEF HolderStages
  <2>4. CASE Claim(w) \/ Reopen(w)
    <3>1. /\ \A v \in Workers \ {w} : worker'[v] = worker[v]
          /\ Mine(w)' = Mine(w)
      BY <1>0, <2>4, Moves DEF Claim, Reopen
    <3>2. worker[w].stage \notin HolderStages
      BY <2>4 DEF Claim, Reopen, At, HolderStages
    <3>3. CASE ledger[k].status = "IN_FLIGHT"
      BY <3>1, <3>2, <3>3, OthersHold
    <3>4. CASE ledger[k].status # "IN_FLIGHT"
      <4>1. k = Mine(w)
        BY <1>0, <2>0, <2>4, <3>4 DEF Claim, Reopen
      <4>2. Go(w, "calling")
        BY <2>4, <3>4, <4>1 DEF Claim, Reopen
      <4>3. worker'[w].stage = "calling"
        BY <1>0, <4>2, Moves
      <4>. QED  BY <3>1, <4>1, <4>3 DEF Holds
    <3>. QED  BY <3>3, <3>4
  <2>5. CASE Call(w)
    <3>1. PICK b \in BOOLEAN, s \in {"answered", "failed"} :
            worker' = [worker EXCEPT ![w] =
                         [@ EXCEPT !.answer = [by |-> w, ok |-> b], !.stage = s]]
      BY <2>5 DEF Call
    <3>. DEFINE r == [worker[w] EXCEPT !.answer = [by |-> w, ok |-> b], !.stage = s]
    <3>2. r.op = worker[w].op /\ r.stage = s
      BY <1>0 DEF WorkerState
    <3>3. worker' = [worker EXCEPT ![w] = r]
      BY <3>1
    <3>. HIDE DEF r
    <3>4. /\ \A v \in Workers \ {w} : worker'[v] = worker[v]
          /\ worker'[w] = r
      BY <1>0, <3>3
    <3>5. Mine(w)' = Mine(w) /\ worker'[w].stage \in HolderStages
      BY <3>2, <3>4 DEF Mine, Key, HolderStages
    <3>6. ledger' = ledger
      BY <2>5 DEF Call
    <3>. QED  BY <3>4, <3>5, <3>6, HolderKeeps
  <2>6. CASE Commit(w) \/ Abandon(w)
    <3>1. \A v \in Workers \ {w} : worker'[v] = worker[v]
      BY <1>0, <2>6, Moves DEF Commit, Abandon
    <3>2. k # Mine(w)
      <4>1. \A row, a : \A s \in {"SUCCEEDED", "FAILED"} :
              Guarded(row, s, a).status # "IN_FLIGHT"
        BY DEF Guarded
      <4>2. ledger'[Mine(w)].status # "IN_FLIGHT"
        BY <1>0, <2>0, <2>6, <4>1 DEF Commit, Abandon
      <4>. QED  BY <4>2
    <3>3. ledger'[k] = ledger[k]
      BY <1>0, <2>6, <3>2 DEF Commit, Abandon
    <3>4. PICK v \in Workers : Holds(v, k)
      BY <3>3 DEF ClaimHasHolder
    <3>5. v # w
      BY <3>2, <3>4 DEF Holds
    <3>6. worker'[v] = worker[v]
      BY <3>1, <3>5
    <3>. QED  BY <3>4, <3>6 DEF Holds, Mine, Key
  <2>. QED  BY <1>2, <2>1, <2>2, <2>3, <2>4, <2>5, <2>6 DEF Step
<1>. QED  BY <1>1, <1>2 DEF Next

\* Only a process that died can leave a claim in flight: whoever lives resolves what
\* it has claimed, whatever the outside world answers and whoever else retries.
THEOREM ClaimsAreResolved == Spec => []ClaimHasHolder
<1>1. Init => ClaimHasHolder
  BY DEF Init, ClaimHasHolder, Absent
<1>2. TypeOK /\ ClaimHasHolder /\ [Next]_vars => ClaimHasHolder'
  BY ClaimsStep
<1>. QED  BY <1>1, <1>2, TypeCorrect, PTL DEF Spec

-----------------------------------------------------------------------------
(* Answers. *)

\* An answer comes from the worker that called, and a good one means that it is done.
Genuine(a, k) == a.by \in Workers /\ (a.ok => acts[k] > 0)

\* What was handed out is what the row still says; what a row or a worker has to
\* record is genuine.
AnswersInv ==
  /\ \A t \in told : ledger[t.key].status = "SUCCEEDED" /\ ledger[t.key].answer = t.answer
  /\ \A k \in Keys : ledger[k].status = "SUCCEEDED" => Genuine(ledger[k].answer, k)
  /\ \A w \in Workers : worker[w].stage = "answered" => Genuine(worker[w].answer, Mine(w))

LEMMA AnswersImply == TypeOK /\ AnswersInv => OneAnswer
<1>. SUFFICES ASSUME TypeOK, AnswersInv, NEW t \in told
              PROVE  /\ t.answer.by \in Workers
                     /\ t.answer.ok => acts[t.key] > 0
                     /\ \A u \in told : u.key = t.key => u.answer = t.answer
  BY DEF OneAnswer
<1>1. t.key \in Keys
  BY DEF TypeOK
<1>2. Genuine(t.answer, t.key)
  BY <1>1 DEF AnswersInv
<1>3. \A u \in told : u.key = t.key => u.answer = t.answer
  BY DEF AnswersInv
<1>. QED  BY <1>2, <1>3 DEF Genuine

\* Nothing that was done is undone.
LEMMA ActsGrow ==
  ASSUME TypeOK, [Next]_vars
  PROVE  \A k \in Keys : acts[k] > 0 => acts'[k] > 0
<1>1. CASE acts' = acts
  BY <1>1
<1>2. ASSUME NEW w \in Workers, Call(w)
      PROVE  \A k \in Keys : acts[k] > 0 => acts'[k] > 0
  BY <1>2, MineIsAKey DEF Call, TypeOK
<1>. QED
  BY <1>1, <1>2 DEF Next, Step, vars, Take, Leave, FailRun, Use, Claim, Read, Reopen,
                    Commit, Abandon, Crash

\* A step that leaves the ledger alone, and after which w has no answer it did not have.
LEMMA AnswersKept ==
  ASSUME TypeOK, AnswersInv, NEW w \in Workers,
         \A k \in Keys : acts[k] > 0 => acts'[k] > 0,
         \A v \in Workers \ {w} : worker'[v] = worker[v],
         worker'[w].stage # "answered",
         ledger' = ledger, told' = told
  PROVE  AnswersInv'
<1>1. \A k \in Keys : ledger'[k].status = "SUCCEEDED" => Genuine(ledger[k].answer, k)'
  BY DEF AnswersInv, Genuine
<1>2. ASSUME NEW v \in Workers, worker'[v].stage = "answered"
      PROVE  Genuine(worker[v].answer, Mine(v))'
  <2>1. worker'[v] = worker[v] /\ Mine(v) \in Keys
    BY <1>2, MineIsAKey
  <2>2. Mine(v)' = Mine(v)
    BY <2>1 DEF Mine, Key
  <2>. QED  BY <1>2, <2>1, <2>2 DEF AnswersInv, Genuine
<1>. QED  BY <1>1, <1>2 DEF AnswersInv

LEMMA AnswersStep == TypeOK /\ AnswersInv /\ [Next]_vars => AnswersInv'
<1>. SUFFICES ASSUME TypeOK, AnswersInv, [Next]_vars PROVE AnswersInv'
  OBVIOUS
<1>0. /\ OnError \in Stages /\ OnResult \in Stages
      /\ {"idle", "ready", "claiming", "reading", "reopening", "calling", "failing", "dead"}
           \subseteq Stages
      /\ OnError # "answered" /\ OnResult # "answered"
      /\ ledger \in [Keys -> Entry] /\ worker \in [Workers -> WorkerState]
  BY DEF OnError, OnResult, Stages, TypeOK
<1>g. \A k \in Keys : acts[k] > 0 => acts'[k] > 0
  BY ActsGrow
<1>1. CASE UNCHANGED vars
  <2>. USE <1>1 DEF vars
  <2>1. \A w \in Workers : Mine(w)' = Mine(w)
    BY DEF Mine, Key
  <2>. QED  BY <2>1 DEF AnswersInv, Genuine
<1>2. ASSUME NEW w \in Workers, Step(w) \/ Crash(w)
      PROVE  AnswersInv'
  <2>0. Mine(w) \in Keys
    BY MineIsAKey
  <2>1. CASE Take(w)
    <3>1. worker' = worker \/ worker' = [worker EXCEPT ![w].stage = "ready", ![w].uses = 0]
      BY <2>1 DEF Take
    <3>2. /\ \A v \in Workers \ {w} : worker'[v] = worker[v]
          /\ worker'[w].stage \in {"idle", "ready"}
      BY <1>0, <2>1, <3>1 DEF Take, At, WorkerState
    <3>. QED  BY <1>g, <2>1, <3>2, AnswersKept DEF Take
  <2>2. CASE Leave(w) \/ FailRun(w) \/ Crash(w)
    <3>1. /\ \A v \in Workers \ {w} : worker'[v] = worker[v]
          /\ worker'[w].stage # "answered"
      BY <1>0, <2>2, Moves DEF Leave, FailRun, Crash
    <3>. QED  BY <1>g, <2>2, <3>1, AnswersKept DEF Leave, FailRun, Crash
  <2>3. ASSUME NEW o \in Operations, Use(w, o)
        PROVE  AnswersInv'
    <3>1. /\ \A v \in Workers \ {w} : worker'[v] = worker[v]
          /\ worker'[w].stage # "answered"
      BY <1>0, <2>3 DEF Use
    <3>. QED  BY <1>g, <2>3, <3>1, AnswersKept DEF Use
  <2>4. CASE Claim(w) \/ Reopen(w)
    <3>1. /\ \A v \in Workers \ {w} : worker'[v] = worker[v]
          /\ worker'[w].stage # "answered"
      BY <1>0, <2>4, Moves DEF Claim, Reopen
    <3>2. \A k \in Keys :
            (ledger[k].status = "SUCCEEDED" \/ ledger'[k].status = "SUCCEEDED")
              => ledger'[k] = ledger[k]
      <4>1. \A s : Reopened(s) = "SUCCEEDED" => Reopened(s) = s
        BY DEF Reopened
      <4>2. CASE Claim(w)
        BY <1>0, <2>0, <4>2 DEF Claim, Entry, Absent
      <4>3. CASE Reopen(w)
        <5>1. ASSUME NEW k \in Keys, k # Mine(w)
              PROVE  ledger'[k] = ledger[k]
          BY <1>0, <4>3, <5>1 DEF Reopen
        <5>2. ledger'[Mine(w)] = [ledger[Mine(w)] EXCEPT !.status = Reopened(@)]
          BY <1>0, <2>0, <4>3 DEF Reopen
        <5>3. ledger[Mine(w)] \in Entry
          BY <1>0, <2>0
        <5>4. CASE ledger[Mine(w)].status = "FAILED"
          BY <5>1, <5>2, <5>3, <5>4 DEF Reopened, Entry
        <5>5. CASE ledger[Mine(w)].status # "FAILED"
          <6>1. ledger'[Mine(w)] = ledger[Mine(w)]
            BY <5>2, <5>3, <5>5 DEF Reopened, Entry
          <6>. QED  BY <5>1, <6>1
        <5>. QED  BY <5>4, <5>5
      <4>. QED  BY <2>4, <4>2, <4>3
    <3>3. told' = told /\ acts' = acts
      BY <2>4 DEF Claim, Reopen
    <3>4. \A t \in told' : ledger'[t.key].status = "SUCCEEDED" /\ ledger'[t.key].answer = t.answer
      <4>1. \A t \in told : t.key \in Keys
        BY DEF TypeOK
      <4>. QED  BY <3>2, <3>3, <4>1 DEF AnswersInv
    <3>5. \A k \in Keys : ledger'[k].status = "SUCCEEDED" => Genuine(ledger[k].answer, k)'
      BY <3>2, <3>3 DEF AnswersInv, Genuine
    <3>6. ASSUME NEW v \in Workers, worker'[v].stage = "answered"
          PROVE  Genuine(worker[v].answer, Mine(v))'
      <4>1. worker'[v] = worker[v]
        BY <3>1, <3>6
      <4>2. Mine(v)' = Mine(v)
        BY <4>1 DEF Mine, Key
      <4>. QED  BY <3>3, <3>6, <4>1, <4>2 DEF AnswersInv, Genuine
    <3>. QED  BY <3>4, <3>5, <3>6 DEF AnswersInv
  <2>5. CASE Read(w)
    <3>1. /\ \A v \in Workers \ {w} : worker'[v] = worker[v]
          /\ worker'[w].stage # "answered"
      BY <1>0, <2>5, Moves DEF Read
    <3>2. ledger' = ledger /\ acts' = acts
      BY <2>5 DEF Read
    <3>3. \A t \in told' : ledger[t.key].status = "SUCCEEDED" /\ ledger[t.key].answer = t.answer
      <4>1. CASE told' = told
        BY <4>1 DEF AnswersInv
      <4>2. CASE /\ ledger[Mine(w)].status = "SUCCEEDED"
                 /\ told' = told \cup {[key |-> Mine(w), answer |-> ledger[Mine(w)].answer]}
        BY <4>2 DEF AnswersInv
      <4>. QED  BY <2>5, <4>1, <4>2 DEF Read
    <3>6. ASSUME NEW v \in Workers, worker'[v].stage = "answered"
          PROVE  Genuine(worker[v].answer, Mine(v))'
      <4>1. worker'[v] = worker[v]
        BY <3>1, <3>6
      <4>2. Mine(v)' = Mine(v)
        BY <4>1 DEF Mine, Key
      <4>. QED  BY <3>2, <3>6, <4>1, <4>2 DEF AnswersInv, Genuine
    <3>. QED  BY <3>2, <3>3, <3>6 DEF AnswersInv, Genuine
  <2>6. CASE Call(w)
    <3>1. PICK b \in BOOLEAN, s \in {"answered", "failed"} :
            /\ worker' = [worker EXCEPT ![w] =
                            [@ EXCEPT !.answer = [by |-> w, ok |-> b], !.stage = s]]
            /\ b => acts' = [acts EXCEPT ![Mine(w)] = @ + 1]
      BY <2>6 DEF Call
    <3>. DEFINE r == [worker[w] EXCEPT !.answer = [by |-> w, ok |-> b], !.stage = s]
    <3>2. r.op = worker[w].op /\ r.answer = [by |-> w, ok |-> b]
      BY <1>0 DEF WorkerState
    <3>3. worker' = [worker EXCEPT ![w] = r]
      BY <3>1
    <3>. HIDE DEF r
    <3>4. (\A v \in Workers \ {w} : worker'[v] = worker[v]) /\ worker'[w] = r
      BY <1>0, <3>3
    <3>5. Genuine(worker[w].answer, Mine(w))'
      <4>1. Mine(w)' = Mine(w)
        BY <3>2, <3>4 DEF Mine, Key
      <4>2. acts[Mine(w)] \in Nat
        BY <2>0 DEF TypeOK
      <4>3. b => acts'[Mine(w)] > 0
        BY <2>0, <3>1, <4>2 DEF TypeOK
      <4>. QED  BY <3>2, <3>4, <4>1, <4>3 DEF Genuine
    <3>6. ASSUME NEW v \in Workers \ {w}, worker'[v].stage = "answered"
          PROVE  Genuine(worker[v].answer, Mine(v))'
      <4>1. worker'[v] = worker[v] /\ Mine(v) \in Keys
        BY <3>4, <3>6, MineIsAKey
      <4>2. Mine(v)' = Mine(v)
        BY <4>1 DEF Mine, Key
      <4>. QED  BY <1>g, <3>6, <4>1, <4>2 DEF AnswersInv, Genuine
    <3>7. ledger' = ledger /\ told' = told
      BY <2>6 DEF Call
    <3>8. \A k \in Keys : ledger'[k].status = "SUCCEEDED" => Genuine(ledger[k].answer, k)'
      BY <1>g, <3>7 DEF AnswersInv, Genuine
    <3>. QED  BY <3>5, <3>6, <3>7, <3>8 DEF AnswersInv
  <2>7. CASE Commit(w) \/ Abandon(w)
    <3>1. /\ \A v \in Workers \ {w} : worker'[v] = worker[v]
          /\ worker'[w].stage # "answered"
      BY <1>0, <2>7, Moves DEF Commit, Abandon
    <3>2. told' = told /\ acts' = acts
      BY <2>7 DEF Commit, Abandon
    <3>3. \A k \in Keys : ledger[k].status = "SUCCEEDED" => ledger'[k] = ledger[k]
      BY <1>0, <2>0, <2>7 DEF Commit, Abandon, Guarded
    <3>4. \A k \in Keys : ledger'[k].status = "SUCCEEDED" => Genuine(ledger'[k].answer, k)
      <4>1. ASSUME NEW k \in Keys, ledger'[k].status = "SUCCEEDED"
            PROVE  Genuine(ledger'[k].answer, k)
        <5>1. CASE ledger'[k] = ledger[k]
          BY <4>1, <5>1 DEF AnswersInv
        <5>2. CASE ledger'[k] # ledger[k]
          <6>1. k = Mine(w)
            BY <1>0, <2>0, <2>7, <5>2 DEF Commit, Abandon
          <6>2. Commit(w) /\ ledger'[k] = [status |-> "SUCCEEDED", answer |-> worker[w].answer]
            BY <1>0, <2>0, <2>7, <4>1, <5>2, <6>1 DEF Commit, Abandon, Guarded
          <6>3. worker[w].stage = "answered"
            BY <6>2 DEF Commit, At
          <6>. QED  BY <6>1, <6>2, <6>3 DEF AnswersInv
        <5>. QED  BY <5>1, <5>2
      <4>. QED  BY <4>1
    <3>5. ASSUME NEW v \in Workers, worker'[v].stage = "answered"
          PROVE  Genuine(worker[v].answer, Mine(v))'
      <4>1. worker'[v] = worker[v]
        BY <3>1, <3>5
      <4>2. Mine(v)' = Mine(v)
        BY <4>1 DEF Mine, Key
      <4>. QED  BY <3>2, <3>5, <4>1, <4>2 DEF AnswersInv, Genuine
    <3>6. \A t \in told' : ledger'[t.key].status = "SUCCEEDED" /\ ledger'[t.key].answer = t.answer
      <4>1. \A t \in told : t.key \in Keys
        BY DEF TypeOK
      <4>. QED  BY <3>2, <3>3, <4>1 DEF AnswersInv
    <3>. QED  BY <3>2, <3>4, <3>5, <3>6 DEF AnswersInv, Genuine
  <2>. QED  BY <1>2, <2>1, <2>2, <2>3, <2>4, <2>5, <2>6, <2>7 DEF Step
<1>. QED  BY <1>1, <1>2 DEF Next

\* However many deliveries replay a call, and whoever races them, they all hand out
\* one answer, and one that the outside world gave.
THEOREM ReplaysAgree == Spec => []OneAnswer
<1>1. Init => AnswersInv
  BY DEF Init, AnswersInv, Absent
<1>2. TypeOK /\ AnswersInv /\ [Next]_vars => AnswersInv'
  BY AnswersStep
<1>3. TypeOK /\ AnswersInv => OneAnswer
  BY AnswersImply
<1>. QED  BY <1>1, <1>2, <1>3, TypeCorrect, PTL DEF Spec

-----------------------------------------------------------------------------
(* Repetitions. *)

Callers(k)  == {v \in Workers : Mine(v) = k /\ worker[v].stage = "calling"}
Retriers(k) == {v \in Workers : Mine(v) = k /\ worker[v].stage = "reopening"}

\* What may have been done of k by the time everybody under way with it has called:
\* while its row has failed anybody may still read that and retry.
Reserved(k) == IF ledger[k].status = "FAILED" THEN Cardinality(Workers)
               ELSE Cardinality(Retriers(k))
Allowed(n) == 1 + Cardinality(Workers) * n

RepeatsInv ==
  \A k \in Keys :
    /\ ledger[k].status = Absent => acts[k] = 0 /\ Callers(k) = {} /\ Retriers(k) = {}
    /\ acts[k] + Cardinality(Callers(k)) + Reserved(k) <= Allowed(failures[k])

LEMMA AllowedGrows ==
  ASSUME NEW n \in Nat
  PROVE  /\ Cardinality(Workers) \in Nat /\ Allowed(n) \in Nat
         /\ Allowed(n + 1) = Allowed(n) + Cardinality(Workers)
<1>. DEFINE W == Cardinality(Workers)
<1>1. W \in Nat
  BY WorkersAssumption, FS_CardinalityType
<1>. HIDE DEF W
<1>2. W * n \in Nat /\ W * (n + 1) = W * n + W
  BY <1>1
<1>. QED  BY <1>1, <1>2 DEF Allowed, W

\* Sets of workers that differ in one of them at most.
LEMMA OneMoves ==
  ASSUME NEW S \in SUBSET Workers, NEW T \in SUBSET Workers, NEW w \in Workers,
         S \ {w} = T \ {w}
  PROVE  /\ Cardinality(S) \in 0..Cardinality(Workers)
         /\ Cardinality(T) \in 0..Cardinality(Workers)
         /\ (w \in S <=> w \in T) => Cardinality(T) = Cardinality(S)
         /\ w \in T /\ w \notin S => Cardinality(T) = Cardinality(S) + 1
         /\ w \notin T /\ w \in S => Cardinality(T) = Cardinality(S) - 1
<1>1. /\ IsFiniteSet(Workers) /\ IsFiniteSet(S) /\ IsFiniteSet(T)
      /\ Cardinality(S) \in Nat /\ Cardinality(T) \in Nat /\ Cardinality(Workers) \in Nat
      /\ Cardinality(S) <= Cardinality(Workers) /\ Cardinality(T) <= Cardinality(Workers)
  BY WorkersAssumption, FS_Subset, FS_CardinalityType
<1>2. CASE w \in S <=> w \in T
  BY <1>1, <1>2
<1>3. CASE w \in T /\ w \notin S
  <2>1. T = S \cup {w}
    BY <1>3
  <2>. QED  BY <1>1, <1>3, <2>1, FS_AddElement
<1>4. CASE w \notin T /\ w \in S
  <2>1. S = T \cup {w}
    BY <1>4
  <2>. QED  BY <1>1, <1>4, <2>1, FS_AddElement
<1>. QED  BY <1>2, <1>3, <1>4, <1>1

\* A step of w changes nobody else's part in a call.
LEMMA OthersCall ==
  ASSUME NEW w \in Workers, \A v \in Workers \ {w} : worker'[v] = worker[v], NEW k
  PROVE  /\ Callers(k) \ {w} = Callers(k)' \ {w} /\ Retriers(k) \ {w} = Retriers(k)' \ {w}
         /\ Callers(k) \in SUBSET Workers /\ Callers(k)' \in SUBSET Workers
         /\ Retriers(k) \in SUBSET Workers /\ Retriers(k)' \in SUBSET Workers
<1>1. \A v \in Workers \ {w} : Mine(v)' = Mine(v)
  BY DEF Mine, Key
<1>. QED  BY <1>1 DEF Callers, Retriers

\* A step of w after which it is not at a call, that does nothing and touches no row.
LEMMA RepeatsKept ==
  ASSUME TypeOK, RepeatsInv, NEW w \in Workers,
         \A v \in Workers \ {w} : worker'[v] = worker[v],
         worker'[w].stage \notin {"calling", "reopening"},
         ledger' = ledger, acts' = acts, failures' = failures
  PROVE  RepeatsInv'
<1>. SUFFICES ASSUME NEW k \in Keys
              PROVE  /\ ledger[k].status = Absent =>
                          acts[k] = 0 /\ Callers(k)' = {} /\ Retriers(k)' = {}
                     /\ acts[k] + Cardinality(Callers(k)') + Reserved(k)' <= Allowed(failures[k])
  BY DEF RepeatsInv, Allowed
<1>1. Callers(k)' = Callers(k) \ {w} /\ Retriers(k)' = Retriers(k) \ {w}
  BY OthersCall DEF Callers, Retriers
<1>2. /\ Cardinality(Callers(k)') \in Nat /\ Cardinality(Callers(k)) \in Nat
      /\ Cardinality(Retriers(k)') \in Nat /\ Cardinality(Retriers(k)) \in Nat
      /\ Cardinality(Callers(k)') <= Cardinality(Callers(k))
      /\ Cardinality(Retriers(k)') <= Cardinality(Retriers(k))
  BY <1>1, OthersCall, FS_Subset, FS_CardinalityType, WorkersAssumption
<1>3. acts[k] \in Nat /\ failures[k] \in Nat /\ Allowed(failures[k]) \in Nat
      /\ Cardinality(Workers) \in Nat
  BY AllowedGrows DEF TypeOK
<1>. QED  BY <1>1, <1>2, <1>3 DEF RepeatsInv, Reserved

LEMMA RepeatsStep == TypeOK /\ RepeatsInv /\ [Next]_vars => RepeatsInv'
<1>. SUFFICES ASSUME TypeOK, RepeatsInv, [Next]_vars PROVE RepeatsInv'
  OBVIOUS
<1>0. /\ OnError \in Stages \ {"calling", "reopening"}
      /\ OnResult \in Stages \ {"calling", "reopening"}
      /\ {"idle", "ready", "claiming", "reading", "reopening", "calling", "failing", "dead"}
           \subseteq Stages
      /\ ledger \in [Keys -> Entry] /\ worker \in [Workers -> WorkerState]
      /\ acts \in [Keys -> Nat] /\ failures \in [Keys -> Nat]
  BY DEF OnError, OnResult, Stages, TypeOK
<1>1. CASE UNCHANGED vars
  <2>1. \A k \in Keys : /\ Callers(k)' = Callers(k) /\ Retriers(k)' = Retriers(k)
                        /\ Reserved(k)' = Reserved(k) /\ Allowed(failures[k])' = Allowed(failures[k])
    BY <1>1 DEF vars, Callers, Retriers, Mine, Key, Reserved, Allowed
  <2>. QED  BY <1>1, <2>1 DEF vars, RepeatsInv
<1>2. ASSUME NEW w \in Workers, Step(w) \/ Crash(w)
      PROVE  RepeatsInv'
  <2>0. Mine(w) \in Keys
    BY MineIsAKey
  <2>1. CASE Take(w)
    <3>1. worker' = worker \/ worker' = [worker EXCEPT ![w].stage = "ready", ![w].uses = 0]
      BY <2>1 DEF Take
    <3>2. /\ \A v \in Workers \ {w} : worker'[v] = worker[v]
          /\ worker'[w].stage \in {"idle", "ready"}
      BY <1>0, <2>1, <3>1 DEF Take, At, WorkerState
    <3>. QED  BY <2>1, <3>2, RepeatsKept DEF Take
  <2>2. CASE Leave(w) \/ FailRun(w) \/ Crash(w)
    <3>1. /\ \A v \in Workers \ {w} : worker'[v] = worker[v]
          /\ worker'[w].stage \in {"idle", "dead"}
      BY <1>0, <2>2, Moves DEF Leave, FailRun, Crash
    <3>. QED  BY <2>2, <3>1, RepeatsKept DEF Leave, FailRun, Crash
  <2>3. ASSUME NEW o \in Operations, Use(w, o)
        PROVE  RepeatsInv'
    <3>1. /\ \A v \in Workers \ {w} : worker'[v] = worker[v]
          /\ worker'[w].stage \notin {"calling", "reopening"}
      BY <1>0, <2>3 DEF Use
    <3>. QED  BY <2>3, <3>1, RepeatsKept DEF Use
  <2>4. ASSUME Read(w), worker'[w].stage # "reopening"
        PROVE  RepeatsInv'
    <3>1. /\ \A v \in Workers \ {w} : worker'[v] = worker[v]
          /\ worker'[w].stage # "calling"
      BY <1>0, <2>4, Moves DEF Read
    <3>. QED  BY <2>4, <3>1, RepeatsKept DEF Read
  <2>5. ASSUME Claim(w), ledger[Mine(w)].status # Absent
        PROVE  RepeatsInv'
    <3>1. /\ \A v \in Workers \ {w} : worker'[v] = worker[v]
          /\ worker'[w].stage = "reading" /\ ledger' = ledger
      BY <1>0, <2>5, Moves DEF Claim
    <3>. QED  BY <2>5, <3>1, RepeatsKept DEF Claim
  \* What is left is about one row, that of w, whose counts change by one.
  <2>6. ASSUME (Read(w) /\ worker'[w].stage = "reopening")
                 \/ (Claim(w) /\ ledger[Mine(w)].status = Absent)
                 \/ Reopen(w) \/ Call(w) \/ Commit(w) \/ Abandon(w)
        PROVE  RepeatsInv'
    <3>0. PICK m \in Keys : m = Mine(w)
      BY <2>0
    <3>1. /\ \A v \in Workers \ {w} : worker'[v] = worker[v]
          /\ Mine(w)' = Mine(w)
          /\ \A k \in Keys \ {m} : ledger'[k] = ledger[k] /\ acts'[k] = acts[k]
                                   /\ failures'[k] = failures[k]
      <4>1. CASE Call(w)
        <5>1. PICK b \in BOOLEAN, s \in {"answered", "failed"} :
                worker' = [worker EXCEPT ![w] =
                             [@ EXCEPT !.answer = [by |-> w, ok |-> b], !.stage = s]]
          BY <4>1 DEF Call
        <5>. DEFINE r == [worker[w] EXCEPT !.answer = [by |-> w, ok |-> b], !.stage = s]
        <5>2. r.op = worker[w].op
          BY <1>0 DEF WorkerState
        <5>3. worker' = [worker EXCEPT ![w] = r]
          BY <5>1
        <5>. HIDE DEF r
        <5>4. (\A v \in Workers \ {w} : worker'[v] = worker[v]) /\ worker'[w] = r
          BY <1>0, <5>3
        <5>5. Mine(w)' = Mine(w)
          BY <5>2, <5>4 DEF Mine, Key
        <5>. QED  BY <1>0, <3>0, <4>1, <5>4, <5>5 DEF Call
      <4>2. CASE ~ Call(w)
        <5>1. PICK s \in Stages : Go(w, s)
          BY <1>0, <2>6, <4>2 DEF Read, Claim, Reopen, Commit, Abandon
        <5>2. (\A v \in Workers \ {w} : worker'[v] = worker[v]) /\ Mine(w)' = Mine(w)
          BY <1>0, <5>1, Moves
        <5>3. \A k \in Keys \ {m} : ledger'[k] = ledger[k] /\ acts'[k] = acts[k]
                                    /\ failures'[k] = failures[k]
          BY <1>0, <3>0, <2>6, <4>2 DEF Read, Claim, Reopen, Commit, Abandon
        <5>. QED  BY <5>2, <5>3
      <4>. QED  BY <4>1, <4>2
    <3>2. ASSUME NEW k \in Keys \ {m}
          PROVE  /\ ledger'[k].status = Absent =>
                      acts'[k] = 0 /\ Callers(k)' = {} /\ Retriers(k)' = {}
                 /\ acts'[k] + Cardinality(Callers(k)') + Reserved(k)' <= Allowed(failures'[k])
      <4>1. Callers(k)' = Callers(k) /\ Retriers(k)' = Retriers(k)
        BY <3>0, <3>1, OthersCall DEF Callers, Retriers
      <4>2. Reserved(k)' = Reserved(k)
        BY <3>1, <4>1 DEF Reserved
      <4>. QED  BY <3>1, <4>1, <4>2 DEF RepeatsInv
    <3>. DEFINE C == Callers(m)
                C1 == Callers(m)'
                R == Retriers(m)
                R1 == Retriers(m)'
                W == Cardinality(Workers)
    <3>3. /\ C \in SUBSET Workers /\ C1 \in SUBSET Workers /\ C \ {w} = C1 \ {w}
          /\ R \in SUBSET Workers /\ R1 \in SUBSET Workers /\ R \ {w} = R1 \ {w}
      BY <3>1, OthersCall
    <3>4. /\ w \in C <=> worker[w].stage = "calling"
          /\ w \in C1 <=> worker'[w].stage = "calling"
          /\ w \in R <=> worker[w].stage = "reopening"
          /\ w \in R1 <=> worker'[w].stage = "reopening"
      BY <3>0, <3>1 DEF Callers, Retriers
    <3>5. /\ acts[m] \in Nat /\ failures[m] \in Nat /\ W \in Nat /\ Allowed(failures[m]) \in Nat
          /\ Allowed(failures[m] + 1) = Allowed(failures[m]) + W
          /\ Allowed(failures[m])' = Allowed(failures'[m])
          /\ Reserved(m) = (IF ledger[m].status = "FAILED" THEN W ELSE Cardinality(R))
          /\ Reserved(m)' = (IF ledger'[m].status = "FAILED" THEN W ELSE Cardinality(R1))
      BY <1>0, <3>1, AllowedGrows DEF Reserved, Allowed
    <3>6. /\ ledger[m].status = Absent => acts[m] = 0 /\ C = {} /\ R = {}
          /\ acts[m] + Cardinality(C) + Reserved(m) <= Allowed(failures[m])
      BY DEF RepeatsInv
    <3>. HIDE DEF C, C1, R, R1, W
    <3>7. /\ Cardinality(C) \in 0..W /\ Cardinality(C1) \in 0..W
          /\ Cardinality(R) \in 0..W /\ Cardinality(R1) \in 0..W
          /\ (w \in C <=> w \in C1) => Cardinality(C1) = Cardinality(C)
          /\ w \in C1 /\ w \notin C => Cardinality(C1) = Cardinality(C) + 1
          /\ w \notin C1 /\ w \in C => Cardinality(C1) = Cardinality(C) - 1
          /\ (w \in R <=> w \in R1) => Cardinality(R1) = Cardinality(R)
          /\ w \in R1 /\ w \notin R => Cardinality(R1) = Cardinality(R) + 1
          /\ w \notin R1 /\ w \in R => Cardinality(R1) = Cardinality(R) - 1
      BY <3>3, OneMoves DEF W
    <3>8. /\ ledger'[m].status = Absent => acts'[m] = 0 /\ C1 = {} /\ R1 = {}
          /\ acts'[m] + Cardinality(C1) + Reserved(m)' <= Allowed(failures'[m])
      <4>1. CASE Read(w) /\ worker'[w].stage = "reopening"
        <5>1. ledger[m].status = "FAILED"
          <6>1. CASE Go(w, OnResult) \/ Go(w, OnError)
            BY <1>0, <4>1, <6>1, Moves
          <6>. QED  BY <3>0, <4>1, <6>1 DEF Read, MayRetry
        <5>2. /\ ledger' = ledger /\ acts' = acts /\ failures' = failures
              /\ w \notin C /\ w \notin C1
          BY <3>4, <4>1 DEF Read, At
        <5>. QED  BY <3>5, <3>6, <3>7, <5>1, <5>2 DEF Absent
      <4>2. CASE Claim(w) /\ ledger[m].status = Absent
        <5>1. /\ ledger'[m].status = "IN_FLIGHT" /\ acts' = acts /\ failures' = failures
              /\ worker'[w].stage = "calling"
          BY <1>0, <3>0, <4>2, Moves DEF Claim, Entry
        <5>2. Cardinality(C) = 0 /\ Cardinality(R) = 0
          BY <3>6, <4>2, FS_EmptySet
        <5>3. Allowed(failures[m]) >= 1
          <6>1. W * failures[m] \in Nat
            BY <3>5
          <6>. QED  BY <6>1 DEF Allowed, W
        <5>. QED  BY <3>4, <3>5, <3>6, <3>7, <4>2, <5>1, <5>2, <5>3 DEF Absent
      <4>3. CASE Reopen(w)
        <5>1. /\ ledger'[m].status = Reopened(ledger[m].status)
              /\ acts' = acts /\ failures' = failures
              /\ worker[w].stage = "reopening" /\ worker'[w].stage = "calling"
          BY <1>0, <3>0, <4>3, Moves DEF Reopen, Entry, At
        <5>2. w \in R /\ w \notin R1 /\ w \notin C /\ w \in C1
          BY <3>4, <5>1
        <5>3. ledger[m].status # Absent
          BY <3>6, <5>2
        <5>. QED  BY <3>5, <3>6, <3>7, <5>1, <5>2, <5>3 DEF Reopened, Absent
      <4>4. CASE Call(w)
        <5>1. /\ ledger' = ledger /\ failures' = failures
              /\ acts'[m] \in {acts[m], acts[m] + 1}
              /\ worker[w].stage = "calling" /\ worker'[w].stage \in {"answered", "failed"}
          BY <1>0, <3>0, <4>4 DEF Call, At, WorkerState
        <5>2. w \in C /\ w \notin C1 /\ w \notin R /\ w \notin R1
          BY <3>4, <5>1
        <5>3. ledger[m].status # Absent
          BY <3>6, <5>2
        <5>. QED  BY <3>5, <3>6, <3>7, <5>1, <5>2, <5>3
      <4>5. CASE Commit(w)
        <5>1. /\ ledger'[m] = Guarded(ledger[m], "SUCCEEDED", worker[w].answer)
              /\ acts' = acts /\ failures' = failures
              /\ worker[w].stage = "answered" /\ worker'[w].stage \notin {"calling", "reopening"}
          BY <1>0, <3>0, <4>5, Moves DEF Commit, At
        <5>2. /\ w \notin C /\ w \notin C1 /\ w \notin R /\ w \notin R1
          BY <3>4, <5>1
        <5>3. C1 = C /\ R1 = R
          BY <3>3, <5>2
        <5>4. CASE ledger[m].status = "IN_FLIGHT"
          BY <3>5, <3>6, <3>7, <5>1, <5>3, <5>4 DEF Absent, Guarded
        <5>5. CASE ledger[m].status # "IN_FLIGHT"
          BY <3>5, <3>6, <3>7, <5>1, <5>3, <5>5 DEF Guarded
        <5>. QED  BY <5>4, <5>5
      <4>6. CASE Abandon(w)
        <5>1. /\ ledger'[m] = Guarded(ledger[m], "FAILED", NoAnswer)
              /\ acts' = acts /\ failures'[m] = failures[m] + 1
              /\ worker[w].stage = "failed" /\ worker'[w].stage \notin {"calling", "reopening"}
          BY <1>0, <3>0, <4>6, Moves DEF Abandon, At
        <5>2. /\ w \notin C /\ w \notin C1 /\ w \notin R /\ w \notin R1
          BY <3>4, <5>1
        <5>3. C1 = C /\ R1 = R
          BY <3>3, <5>2
        <5>4. CASE ledger[m].status = "IN_FLIGHT"
          BY <3>5, <3>6, <3>7, <5>1, <5>3, <5>4 DEF Absent, Guarded
        <5>5. CASE ledger[m].status # "IN_FLIGHT"
          BY <3>5, <3>6, <3>7, <5>1, <5>3, <5>5 DEF Guarded
        <5>. QED  BY <5>4, <5>5
      <4>. QED  BY <2>6, <3>0, <4>1, <4>2, <4>3, <4>4, <4>5, <4>6
    <3>. QED  BY <3>2, <3>8 DEF RepeatsInv, C1, R1, Allowed
  <2>. QED  BY <1>2, <2>1, <2>2, <2>3, <2>4, <2>5, <2>6 DEF Step, Go
<1>. QED  BY <1>1, <1>2 DEF Next

\* However often a job is delivered and its call retried, the outside world does what
\* it asks for once, and once more at most by each process for every failed attempt.
THEOREM RepetitionsArePaidFor == Spec => []RepeatsNeedFailures
<1>1. Init => RepeatsInv
  <2>. SUFFICES ASSUME Init, NEW k \in Keys
                PROVE  /\ acts[k] = 0 /\ Callers(k) = {} /\ Retriers(k) = {}
                       /\ acts[k] + Cardinality(Callers(k)) + Reserved(k) <= Allowed(failures[k])
    BY DEF RepeatsInv
  <2>1. acts[k] = 0 /\ failures[k] = 0 /\ ledger[k].status # "FAILED"
    BY DEF Init, Absent
  <2>2. Callers(k) = {} /\ Retriers(k) = {}
    BY DEF Init, Callers, Retriers
  <2>3. Cardinality(Workers) \in Nat
    BY AllowedGrows
  <2>. QED  BY <2>1, <2>2, <2>3, FS_EmptySet DEF Reserved, Allowed
<1>2. TypeOK /\ RepeatsInv => RepeatsNeedFailures
  <2>. SUFFICES ASSUME TypeOK, RepeatsInv, NEW k \in Keys
                PROVE  acts[k] <= Allowed(failures[k])
    BY DEF RepeatsNeedFailures, Allowed
  <2>1. /\ Callers(k) \in SUBSET Workers /\ Retriers(k) \in SUBSET Workers
        /\ acts[k] \in Nat /\ failures[k] \in Nat
    BY DEF TypeOK, Callers, Retriers
  <2>2. /\ Cardinality(Callers(k)) \in Nat /\ Cardinality(Retriers(k)) \in Nat
        /\ Cardinality(Workers) \in Nat /\ Allowed(failures[k]) \in Nat
    BY <2>1, AllowedGrows, WorkersAssumption, FS_Subset, FS_CardinalityType
  <2>. QED  BY <2>1, <2>2 DEF RepeatsInv, Reserved
<1>3. TypeOK /\ RepeatsInv /\ [Next]_vars => RepeatsInv'
  BY RepeatsStep
<1>. QED  BY <1>1, <1>2, <1>3, TypeCorrect, PTL DEF Spec

=============================================================================
