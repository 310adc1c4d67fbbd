------------------------- MODULE OrchestratorProofs -------------------------
(***************************************************************************)
(* Theorems about the fleet, for any number of workers, any set of valid   *)
(* graphs and any limits.                                                  *)
(***************************************************************************)
EXTENDS OrchestratorProperties, FiniteSetTheorems, TLAPS

-----------------------------------------------------------------------------
(* What a valid graph gives the orchestrator. *)

\* The entry node exists, and nothing leads to it: it is no join.
LEMMA EntryOfGraph ==
  ASSUME NEW g \in Graphs
  PROVE  /\ Entry(g) \in Nodes /\ Entry(g) \in g.nodes
         /\ Incoming(g, Entry(g)) = {} /\ ~Joining(g, Entry(g))
<1>1. g.nodes \subseteq Nodes /\ ValidGraph(g)
  BY GraphsAssumption
<1>2. Entries(g) # {}
  <2>1. Cardinality({}) = 0
    BY FS_EmptySet
  <2>. QED  BY <1>1, <2>1 DEF ValidGraph
<1>3. Entry(g) \in g.nodes /\ Incoming(g, Entry(g)) = {}
  BY <1>2 DEF Entries, Entry
<1>. QED  BY <1>1, <1>3 DEF Joining

\* The edges of a graph end at nodes.
LEMMA EdgesEndAtNodes ==
  ASSUME NEW e \in Edge
  PROVE  e.dst \in Nodes
BY GraphsAssumption DEF Edge, ValidGraph, WellFormedEdges

\* The verdict of a branch selects one of the edges that leave it.
LEMMA VerdictSelectsEdge ==
  ASSUME NEW g \in Graphs, NEW b \in g.branches, NEW v \in Verdicts
  PROVE  EdgeFor(g, b, v) \in Edge /\ EdgeFor(g, b, v) \in Outgoing(g, b)
<1>1. PICK e \in Outgoing(g, b) : e.cond = v
  BY GraphsAssumption DEF ValidGraph, BranchesChoose
<1>2. EdgeFor(g, b, v) \in Outgoing(g, b)
  BY <1>1 DEF EdgeFor
<1>. QED  BY <1>2 DEF Outgoing, Edge

-----------------------------------------------------------------------------
(* Types. *)

\* A worker that is handling something holds a job, and a worker that has
\* settled on a successor holds a node.
HoldsAJob ==
  \A w \in Workers :
    /\ worker[w].pc # "idle" => worker[w].job \in Job
    /\ worker[w].pc \in {"claim", "publish"} => worker[w].target \in Nodes

TypeInv == TypeOK /\ HoldsAJob

LEMMA InitTypes == Init => TypeInv
BY BudgetAssumption
   DEF Init, TypeInv, TypeOK, HoldsAJob, Statuses, WorkerType, IdleWorker, Stages, NoJob, Job

\* The update of one worker's record, which is all a step does to worker.
LEMMA WorkerUpdate ==
  ASSUME TypeInv, NEW w \in Workers, NEW r \in WorkerType,
         worker' = [worker EXCEPT ![w] = r],
         r.pc # "idle" => r.job \in Job,
         r.pc \in {"claim", "publish"} => r.target \in Nodes
  PROVE  worker' \in [Workers -> WorkerType] /\ HoldsAJob'
<1>1. worker \in [Workers -> WorkerType]
  BY DEF TypeInv, TypeOK
<1>2. worker' \in [Workers -> WorkerType]
  BY <1>1
<1>3. ASSUME NEW v \in Workers
      PROVE  worker'[v] = IF v = w THEN r ELSE worker[v]
  BY <1>1
<1>. QED  BY <1>2, <1>3 DEF HoldsAJob, TypeInv

LEMMA IdleUpdate ==
  ASSUME TypeInv, NEW w \in Workers, GoIdle(w)
  PROVE  worker' \in [Workers -> WorkerType] /\ HoldsAJob'
<1>1. IdleWorker \in WorkerType /\ IdleWorker.pc = "idle"
  BY DEF IdleWorker, WorkerType, Stages, NoJob
<1>. QED  BY <1>1, WorkerUpdate DEF GoIdle

LEMMA StageUpdate ==
  ASSUME TypeInv, NEW w \in Workers, NEW s \in Stages, Goto(w, s),
         worker[w].pc # "idle",
         s \in {"claim", "publish"} => worker[w].target \in Nodes
  PROVE  worker' \in [Workers -> WorkerType] /\ HoldsAJob'
<1>. DEFINE r == [worker[w] EXCEPT !.pc = s]
<1>1. worker[w] \in WorkerType /\ worker[w].job \in Job
  BY DEF TypeInv, TypeOK, HoldsAJob
<1>2. r \in WorkerType /\ r.pc = s /\ r.job = worker[w].job /\ r.target = worker[w].target
  BY <1>1 DEF WorkerType
<1>3. worker' = [worker EXCEPT ![w] = r]
  BY DEF Goto
<1>. HIDE DEF r
<1>. QED  BY <1>1, <1>2, <1>3, WorkerUpdate

\* What each action changes of the mail keeps its type.
LEMMA EnqueueTypes ==
  ASSUME TypeInv, NEW n \in Nodes, Enqueue(n)
  PROVE  queue' \in Seq(Job) /\ dead' \subseteq Job /\ published' \in [Nodes -> Nat]
<1>1. NewJob(n) \in Job
  BY DEF NewJob, Job, TypeInv, TypeOK
<1>. QED  BY <1>1 DEF Enqueue, TypeInv, TypeOK

LEMMA SpendTypes ==
  ASSUME TypeInv, NEW m \in Mishaps, Spend(m)
  PROVE  spent' \in [Mishaps -> Nat]
BY DEF Spend, TypeInv, TypeOK

LEMMA FailRunTypes == TypeInv /\ FailRun => status' \in Statuses
BY DEF FailRun, TypeInv, TypeOK, Statuses, Terminal

\* The paths a worker starts from are paths, and every path ends at a node.
LEMMA PathsAreTyped ==
  ASSUME TypeInv, NEW n \in Nodes
  PROVE  PathsFrom(n) \in SUBSET Path
<1>1. graph \in Graphs /\ 0 \in 0..MaxInlineBranches
  BY LimitsAssumption DEF TypeInv, TypeOK
<1>. QED  BY <1>1 DEF PathsFrom, Path, Outgoing, Edge

LEMMA PathsEndAtNodes ==
  ASSUME TypeInv, NEW w \in Workers, NEW p \in worker[w].paths
  PROVE  p \in Path /\ p.at.dst \in Nodes
<1>1. p \in Path
  BY DEF TypeInv, TypeOK, WorkerType
<1>. QED  BY <1>1, EdgesEndAtNodes DEF Path

LEMMA CommitStepTypes ==
  ASSUME TypeInv, NEW w \in Workers, CommitStep(w)
  PROVE  TypeInv'
<1>. DEFINE n == worker[w].job.node
            r == [worker[w] EXCEPT !.pc = "plan", !.paths = PathsFrom(n), !.last = n]
<1>1. worker[w] \in WorkerType /\ worker[w].job \in Job /\ worker[w].job.node \in Nodes
  BY DEF TypeInv, TypeOK, HoldsAJob, CommitStep, Job
<1>2. r \in WorkerType /\ r.pc = "plan" /\ r.job = worker[w].job
  BY <1>1, PathsAreTyped DEF WorkerType, Stages
<1>3. worker' = [worker EXCEPT ![w] = r]
  BY DEF CommitStep
<1>4. worker' \in [Workers -> WorkerType] /\ HoldsAJob'
  <2>. HIDE DEF r
  <2>. QED  BY <1>1, <1>2, <1>3, WorkerUpdate
<1>5. decided' \in [Nodes -> Verdicts \cup {"none"}]
  BY <1>1 DEF CommitStep, VerdictOnCommit, TypeInv, TypeOK
<1>6. steps' \in Nat /\ status' \in Statuses /\ committed' \subseteq Job
  BY <1>1 DEF CommitStep, StepsOnCommit, StatusOnCommit, Statuses, TypeInv, TypeOK
<1>. QED  BY <1>4, <1>5, <1>6 DEF CommitStep, TypeInv, TypeOK, mailVars

LEMMA ResolveBranchTypes ==
  ASSUME TypeInv, NEW w \in Workers, ResolveBranch(w)
  PROVE  TypeInv'
<1>1. PICK p \in worker[w].paths, v \in Verdicts :
        /\ AtBranch(p)
        /\ p.hops < MaxInlineBranches
        /\ worker' = [worker EXCEPT
             ![w].paths = (@ \ {p}) \cup
                {[p EXCEPT !.at = EdgeFor(graph, p.at.dst, v), !.hops = @ + 1]},
             ![w].chosen = {c \in @ : c[1] # p.at.dst} \cup {<<p.at.dst, v>>},
             ![w].last = p.at.dst]
  BY DEF ResolveBranch
<1>. DEFINE q == [p EXCEPT !.at = EdgeFor(graph, p.at.dst, v), !.hops = @ + 1]
            ps == (worker[w].paths \ {p}) \cup {q}
            cs == {c \in worker[w].chosen : c[1] # p.at.dst} \cup {<<p.at.dst, v>>}
            r == [worker[w] EXCEPT !.paths = ps, !.chosen = cs, !.last = p.at.dst]
<1>2. worker[w] \in WorkerType /\ worker[w].pc = "plan" /\ worker[w].job \in Job
  BY DEF TypeInv, TypeOK, HoldsAJob, ResolveBranch
<1>3. p \in Path /\ p.at.dst \in Nodes
  BY PathsEndAtNodes
<1>4. q \in Path
  <2>1. EdgeFor(graph, p.at.dst, v) \in Edge
    BY <1>1, VerdictSelectsEdge DEF AtBranch, TypeInv, TypeOK
  <2>2. p.hops + 1 \in 0..MaxInlineBranches
    <3>1. p.hops < MaxInlineBranches /\ p.hops \in 0..MaxInlineBranches
      BY <1>1, <1>3 DEF Path
    <3>. QED  BY <3>1, LimitsAssumption
  <2>. QED  BY <1>3, <2>1, <2>2 DEF Path
<1>5. ps \in SUBSET Path /\ cs \in SUBSET (Nodes \X Verdicts)
  BY <1>2, <1>3, <1>4 DEF WorkerType
<1>6. r \in WorkerType /\ r.pc = "plan" /\ r.job = worker[w].job
  <2>. HIDE DEF ps, cs
  <2>. QED  BY <1>2, <1>3, <1>5 DEF WorkerType
<1>7. worker' = [worker EXCEPT ![w] = r]
  BY <1>1
<1>8. worker' \in [Workers -> WorkerType] /\ HoldsAJob'
  <2>. HIDE DEF r
  <2>. QED  BY <1>2, <1>6, <1>7, WorkerUpdate
<1>. QED  BY <1>8 DEF ResolveBranch, TypeInv, TypeOK, runVars, stepVars, mailVars

\* Resolving a branch leaves the worker planning, and the others alone.
LEMMA ResolveBranchStays ==
  ASSUME TypeInv, NEW w \in Workers, ResolveBranch(w)
  PROVE  /\ worker'[w].pc = "plan"
         /\ \A v \in Workers \ {w} : worker'[v] = worker[v]
<1>1. worker \in [Workers -> WorkerType] /\ worker[w].pc = "plan"
  BY DEF TypeInv, TypeOK, ResolveBranch
<1>2. PICK p \in worker[w].paths, v \in Verdicts :
        worker' = [worker EXCEPT
             ![w].paths = (@ \ {p}) \cup
                {[p EXCEPT !.at = EdgeFor(graph, p.at.dst, v), !.hops = @ + 1]},
             ![w].chosen = {c \in @ : c[1] # p.at.dst} \cup {<<p.at.dst, v>>},
             ![w].last = p.at.dst]
  BY DEF ResolveBranch
<1>. QED  BY <1>1, <1>2 DEF WorkerType

LEMMA CommitVerdictsTypes ==
  ASSUME TypeInv, NEW w \in Workers, CommitVerdicts(w)
  PROVE  TypeInv'
<1>1. worker' \in [Workers -> WorkerType] /\ HoldsAJob'
  BY StageUpdate DEF CommitVerdicts, Stages
<1>2. decided' \in [Nodes -> Verdicts \cup {"none"}]
  BY DEF CommitVerdicts, TypeInv, TypeOK
<1>. QED  BY <1>1, <1>2 DEF CommitVerdicts, TypeInv, TypeOK, mailVars

LEMMA ConsiderSuccessorTypes ==
  ASSUME TypeInv, NEW w \in Workers, ConsiderSuccessor(w)
  PROVE  TypeInv'
<1>1. PICK p \in worker[w].paths :
        worker' = [worker EXCEPT
          ![w].paths = @ \ {p},
          ![w].target = IF MayStart(p.at.dst) THEN p.at.dst ELSE NoNode,
          ![w].pc = IF ~MayStart(p.at.dst) THEN "dispatch"
                    ELSE IF Joining(graph, p.at.dst) THEN "claim" ELSE "publish"]
  BY DEF ConsiderSuccessor
<1>. DEFINE t == IF MayStart(p.at.dst) THEN p.at.dst ELSE NoNode
            s == IF ~MayStart(p.at.dst) THEN "dispatch"
                 ELSE IF Joining(graph, p.at.dst) THEN "claim" ELSE "publish"
            r == [worker[w] EXCEPT !.paths = @ \ {p}, !.target = t, !.pc = s]
<1>2. worker[w] \in WorkerType /\ worker[w].job \in Job
  BY DEF TypeInv, TypeOK, HoldsAJob, ConsiderSuccessor
<1>3. /\ t \in Nodes \cup {NoNode} /\ s \in Stages
      /\ s \in {"claim", "publish"} => t \in Nodes
  BY PathsEndAtNodes DEF Stages
<1>4. r \in WorkerType /\ r.pc = s /\ r.target = t /\ r.job = worker[w].job
  <2>. HIDE DEF t, s
  <2>. QED  BY <1>2, <1>3 DEF WorkerType
<1>5. worker' = [worker EXCEPT ![w] = r]
  BY <1>1
<1>6. worker' \in [Workers -> WorkerType] /\ HoldsAJob'
  <2>. HIDE DEF r, t, s
  <2>. QED  BY <1>2, <1>3, <1>4, <1>5, WorkerUpdate
<1>. QED  BY <1>6 DEF ConsiderSuccessor, TypeInv, TypeOK, runVars, stepVars, mailVars

LEMMA BindingFailsTypes ==
  ASSUME TypeInv, NEW w \in Workers, BindingFails(w)
  PROVE  TypeInv'
<1>1. PICK p \in worker[w].paths : worker' = [worker EXCEPT ![w].paths = @ \ {p}]
  BY DEF BindingFails
<1>. DEFINE r == [worker[w] EXCEPT !.paths = @ \ {p}]
<1>2. worker[w] \in WorkerType /\ worker[w].job \in Job /\ worker[w].pc = "dispatch"
  BY DEF TypeInv, TypeOK, HoldsAJob, BindingFails
<1>3. r \in WorkerType /\ r.pc = "dispatch" /\ r.job = worker[w].job
  BY <1>2 DEF WorkerType
<1>4. worker' = [worker EXCEPT ![w] = r]
  BY <1>1
<1>5. worker' \in [Workers -> WorkerType] /\ HoldsAJob'
  <2>. HIDE DEF r
  <2>. QED  BY <1>2, <1>3, <1>4, WorkerUpdate
<1>. QED  BY <1>5, FailRunTypes, SpendTypes
          DEF BindingFails, TypeInv, TypeOK, stepVars, mailVars, Mishaps

\* After a successor is settled, one way or another, the worker goes back to
\* its list.
LEMMA BackToDispatch ==
  ASSUME TypeInv, NEW w \in Workers, NEW b \in BOOLEAN,
         worker[w].pc # "idle",
         worker' = [worker EXCEPT ![w] =
                      [@ EXCEPT !.pc = "dispatch", !.target = NoNode, !.sent = b]]
  PROVE  worker' \in [Workers -> WorkerType] /\ HoldsAJob'
<1>. DEFINE r == [worker[w] EXCEPT !.pc = "dispatch", !.target = NoNode, !.sent = b]
<1>1. worker[w] \in WorkerType /\ worker[w].job \in Job
  BY DEF TypeInv, TypeOK, HoldsAJob
<1>2. r \in WorkerType /\ r.pc = "dispatch" /\ r.job = worker[w].job
  BY <1>1 DEF WorkerType, Stages
<1>3. worker' = [worker EXCEPT ![w] = r]
  OBVIOUS
<1>. HIDE DEF r
<1>. QED  BY <1>1, <1>2, <1>3, WorkerUpdate

LEMMA ClaimJoinTypes ==
  ASSUME TypeInv, NEW w \in Workers, ClaimJoin(w)
  PROVE  TypeInv'
<1>1. worker[w] \in WorkerType /\ worker[w].target \in Nodes /\ worker[w].pc = "claim"
  BY DEF TypeInv, TypeOK, HoldsAJob, ClaimJoin
<1>2. claimed' \subseteq Nodes
  BY <1>1 DEF ClaimJoin, TypeInv, TypeOK
<1>3. CASE MayPublish(worker[w].target)
  BY <1>1, <1>2, <1>3, StageUpdate DEF ClaimJoin, TypeInv, TypeOK, Stages, mailVars
<1>4. CASE ~MayPublish(worker[w].target)
  <2>1. worker' = [worker EXCEPT ![w] =
          [@ EXCEPT !.pc = "dispatch", !.target = NoNode, !.sent = worker[w].sent]]
    BY <1>1, <1>4 DEF ClaimJoin, WorkerType, TypeInv, TypeOK
  <2>2. worker[w].sent \in BOOLEAN
    BY <1>1 DEF WorkerType
  <2>3. worker' \in [Workers -> WorkerType] /\ HoldsAJob'
    BY <1>1, <2>1, <2>2, BackToDispatch
  <2>. QED  BY <1>2, <2>3 DEF ClaimJoin, TypeInv, TypeOK, mailVars
<1>. QED  BY <1>3, <1>4

LEMMA PublishTypes ==
  ASSUME TypeInv, NEW w \in Workers, Publish(w)
  PROVE  TypeInv'
<1>1. worker[w].target \in Nodes /\ worker[w].pc = "publish"
  BY DEF TypeInv, TypeOK, HoldsAJob, Publish
<1>2. worker' \in [Workers -> WorkerType] /\ HoldsAJob'
  <2>1. worker' = [worker EXCEPT ![w] =
          [@ EXCEPT !.pc = "dispatch", !.target = NoNode, !.sent = TRUE]]
    BY DEF Publish
  <2>. QED  BY <1>1, <2>1, BackToDispatch
<1>3. queue' \in Seq(Job) /\ dead' \subseteq Job /\ published' \in [Nodes -> Nat]
  BY <1>1, EnqueueTypes DEF Publish
<1>. QED  BY <1>2, <1>3 DEF Publish, TypeInv, TypeOK, runVars, stepVars

LEMMA PollTypes ==
  ASSUME TypeInv, NEW w \in Workers, Poll(w)
  PROVE  TypeInv'
<1>1. queue \in Seq(Job) /\ queue # <<>> /\ worker[w] \in WorkerType
  BY DEF TypeInv, TypeOK, Poll
<1>2. Head(queue) \in Job /\ Tail(queue) \in Seq(Job)
  BY <1>1
<1>3. CASE authorized
  <2>. DEFINE r == [worker[w] EXCEPT !.pc = "load", !.job = Head(queue)]
  <2>1. r \in WorkerType /\ r.pc = "load" /\ r.job \in Job
    BY <1>1, <1>2 DEF WorkerType, Stages
  <2>2. worker' = [worker EXCEPT ![w] = r]
    BY <1>3 DEF Poll
  <2>3. worker' \in [Workers -> WorkerType] /\ HoldsAJob'
    <3>. HIDE DEF r
    <3>. QED  BY <2>1, <2>2, WorkerUpdate
  <2>. QED  BY <1>2, <1>3, <2>3 DEF Poll, TypeInv, TypeOK, runVars, stepVars
<1>4. CASE ~authorized
  BY <1>1, <1>2, <1>4 DEF Poll, Park, TypeInv, TypeOK, HoldsAJob, runVars, stepVars
<1>. QED  BY <1>3, <1>4

LEMMA LoadTypes ==
  ASSUME TypeInv, NEW w \in Workers, Load(w)
  PROVE  TypeInv'
<1>1. worker' \in [Workers -> WorkerType] /\ HoldsAJob'
  BY IdleUpdate, StageUpdate DEF Load, Stages
<1>2. status' \in Statuses
  BY FailRunTypes DEF Load, TypeInv, TypeOK
<1>. QED  BY <1>1, <1>2 DEF Load, TypeInv, TypeOK, stepVars, mailVars

LEMMA SucceedTypes ==
  ASSUME TypeInv, NEW w \in Workers, Succeed(w)
  PROVE  TypeInv'
<1>1. worker' \in [Workers -> WorkerType] /\ HoldsAJob'
  BY IdleUpdate DEF Succeed
<1>2. status' \in Statuses /\ result' \in Nodes \cup {NoNode}
  BY DEF Succeed, TypeInv, TypeOK, WorkerType, Statuses
<1>. QED  BY <1>1, <1>2 DEF Succeed, TypeInv, TypeOK, stepVars, mailVars

LEMMA FinishTypes ==
  ASSUME TypeInv, NEW w \in Workers, Finish(w)
  PROVE  TypeInv'
<1>1. worker' \in [Workers -> WorkerType] /\ HoldsAJob'
  BY IdleUpdate, StageUpdate DEF Finish, Stages
<1>. QED  BY <1>1 DEF Finish, TypeInv, TypeOK, runVars, stepVars, mailVars

\* The four ways a job's handling is broken off: the executor raises, planning
\* does, the chain of branches is too long, the process dies.
LEMMA BreakOffTypes ==
  ASSUME TypeInv, NEW w \in Workers,
         StepFails(w) \/ PlanFails(w) \/ TooManyBranches(w) \/ Crash(w) \/ PublishRefused(w)
  PROVE  TypeInv'
<1>1. worker' \in [Workers -> WorkerType] /\ HoldsAJob'
  BY IdleUpdate DEF StepFails, PlanFails, TooManyBranches, Crash, PublishRefused
<1>2. status' \in Statuses
  BY FailRunTypes
     DEF StepFails, PlanFails, TooManyBranches, Crash, PublishRefused, TypeInv, TypeOK, runVars
<1>3. spent' \in [Mishaps -> Nat]
  BY SpendTypes
     DEF StepFails, PlanFails, TooManyBranches, Crash, PublishRefused, TypeInv, TypeOK, Mishaps
<1>. QED  BY <1>1, <1>2, <1>3
          DEF StepFails, PlanFails, TooManyBranches, Crash, PublishRefused, TypeInv, TypeOK,
              runVars, stepVars, mailVars

LEMMA NextTypes == TypeInv /\ [Next]_vars => TypeInv'
<1>. SUFFICES ASSUME TypeInv, [Next]_vars  PROVE TypeInv'
  OBVIOUS
<1>1. CASE AcceptRun
  BY <1>1 DEF AcceptRun, TypeInv, TypeOK, HoldsAJob, Statuses, stepVars, mailVars
<1>2. CASE PublishEntry
  <2>1. Entry(graph) \in Nodes
    BY EntryOfGraph DEF TypeInv, TypeOK
  <2>2. queue' \in Seq(Job) /\ dead' \subseteq Job /\ published' \in [Nodes -> Nat]
    BY <1>2, <2>1, EnqueueTypes DEF PublishEntry, TypeInv, TypeOK, mailVars
  <2>. QED  BY <1>2, <2>2 DEF PublishEntry, TypeInv, TypeOK, HoldsAJob, runVars, stepVars
<1>3. CASE Revoke \/ Restore
  BY <1>3, SpendTypes
     DEF Revoke, Restore, TypeInv, TypeOK, HoldsAJob, runVars, stepVars, mailVars, Mishaps
<1>4. CASE Resubmit
  <2>1. queue' \in Seq(Job)
    BY <1>4 DEF Resubmit, TypeInv, TypeOK
  <2>. QED  BY <1>4, <2>1, SpendTypes
            DEF Resubmit, TypeInv, TypeOK, HoldsAJob, runVars, stepVars, Mishaps
<1>5. ASSUME NEW w \in Workers, Step(w) \/ Crash(w)
      PROVE  TypeInv'
  BY <1>5, PollTypes, LoadTypes, CommitStepTypes, ResolveBranchTypes, CommitVerdictsTypes,
     ConsiderSuccessorTypes, BindingFailsTypes, ClaimJoinTypes, PublishTypes, FinishTypes,
     SucceedTypes, BreakOffTypes
     DEF Step
<1>6. CASE UNCHANGED vars
  BY <1>6 DEF vars, runVars, stepVars, mailVars, TypeInv, TypeOK, HoldsAJob
<1>. QED  BY <1>1, <1>2, <1>3, <1>4, <1>5, <1>6 DEF Next

LEMMA TypesHold == Spec => []TypeInv
BY InitTypes, NextTypes, PTL DEF Spec

\* Every value has its type, in every behaviour of any fleet.
THEOREM TypeCorrect == Spec => []TypeOK
<1>1. TypeInv => TypeOK
  BY DEF TypeInv
<1>. QED  BY <1>1, TypesHold, PTL

-----------------------------------------------------------------------------
(***************************************************************************)
(* A join is dispatched once.  What makes it so is where the job is: a     *)
(* join nobody has claimed has no job and no worker about to create one; a *)
(* claimed one has a job, or one worker about to create it, or neither if  *)
(* that worker died or was refused, but never more than one of the two.    *)
(***************************************************************************)
Publishes(w, n) == worker[w].pc = "publish" /\ worker[w].target = n

ClaimOf(n) ==
  /\ n \notin claimed => published[n] = 0 /\ \A w \in Workers : ~Publishes(w, n)
  /\ published[n] <= 1
  /\ \A w \in Workers : Publishes(w, n) => published[n] = 0
  /\ \A v, w \in Workers : Publishes(v, n) /\ Publishes(w, n) => v = w

ClaimInv == \A n \in Nodes : Joining(graph, n) => ClaimOf(n)

\* Nothing about a join's claim changes when no worker comes to publish it and
\* no job is created for it.
LEMMA ClaimUntouched ==
  ASSUME NEW n \in Nodes, ClaimOf(n),
         published'[n] = published[n],
         n \in claimed => n \in claimed',
         n \in claimed' /\ n \notin claimed => published[n] = 0,
         \A w \in Workers : Publishes(w, n)' => Publishes(w, n)
  PROVE  ClaimOf(n)'
<1>1. published'[n] <= 1
  BY DEF ClaimOf
<1>2. n \notin claimed' => published'[n] = 0 /\ \A w \in Workers : ~Publishes(w, n)'
  BY DEF ClaimOf
<1>3. \A w \in Workers : Publishes(w, n)' => published'[n] = 0
  BY DEF ClaimOf
<1>4. \A v, w \in Workers : Publishes(v, n)' /\ Publishes(w, n)' => v = w
  BY DEF ClaimOf
<1>. QED  BY <1>1, <1>2, <1>3, <1>4 DEF ClaimOf

\* A worker whose record changes to one that does not publish takes nothing
\* from anyone's claim.
LEMMA NotPublishing ==
  ASSUME TypeInv, NEW w \in Workers, NEW r,
         worker' = [worker EXCEPT ![w] = r],
         r.pc # "publish",
         NEW n \in Nodes
  PROVE  \A v \in Workers : Publishes(v, n)' => Publishes(v, n)
<1>1. worker \in [Workers -> WorkerType]
  BY DEF TypeInv, TypeOK
<1>. QED  BY <1>1 DEF Publishes

LEMMA PublishEntryClaims ==
  ASSUME TypeInv, ClaimInv, PublishEntry
  PROVE  ClaimInv'
<1>. SUFFICES ASSUME NEW n \in Nodes, Joining(graph, n)
              PROVE  ClaimOf(n)'
  BY DEF ClaimInv, PublishEntry
<1>1. n # Entry(graph)
  BY EntryOfGraph DEF TypeInv, TypeOK
<1>2. published'[n] = published[n]
  BY <1>1 DEF PublishEntry, Enqueue, mailVars, TypeInv, TypeOK
<1>3. claimed' = claimed /\ worker' = worker
  BY DEF PublishEntry, runVars, stepVars
<1>4. ClaimOf(n)
  BY DEF ClaimInv
<1>. QED  BY <1>2, <1>3, <1>4 DEF ClaimOf, Publishes

LEMMA ConsiderSuccessorClaims ==
  ASSUME TypeInv, ClaimInv, NEW w \in Workers, ConsiderSuccessor(w)
  PROVE  ClaimInv'
<1>. SUFFICES ASSUME NEW n \in Nodes, Joining(graph, n)
              PROVE  ClaimOf(n)'
  BY DEF ClaimInv, ConsiderSuccessor
<1>1. PICK p \in worker[w].paths :
        worker' = [worker EXCEPT
          ![w].paths = @ \ {p},
          ![w].target = IF MayStart(p.at.dst) THEN p.at.dst ELSE NoNode,
          ![w].pc = IF ~MayStart(p.at.dst) THEN "dispatch"
                    ELSE IF Joining(graph, p.at.dst) THEN "claim" ELSE "publish"]
  BY DEF ConsiderSuccessor
<1>2. worker \in [Workers -> WorkerType]
  BY DEF TypeInv, TypeOK
<1>3. ASSUME NEW v \in Workers, Publishes(v, n)'
      PROVE  Publishes(v, n)
  <2>1. CASE v # w
    BY <1>1, <1>2, <1>3, <2>1 DEF Publishes
  <2>2. CASE v = w
    <3>1. /\ worker'[w].pc = IF ~MayStart(p.at.dst) THEN "dispatch"
                             ELSE IF Joining(graph, p.at.dst) THEN "claim" ELSE "publish"
          /\ worker'[w].target = IF MayStart(p.at.dst) THEN p.at.dst ELSE NoNode
      BY <1>1, <1>2 DEF WorkerType
    <3>2. worker'[w].pc # "publish" \/ ~Joining(graph, worker'[w].target)
      BY <3>1
    <3>. QED  BY <1>3, <2>2, <3>2 DEF Publishes
  <2>. QED  BY <2>1, <2>2
<1>4. published' = published /\ claimed' = claimed
  BY DEF ConsiderSuccessor, runVars, stepVars, mailVars
<1>. QED  BY <1>3, <1>4, ClaimUntouched DEF ClaimInv

LEMMA ClaimJoinClaims ==
  ASSUME TypeInv, ClaimInv, NEW w \in Workers, ClaimJoin(w)
  PROVE  ClaimInv'
<1>. SUFFICES ASSUME NEW n \in Nodes, Joining(graph, n)
              PROVE  ClaimOf(n)'
  BY DEF ClaimInv, ClaimJoin
<1>1. /\ worker[w] \in WorkerType /\ worker \in [Workers -> WorkerType]
      /\ worker[w].pc = "claim"
      /\ claimed' = claimed \cup {worker[w].target}
      /\ published' = published
  BY DEF ClaimJoin, TypeInv, TypeOK, mailVars
<1>2. ClaimOf(n)
  BY DEF ClaimInv
<1>3. CASE MayPublish(worker[w].target) /\ worker[w].target = n
  <2>1. published[n] = 0 /\ \A v \in Workers : ~Publishes(v, n)
    BY <1>2, <1>3 DEF ClaimOf, MayPublish
  <2>2. ASSUME NEW v \in Workers, Publishes(v, n)'
        PROVE  v = w
    BY <1>1, <2>1, <2>2 DEF ClaimJoin, Goto, Publishes
  <2>. QED  BY <1>1, <1>3, <2>1, <2>2 DEF ClaimOf
<1>4. CASE MayPublish(worker[w].target) /\ worker[w].target # n
  <2>1. ASSUME NEW v \in Workers, Publishes(v, n)'
        PROVE  Publishes(v, n)
    BY <1>1, <1>4, <2>1 DEF ClaimJoin, Goto, Publishes, WorkerType
  <2>. QED  BY <1>1, <1>2, <1>4, <2>1, ClaimUntouched
<1>5. CASE ~MayPublish(worker[w].target)
  <2>1. worker'[w].pc = "dispatch"
    BY <1>1, <1>5 DEF ClaimJoin, WorkerType
  <2>2. ASSUME NEW v \in Workers, Publishes(v, n)'
        PROVE  Publishes(v, n)
    BY <1>1, <1>5, <2>1, <2>2 DEF ClaimJoin, Publishes
  <2>3. claimed' = claimed
    BY <1>1, <1>5 DEF MayPublish
  <2>. QED  BY <1>1, <1>2, <2>2, <2>3, ClaimUntouched
<1>. QED  BY <1>3, <1>4, <1>5

LEMMA PublishClaims ==
  ASSUME TypeInv, ClaimInv, NEW w \in Workers, Publish(w)
  PROVE  ClaimInv'
<1>. SUFFICES ASSUME NEW n \in Nodes, Joining(graph, n)
              PROVE  ClaimOf(n)'
  BY DEF ClaimInv, Publish
<1>1. /\ worker[w] \in WorkerType /\ worker \in [Workers -> WorkerType]
      /\ worker[w].target \in Nodes
      /\ published \in [Nodes -> Nat]
  BY DEF Publish, TypeInv, TypeOK, HoldsAJob
<1>2. /\ claimed' = claimed
      /\ published' = [published EXCEPT ![worker[w].target] = @ + 1]
      /\ Publishes(w, worker[w].target)
  BY DEF Publish, Enqueue, Publishes, runVars, stepVars
<1>3. ClaimOf(n)
  BY DEF ClaimInv
<1>4. worker'[w].pc = "dispatch"
  BY <1>1 DEF Publish, WorkerType
<1>5. ASSUME NEW v \in Workers, Publishes(v, n)'
      PROVE  Publishes(v, n) /\ v # w
  BY <1>1, <1>4, <1>5 DEF Publish, Publishes
<1>6. CASE worker[w].target = n
  <2>1. n \in claimed /\ published[n] = 0
    BY <1>2, <1>3, <1>6 DEF ClaimOf
  <2>2. published'[n] = 1
    BY <1>1, <1>2, <1>6, <2>1
  <2>3. \A v \in Workers : ~Publishes(v, n)'
    BY <1>2, <1>3, <1>5, <1>6 DEF ClaimOf
  <2>. QED  BY <1>2, <2>1, <2>2, <2>3 DEF ClaimOf
<1>7. CASE worker[w].target # n
  <2>1. published'[n] = published[n]
    BY <1>1, <1>2, <1>7
  <2>. QED  BY <1>2, <1>3, <1>5, <2>1, ClaimUntouched
<1>. QED  BY <1>6, <1>7

\* Every other step of a worker leaves claims and history alone, and its record
\* at another stage than publish.
LEMMA QuietStepClaims ==
  ASSUME TypeInv, ClaimInv, NEW w \in Workers,
         \/ Poll(w) \/ Load(w) \/ StepFails(w) \/ CommitStep(w) \/ ResolveBranch(w)
         \/ TooManyBranches(w) \/ PlanFails(w) \/ CommitVerdicts(w) \/ BindingFails(w)
         \/ PublishRefused(w) \/ Finish(w) \/ Succeed(w) \/ Crash(w)
  PROVE  ClaimInv'
<1>1. graph' = graph /\ claimed' = claimed /\ published' = published
  BY DEF Poll, Load, StepFails, CommitStep, ResolveBranch, TooManyBranches, PlanFails,
         CommitVerdicts, BindingFails, PublishRefused, Finish, Succeed, Crash,
         runVars, stepVars, mailVars
<1>2. worker \in [Workers -> WorkerType] /\ worker[w] \in WorkerType
  BY DEF TypeInv, TypeOK
<1>3. /\ \A v \in Workers \ {w} : worker'[v] = worker[v]
      /\ worker' = worker \/ worker'[w].pc # "publish"
  <2>1. CASE GoIdle(w)
    BY <1>2, <2>1 DEF GoIdle, IdleWorker
  <2>2. CASE \E s \in Stages \ {"publish"} : Goto(w, s)
    BY <1>2, <2>2 DEF Goto, WorkerType
  <2>3. CASE Poll(w)
    BY <1>2, <2>3 DEF Poll, WorkerType
  <2>4. CASE CommitStep(w)
    BY <1>2, <2>4 DEF CommitStep, WorkerType
  <2>5. CASE ResolveBranch(w)
    BY <1>2, <2>5, ResolveBranchStays
  <2>6. CASE BindingFails(w)
    <3>1. PICK ps : worker' = [worker EXCEPT ![w].paths = ps]
      BY <2>6 DEF BindingFails
    <3>2. worker[w].pc = "dispatch"
      BY <2>6 DEF BindingFails
    <3>. QED  BY <1>2, <3>1, <3>2 DEF WorkerType
  <2>. QED  BY <2>1, <2>2, <2>3, <2>4, <2>5, <2>6
            DEF Load, StepFails, TooManyBranches, PlanFails, CommitVerdicts, PublishRefused,
                Finish, Succeed, Crash, Stages
<1>4. ASSUME NEW n \in Nodes, NEW v \in Workers, Publishes(v, n)'
      PROVE  Publishes(v, n)
  BY <1>3, <1>4 DEF Publishes
<1>. QED  BY <1>1, <1>4, ClaimUntouched DEF ClaimInv

LEMMA NextClaims == TypeInv /\ ClaimInv /\ [Next]_vars => ClaimInv'
<1>. SUFFICES ASSUME TypeInv, ClaimInv, [Next]_vars  PROVE ClaimInv'
  OBVIOUS
<1>1. CASE PublishEntry
  BY <1>1, PublishEntryClaims
<1>2. CASE AcceptRun \/ Revoke \/ Restore \/ Resubmit \/ UNCHANGED vars
  <2>1. graph' = graph /\ claimed' = claimed /\ published' = published /\ worker' = worker
    BY <1>2 DEF AcceptRun, Revoke, Restore, Resubmit, vars, runVars, stepVars, mailVars
  <2>. QED  BY <2>1 DEF ClaimInv, ClaimOf, Publishes
<1>3. ASSUME NEW w \in Workers, Step(w) \/ Crash(w)
      PROVE  ClaimInv'
  BY <1>3, ConsiderSuccessorClaims, ClaimJoinClaims, PublishClaims, QuietStepClaims DEF Step
<1>. QED  BY <1>1, <1>2, <1>3 DEF Next

LEMMA ClaimsHold == Spec => []ClaimInv
<1>1. Init => ClaimInv
  BY DEF Init, ClaimInv, ClaimOf, Publishes, IdleWorker
<1>. QED  BY <1>1, NextClaims, TypesHold, PTL DEF Spec

\* However many workers race for a join, whatever crashes, is refused or is
\* delivered again: at most one job is ever created for it.
THEOREM JoinsDispatchedOnce == Spec => []JoinDispatchedOnce
<1>1. TypeInv /\ ClaimInv => JoinDispatchedOnce
  BY GraphsAssumption DEF TypeInv, TypeOK, ClaimInv, ClaimOf, JoinDispatchedOnce
<1>. QED  BY <1>1, TypesHold, ClaimsHold, PTL

-----------------------------------------------------------------------------
(***************************************************************************)
(* The step limit.  A worker that is executing has read a count below the  *)
(* limit and will add at most one to it, so the count and the workers that *)
(* are executing together never exceed what the first of them could have   *)
(* read and the size of the fleet.                                         *)
(***************************************************************************)
Executing == {w \in Workers : worker[w].pc = "execute"}

LimitInv == steps + Cardinality(Executing) < MaxSteps + Cardinality(Workers)

LEMMA ExecutingIsFinite ==
  /\ IsFiniteSet(Executing) /\ Cardinality(Executing) \in Nat
  /\ Cardinality(Workers) \in Nat
  /\ Cardinality(Executing) <= Cardinality(Workers)
<1>1. Executing \in SUBSET Workers /\ IsFiniteSet(Workers)
  BY WorkersAssumption DEF Executing
<1>. QED  BY <1>1, FS_Subset, FS_CardinalityType

LEMMA InitLimit == Init => LimitInv
<1>. SUFFICES ASSUME Init  PROVE LimitInv
  OBVIOUS
<1>1. Executing = {}
  BY DEF Init, Executing, IdleWorker
<1>2. Cardinality(Executing) = 0
  BY <1>1, FS_EmptySet
<1>3. Cardinality(Workers) \in Nat /\ MaxSteps \in Nat \ {0} /\ steps = 0
  BY ExecutingIsFinite, LimitsAssumption DEF Init
<1>. QED  BY <1>2, <1>3 DEF LimitInv

\* Counting fewer workers, and no further step, keeps the bound.
LEMMA FewerExecuting ==
  ASSUME TypeInv, LimitInv, steps' = steps, Executing' \subseteq Executing
  PROVE  LimitInv'
<1>1. Cardinality(Executing') <= Cardinality(Executing) /\ Cardinality(Executing') \in Nat
  BY ExecutingIsFinite, FS_Subset, FS_CardinalityType
<1>2. /\ steps \in Nat /\ MaxSteps \in Nat /\ Cardinality(Executing) \in Nat
      /\ Cardinality(Workers) \in Nat
  BY ExecutingIsFinite, LimitsAssumption DEF TypeInv, TypeOK
<1>3. steps' + Cardinality(Executing') < MaxSteps + Cardinality(Workers)
  BY <1>1, <1>2 DEF LimitInv
<1>. QED  BY <1>3 DEF LimitInv

LEMMA LoadLimit ==
  ASSUME TypeInv, LimitInv, NEW w \in Workers, Load(w)
  PROVE  LimitInv'
<1>1. worker \in [Workers -> WorkerType] /\ worker[w] \in WorkerType
  BY DEF TypeInv, TypeOK
<1>2. steps' = steps
  BY DEF Load, stepVars
<1>3. CASE GoIdle(w)
  <2>1. Executing' \subseteq Executing
    BY <1>1, <1>3 DEF GoIdle, IdleWorker, Executing
  <2>. QED  BY <1>2, <2>1, FewerExecuting
<1>4. CASE ~AtLimit
  <2>1. steps \in Nat /\ MaxSteps \in Nat /\ steps < MaxSteps
    BY <1>4, LimitsAssumption DEF AtLimit, TypeInv, TypeOK
  <2>2. /\ Cardinality(Executing') \in Nat /\ Cardinality(Workers) \in Nat
        /\ Cardinality(Executing') <= Cardinality(Workers)
    <3>1. Executing' \in SUBSET Workers /\ IsFiniteSet(Workers)
      BY WorkersAssumption DEF Executing
    <3>. QED  BY <3>1, FS_Subset, FS_CardinalityType
  <2>3. steps' + Cardinality(Executing') < MaxSteps + Cardinality(Workers)
    BY <1>2, <2>1, <2>2
  <2>. QED  BY <2>3 DEF LimitInv
<1>. QED  BY <1>3, <1>4 DEF Load

LEMMA CommitStepLimit ==
  ASSUME TypeInv, LimitInv, NEW w \in Workers, CommitStep(w)
  PROVE  LimitInv'
<1>1. worker \in [Workers -> WorkerType] /\ worker[w] \in WorkerType
  BY DEF TypeInv, TypeOK
<1>2. w \in Executing /\ Executing' = Executing \ {w}
  BY <1>1 DEF CommitStep, Executing, WorkerType
<1>3. Cardinality(Executing') = Cardinality(Executing) - 1
  BY <1>2, ExecutingIsFinite, FS_RemoveElement
<1>4. steps' \in {steps, steps + 1}
  BY DEF CommitStep, StepsOnCommit
<1>5. /\ steps \in Nat /\ MaxSteps \in Nat /\ Cardinality(Executing) \in Nat
      /\ Cardinality(Workers) \in Nat
  BY ExecutingIsFinite, LimitsAssumption DEF TypeInv, TypeOK
<1>6. steps' + Cardinality(Executing') < MaxSteps + Cardinality(Workers)
  BY <1>3, <1>4, <1>5 DEF LimitInv
<1>. QED  BY <1>6 DEF LimitInv

\* The other steps of a worker count nothing, and none of them starts an
\* executor.
LEMMA QuietStepLimit ==
  ASSUME TypeInv, LimitInv, NEW w \in Workers,
         \/ Poll(w) \/ StepFails(w) \/ ResolveBranch(w) \/ TooManyBranches(w)
         \/ PlanFails(w) \/ CommitVerdicts(w) \/ ConsiderSuccessor(w) \/ BindingFails(w)
         \/ ClaimJoin(w) \/ Publish(w) \/ PublishRefused(w) \/ Finish(w) \/ Succeed(w)
         \/ Crash(w)
  PROVE  LimitInv'
<1>1. steps' = steps
  BY DEF Poll, StepFails, ResolveBranch, TooManyBranches, PlanFails, CommitVerdicts,
         ConsiderSuccessor, BindingFails, ClaimJoin, Publish, PublishRefused, Finish,
         Succeed, Crash, runVars, stepVars
<1>2. worker \in [Workers -> WorkerType] /\ worker[w] \in WorkerType
  BY DEF TypeInv, TypeOK
<1>3. /\ \A v \in Workers \ {w} : worker'[v] = worker[v]
      /\ worker' = worker \/ worker'[w].pc # "execute"
  <2>1. CASE GoIdle(w)
    BY <1>2, <2>1 DEF GoIdle, IdleWorker
  <2>2. CASE \E s \in Stages \ {"execute"} : Goto(w, s)
    BY <1>2, <2>2 DEF Goto, WorkerType
  <2>3. CASE Poll(w)
    BY <1>2, <2>3 DEF Poll, WorkerType
  <2>4. CASE ResolveBranch(w)
    BY <1>2, <2>4, ResolveBranchStays
  <2>5. CASE BindingFails(w)
    <3>1. PICK ps : worker' = [worker EXCEPT ![w].paths = ps]
      BY <2>5 DEF BindingFails
    <3>2. worker[w].pc = "dispatch"
      BY <2>5 DEF BindingFails
    <3>. QED  BY <1>2, <3>1, <3>2 DEF WorkerType
  <2>6. CASE ConsiderSuccessor(w)
    <3>1. PICK p \in worker[w].paths :
            worker' = [worker EXCEPT
              ![w].paths = @ \ {p},
              ![w].target = IF MayStart(p.at.dst) THEN p.at.dst ELSE NoNode,
              ![w].pc = IF ~MayStart(p.at.dst) THEN "dispatch"
                        ELSE IF Joining(graph, p.at.dst) THEN "claim" ELSE "publish"]
      BY <2>6 DEF ConsiderSuccessor
    <3>. QED  BY <1>2, <3>1 DEF WorkerType
  <2>7. CASE ClaimJoin(w) \/ Publish(w)
    <3>1. \A v \in Workers \ {w} : worker'[v] = worker[v]
      BY <1>2, <2>7 DEF ClaimJoin, Publish, Goto
    <3>2. CASE ClaimJoin(w)
      BY <1>2, <3>1, <3>2 DEF ClaimJoin, Goto, WorkerType
    <3>3. CASE Publish(w)
      BY <1>2, <3>1, <3>3 DEF Publish, WorkerType
    <3>. QED  BY <2>7, <3>2, <3>3
  <2>. QED  BY <2>1, <2>2, <2>3, <2>4, <2>5, <2>6, <2>7
            DEF StepFails, TooManyBranches, PlanFails, CommitVerdicts, PublishRefused,
                Finish, Succeed, Crash, Stages
<1>4. Executing' \subseteq Executing
  BY <1>3 DEF Executing
<1>. QED  BY <1>1, <1>4, FewerExecuting

LEMMA NextLimit == TypeInv /\ LimitInv /\ [Next]_vars => LimitInv'
<1>. SUFFICES ASSUME TypeInv, LimitInv, [Next]_vars  PROVE LimitInv'
  OBVIOUS
<1>1. CASE AcceptRun \/ PublishEntry \/ Revoke \/ Restore \/ Resubmit \/ UNCHANGED vars
  <2>1. steps' = steps /\ worker' = worker
    BY <1>1 DEF AcceptRun, PublishEntry, Revoke, Restore, Resubmit, vars, runVars, stepVars
  <2>2. Executing' = Executing
    BY <2>1 DEF Executing
  <2>. QED  BY <2>1, <2>2, FewerExecuting
<1>2. ASSUME NEW w \in Workers, Step(w) \/ Crash(w)
      PROVE  LimitInv'
  BY <1>2, LoadLimit, CommitStepLimit, QuietStepLimit DEF Step
<1>. QED  BY <1>1, <1>2 DEF Next

\* The check of the step limit and the count it reads are two transactions, so
\* the limit is passed; but by fewer steps than there are workers.
THEOREM LimitOverrun == Spec => []StepLimit
<1>1. TypeInv /\ LimitInv => StepLimit
  <2>. SUFFICES ASSUME TypeInv, LimitInv  PROVE StepLimit
    OBVIOUS
  <2>1. /\ steps \in Nat /\ MaxSteps \in Nat /\ Cardinality(Executing) \in Nat
        /\ Cardinality(Workers) \in Nat
    BY ExecutingIsFinite, LimitsAssumption DEF TypeInv, TypeOK
  <2>. QED  BY <2>1 DEF LimitInv, StepLimit
<1>. QED  BY <1>1, InitLimit, NextLimit, TypesHold, PTL DEF Spec

\* What closes a node, given which other nodes are closed.
ClosesOn(g, done, verdicts, X) ==
  {n \in g.nodes :
     /\ Incoming(g, n) # {}
     /\ \A e \in Incoming(g, n) :
          Refused(g, e, verdicts) \/ (e.src \notin done /\ e.src \in X)}

\* The recursion in Closed has a solution: the least set of nodes that contains
\* whatever it closes.
LEMMA ClosedIsSolved ==
  ASSUME NEW g \in Graphs, NEW done, NEW verdicts
  PROVE  Closed(g, done, verdicts) = ClosesOn(g, done, verdicts, Closed(g, done, verdicts))
<1>. DEFINE F(X) == ClosesOn(g, done, verdicts, X)
            L == {n \in g.nodes : \A X \in SUBSET g.nodes : F(X) \subseteq X => n \in X}
            c == [n \in g.nodes |-> n \in L]
<1>1. \A e \in g.edges : e.src \in g.nodes
  BY GraphsAssumption DEF ValidGraph, WellFormedEdges
<1>2. \A X, Y : X \subseteq Y => F(X) \subseteq F(Y)
  BY DEF ClosesOn
<1>3. F(L) \subseteq L
  <2>. SUFFICES ASSUME NEW n \in F(L), NEW X \in SUBSET g.nodes, F(X) \subseteq X  PROVE n \in X
    BY DEF ClosesOn
  <2>1. L \subseteq X
    OBVIOUS
  <2>. HIDE DEF L
  <2>. QED  BY <1>2, <2>1
<1>4. L \subseteq F(L)
  <2>1. F(L) \in SUBSET g.nodes
    BY DEF ClosesOn
  <2>2. F(F(L)) \subseteq F(L)
    <3>. HIDE DEF L, F
    <3>. QED  BY <1>2, <1>3
  <2>. HIDE DEF F
  <2>. QED  BY <2>1, <2>2
<1>5. c = [n \in g.nodes |->
             /\ Incoming(g, n) # {}
             /\ \A e \in Incoming(g, n) :
                  \/ Refused(g, e, verdicts)
                  \/ e.src \notin done /\ c[e.src]]
  <2>1. \A n \in g.nodes : (n \in L) <=>
            /\ Incoming(g, n) # {}
            /\ \A e \in Incoming(g, n) :
                  \/ Refused(g, e, verdicts)
                  \/ e.src \notin done /\ e.src \in L
    <3>. HIDE DEF L
    <3>1. \A n \in g.nodes : n \in L <=> n \in F(L)
      BY <1>3, <1>4
    <3>. QED BY <3>1 DEF ClosesOn
  <2>2. \A n \in g.nodes : \A e \in Incoming(g, n) : c[e.src] = (e.src \in L)
    <3>. HIDE DEF L
    <3>. QED BY <1>1 DEF Incoming
  <2>. DEFINE B(n) == /\ Incoming(g, n) # {}
                      /\ \A e \in Incoming(g, n) :
                           \/ Refused(g, e, verdicts)
                           \/ e.src \notin done /\ c[e.src]
  <2>3. ASSUME NEW n \in g.nodes  PROVE (n \in L) = B(n)
    <3>. HIDE DEF L
    <3>1. (n \in L) <=> B(n)
      BY <2>1, <2>2
    <3>. HIDE DEF B
    <3>2. B(n) \in BOOLEAN
      BY DEF B
    <3>. QED BY <3>1, <3>2
  <2>. HIDE DEF L
  <2>4. c = [n \in g.nodes |-> B(n)]
    <3>. HIDE DEF B
    <3>. QED BY <2>3, Zenon
  <2>. QED BY <2>4, Zenon
<1>. DEFINE closed == CHOOSE f : f = [n \in g.nodes |->
             /\ Incoming(g, n) # {}
             /\ \A e \in Incoming(g, n) :
                  \/ Refused(g, e, verdicts)
                  \/ e.src \notin done /\ f[e.src]]
<1>6. closed = [n \in g.nodes |->
             /\ Incoming(g, n) # {}
             /\ \A e \in Incoming(g, n) :
                  \/ Refused(g, e, verdicts)
                  \/ e.src \notin done /\ closed[e.src]]
  <2>. HIDE DEF c
  <2>. QED BY <1>5
<1>7. Closed(g, done, verdicts) = {n \in g.nodes : closed[n]}
  BY DEF Closed
<1>. QED
  <2>. HIDE DEF closed
  <2>. QED BY <1>1, <1>6, <1>7 DEF ClosesOn, Incoming

LEMMA ClosedMeans ==
  ASSUME NEW g \in Graphs, NEW done, NEW verdicts, NEW n \in g.nodes
  PROVE  n \in Closed(g, done, verdicts) <=>
           /\ Incoming(g, n) # {}
           /\ \A e \in Incoming(g, n) :
                \/ Refused(g, e, verdicts)
                \/ e.src \notin done /\ e.src \in Closed(g, done, verdicts)
<1>. DEFINE X == Closed(g, done, verdicts)
<1>1. X = ClosesOn(g, done, verdicts, X)
  BY ClosedIsSolved
<1>. HIDE DEF X
<1>2. n \in X <=> n \in ClosesOn(g, done, verdicts, X)
  BY <1>1
<1>3. n \in X <=>
           /\ Incoming(g, n) # {}
           /\ \A e \in Incoming(g, n) :
                \/ Refused(g, e, verdicts)
                \/ e.src \notin done /\ e.src \in X
  BY <1>2 DEF ClosesOn
<1>. QED  BY <1>3 DEF X

\* Every nonempty set of nodes has one that no edge from inside the set leads to.
LEMMA FirstOfNodes ==
  ASSUME NEW g \in Graphs, NEW S \in SUBSET g.nodes, S # {}
  PROVE  \E n \in S : \A e \in Incoming(g, n) : e.src \in g.nodes \ S
<1>1. PICK n \in S : \A e \in Incoming(g, n) : e.src \notin S
  BY GraphsAssumption DEF ValidGraph, Acyclic
<1>. QED  BY <1>1, GraphsAssumption DEF ValidGraph, WellFormedEdges, Incoming

\* A closed node is led to only by refused edges and closed nodes: with no
\* branches there are none.
LEMMA NothingClosed ==
  ASSUME NEW g \in Graphs, g.branches = {}, NEW done, NEW verdicts
  PROVE  Closed(g, done, verdicts) = {}
<1>1. Closed(g, done, verdicts) \in SUBSET g.nodes
  BY DEF Closed
<1>2. SUFFICES ASSUME Closed(g, done, verdicts) # {}  PROVE FALSE
  OBVIOUS
<1>3. PICK n \in Closed(g, done, verdicts) :
        \A e \in Incoming(g, n) : e.src \in g.nodes \ Closed(g, done, verdicts)
  BY <1>1, <1>2, FirstOfNodes
<1>4. /\ Incoming(g, n) # {}
      /\ \A e \in Incoming(g, n) :
           Refused(g, e, verdicts) \/ e.src \in Closed(g, done, verdicts)
  BY <1>1, <1>3, ClosedMeans
<1>. QED  BY <1>3, <1>4 DEF Refused

\* What is closed stays closed, as long as no closed node runs and no verdict
\* is taken back.
LEMMA ClosedGrows ==
  ASSUME NEW g \in Graphs, NEW done, NEW verdicts, NEW more, NEW later,
         more \cap Closed(g, done, verdicts) \subseteq done,
         \A e \in g.edges : Refused(g, e, verdicts) => Refused(g, e, later)
  PROVE  Closed(g, done, verdicts) \subseteq Closed(g, more, later)
<1>. DEFINE X == Closed(g, done, verdicts)
            Y == Closed(g, more, later)
<1>1. X \in SUBSET g.nodes
  BY DEF Closed
<1>2. SUFFICES ASSUME X \ Y # {}  PROVE FALSE
  OBVIOUS
<1>. HIDE DEF X, Y
<1>3. PICK n \in X \ Y : \A e \in Incoming(g, n) : e.src \in g.nodes \ (X \ Y)
  BY <1>1, <1>2, FirstOfNodes
<1>4. /\ Incoming(g, n) # {}
      /\ \A e \in Incoming(g, n) :
           Refused(g, e, verdicts) \/ (e.src \notin done /\ e.src \in X)
  BY <1>1, <1>3, ClosedMeans DEF X
<1>5. \A e \in Incoming(g, n) : Refused(g, e, later) \/ (e.src \notin more /\ e.src \in Y)
  <2>. SUFFICES ASSUME NEW e \in Incoming(g, n), ~Refused(g, e, later)
                PROVE  e.src \notin more /\ e.src \in Y
    OBVIOUS
  <2>1. e \in g.edges
    BY DEF Incoming
  <2>2. e.src \notin done /\ e.src \in X
    BY <1>4, <2>1
  <2>. QED  BY <1>3, <2>2 DEF X
<1>6. n \in Y
  BY <1>1, <1>3, <1>4, <1>5, ClosedMeans DEF Y
<1>. QED  BY <1>3, <1>6

-----------------------------------------------------------------------------
(* A success is complete. *)

\* Rows are never taken back.
LEMMA RowsStay ==
  ASSUME TypeInv, [Next]_vars
  PROVE  graph' = graph /\ Done \subseteq Done'
<1>1. graph' = graph
  BY DEF Next, Step, AcceptRun, PublishEntry, Poll, Load, StepFails, CommitStep, ResolveBranch,
         TooManyBranches, PlanFails, CommitVerdicts, ConsiderSuccessor, BindingFails, ClaimJoin,
         Publish, PublishRefused, Finish, Succeed, Crash, Revoke, Restore, Resubmit, vars
<1>2. committed \subseteq committed'
  BY DEF Next, Step, AcceptRun, PublishEntry, Poll, Load, StepFails, CommitStep, ResolveBranch,
         TooManyBranches, PlanFails, CommitVerdicts, ConsiderSuccessor, BindingFails, ClaimJoin,
         Publish, PublishRefused, Finish, Succeed, Crash, Revoke, Restore, Resubmit, vars,
         runVars, stepVars
<1>3. \A n \in Nodes : decided[n] # "none" => decided'[n] # "none"
  <2>1. decided \in [Nodes -> Verdicts \cup {"none"}]
    BY DEF TypeInv, TypeOK
  <2>2. ASSUME NEW w \in Workers, CommitVerdicts(w)
        PROVE  \A n \in Nodes : decided[n] # "none" => decided'[n] # "none"
    BY <2>1, <2>2 DEF CommitVerdicts, Verdicts
  <2>3. ASSUME NEW w \in Workers, CommitStep(w)
        PROVE  \A n \in Nodes : decided[n] # "none" => decided'[n] # "none"
    BY <2>1, <2>3 DEF CommitStep, VerdictOnCommit, Verdicts
  <2>4. decided' = decided \/ \E w \in Workers : CommitVerdicts(w) \/ CommitStep(w)
    BY DEF Next, Step, AcceptRun, PublishEntry, Poll, Load, StepFails, ResolveBranch,
         TooManyBranches, PlanFails, ConsiderSuccessor, BindingFails, ClaimJoin,
         Publish, PublishRefused, Finish, Succeed, Crash, Revoke, Restore, Resubmit, vars,
         runVars, stepVars
  <2>. QED  BY <2>2, <2>3, <2>4
<1>. QED  BY <1>1, <1>2, <1>3 DEF Done

\* With no branches, a worker that sees nothing remain sees every node done: the
\* first that is not would have all its paths in.
LEMMA NothingRemains ==
  ASSUME TypeInv, graph.branches = {}, LooksOver
  PROVE  graph.nodes \subseteq Done
<1>1. graph \in Graphs
  BY DEF TypeInv, TypeOK
<1>2. SUFFICES ASSUME graph.nodes \ Done # {}  PROVE FALSE
  OBVIOUS
<1>3. PICK n \in graph.nodes \ Done :
        \A e \in Incoming(graph, n) : e.src \in graph.nodes \ (graph.nodes \ Done)
  BY <1>1, <1>2, FirstOfNodes
<1>4. Closed(graph, Done, decided) = {}
  BY <1>1, NothingClosed
<1>5. Arrived(graph, n, Done, decided)
  BY <1>3 DEF Arrived
<1>. QED  BY <1>3, <1>4, <1>5 DEF LooksOver, WorkRemains

\* Who ends a run saw that nothing remained.
LEMMA ComesToEnd ==
  ASSUME TypeInv, [Next]_vars,
         status' = "SUCCEEDED" \/ \E w \in Workers : worker'[w].pc = "succeed"
  PROVE  \/ status = "SUCCEEDED"
         \/ \E w \in Workers : worker[w].pc = "succeed"
         \/ \E w \in Workers : Finish(w) /\ ~worker[w].sent /\ LooksOver
<1>1. worker \in [Workers -> WorkerType]
  BY DEF TypeInv, TypeOK
<1>2. CASE status' = "SUCCEEDED"
  BY <1>2 DEF Next, Step, AcceptRun, PublishEntry, Poll, Load, StepFails, CommitStep, StatusOnCommit,
       ResolveBranch, TooManyBranches, PlanFails, CommitVerdicts, ConsiderSuccessor, BindingFails,
       ClaimJoin, Publish, PublishRefused, Finish, Succeed, Crash, Revoke, Restore, Resubmit, vars,
       runVars, FailRun
<1>3. CASE \E w \in Workers : worker'[w].pc = "succeed"
  <2>1. PICK w \in Workers : worker'[w].pc = "succeed"
    BY <1>3
  <2>2. CASE worker[w].pc = "succeed"
    BY <2>2
  <2>3. CASE worker[w].pc # "succeed"
    <3>1. worker' # worker
      BY <2>1, <2>3
    <3>2. \E v \in Workers : Step(v) \/ Crash(v)
      BY <3>1 DEF Next, AcceptRun, PublishEntry, Revoke, Restore, Resubmit, vars
    <3>3. PICK v \in Workers : Step(v) \/ Crash(v)
      BY <3>2
    <3>4. Finish(v) /\ ~worker[v].sent /\ LooksOver
      <4>1. CASE Finish(v)
        BY <1>1, <2>1, <2>3, <4>1 DEF Finish, GoIdle, IdleWorker, Goto
      <4>2. CASE GoIdle(v) \/ \E s \in Stages \ {"succeed"} : Goto(v, s)
        BY <1>1, <2>1, <2>3, <4>2 DEF GoIdle, IdleWorker, Goto, WorkerType
      <4>3. CASE Poll(v)
        BY <1>1, <2>1, <2>3, <4>3 DEF Poll, WorkerType
      <4>4. CASE CommitStep(v)
        BY <1>1, <2>1, <2>3, <4>4 DEF CommitStep, WorkerType
      <4>5. CASE ResolveBranch(v)
        BY <1>1, <2>1, <2>3, <4>5, ResolveBranchStays
      <4>6. CASE ConsiderSuccessor(v)
        <5>1. PICK p \in worker[v].paths :
            worker' = [worker EXCEPT
              ![v].paths = @ \ {p},
              ![v].target = IF MayStart(p.at.dst) THEN p.at.dst ELSE NoNode,
              ![v].pc = IF ~MayStart(p.at.dst) THEN "dispatch"
                        ELSE IF Joining(graph, p.at.dst) THEN "claim" ELSE "publish"]
          BY <4>6 DEF ConsiderSuccessor
        <5>. QED  BY <1>1, <2>1, <2>3, <5>1 DEF WorkerType
      <4>7. CASE BindingFails(v)
        <5>1. PICK ps : worker' = [worker EXCEPT ![v].paths = ps]
          BY <4>7 DEF BindingFails
        <5>. QED  BY <1>1, <2>1, <2>3, <5>1 DEF WorkerType
      <4>8. CASE ClaimJoin(v)
        BY <1>1, <2>1, <2>3, <4>8 DEF ClaimJoin, Goto, WorkerType
      <4>9. CASE Publish(v)
        BY <1>1, <2>1, <2>3, <4>9 DEF Publish, WorkerType
      <4>. QED  BY <3>3, <4>1, <4>2, <4>3, <4>4, <4>5, <4>6, <4>7, <4>8, <4>9
                DEF Step, Load, StepFails, TooManyBranches, PlanFails, CommitVerdicts,
                    PublishRefused, Succeed, Crash, Stages
    <3>. QED  BY <3>4
  <2>. QED  BY <2>2, <2>3
<1>. QED  BY <1>2, <1>3

\* Whoever is about to end the run, or has ended it, saw every node done.
EndsComplete ==
  graph.branches = {} /\ (status = "SUCCEEDED" \/ \E w \in Workers : worker[w].pc = "succeed")
    => graph.nodes \subseteq Done

LEMMA NextEndsComplete == TypeInv /\ EndsComplete /\ [Next]_vars => EndsComplete'
<1>. SUFFICES ASSUME TypeInv, EndsComplete, [Next]_vars, graph'.branches = {},
                     status' = "SUCCEEDED" \/ \E w \in Workers : worker'[w].pc = "succeed"
              PROVE  graph'.nodes \subseteq Done'
  BY DEF EndsComplete
<1>1. graph' = graph /\ Done \subseteq Done'
  BY RowsStay
<1>2. graph.nodes \subseteq Done
  BY <1>1, ComesToEnd, NothingRemains DEF EndsComplete
<1>. QED  BY <1>1, <1>2

LEMMA EndsHold == Spec => []EndsComplete
<1>1. Init => EndsComplete
  BY DEF Init, EndsComplete, IdleWorker
<1>. QED  BY <1>1, NextEndsComplete, TypesHold, PTL DEF Spec

\* A run without branches that has succeeded has executed its whole graph.
THEOREM SuccessCoversTheGraph == Spec => []SuccessIsComplete
<1>1. EndsComplete => SuccessIsComplete
  BY DEF EndsComplete, SuccessIsComplete
<1>. QED  BY <1>1, EndsHold, PTL

-----------------------------------------------------------------------------
(* Where things are: what a worker holds at each stage, and what the rows and *)
(* the mail can speak of.                                                     *)

Waiting == {"idle", "load", "execute"}
Sending == {"dispatch", "claim", "publish"}

\* r is a worker's record, rows the steps committed, jobs the jobs created.
Placed(g, r, rows, jobs) ==
  /\ \A p \in r.paths : p.at \in g.edges
  /\ r.pc \in {"claim", "publish"} =>
       r.target \in g.nodes \ g.branches /\ Incoming(g, r.target) # {}
  /\ r.pc = "claim" => Joining(g, r.target)
  /\ r.pc \in Sending => \A p \in r.paths : p.at.dst \notin g.branches
  /\ \A c \in r.chosen : c[1] \in g.branches /\ Incoming(g, c[1]) # {}
  /\ \A c, d \in r.chosen : c[1] = d[1] => c = d
  /\ r.pc # "idle" => r.job.nth \in 1..jobs[r.job.node]
  /\ r.pc \in Waiting => r.paths = {} /\ r.chosen = {}
  /\ r.pc \notin Waiting => r.job \in rows

Mailed == dead \cup {queue[i] : i \in 1..Len(queue)}

\* Jobs are created for the entry, and otherwise for nodes that are no branches;
\* verdicts are of branches.
Numbered ==
  /\ \A n \in Nodes : published[n] > 0 =>
       n \in graph.nodes /\ (n = Entry(graph) \/ n \notin graph.branches)
  /\ published[Entry(graph)] <= IF gateway = "started" THEN 1 ELSE 0
  /\ \A j \in committed \cup Mailed : j.nth \in 1..published[j.node]
  /\ \A n \in Nodes : decided[n] # "none" => n \in graph.branches

PlaceInv == Numbered /\ \A w \in Workers : Placed(graph, worker[w], committed, published)

\* Creating a job and writing a row leave in place what was.
LEMMA PlacedStays ==
  ASSUME NEW g, NEW r, NEW rows, NEW jobs \in [Nodes -> Nat], NEW more, NEW later \in [Nodes -> Nat],
         Placed(g, r, rows, jobs), r.pc # "idle" => r.job \in Job,
         rows \subseteq more, \A n \in Nodes : jobs[n] <= later[n]
  PROVE  Placed(g, r, more, later)
<1>1. r.pc # "idle" => r.job.nth \in 1..later[r.job.node]
  BY DEF Placed, Job
<1>. QED  BY <1>1 DEF Placed

LEMMA IdlePlaced ==
  ASSUME NEW g, NEW rows, NEW jobs
  PROVE  Placed(g, IdleWorker, rows, jobs)
BY DEF Placed, IdleWorker, Waiting, Sending

\* The history counts only upwards.
LEMMA JobsStay ==
  ASSUME TypeInv, [Next]_vars
  PROVE  /\ \A n \in Nodes : published[n] \in Nat /\ published'[n] \in Nat /\ published[n] <= published'[n]
         /\ graph' = graph /\ committed \subseteq committed' /\ graph \in Graphs
         /\ published \in [Nodes -> Nat] /\ published' \in [Nodes -> Nat]
<1>1. published' = published \/ \E n \in Nodes : Enqueue(n)
  BY EntryOfGraph
     DEF Next, Step, AcceptRun, PublishEntry, Poll, Load, StepFails, CommitStep, ResolveBranch,
         TooManyBranches, PlanFails, CommitVerdicts, ConsiderSuccessor, BindingFails, ClaimJoin,
         Publish, PublishRefused, Finish, Succeed, Crash, Revoke, Restore, Resubmit, vars, mailVars,
         TypeInv, TypeOK, HoldsAJob
<1>2. committed \subseteq committed'
  BY DEF Next, Step, AcceptRun, PublishEntry, Poll, Load, StepFails, CommitStep, ResolveBranch,
         TooManyBranches, PlanFails, CommitVerdicts, ConsiderSuccessor, BindingFails, ClaimJoin,
         Publish, PublishRefused, Finish, Succeed, Crash, Revoke, Restore, Resubmit, vars,
         runVars, stepVars
<1>3. published \in [Nodes -> Nat] /\ graph' = graph /\ graph \in Graphs
  BY RowsStay DEF TypeInv, TypeOK
<1>. QED  BY <1>1, <1>2, <1>3 DEF Enqueue

\* A step of one worker leaves the others as they are.
LEMMA OthersStay ==
  ASSUME TypeInv, NEW w \in Workers, Step(w) \/ Crash(w)
  PROVE  \A v \in Workers \ {w} : worker'[v] = worker[v]
<1>1. worker \in [Workers -> WorkerType]
  BY DEF TypeInv, TypeOK
<1>2. CASE ResolveBranch(w)
  BY <1>2, ResolveBranchStays
<1>3. CASE ConsiderSuccessor(w) \/ BindingFails(w)
  BY <1>1, <1>3 DEF ConsiderSuccessor, BindingFails
<1>4. CASE Poll(w) \/ Load(w) \/ StepFails(w) \/ CommitStep(w)
  BY <1>1, <1>4 DEF Poll, Load, StepFails, CommitStep, Goto, GoIdle
<1>5. CASE TooManyBranches(w) \/ PlanFails(w) \/ CommitVerdicts(w) \/ ClaimJoin(w)
  BY <1>1, <1>5 DEF TooManyBranches, PlanFails, CommitVerdicts, ClaimJoin, Goto, GoIdle
<1>6. CASE Publish(w) \/ PublishRefused(w) \/ Finish(w) \/ Succeed(w) \/ Crash(w)
  BY <1>1, <1>6 DEF Publish, PublishRefused, Finish, Succeed, Crash, Goto, GoIdle
<1>. QED  BY <1>2, <1>3, <1>4, <1>5, <1>6 DEF Step

\* The graph's side of a path: it ends at a node, and at an edge into it.
LEMMA EdgeOfGraph ==
  ASSUME NEW g \in Graphs, NEW e \in g.edges
  PROVE  /\ e.src \in g.nodes /\ e.dst \in g.nodes /\ e \in Incoming(g, e.dst) /\ e \in Outgoing(g, e.src)
         /\ g.nodes \subseteq Nodes
BY GraphsAssumption DEF ValidGraph, WellFormedEdges, Incoming, Outgoing

LEMMA PollPlaced ==
  ASSUME TypeInv, PlaceInv, NEW w \in Workers, Poll(w)
  PROVE  Placed(graph, worker'[w], committed, published)
<1>1. worker \in [Workers -> WorkerType] /\ Placed(graph, worker[w], committed, published)
      /\ worker[w].pc = "idle" /\ queue \in Seq(Job) /\ queue # <<>>
  BY DEF TypeInv, TypeOK, PlaceInv, Poll
<1>2. CASE authorized
  <2>1. /\ worker'[w].pc = "load" /\ worker'[w].job = Head(queue)
        /\ worker'[w].paths = {} /\ worker'[w].chosen = {}
    BY <1>1, <1>2 DEF Poll, WorkerType, Placed, Waiting
  <2>2. Head(queue) \in Mailed
    <3>1. 1 \in 1..Len(queue) /\ Head(queue) = queue[1]
      BY <1>1
    <3>. QED  BY <3>1 DEF Mailed
  <2>3. Head(queue).nth \in 1..published[Head(queue).node]
    BY <2>2 DEF PlaceInv, Numbered
  <2>. QED  BY <2>1, <2>3 DEF Placed, Waiting, Sending
<1>3. CASE ~authorized
  BY <1>1, <1>3 DEF Poll
<1>. QED  BY <1>2, <1>3

LEMMA CommitStepPlaced ==
  ASSUME TypeInv, PlaceInv, NEW w \in Workers, CommitStep(w)
  PROVE  Placed(graph, worker'[w], committed', published)
<1>1. worker \in [Workers -> WorkerType] /\ Placed(graph, worker[w], committed, published)
      /\ worker[w].pc = "execute"
  BY DEF TypeInv, TypeOK, PlaceInv, CommitStep
<1>2. /\ worker'[w].pc = "plan" /\ worker'[w].job = worker[w].job
      /\ worker'[w].paths = PathsFrom(worker[w].job.node) /\ worker'[w].chosen = {}
      /\ worker[w].job \in committed'
      /\ worker[w].job.nth \in 1..published[worker[w].job.node]
  BY <1>1 DEF CommitStep, WorkerType, Placed, Waiting
<1>3. \A p \in PathsFrom(worker[w].job.node) : p.at \in graph.edges
  BY DEF PathsFrom, Outgoing
<1>. QED  BY <1>2, <1>3 DEF Placed, Waiting, Sending

\* What resolving a branch makes of a path, and of the worker's record.
Resolved(p, v) == [p EXCEPT !.at = EdgeFor(graph, p.at.dst, v), !.hops = @ + 1]

ResolvedInto(r, p, v, s) ==
  /\ p \in r.paths /\ AtBranch(p) /\ v \in Verdicts
  /\ s.paths = (r.paths \ {p}) \cup {Resolved(p, v)}
  /\ s.chosen = {c \in r.chosen : c[1] # p.at.dst} \cup {<<p.at.dst, v>>}
  /\ s.pc = "plan" /\ s.job = r.job /\ s.target = r.target

LEMMA ResolveBranchRecord ==
  ASSUME TypeInv, NEW w \in Workers, ResolveBranch(w)
  PROVE  /\ worker[w].pc = "plan"
         /\ \E p \in worker[w].paths, v \in Verdicts : ResolvedInto(worker[w], p, v, worker'[w])
<1>1. worker \in [Workers -> WorkerType] /\ worker[w].pc = "plan"
  BY DEF TypeInv, TypeOK, ResolveBranch
<1>2. PICK p \in worker[w].paths, v \in Verdicts :
        /\ AtBranch(p)
        /\ worker' = [worker EXCEPT
             ![w].paths = (@ \ {p}) \cup
                {[p EXCEPT !.at = EdgeFor(graph, p.at.dst, v), !.hops = @ + 1]},
             ![w].chosen = {c \in @ : c[1] # p.at.dst} \cup {<<p.at.dst, v>>},
             ![w].last = p.at.dst]
  BY DEF ResolveBranch
<1>3. worker[w] \in WorkerType
  BY <1>1
<1>4. worker'[w].paths = (worker[w].paths \ {p}) \cup {Resolved(p, v)}
  BY <1>1, <1>2, <1>3 DEF WorkerType, Resolved
<1>5. worker'[w].chosen = {c \in worker[w].chosen : c[1] # p.at.dst} \cup {<<p.at.dst, v>>}
  BY <1>1, <1>2, <1>3 DEF WorkerType
<1>6. /\ worker'[w].pc = "plan" /\ worker'[w].job = worker[w].job
      /\ worker'[w].target = worker[w].target
  BY <1>1, <1>2, <1>3 DEF WorkerType
<1>7. ResolvedInto(worker[w], p, v, worker'[w])
  BY <1>2, <1>4, <1>5, <1>6 DEF ResolvedInto
<1>. QED  BY <1>1, <1>7

\* Where the new path stands.
LEMMA ResolvedPath ==
  ASSUME TypeInv, NEW p \in Path, p.at \in graph.edges, AtBranch(p), NEW v \in Verdicts
  PROVE  LET q == Resolved(p, v) IN
         /\ q.at \in graph.edges /\ q.at.src = p.at.dst /\ q.at.cond = v /\ q.via = p.via
         /\ q.at = EdgeFor(graph, p.at.dst, v)
<1>1. graph \in Graphs /\ p.at.dst \in graph.branches
  BY DEF TypeInv, TypeOK, AtBranch
<1>2. PICK e \in Outgoing(graph, p.at.dst) : e.cond = v
  BY <1>1, GraphsAssumption DEF ValidGraph, BranchesChoose
<1>3. EdgeFor(graph, p.at.dst, v) \in Outgoing(graph, p.at.dst) /\ EdgeFor(graph, p.at.dst, v).cond = v
  BY <1>2 DEF EdgeFor
<1>4. Resolved(p, v).at = EdgeFor(graph, p.at.dst, v) /\ Resolved(p, v).via = p.via
  BY DEF Path, Resolved
<1>. QED  BY <1>3, <1>4 DEF Outgoing

LEMMA ResolveBranchPlaced ==
  ASSUME TypeInv, PlaceInv, NEW w \in Workers, ResolveBranch(w)
  PROVE  Placed(graph, worker'[w], committed, published)
<1>. PICK r, s : r = worker[w] /\ s = worker'[w]
  OBVIOUS
<1>1. Placed(graph, r, committed, published) /\ r \in WorkerType /\ r.pc = "plan"
  BY ResolveBranchRecord DEF TypeInv, TypeOK, PlaceInv
<1>2. PICK p \in r.paths, v \in Verdicts : ResolvedInto(r, p, v, s)
  BY ResolveBranchRecord
<1>3. p \in Path /\ p.at \in graph.edges /\ graph \in Graphs
  BY <1>1 DEF WorkerType, Placed, TypeInv, TypeOK
<1>4. PICK q : q = Resolved(p, v)
  OBVIOUS
<1>5. q.at \in graph.edges
  BY <1>2, <1>3, <1>4, ResolvedPath DEF ResolvedInto
<1>6. \A x \in s.paths : x.at \in graph.edges
  BY <1>1, <1>2, <1>4, <1>5 DEF ResolvedInto, Placed
<1>7. p.at.dst \in graph.branches /\ Incoming(graph, p.at.dst) # {}
  BY <1>2, <1>3, EdgeOfGraph DEF ResolvedInto, AtBranch
<1>8. \A c \in s.chosen : c[1] \in graph.branches /\ Incoming(graph, c[1]) # {}
  BY <1>1, <1>2, <1>7 DEF ResolvedInto, Placed
<1>9. \A c, d \in s.chosen : c[1] = d[1] => c = d
  BY <1>1, <1>2 DEF ResolvedInto, Placed
<1>10. /\ s.pc = "plan" /\ s.job = r.job /\ s.job \in committed
       /\ s.job.nth \in 1..published[s.job.node]
  BY <1>1, <1>2 DEF ResolvedInto, Placed, Waiting
<1>11. Placed(graph, s, committed, published)
  BY <1>6, <1>8, <1>9, <1>10 DEF Placed, Waiting, Sending
<1>. QED  BY <1>11

LEMMA ConsiderSuccessorRecord ==
  ASSUME TypeInv, NEW w \in Workers, ConsiderSuccessor(w)
  PROVE  /\ worker[w].pc = "dispatch"
         /\ \E p \in worker[w].paths :
              /\ worker'[w].paths = worker[w].paths \ {p}
              /\ worker'[w].chosen = worker[w].chosen /\ worker'[w].job = worker[w].job
              /\ \/ ~MayStart(p.at.dst) /\ worker'[w].pc = "dispatch"
                 \/ /\ MayStart(p.at.dst) /\ worker'[w].target = p.at.dst
                    /\ worker'[w].pc = IF Joining(graph, p.at.dst) THEN "claim" ELSE "publish"
<1>1. worker \in [Workers -> WorkerType] /\ worker[w].pc = "dispatch"
  BY DEF TypeInv, TypeOK, ConsiderSuccessor
<1>2. PICK p \in worker[w].paths :
        worker' = [worker EXCEPT
          ![w].paths = @ \ {p},
          ![w].target = IF MayStart(p.at.dst) THEN p.at.dst ELSE NoNode,
          ![w].pc = IF ~MayStart(p.at.dst) THEN "dispatch"
                    ELSE IF Joining(graph, p.at.dst) THEN "claim" ELSE "publish"]
  BY DEF ConsiderSuccessor
<1>3. /\ worker'[w].paths = worker[w].paths \ {p}
      /\ worker'[w].chosen = worker[w].chosen /\ worker'[w].job = worker[w].job
      /\ worker'[w].target = IF MayStart(p.at.dst) THEN p.at.dst ELSE NoNode
      /\ worker'[w].pc = IF ~MayStart(p.at.dst) THEN "dispatch"
                         ELSE IF Joining(graph, p.at.dst) THEN "claim" ELSE "publish"
  BY <1>1, <1>2 DEF WorkerType
<1>. QED  BY <1>1, <1>3

LEMMA ConsiderSuccessorPlaced ==
  ASSUME TypeInv, PlaceInv, NEW w \in Workers, ConsiderSuccessor(w)
  PROVE  Placed(graph, worker'[w], committed, published)
<1>1. Placed(graph, worker[w], committed, published) /\ worker[w].pc = "dispatch" /\ graph \in Graphs
  BY ConsiderSuccessorRecord DEF TypeInv, TypeOK, PlaceInv
<1>2. PICK p \in worker[w].paths :
              /\ worker'[w].paths = worker[w].paths \ {p}
              /\ worker'[w].chosen = worker[w].chosen /\ worker'[w].job = worker[w].job
              /\ \/ ~MayStart(p.at.dst) /\ worker'[w].pc = "dispatch"
                 \/ /\ MayStart(p.at.dst) /\ worker'[w].target = p.at.dst
                    /\ worker'[w].pc = IF Joining(graph, p.at.dst) THEN "claim" ELSE "publish"
  BY ConsiderSuccessorRecord
<1>3. p.at \in graph.edges /\ p.at.dst \in graph.nodes \ graph.branches /\ Incoming(graph, p.at.dst) # {}
  BY <1>1, EdgeOfGraph DEF Placed, Sending
<1>4. worker'[w].pc \in Sending
  BY <1>2 DEF Sending
<1>. QED  BY <1>1, <1>2, <1>3, <1>4 DEF Placed, Waiting, Sending

\* A worker that moves to another stage with no more paths than before.
LEMMA SimplePlaced ==
  ASSUME TypeInv, PlaceInv, NEW w \in Workers,
         \/ Load(w) \/ StepFails(w) \/ TooManyBranches(w) \/ PlanFails(w) \/ CommitVerdicts(w)
         \/ BindingFails(w) \/ ClaimJoin(w) \/ Publish(w) \/ PublishRefused(w) \/ Finish(w)
         \/ Succeed(w) \/ Crash(w)
  PROVE  Placed(graph, worker'[w], committed, published)
<1>1. worker \in [Workers -> WorkerType] /\ Placed(graph, worker[w], committed, published)
  BY DEF TypeInv, TypeOK, PlaceInv
<1>2. CASE GoIdle(w)
  BY <1>1, <1>2, IdlePlaced DEF GoIdle
<1>3. CASE Load(w) /\ Goto(w, "execute")
  BY <1>1, <1>3 DEF Load, Goto, WorkerType, Placed, Waiting, Sending
<1>4. CASE CommitVerdicts(w)
  BY <1>1, <1>4 DEF CommitVerdicts, AtBranch, Goto, WorkerType, Placed, Waiting, Sending
<1>5. CASE BindingFails(w)
  <2>1. PICK p \in worker[w].paths : worker' = [worker EXCEPT ![w].paths = @ \ {p}]
    BY <1>5 DEF BindingFails
  <2>2. worker'[w].paths \subseteq worker[w].paths /\ worker'[w].pc = worker[w].pc
        /\ worker'[w].job = worker[w].job /\ worker'[w].chosen = worker[w].chosen
        /\ worker'[w].target = worker[w].target
    BY <1>1, <2>1 DEF WorkerType
  <2>. QED  BY <1>1, <2>2 DEF Placed, Waiting, Sending
<1>6. CASE ClaimJoin(w) /\ MayPublish(worker[w].target)
  <2>1. /\ worker[w].pc = "claim" /\ worker'[w].pc = "publish" /\ worker'[w].target = worker[w].target
        /\ worker'[w].job = worker[w].job /\ worker'[w].chosen = worker[w].chosen
        /\ worker'[w].paths = worker[w].paths
    BY <1>1, <1>6 DEF ClaimJoin, Goto, WorkerType
  <2>. QED  BY <1>1, <2>1 DEF Placed, Waiting, Sending
<1>7. CASE ClaimJoin(w) /\ ~MayPublish(worker[w].target)
  BY <1>1, <1>7 DEF ClaimJoin, WorkerType, Placed, Waiting, Sending
<1>8. CASE Publish(w)
  BY <1>1, <1>8 DEF Publish, WorkerType, Placed, Waiting, Sending
<1>9. CASE Finish(w) /\ Goto(w, "succeed")
  BY <1>1, <1>9 DEF Finish, Goto, WorkerType, Placed, Waiting, Sending
<1>. QED  BY <1>2, <1>3, <1>4, <1>5, <1>6, <1>7, <1>8, <1>9
          DEF Load, StepFails, TooManyBranches, PlanFails, PublishRefused, Finish, Succeed, Crash

LEMMA WorkersPlaced ==
  ASSUME TypeInv, PlaceInv, [Next]_vars, NEW w \in Workers
  PROVE  Placed(graph', worker'[w], committed', published')
<1>1. TypeInv' /\ graph' = graph /\ committed \subseteq committed'
      /\ published \in [Nodes -> Nat] /\ published' \in [Nodes -> Nat]
      /\ \A n \in Nodes : published[n] <= published'[n]
  BY NextTypes, JobsStay
<1>2. \/ Placed(graph, worker'[w], committed', published)
      \/ Placed(graph, worker'[w], committed, published)
  <2>1. CASE worker'[w] = worker[w]
    BY <2>1 DEF PlaceInv
  <2>2. CASE worker'[w] # worker[w]
    <3>1. Step(w) \/ Crash(w)
      <4>1. \E v \in Workers : Step(v) \/ Crash(v)
        BY <2>2 DEF Next, AcceptRun, PublishEntry, Revoke, Restore, Resubmit, vars
      <4>. QED  BY <2>2, <4>1, OthersStay
    <3>. QED  BY <3>1, PollPlaced, CommitStepPlaced, ResolveBranchPlaced, ConsiderSuccessorPlaced,
                 SimplePlaced DEF Step
  <2>. QED  BY <2>1, <2>2
<1>3. worker'[w].pc # "idle" => worker'[w].job \in Job
  BY <1>1 DEF TypeInv, HoldsAJob
<1>. QED  BY <1>1, <1>2, <1>3, PlacedStays

\* Which steps create a job, and for which node.
LEMMA JobsCreated ==
  ASSUME TypeInv, PlaceInv, [Next]_vars
  PROVE  \/ published' = published
         \/ /\ PublishEntry /\ authorized /\ Enqueue(Entry(graph))
         \/ \E w \in Workers : Publish(w) /\ Enqueue(worker[w].target)
BY DEF Next, Step, AcceptRun, PublishEntry, Poll, Load, StepFails, CommitStep, ResolveBranch,
         TooManyBranches, PlanFails, CommitVerdicts, ConsiderSuccessor, BindingFails, ClaimJoin,
         Publish, PublishRefused, Finish, Succeed, Crash, Revoke, Restore, Resubmit, vars, mailVars

\* Which steps change what is queued and parked.
LEMMA MailMoves ==
  ASSUME TypeInv, [Next]_vars
  PROVE  \/ UNCHANGED <<queue, dead>>
         \/ \E n \in Nodes : Enqueue(n)
         \/ \E w \in Workers : Poll(w)
         \/ Resubmit
<1>1. ASSUME NEW w \in Workers, Step(w) \/ Crash(w), ~Poll(w), ~Publish(w)
      PROVE  UNCHANGED <<queue, dead>>
  BY <1>1 DEF Step, Load, StepFails, CommitStep, ResolveBranch, TooManyBranches, PlanFails,
              CommitVerdicts, ConsiderSuccessor, BindingFails, ClaimJoin, PublishRefused, Finish,
              Succeed, Crash, mailVars
<1>2. ASSUME NEW w \in Workers, Publish(w)
      PROVE  \E n \in Nodes : Enqueue(n)
  BY <1>2 DEF Publish, TypeInv, HoldsAJob
<1>3. CASE PublishEntry
  BY <1>3, EntryOfGraph DEF PublishEntry, TypeInv, TypeOK, mailVars
<1>4. CASE AcceptRun \/ Revoke \/ Restore \/ UNCHANGED vars
  BY <1>4 DEF AcceptRun, Revoke, Restore, vars, mailVars
<1>. QED  BY <1>1, <1>2, <1>3, <1>4 DEF Next

LEMMA MailNumbered ==
  ASSUME TypeInv, PlaceInv, [Next]_vars
  PROVE  \A j \in Mailed' : j \in Mailed \/ \E n \in Nodes : Enqueue(n) /\ j = NewJob(n)
<1>1. queue \in Seq(Job) /\ dead \subseteq Job
  BY DEF TypeInv, TypeOK
<1>2. CASE UNCHANGED <<queue, dead>>
  BY <1>2 DEF Mailed
<1>3. ASSUME NEW n \in Nodes, Enqueue(n)
      PROVE  \A j \in Mailed' : j \in Mailed \/ j = NewJob(n)
  <2>1. queue' = Append(queue, NewJob(n)) /\ dead' = dead
    BY <1>3 DEF Enqueue
  <2>. QED  BY <1>1, <2>1 DEF Mailed
<1>4. ASSUME NEW w \in Workers, Poll(w)
      PROVE  \A j \in Mailed' : j \in Mailed
  <2>1. queue # <<>> /\ queue' = Tail(queue) /\ dead' \subseteq dead \cup {Head(queue)}
    BY <1>4 DEF Poll, Park
  <2>2. Head(queue) = queue[1] /\ 1 \in 1..Len(queue)
    BY <1>1, <2>1
  <2>3. Len(queue') = Len(queue) - 1 /\ \A i \in 1..Len(queue') : queue'[i] = queue[i + 1] /\ i + 1 \in 1..Len(queue)
    BY <1>1, <2>1
  <2>. QED  BY <2>1, <2>2, <2>3 DEF Mailed
<1>5. CASE Resubmit
  <2>1. PICK j \in dead : queue' = Append(queue, j) /\ dead' = dead
    BY <1>5 DEF Resubmit
  <2>. QED  BY <1>1, <2>1 DEF Mailed
<1>. QED  BY <1>2, <1>3, <1>4, <1>5, MailMoves

LEMMA NextNumbered == TypeInv /\ PlaceInv /\ [Next]_vars => Numbered'
<1>. SUFFICES ASSUME TypeInv, PlaceInv, [Next]_vars  PROVE Numbered'
  OBVIOUS
<1>1. /\ \A n \in Nodes : published[n] \in Nat /\ published'[n] \in Nat /\ published[n] <= published'[n]
      /\ graph' = graph /\ graph \in Graphs
      /\ published \in [Nodes -> Nat] /\ published' \in [Nodes -> Nat]
      /\ queue \in Seq(Job) /\ dead \subseteq Job /\ committed \subseteq Job
  BY JobsStay DEF TypeInv, TypeOK
<1>. DEFINE E == Entry(graph)
<1>2. E \in Nodes /\ E \in graph.nodes /\ Incoming(graph, E) = {}
  BY <1>1, EntryOfGraph
<1>3. ASSUME NEW w \in Workers, Publish(w)
      PROVE  /\ worker[w].target \in graph.nodes \ graph.branches
             /\ worker[w].target # E /\ worker[w].target \in Nodes
  <2>1. /\ Placed(graph, worker[w], committed, published) /\ worker[w].pc = "publish"
        /\ worker[w].target \in Nodes
    BY <1>3 DEF PlaceInv, Publish, TypeInv, HoldsAJob
  <2>. QED  BY <1>2, <2>1 DEF Placed
<1>. HIDE DEF E
<1>4. \A n \in Nodes : published'[n] > 0 => n \in graph.nodes /\ (n = E \/ n \notin graph.branches)
  <2>1. \A n \in Nodes : published[n] > 0 => n \in graph.nodes /\ (n = E \/ n \notin graph.branches)
    BY DEF PlaceInv, Numbered, E
  <2>2. CASE Enqueue(E)
    BY <1>1, <1>2, <2>1, <2>2 DEF Enqueue
  <2>3. ASSUME NEW w \in Workers, Publish(w), Enqueue(worker[w].target)
        PROVE  \A n \in Nodes : published'[n] > 0 => n \in graph.nodes /\ (n = E \/ n \notin graph.branches)
    BY <1>1, <1>3, <2>1, <2>3 DEF Enqueue
  <2>. QED  BY <2>1, <2>2, <2>3, JobsCreated DEF E
<1>5. published'[E] <= IF gateway' = "started" THEN 1 ELSE 0
  <2>1. published[E] <= IF gateway = "started" THEN 1 ELSE 0
    BY DEF PlaceInv, Numbered, E
  <2>2. gateway = "started" => gateway' = "started"
    BY DEF Next, Step, AcceptRun, PublishEntry, Poll, Load, StepFails, CommitStep, ResolveBranch,
         TooManyBranches, PlanFails, CommitVerdicts, ConsiderSuccessor, BindingFails, ClaimJoin,
         Publish, PublishRefused, Finish, Succeed, Crash, Revoke, Restore, Resubmit, vars
  <2>3. CASE PublishEntry /\ Enqueue(E)
    <3>1. gateway = "accepted" /\ gateway' = "started" /\ published'[E] = published[E] + 1
      BY <1>1, <1>2, <2>3 DEF PublishEntry, Enqueue
    <3>. QED  BY <1>1, <1>2, <2>1, <3>1
  <2>4. ASSUME NEW w \in Workers, Publish(w), Enqueue(worker[w].target)
        PROVE  published'[E] = published[E]
    BY <1>1, <1>2, <1>3, <2>4 DEF Enqueue
  <2>. QED  BY <1>1, <1>2, <2>1, <2>2, <2>3, <2>4, JobsCreated DEF E
<1>6. \A j \in committed' \cup Mailed' : j.nth \in 1..published'[j.node]
  <2>1. ASSUME NEW j \in Job, j.nth \in 1..published[j.node]
        PROVE  j.nth \in 1..published'[j.node]
    BY <1>1, <2>1 DEF Job
  <2>2. ASSUME NEW n \in Nodes, Enqueue(n)
        PROVE  NewJob(n).nth \in 1..published'[NewJob(n).node]
    BY <1>1, <2>2 DEF Enqueue, NewJob
  <2>3. \A j \in committed \cup Mailed : j \in Job /\ j.nth \in 1..published[j.node]
    BY <1>1 DEF PlaceInv, Numbered, Mailed
  <2>4. \A j \in committed' : j \in committed \/ \E w \in Workers : j = worker[w].job /\ worker[w].pc # "idle"
    BY DEF Next, Step, AcceptRun, PublishEntry, Poll, Load, StepFails, CommitStep, ResolveBranch,
         TooManyBranches, PlanFails, CommitVerdicts, ConsiderSuccessor, BindingFails, ClaimJoin,
         Publish, PublishRefused, Finish, Succeed, Crash, Revoke, Restore, Resubmit, vars,
         runVars, stepVars
  <2>5. \A w \in Workers : worker[w].pc # "idle" => worker[w].job \in Job
             /\ worker[w].job.nth \in 1..published[worker[w].job.node]
    BY DEF TypeInv, HoldsAJob, PlaceInv, Placed
  <2>6. \A j \in committed' : j.nth \in 1..published'[j.node]
    BY <2>1, <2>3, <2>4, <2>5
  <2>7. \A j \in Mailed' : j.nth \in 1..published'[j.node]
    BY <2>1, <2>2, <2>3, MailNumbered
  <2>. QED  BY <2>6, <2>7
<1>7. \A n \in Nodes : decided'[n] # "none" => n \in graph.branches
  <2>1. \A n \in Nodes : decided[n] # "none" => n \in graph.branches
    BY DEF PlaceInv, Numbered
  <2>2. decided \in [Nodes -> Verdicts \cup {"none"}]
    BY DEF TypeInv, TypeOK
  <2>3. ASSUME NEW w \in Workers, CommitVerdicts(w)
        PROVE  \A n \in Nodes : decided'[n] # "none" => n \in graph.branches
    <3>1. \A c \in worker[w].chosen : c[1] \in graph.branches
      BY DEF PlaceInv, Placed
    <3>. QED  BY <2>1, <2>2, <2>3, <3>1 DEF CommitVerdicts
  <2>4. ASSUME NEW w \in Workers, CommitStep(w)
        PROVE  \A n \in Nodes : decided'[n] # "none" => n \in graph.branches
    BY <2>1, <2>2, <2>4 DEF CommitStep, VerdictOnCommit
  <2>5. decided' = decided \/ \E w \in Workers : CommitVerdicts(w) \/ CommitStep(w)
    BY DEF Next, Step, AcceptRun, PublishEntry, Poll, Load, StepFails, ResolveBranch,
         TooManyBranches, PlanFails, ConsiderSuccessor, BindingFails, ClaimJoin,
         Publish, PublishRefused, Finish, Succeed, Crash, Revoke, Restore, Resubmit, vars,
         runVars, stepVars
  <2>. QED  BY <2>1, <2>3, <2>4, <2>5
<1>. QED  BY <1>1, <1>4, <1>5, <1>6, <1>7 DEF Numbered, E

LEMMA PlacesHold == Spec => []PlaceInv
<1>1. Init => PlaceInv
  <2>. SUFFICES ASSUME Init  PROVE PlaceInv
    OBVIOUS
  <2>1. Entry(graph) \in Nodes
    BY EntryOfGraph DEF Init
  <2>2. Mailed = {} /\ committed = {}
    BY DEF Init, Mailed
  <2>3. Numbered
    BY <2>1, <2>2 DEF Init, Numbered
  <2>. QED  BY <2>3, IdlePlaced DEF Init, PlaceInv
<1>2. TypeInv /\ PlaceInv /\ [Next]_vars => PlaceInv'
  BY NextNumbered, WorkersPlaced DEF PlaceInv
<1>. QED  BY <1>1, <1>2, TypesHold, PTL DEF Spec

-----------------------------------------------------------------------------
(* One delivery of each job, until a parked job is put back twice.            *)

Busy(r) == r.pc \in {"load", "execute"}

\* What a worker may still execute.
Deliverable ==
  {queue[i] : i \in 1..Len(queue)}
    \cup {worker[w].job : w \in {v \in Workers : Busy(worker[v])}}
    \cup IF spent["resubmit"] = 0 THEN dead ELSE {}

OneDelivery ==
  /\ \A i, k \in 1..Len(queue) : queue[i] = queue[k] => i = k
  /\ \A w \in Workers : Busy(worker[w]) =>
       /\ \A i \in 1..Len(queue) : queue[i] # worker[w].job
       /\ \A v \in Workers : Busy(worker[v]) /\ worker[v].job = worker[w].job => v = w
  /\ spent["resubmit"] = 0 =>
       /\ \A i \in 1..Len(queue) : queue[i] \notin dead
       /\ \A w \in Workers : Busy(worker[w]) => worker[w].job \notin dead

LEMMA ResubmitsCounted ==
  ASSUME TypeInv, [Next]_vars
  PROVE  /\ spent["resubmit"] \in Nat /\ spent'["resubmit"] \in Nat
         /\ Resubmit => spent'["resubmit"] = spent["resubmit"] + 1
         /\ ~Resubmit => spent'["resubmit"] = spent["resubmit"]
<1>1. spent \in [Mishaps -> Nat] /\ "resubmit" \in Mishaps
  BY DEF TypeInv, TypeOK, Mishaps
<1>2. Resubmit => spent'["resubmit"] = spent["resubmit"] + 1
  BY <1>1 DEF Resubmit, Spend
<1>3. ~Resubmit => spent'["resubmit"] = spent["resubmit"]
  <2>1. \/ spent' = spent
        \/ \E m \in {"fault", "crash", "revoke"} : spent' = [spent EXCEPT ![m] = @ + 1]
        \/ Resubmit
    BY DEF Next, Step, AcceptRun, PublishEntry, Poll, Load, StepFails, CommitStep, ResolveBranch,
         TooManyBranches, PlanFails, CommitVerdicts, ConsiderSuccessor, BindingFails, ClaimJoin,
         Publish, PublishRefused, Finish, Succeed, Crash, Revoke, Restore, Spend, vars
  <2>. QED  BY <1>1, <2>1
<1>. QED  BY <1>1, <1>2, <1>3

\* Whoever holds a job to execute held it before or has just polled it.
LEMMA BusyMoves ==
  ASSUME TypeInv, [Next]_vars, NEW v \in Workers, Busy(worker'[v])
  PROVE  \/ Busy(worker[v]) /\ worker'[v].job = worker[v].job
         \/ Poll(v) /\ authorized /\ worker'[v].job = Head(queue)
<1>1. worker \in [Workers -> WorkerType]
  BY DEF TypeInv, TypeOK
<1>2. CASE worker'[v] = worker[v]
  BY <1>2
<1>3. CASE worker'[v] # worker[v]
  <2>1. Step(v) \/ Crash(v)
    <3>1. \E w \in Workers : Step(w) \/ Crash(w)
      BY <1>3 DEF Next, AcceptRun, PublishEntry, Revoke, Restore, Resubmit, vars
    <3>. QED  BY <1>3, <3>1, OthersStay
  <2>2. CASE Poll(v)
    BY <1>1, <1>3, <2>2 DEF Poll, WorkerType
  <2>3. CASE Load(v)
    BY <1>1, <2>3 DEF Load, GoIdle, IdleWorker, Goto, WorkerType, Busy
  <2>4. CASE GoIdle(v)
    BY <1>1, <2>4 DEF GoIdle, IdleWorker, Busy
  <2>5. CASE \E s \in Stages \ {"load", "execute"} : Goto(v, s)
    BY <1>1, <2>5 DEF Goto, WorkerType, Busy
  <2>6. CASE CommitStep(v)
    BY <1>1, <2>6 DEF CommitStep, WorkerType, Busy
  <2>7. CASE ResolveBranch(v)
    BY <2>7, ResolveBranchRecord DEF ResolvedInto, Busy
  <2>8. CASE ConsiderSuccessor(v)
    BY <2>8, ConsiderSuccessorRecord DEF Busy
  <2>9. CASE BindingFails(v)
    <3>1. PICK ps : worker' = [worker EXCEPT ![v].paths = ps]
      BY <2>9 DEF BindingFails
    <3>. QED  BY <1>1, <2>9, <3>1 DEF BindingFails, WorkerType, Busy
  <2>10. CASE ClaimJoin(v)
    BY <1>1, <2>10 DEF ClaimJoin, Goto, WorkerType, Busy
  <2>11. CASE Publish(v)
    BY <1>1, <2>11 DEF Publish, WorkerType, Busy
  <2>. QED  BY <2>1, <2>2, <2>3, <2>4, <2>5, <2>6, <2>7, <2>8, <2>9, <2>10, <2>11
            DEF Step, StepFails, TooManyBranches, PlanFails, CommitVerdicts,
                PublishRefused, Finish, Succeed, Crash, Stages
<1>. QED  BY <1>2, <1>3

\* A new job is not one that anybody holds.
LEMMA NewJobIsNew ==
  ASSUME TypeInv, PlaceInv, NEW n \in Nodes
  PROVE  /\ NewJob(n) \notin Mailed \cup committed
         /\ \A w \in Workers : Busy(worker[w]) => worker[w].job # NewJob(n)
<1>1. published[n] \in Nat /\ NewJob(n).node = n /\ NewJob(n).nth = published[n] + 1
  BY DEF NewJob, TypeInv, TypeOK
<1>2. ~(NewJob(n).nth \in 1..published[NewJob(n).node])
  BY <1>1
<1>. QED  BY <1>2 DEF PlaceInv, Numbered, Placed, Busy

LEMMA EnqueueDelivery ==
  ASSUME TypeInv, PlaceInv, OneDelivery, [Next]_vars, NEW n \in Nodes, Enqueue(n), ~Resubmit,
         \A w \in Workers : ~Poll(w)
  PROVE  /\ OneDelivery'
         /\ \A j \in Deliverable' : j \in Deliverable \/ j = NewJob(n)
<1>1. /\ queue \in Seq(Job) /\ queue' = Append(queue, NewJob(n)) /\ dead' = dead /\ NewJob(n) \in Job
      /\ spent'["resubmit"] = spent["resubmit"]
  BY ResubmitsCounted DEF Enqueue, TypeInv, TypeOK, NewJob, Job
<1>2. /\ Len(queue') = Len(queue) + 1 /\ queue'[Len(queue) + 1] = NewJob(n)
      /\ \A i \in 1..Len(queue) : queue'[i] = queue[i]
      /\ 1..Len(queue') = 1..Len(queue) \cup {Len(queue) + 1}
      /\ Len(queue) \in Nat
  BY <1>1
<1>3. /\ \A i \in 1..Len(queue) : queue[i] # NewJob(n)
      /\ NewJob(n) \notin dead
      /\ \A w \in Workers : Busy(worker[w]) => worker[w].job # NewJob(n)
  BY NewJobIsNew DEF Mailed
<1>4. \A w \in Workers : Busy(worker'[w]) => Busy(worker[w]) /\ worker'[w].job = worker[w].job
  BY BusyMoves
<1>5. \A i, k \in 1..Len(queue') : queue'[i] = queue'[k] => i = k
  BY <1>2, <1>3 DEF OneDelivery
<1>6. \A w \in Workers : Busy(worker'[w]) =>
       /\ \A i \in 1..Len(queue') : queue'[i] # worker'[w].job
       /\ \A v \in Workers : Busy(worker'[v]) /\ worker'[v].job = worker'[w].job => v = w
  BY <1>2, <1>3, <1>4 DEF OneDelivery
<1>7. spent'["resubmit"] = 0 =>
       /\ \A i \in 1..Len(queue') : queue'[i] \notin dead'
       /\ \A w \in Workers : Busy(worker'[w]) => worker'[w].job \notin dead'
  BY <1>1, <1>2, <1>3, <1>4 DEF OneDelivery
<1>8. \A j \in Deliverable' : j \in Deliverable \/ j = NewJob(n)
  BY <1>1, <1>2, <1>4 DEF Deliverable
<1>. QED  BY <1>5, <1>6, <1>7, <1>8 DEF OneDelivery

LEMMA PollDelivery ==
  ASSUME TypeInv, PlaceInv, OneDelivery, [Next]_vars, NEW w \in Workers, Poll(w)
  PROVE  OneDelivery' /\ Deliverable' \subseteq Deliverable
<1>1. /\ queue \in Seq(Job) /\ queue # <<>> /\ queue' = Tail(queue) /\ spent' = spent
      /\ worker \in [Workers -> WorkerType] /\ worker[w].pc = "idle"
  BY DEF Poll, TypeInv, TypeOK
<1>2. /\ Len(queue') = Len(queue) - 1 /\ Head(queue) = queue[1] /\ 1 \in 1..Len(queue) /\ Len(queue) \in Nat
      /\ \A i \in 1..Len(queue') : queue'[i] = queue[i + 1] /\ i + 1 \in 1..Len(queue) /\ i + 1 # 1
  BY <1>1
<1>3. \A i, k \in 1..Len(queue') : queue'[i] = queue'[k] => i = k
  BY <1>2 DEF OneDelivery
<1>4. \A i \in 1..Len(queue') : queue'[i] # Head(queue)
  BY <1>2 DEF OneDelivery
<1>5. CASE authorized
  <2>1. dead' = dead /\ worker' = [worker EXCEPT ![w].pc = "load", ![w].job = Head(queue)]
    BY <1>5 DEF Poll
  <2>2. \A v \in Workers : Busy(worker'[v]) =>
          \/ v = w /\ worker'[v].job = Head(queue)
          \/ v # w /\ worker'[v] = worker[v]
    <3>1. worker'[w].job = Head(queue)
      BY <1>1, <2>1 DEF WorkerType
    <3>2. \A v \in Workers \ {w} : worker'[v] = worker[v]
      BY OthersStay DEF Step
    <3>. QED  BY <3>1, <3>2
  <2>3. \A v \in Workers : Busy(worker'[v]) =>
       /\ \A i \in 1..Len(queue') : queue'[i] # worker'[v].job
       /\ \A u \in Workers : Busy(worker'[u]) /\ worker'[u].job = worker'[v].job => u = v
    BY <1>2, <1>4, <2>2 DEF OneDelivery
  <2>4. spent'["resubmit"] = 0 =>
       /\ \A i \in 1..Len(queue') : queue'[i] \notin dead'
       /\ \A v \in Workers : Busy(worker'[v]) => worker'[v].job \notin dead'
    BY <1>1, <1>2, <2>1, <2>2 DEF OneDelivery
  <2>5. Deliverable' \subseteq Deliverable
    BY <1>1, <1>2, <2>1, <2>2 DEF Deliverable
  <2>. QED  BY <1>3, <2>3, <2>4, <2>5 DEF OneDelivery
<1>6. CASE ~authorized
  <2>1. dead' = dead \cup {Head(queue)} /\ worker' = worker
    BY <1>6 DEF Poll, Park
  <2>2. spent'["resubmit"] = 0 =>
       /\ \A i \in 1..Len(queue') : queue'[i] \notin dead'
       /\ \A v \in Workers : Busy(worker'[v]) => worker'[v].job \notin dead'
    BY <1>1, <1>2, <1>4, <2>1 DEF OneDelivery
  <2>3. Deliverable' \subseteq Deliverable
    BY <1>1, <1>2, <2>1 DEF Deliverable
  <2>4. \A v \in Workers : Busy(worker'[v]) =>
       /\ \A i \in 1..Len(queue') : queue'[i] # worker'[v].job
       /\ \A u \in Workers : Busy(worker'[u]) /\ worker'[u].job = worker'[v].job => u = v
    BY <1>2, <2>1 DEF OneDelivery
  <2>. QED  BY <1>3, <2>2, <2>3, <2>4 DEF OneDelivery
<1>. QED  BY <1>5, <1>6

LEMMA ResubmitDelivery ==
  ASSUME TypeInv, PlaceInv, OneDelivery, [Next]_vars, Resubmit, NoDuplicates'
  PROVE  OneDelivery' /\ Deliverable' \subseteq Deliverable
<1>1. spent["resubmit"] = 0 /\ spent'["resubmit"] = 1
  BY ResubmitsCounted DEF NoDuplicates
<1>2. PICK j \in dead : queue' = Append(queue, j)
  BY DEF Resubmit
<1>3. queue \in Seq(Job) /\ dead \subseteq Job /\ worker' = worker
  BY DEF TypeInv, TypeOK, Resubmit
<1>4. /\ Len(queue') = Len(queue) + 1 /\ queue'[Len(queue) + 1] = j
      /\ \A i \in 1..Len(queue) : queue'[i] = queue[i]
      /\ 1..Len(queue') = 1..Len(queue) \cup {Len(queue) + 1}
  BY <1>2, <1>3
<1>5. \A i, k \in 1..Len(queue') : queue'[i] = queue'[k] => i = k
  BY <1>1, <1>4 DEF OneDelivery
<1>6. \A w \in Workers : Busy(worker'[w]) =>
       /\ \A i \in 1..Len(queue') : queue'[i] # worker'[w].job
       /\ \A v \in Workers : Busy(worker'[v]) /\ worker'[v].job = worker'[w].job => v = w
  BY <1>1, <1>3, <1>4 DEF OneDelivery
<1>7. Deliverable' \subseteq Deliverable
  BY <1>1, <1>3, <1>4 DEF Deliverable
<1>. QED  BY <1>1, <1>5, <1>6, <1>7 DEF OneDelivery

\* What may be executed is what might have been, and the job just created.
LEMMA NextDelivery ==
  ASSUME TypeInv, PlaceInv, OneDelivery, [Next]_vars, NoDuplicates'
  PROVE  /\ OneDelivery'
         /\ \A j \in Deliverable' : j \in Deliverable \/ \E n \in Nodes : Enqueue(n) /\ j = NewJob(n)
<1>1. CASE Resubmit
  BY <1>1, ResubmitDelivery
<1>2. CASE \E w \in Workers : Poll(w)
  BY <1>2, PollDelivery
<1>3. CASE ~Resubmit /\ (\A w \in Workers : ~Poll(w)) /\ \E n \in Nodes : Enqueue(n)
  BY <1>3, EnqueueDelivery
<1>4. CASE ~Resubmit /\ (\A w \in Workers : ~Poll(w)) /\ UNCHANGED <<queue, dead>>
  <2>1. \A w \in Workers : Busy(worker'[w]) => Busy(worker[w]) /\ worker'[w].job = worker[w].job
    BY <1>4, BusyMoves
  <2>2. queue' = queue /\ dead' = dead /\ spent'["resubmit"] = spent["resubmit"]
    BY <1>4, ResubmitsCounted
  <2>3. Deliverable' \subseteq Deliverable
    BY <2>1, <2>2 DEF Deliverable
  <2>4. OneDelivery'
    BY <2>1, <2>2 DEF OneDelivery
  <2>. QED  BY <2>3, <2>4
<1>. QED  BY <1>1, <1>2, <1>3, <1>4, MailMoves

-----------------------------------------------------------------------------
(* What lies ahead of a node: what is reached from it through branches alone, *)
(* the node itself included.                                                  *)

Onward(g, S) == \A e \in g.edges : e.src \in S /\ e.src \in g.branches => e.dst \in S

Ahead(g, m) == {n \in Nodes : \A S \in SUBSET Nodes : m \in S /\ Onward(g, S) => n \in S}

\* No branch is reached by two edges.
NothingMeets(g) == \A b \in g.branches : ~Joining(g, b)

\* A node to which one edge leads; an edge that a job may start from.
Single(g, n)  == n \in g.nodes /\ n # Entry(g) /\ ~Joining(g, n)
Source(g, e)  == e \in g.edges /\ (e.src \notin g.branches \/ e.src = Entry(g))

LEMMA AheadOfItself ==
  ASSUME NEW g, NEW m \in Nodes
  PROVE  m \in Ahead(g, m)
BY DEF Ahead

LEMMA AheadGoesOn ==
  ASSUME NEW g \in Graphs, NEW m, NEW e \in g.edges, e.src \in g.branches, e.src \in Ahead(g, m)
  PROVE  e.dst \in Ahead(g, m)
<1>1. e.dst \in Nodes
  BY EdgeOfGraph
<1>2. ASSUME NEW S \in SUBSET Nodes, m \in S, Onward(g, S)
      PROVE  e.dst \in S
  <2>1. e.src \in S
    BY <1>2 DEF Ahead
  <2>. QED  BY <1>2, <2>1 DEF Onward
<1>. QED  BY <1>1, <1>2 DEF Ahead

LEMMA AheadIsTransitive ==
  ASSUME NEW g, NEW m, NEW k \in Ahead(g, m), NEW n \in Ahead(g, k)
  PROVE  n \in Ahead(g, m)
BY DEF Ahead

\* A branch has ahead of it what either of its edges has.
LEMMA AheadOfBranch ==
  ASSUME NEW g \in Graphs, NEW e \in g.edges, e.src \in g.branches
  PROVE  Ahead(g, e.dst) \subseteq Ahead(g, e.src)
<1>1. e.src \in Nodes
  BY EdgeOfGraph
<1>2. e.dst \in Ahead(g, e.src)
  BY <1>1, AheadOfItself, AheadGoesOn
<1>. QED  BY <1>2, AheadIsTransitive

\* Whatever else is ahead of a node is led to by a branch ahead of it.
LEMMA AheadComesFrom ==
  ASSUME NEW g \in Graphs, NEW m \in Nodes, NEW n \in Ahead(g, m), n # m
  PROVE  \E e \in Incoming(g, n) : e.src \in g.branches /\ e.src \in Ahead(g, m)
<1>. SUFFICES ASSUME \A e \in Incoming(g, n) : ~(e.src \in g.branches /\ e.src \in Ahead(g, m))
              PROVE  FALSE
  OBVIOUS
<1>. DEFINE S == Ahead(g, m) \ {n}
<1>2. m \in S /\ S \in SUBSET Nodes
  BY AheadOfItself DEF Ahead
<1>3. Onward(g, S)
  <2>. SUFFICES ASSUME NEW e \in g.edges, e.src \in S, e.src \in g.branches
                PROVE  e.dst \in S
    BY DEF Onward
  <2>1. e.dst \in Ahead(g, m)
    BY AheadGoesOn
  <2>2. e.dst # n
    BY EdgeOfGraph DEF Incoming
  <2>. QED  BY <2>1, <2>2
<1>4. n \in S
  <2>. HIDE DEF S
  <2>. QED  BY <1>2, <1>3 DEF Ahead
<1>. QED  BY <1>4

\* Nothing that an edge leads to has the entry ahead of it.
LEMMA EntryIsBehind ==
  ASSUME NEW g \in Graphs, NEW e \in g.edges
  PROVE  Entry(g) \notin Ahead(g, e.dst)
<1>1. Incoming(g, Entry(g)) = {} /\ e \in Incoming(g, e.dst)
  BY EntryOfGraph, EdgeOfGraph
<1>2. e.dst \in Nodes
  BY EdgeOfGraph
<1>. QED  BY <1>1, <1>2, AheadComesFrom

\* Decisions do not go round in circles.
LEMMA BranchIsBehind ==
  ASSUME NEW g \in Graphs, NEW f \in g.edges, f.src \in g.branches
  PROVE  f.src \notin Ahead(g, f.dst)
<1>. SUFFICES ASSUME f.src \in Ahead(g, f.dst)  PROVE FALSE
  OBVIOUS
<1>. DEFINE S == {x \in g.branches : x \in Ahead(g, f.dst) /\ f.src \in Ahead(g, x)}
<1>1. g.branches \subseteq g.nodes /\ f.src \in Nodes /\ f.dst \in Nodes
  BY EdgeOfGraph, GraphsAssumption DEF ValidGraph, WellFormedEdges
<1>2. f.src \in S
  BY <1>1, AheadOfItself
<1>3. PICK n \in S : \A e \in Incoming(g, n) : e.src \notin S
  <2>1. S \in SUBSET g.nodes /\ S # {}
    BY <1>1, <1>2
  <2>. HIDE DEF S
  <2>. QED  BY <2>1, FirstOfNodes
<1>4. CASE n = f.dst
  BY <1>2, <1>3, <1>4, EdgeOfGraph
<1>5. CASE n # f.dst
  <2>1. PICK e \in Incoming(g, n) : e.src \in g.branches /\ e.src \in Ahead(g, f.dst)
    BY <1>1, <1>5, AheadComesFrom
  <2>2. e \in g.edges /\ e.dst = n
    BY DEF Incoming
  <2>3. n \in Ahead(g, e.src)
    BY <1>1, <2>1, <2>2, AheadOfBranch, AheadOfItself, EdgeOfGraph
  <2>4. f.src \in Ahead(g, e.src)
    BY <2>3, AheadIsTransitive
  <2>. QED  BY <1>3, <2>1, <2>4
<1>. QED  BY <1>4, <1>5

\* A node to which one edge leads is ahead of one edge that a job may start from.
LEMMA OneSource ==
  ASSUME NEW g \in Graphs, NothingMeets(g), NEW d, NEW e, Source(g, d), Source(g, e),
         NEW m, Single(g, m), m \in Ahead(g, d.dst), m \in Ahead(g, e.dst)
  PROVE  d = e
<1>. SUFFICES ASSUME d # e  PROVE FALSE
  OBVIOUS
<1>. DEFINE S == {x \in g.nodes : Single(g, x) /\ x \in Ahead(g, d.dst) /\ x \in Ahead(g, e.dst)}
<1>1. d \in g.edges /\ e \in g.edges
  BY DEF Source
<1>2. PICK n \in S : \A x \in Incoming(g, n) : x.src \in g.nodes \ S
  <2>1. S \in SUBSET g.nodes /\ S # {}
    BY DEF Single
  <2>. HIDE DEF S
  <2>. QED  BY <2>1, FirstOfNodes
<1>3. \A x, y \in Incoming(g, n) : x = y
  BY <1>2 DEF Single, Joining
<1>4. /\ d \in Incoming(g, d.dst) /\ e \in Incoming(g, e.dst)
      /\ d.dst \in Nodes /\ e.dst \in Nodes
  BY <1>1, EdgeOfGraph
<1>5. ASSUME NEW a \in {d, e}, NEW b \in {d, e}, a # b, n = a.dst
      PROVE  FALSE
  <2>1. a \in Incoming(g, n) /\ Source(g, a) /\ b \in g.edges /\ n \in Ahead(g, b.dst)
    BY <1>1, <1>2, <1>4, <1>5
  <2>2. CASE n = b.dst
    BY <1>3, <1>4, <1>5, <2>1, <2>2
  <2>3. CASE n # b.dst
    <3>1. PICK x \in Incoming(g, n) : x.src \in g.branches /\ x.src \in Ahead(g, b.dst)
      BY <1>4, <2>1, <2>3, AheadComesFrom
    <3>2. x = a
      BY <1>3, <2>1
    <3>3. Entry(g) \in Ahead(g, b.dst)
      BY <2>1, <3>1, <3>2 DEF Source
    <3>. QED  BY <2>1, <3>3, EntryIsBehind
  <2>. QED  BY <2>2, <2>3
<1>6. CASE n # d.dst /\ n # e.dst
  <2>1. PICK x \in Incoming(g, n) : x.src \in g.branches /\ x.src \in Ahead(g, d.dst)
    BY <1>2, <1>4, <1>6, AheadComesFrom
  <2>2. PICK y \in Incoming(g, n) : y.src \in g.branches /\ y.src \in Ahead(g, e.dst)
    BY <1>2, <1>4, <1>6, AheadComesFrom
  <2>3. x.src \in Ahead(g, e.dst)
    BY <1>3, <2>2
  <2>4. x.src # Entry(g)
    BY <1>1, <2>1, EntryIsBehind
  <2>5. Single(g, x.src)
    BY <1>2, <2>1, <2>4 DEF Single, NothingMeets
  <2>. QED  BY <1>2, <2>1, <2>3, <2>5
<1>. QED  BY <1>5, <1>6

-----------------------------------------------------------------------------
(***************************************************************************)
(* One visit to each node.  A worker's path may still come to every node    *)
(* ahead of where it stands; a worker that has resolved a branch, or is     *)
(* about to create a job, acts on one.  Until a parked job is put back      *)
(* twice, and where no branch is reached by two edges, a node that one edge *)
(* leads to has one such visitor at a time and none after it was settled;   *)
(* and while it has one, the job at the other end of the way it came is     *)
(* spent.                                                                   *)
(***************************************************************************)
Acts(r, n) ==
  \/ r.pc = "publish" /\ r.target = n
  \/ r.pc = "plan" /\ \E v \in Verdicts : <<n, v>> \in r.chosen

Heads(g, p, n) == n \in Ahead(g, p.at.dst)

Settled(n) == published[n] > 0 \/ decided[n] # "none"

Held(n) ==
  \/ Settled(n)
  \/ \E w \in Workers : Acts(worker[w], n) \/ \E p \in worker[w].paths : Heads(graph, p, n)

OneVisit(n) ==
  /\ published[n] <= 1
  /\ \A v, w \in Workers : Acts(worker[v], n) /\ Acts(worker[w], n) => v = w
  /\ \A v, w \in Workers : \A p \in worker[v].paths, q \in worker[w].paths :
       Heads(graph, p, n) /\ Heads(graph, q, n) => v = w /\ p = q
  /\ \A v, w \in Workers : Acts(worker[w], n) => \A p \in worker[v].paths : ~Heads(graph, p, n)
  /\ Settled(n) => \A w \in Workers :
       ~Acts(worker[w], n) /\ \A p \in worker[w].paths : ~Heads(graph, p, n)

Awaited(m) == \E j \in Deliverable : j.node = m

Rooted ==
  \A e \in graph.edges : Source(graph, e) =>
    \A n \in Ahead(graph, e.dst) : Single(graph, n) /\ Held(n) =>
      published[e.src] >= 1 /\ ~Awaited(e.src)

VisitsInv == OneDelivery /\ Rooted /\ \A n \in Nodes : Single(graph, n) => OneVisit(n)

OnceInv == NoDuplicates /\ NothingMeets(graph) => VisitsInv

\* So far one job has been created for any node, if that.
LEMMA OneJobEach ==
  ASSUME TypeInv, PlaceInv, ClaimInv, VisitsInv, NEW n \in Nodes
  PROVE  published[n] \in Nat /\ published[n] <= 1
<1>1. published[n] \in Nat /\ graph \in Graphs
  BY DEF TypeInv, TypeOK
<1>2. CASE n \notin graph.nodes
  BY <1>1, <1>2 DEF PlaceInv, Numbered
<1>3. CASE n = Entry(graph)
  BY <1>1, <1>3 DEF PlaceInv, Numbered
<1>4. CASE Joining(graph, n)
  BY <1>1, <1>4 DEF ClaimInv, ClaimOf
<1>5. CASE Single(graph, n)
  BY <1>1, <1>5 DEF VisitsInv, OneVisit
<1>. QED  BY <1>1, <1>2, <1>3, <1>4, <1>5 DEF Single

\* The jobs that may be executed are numbered too.
LEMMA DeliverableIsNumbered ==
  ASSUME TypeInv, PlaceInv, NEW j \in Deliverable
  PROVE  j \in Job /\ j.nth \in 1..published[j.node]
<1>1. /\ queue \in Seq(Job) /\ dead \subseteq Job
      /\ \A w \in Workers : Busy(worker[w]) => worker[w].job \in Job
  BY DEF TypeInv, TypeOK, HoldsAJob, Busy
<1>2. j \in Mailed \/ \E w \in Workers : Busy(worker[w]) /\ j = worker[w].job
  BY DEF Deliverable, Mailed
<1>. QED  BY <1>1, <1>2 DEF PlaceInv, Numbered, Placed, Mailed, Busy

\* When visitors only leave, what was true of them stays true.
LEMMA VisitsStay ==
  ASSUME VisitsInv, OneDelivery', graph' = graph, published' = published, decided' = decided,
         Deliverable' \subseteq Deliverable,
         \A w \in Workers : worker'[w].paths \subseteq worker[w].paths,
         \A w \in Workers : \A n \in Nodes :
           Single(graph, n) /\ Acts(worker'[w], n) => Acts(worker[w], n)
  PROVE  VisitsInv'
<1>1. ASSUME NEW n \in Nodes, Single(graph, n)
      PROVE  OneVisit(n)' /\ (Held(n)' => Held(n))
  <2>1. OneVisit(n)
    BY <1>1 DEF VisitsInv
  <2>2. /\ \A w \in Workers : Acts(worker'[w], n) => Acts(worker[w], n)
        /\ \A w \in Workers : \A p \in worker'[w].paths : p \in worker[w].paths
    BY <1>1
  <2>3. Held(n)' => Held(n)
    BY <2>2 DEF Held, Settled
  <2>4. /\ published'[n] <= 1
        /\ \A v, w \in Workers : Acts(worker'[v], n) /\ Acts(worker'[w], n) => v = w
        /\ \A v, w \in Workers : \A p \in worker'[v].paths, q \in worker'[w].paths :
             Heads(graph, p, n) /\ Heads(graph, q, n) => v = w /\ p = q
    BY <2>1, <2>2 DEF OneVisit
  <2>5. /\ \A v, w \in Workers : Acts(worker'[w], n) => \A p \in worker'[v].paths : ~Heads(graph, p, n)
        /\ Settled(n)' => \A w \in Workers :
             ~Acts(worker'[w], n) /\ \A p \in worker'[w].paths : ~Heads(graph, p, n)
    BY <2>1, <2>2 DEF OneVisit, Settled
  <2>. QED  BY <2>3, <2>4, <2>5 DEF OneVisit
<1>2. Rooted'
  <2>. SUFFICES ASSUME NEW e \in graph.edges, Source(graph, e), NEW n \in Ahead(graph, e.dst),
                       Single(graph, n), Held(n)'
                PROVE  published'[e.src] >= 1 /\ ~Awaited(e.src)'
    BY DEF Rooted
  <2>1. Held(n)
    BY <1>1 DEF Ahead
  <2>. QED  BY <2>1 DEF VisitsInv, Rooted, Awaited
<1>. QED  BY <1>1, <1>2 DEF VisitsInv

Quiet(w) ==
  \/ Poll(w) \/ Load(w) \/ StepFails(w) \/ TooManyBranches(w) \/ PlanFails(w)
  \/ BindingFails(w) \/ ClaimJoin(w) \/ PublishRefused(w) \/ Finish(w) \/ Succeed(w) \/ Crash(w)

LEMMA QuietRecord ==
  ASSUME TypeInv, PlaceInv, NEW w \in Workers, Quiet(w)
  PROVE  /\ worker'[w].paths \subseteq worker[w].paths
         /\ \A n \in Nodes : Single(graph, n) /\ Acts(worker'[w], n) => Acts(worker[w], n)
<1>1. worker \in [Workers -> WorkerType] /\ Placed(graph, worker[w], committed, published)
  BY DEF TypeInv, TypeOK, PlaceInv
<1>2. CASE GoIdle(w)
  BY <1>1, <1>2 DEF GoIdle, IdleWorker, Acts
<1>3. CASE \E s \in Stages \ {"publish", "plan"} : Goto(w, s)
  BY <1>1, <1>3 DEF Goto, WorkerType, Acts
<1>4. CASE Poll(w)
  BY <1>1, <1>4 DEF Poll, WorkerType, Acts
<1>5. CASE BindingFails(w)
  <2>1. PICK p \in worker[w].paths : worker' = [worker EXCEPT ![w].paths = @ \ {p}]
    BY <1>5 DEF BindingFails
  <2>2. worker'[w].paths \subseteq worker[w].paths /\ worker'[w].pc = "dispatch"
    BY <1>1, <1>5, <2>1 DEF BindingFails, WorkerType
  <2>. QED  BY <2>2 DEF Acts
<1>6. CASE ClaimJoin(w)
  <2>1. /\ worker'[w].paths = worker[w].paths /\ worker'[w].pc \in {"dispatch", "publish"}
        /\ worker'[w].pc = "publish" => worker'[w].target = worker[w].target
        /\ worker[w].pc = "claim"
    BY <1>1, <1>6 DEF ClaimJoin, Goto, WorkerType
  <2>2. Joining(graph, worker[w].target)
    BY <1>1, <2>1 DEF Placed
  <2>. QED  BY <2>1, <2>2 DEF Acts, Single
<1>. QED  BY <1>2, <1>3, <1>4, <1>5, <1>6
          DEF Quiet, Load, StepFails, TooManyBranches, PlanFails, PublishRefused, Finish, Succeed,
              Crash, Stages

LEMMA QuietVisits ==
  ASSUME TypeInv, PlaceInv, VisitsInv, [Next]_vars, NoDuplicates',
         \/ AcceptRun \/ Revoke \/ Restore \/ Resubmit \/ UNCHANGED vars
         \/ \E w \in Workers : Quiet(w)
  PROVE  VisitsInv'
<1>1. graph' = graph /\ published' = published /\ decided' = decided
  BY DEF AcceptRun, Revoke, Restore, Resubmit, vars, runVars, stepVars, mailVars, Quiet,
         Poll, Load, StepFails, TooManyBranches, PlanFails, BindingFails, ClaimJoin,
         PublishRefused, Finish, Succeed, Crash
<1>2. OneDelivery' /\ Deliverable' \subseteq Deliverable
  <2>1. \A n \in Nodes : ~Enqueue(n)
    BY <1>1 DEF Enqueue, TypeInv, TypeOK
  <2>. QED  BY <2>1, NextDelivery DEF VisitsInv
<1>3. ASSUME NEW w \in Workers
      PROVE  /\ worker'[w].paths \subseteq worker[w].paths
             /\ \A n \in Nodes : Single(graph, n) /\ Acts(worker'[w], n) => Acts(worker[w], n)
  <2>1. CASE Quiet(w)
    BY <2>1, QuietRecord
  <2>2. CASE ~Quiet(w)
    <3>1. worker'[w] = worker[w]
      <4>1. CASE worker' = worker
        BY <4>1
      <4>2. CASE \E v \in Workers : Quiet(v)
        <5>1. PICK v \in Workers : Quiet(v)
          BY <4>2
        <5>2. v # w /\ (Step(v) \/ Crash(v))
          BY <2>2, <5>1 DEF Quiet, Step
        <5>. QED  BY <5>2, OthersStay
      <4>. QED  BY <4>1, <4>2 DEF AcceptRun, Revoke, Restore, Resubmit, vars
    <3>. QED  BY <3>1
  <2>. QED  BY <2>1, <2>2
<1>. QED  BY <1>1, <1>2, <1>3, VisitsStay

\* The entry's job: nothing has come from there yet.
LEMMA PublishEntryVisits ==
  ASSUME TypeInv, PlaceInv, ClaimInv, VisitsInv, [Next]_vars, NoDuplicates', PublishEntry
  PROVE  VisitsInv'
<1>1. CASE ~authorized
  <2>1. /\ graph' = graph /\ published' = published /\ decided' = decided /\ worker' = worker
        /\ \A n \in Nodes : ~Enqueue(n)
    BY <1>1 DEF PublishEntry, mailVars, runVars, stepVars, Enqueue, TypeInv, TypeOK
  <2>2. OneDelivery' /\ Deliverable' \subseteq Deliverable
    BY <2>1, NextDelivery DEF VisitsInv
  <2>. QED  BY <2>1, <2>2, VisitsStay
<1>2. CASE authorized
  <2>. DEFINE E == Entry(graph)
  <2>1. /\ graph' = graph /\ decided' = decided /\ worker' = worker /\ graph \in Graphs
        /\ published' = [published EXCEPT ![E] = @ + 1] /\ published \in [Nodes -> Nat]
        /\ E \in Nodes /\ Enqueue(E) /\ published[E] = 0
    <3>1. published[E] <= 0 /\ E \in Nodes /\ published \in [Nodes -> Nat] /\ graph \in Graphs
      BY EntryOfGraph DEF PublishEntry, PlaceInv, Numbered, TypeInv, TypeOK
    <3>. QED  BY <1>2, <3>1 DEF PublishEntry, Enqueue, runVars, stepVars
  <2>2. \A n \in Nodes : Enqueue(n) => n = E
    BY <2>1 DEF Enqueue
  <2>3. OneDelivery' /\ \A j \in Deliverable' : j \in Deliverable \/ j.node = E
    BY <2>2, NextDelivery DEF VisitsInv, NewJob
  <2>4. \A n \in Nodes : n # E => published'[n] = published[n]
    BY <2>1
  <2>5. published'[E] = 1
    BY <2>1
  <2>. HIDE DEF E
  <2>6. \A n \in Nodes : Single(graph, n) => n # E
    BY DEF Single, E
  <2>7. \A n \in Nodes : Single(graph, n) => OneVisit(n)' /\ (Held(n)' => Held(n))
    BY <2>1, <2>4, <2>6 DEF VisitsInv, OneVisit, Held, Settled
  <2>8. Rooted'
    <3>. SUFFICES ASSUME NEW e \in graph.edges, Source(graph, e), NEW n \in Ahead(graph, e.dst),
                         Single(graph, n), Held(n)'
                  PROVE  published'[e.src] >= 1 /\ ~Awaited(e.src)'
      BY <2>1 DEF Rooted
    <3>1. n \in Nodes /\ e.src \in Nodes
      BY <2>1, EdgeOfGraph DEF Ahead
    <3>2. published[e.src] >= 1 /\ ~Awaited(e.src)
      BY <2>7, <3>1 DEF VisitsInv, Rooted
    <3>3. e.src # E
      BY <2>1, <3>2
    <3>. QED  BY <2>3, <2>4, <3>1, <3>2, <3>3 DEF Awaited
  <2>. QED  BY <2>1, <2>3, <2>7, <2>8 DEF VisitsInv
<1>. QED  BY <1>1, <1>2

\* A worker creates the job of a node that nobody else visits.
LEMMA PublishVisits ==
  ASSUME TypeInv, PlaceInv, ClaimInv, VisitsInv, [Next]_vars, NoDuplicates', NEW w \in Workers, Publish(w)
  PROVE  VisitsInv'
<1>. DEFINE t == worker[w].target
<1>1. /\ graph' = graph /\ decided' = decided /\ graph \in Graphs
      /\ worker \in [Workers -> WorkerType] /\ published \in [Nodes -> Nat]
      /\ t \in Nodes /\ worker[w].pc = "publish" /\ Enqueue(t)
      /\ published' = [published EXCEPT ![t] = @ + 1]
  BY DEF Publish, Enqueue, runVars, stepVars, TypeInv, TypeOK, HoldsAJob
<1>2. /\ worker'[w].paths = worker[w].paths /\ worker'[w].pc = "dispatch"
      /\ \A v \in Workers \ {w} : worker'[v] = worker[v]
  <2>1. worker'[w].paths = worker[w].paths /\ worker'[w].pc = "dispatch"
    BY <1>1 DEF Publish, WorkerType
  <2>2. \A v \in Workers \ {w} : worker'[v] = worker[v]
    BY OthersStay DEF Step
  <2>. QED  BY <2>1, <2>2
<1>3. t \in graph.nodes /\ t # Entry(graph)
  <2>1. Placed(graph, worker[w], committed, published)
    BY DEF PlaceInv
  <2>. QED  BY <1>1, <2>1, EntryOfGraph DEF Placed
<1>4. published[t] = 0
  <2>1. Acts(worker[w], t)
    BY <1>1 DEF Acts
  <2>2. CASE Joining(graph, t)
    BY <1>1, <2>2 DEF ClaimInv, ClaimOf, Publishes
  <2>3. CASE Single(graph, t)
    <3>1. ~Settled(t)
      BY <1>1, <2>1, <2>3 DEF VisitsInv, OneVisit
    <3>. QED  BY <1>1, <3>1 DEF Settled
  <2>. QED  BY <1>3, <2>2, <2>3 DEF Single
<1>5. Acts(worker[w], t) /\ \A n \in Nodes : Acts(worker[w], n) => n = t
  BY <1>1 DEF Acts
<1>6. OneDelivery' /\ \A j \in Deliverable' : j \in Deliverable \/ j.node = t
  <2>1. \A n \in Nodes : Enqueue(n) => n = t
    BY <1>1 DEF Enqueue
  <2>. QED  BY <2>1, NextDelivery DEF VisitsInv, NewJob
<1>7. published'[t] = 1 /\ \A n \in Nodes : n # t => published'[n] = published[n]
  BY <1>1, <1>4
<1>. HIDE DEF t
<1>8. \A v \in Workers : worker'[v].paths = worker[v].paths
  BY <1>2
<1>9. \A v \in Workers : \A n \in Nodes : Acts(worker'[v], n) => v # w /\ Acts(worker[v], n)
  BY <1>2 DEF Acts
<1>10. ASSUME NEW n \in Nodes, Single(graph, n)
       PROVE  OneVisit(n)' /\ (Held(n)' => Held(n))
  <2>1. OneVisit(n)
    BY <1>10 DEF VisitsInv
  <2>2. CASE n = t
    <3>1. /\ \A v \in Workers : Acts(worker[v], n) => v = w
          /\ \A v \in Workers : \A p \in worker[v].paths : ~Heads(graph, p, n)
      BY <1>5, <2>1, <2>2 DEF OneVisit
    <3>2. /\ \A v \in Workers : ~Acts(worker'[v], n)
          /\ \A v \in Workers : \A p \in worker'[v].paths : ~Heads(graph, p, n)
      BY <1>8, <1>9, <3>1
    <3>3. OneVisit(n)'
      BY <1>1, <1>7, <2>2, <3>2 DEF OneVisit
    <3>. QED  BY <1>5, <2>2, <3>3 DEF Held
  <2>3. CASE n # t
    <3>1. published'[n] = published[n]
      BY <1>7, <2>3
    <3>2. OneVisit(n)'
      BY <1>1, <1>8, <1>9, <2>1, <3>1 DEF OneVisit, Settled
    <3>3. Held(n)' => Held(n)
      BY <1>1, <1>8, <1>9, <3>1 DEF Held, Settled
    <3>. QED  BY <3>2, <3>3
  <2>. QED  BY <2>2, <2>3
<1>11. Rooted'
  <2>. SUFFICES ASSUME NEW e \in graph.edges, Source(graph, e), NEW n \in Ahead(graph, e.dst),
                       Single(graph, n), Held(n)'
                PROVE  published'[e.src] >= 1 /\ ~Awaited(e.src)'
    BY <1>1 DEF Rooted
  <2>1. n \in Nodes /\ e.src \in Nodes
    BY <1>1, EdgeOfGraph DEF Ahead
  <2>2. published[e.src] >= 1 /\ ~Awaited(e.src)
    BY <1>10, <2>1 DEF VisitsInv, Rooted
  <2>3. e.src # t
    BY <1>4, <2>2
  <2>. QED  BY <1>6, <1>7, <2>1, <2>2, <2>3 DEF Awaited
<1>. QED  BY <1>1, <1>6, <1>10, <1>11 DEF VisitsInv

\* Steps that neither create nor take up jobs.
LEMMA InternalDelivery ==
  ASSUME TypeInv, PlaceInv, VisitsInv, [Next]_vars, NoDuplicates', published' = published
  PROVE  OneDelivery' /\ Deliverable' \subseteq Deliverable
<1>1. \A n \in Nodes : ~Enqueue(n)
  BY DEF Enqueue, TypeInv, TypeOK
<1>. QED  BY <1>1, NextDelivery DEF VisitsInv

\* When whoever visits a node after the step visited it before, its roots stay
\* spent.
LEMMA RootsStay ==
  ASSUME TypeInv, VisitsInv, graph' = graph, published' = published, Deliverable' \subseteq Deliverable,
         \A n \in Nodes : Single(graph, n) /\ Held(n)' => Held(n)
  PROVE  Rooted'
<1>. SUFFICES ASSUME NEW e \in graph.edges, Source(graph, e), NEW n \in Ahead(graph, e.dst),
                     Single(graph, n), Held(n)'
              PROVE  published'[e.src] >= 1 /\ ~Awaited(e.src)'
  BY DEF Rooted
<1>1. Held(n)
  BY DEF Ahead
<1>. QED  BY <1>1 DEF VisitsInv, Rooted, Awaited

\* A path ends at the node its worker is about to create a job for.
LEMMA ConsiderSuccessorVisits ==
  ASSUME TypeInv, PlaceInv, VisitsInv, [Next]_vars, NoDuplicates', NEW w \in Workers, ConsiderSuccessor(w)
  PROVE  VisitsInv'
<1>1. /\ graph' = graph /\ decided' = decided /\ published' = published /\ graph \in Graphs
      /\ worker \in [Workers -> WorkerType] /\ worker[w].pc = "dispatch"
      /\ Placed(graph, worker[w], committed, published)
  BY ConsiderSuccessorRecord DEF ConsiderSuccessor, runVars, stepVars, mailVars, TypeInv, TypeOK, PlaceInv
<1>2. OneDelivery' /\ Deliverable' \subseteq Deliverable
  BY <1>1, InternalDelivery
<1>3. PICK p \in worker[w].paths :
        /\ worker'[w].paths = worker[w].paths \ {p}
        /\ \/ ~MayStart(p.at.dst) /\ worker'[w].pc = "dispatch"
           \/ /\ MayStart(p.at.dst) /\ worker'[w].target = p.at.dst
              /\ worker'[w].pc = IF Joining(graph, p.at.dst) THEN "claim" ELSE "publish"
  BY ConsiderSuccessorRecord
<1>4. \A v \in Workers \ {w} : worker'[v] = worker[v]
  BY OthersStay DEF Step
<1>5. p.at.dst \in Nodes /\ Heads(graph, p, p.at.dst)
  BY <1>1, <1>3, EdgeOfGraph, AheadOfItself DEF Placed, Heads
<1>6. \A n \in Nodes : ~Acts(worker[w], n)
  BY <1>1 DEF Acts
<1>7. \A n \in Nodes : Acts(worker'[w], n) => n = p.at.dst
  BY <1>3 DEF Acts
<1>8. ASSUME NEW n \in Nodes, Single(graph, n)
      PROVE  OneVisit(n)' /\ (Held(n)' => Held(n))
  <2>1. OneVisit(n)
    BY <1>8 DEF VisitsInv
  <2>2. /\ \A v \in Workers : \A q \in worker'[v].paths : q \in worker[v].paths
        /\ \A v \in Workers : Acts(worker'[v], n) => Acts(worker[v], n) \/ v = w
    BY <1>3, <1>4, <1>7
  <2>3. CASE Acts(worker'[w], n)
    <3>1. Heads(graph, p, n)
      BY <1>5, <1>7, <2>3
    <3>2. /\ \A v \in Workers : ~Acts(worker[v], n)
          /\ \A v \in Workers : \A q \in worker[v].paths : Heads(graph, q, n) => v = w /\ q = p
          /\ ~Settled(n)
      BY <1>3, <2>1, <3>1 DEF OneVisit
    <3>3. /\ \A v \in Workers : Acts(worker'[v], n) => v = w
          /\ \A v \in Workers : \A q \in worker'[v].paths : ~Heads(graph, q, n)
      BY <1>3, <1>4, <2>2, <3>2
    <3>4. OneVisit(n)'
      BY <1>1, <2>1, <3>2, <3>3 DEF OneVisit, Settled
    <3>. QED  BY <1>3, <3>1, <3>4 DEF Held
  <2>4. CASE ~Acts(worker'[w], n)
    <3>1. \A v \in Workers : Acts(worker'[v], n) => Acts(worker[v], n)
      BY <1>4, <2>4
    <3>2. OneVisit(n)'
      BY <1>1, <2>1, <2>2, <3>1 DEF OneVisit, Settled
    <3>3. Held(n)' => Held(n)
      BY <1>1, <2>2, <3>1 DEF Held, Settled
    <3>. QED  BY <3>2, <3>3
  <2>. QED  BY <2>3, <2>4
<1>9. Rooted'
  BY <1>1, <1>2, <1>8, RootsStay
<1>. QED  BY <1>1, <1>2, <1>8, <1>9 DEF VisitsInv

\* The verdicts a worker has reached become rows.
LEMMA CommitVerdictsVisits ==
  ASSUME TypeInv, PlaceInv, VisitsInv, [Next]_vars, NoDuplicates', NEW w \in Workers, CommitVerdicts(w)
  PROVE  VisitsInv'
<1>1. /\ graph' = graph /\ published' = published /\ graph \in Graphs
      /\ worker \in [Workers -> WorkerType] /\ worker[w].pc = "plan"
      /\ worker'[w].pc = "dispatch" /\ worker'[w].paths = worker[w].paths
      /\ \A v \in Workers \ {w} : worker'[v] = worker[v]
  BY DEF CommitVerdicts, Goto, WorkerType, mailVars, TypeInv, TypeOK
<1>2. OneDelivery' /\ Deliverable' \subseteq Deliverable
  BY <1>1, InternalDelivery
<1>3. ASSUME NEW n \in Nodes, Settled(n)'
      PROVE  Settled(n) \/ Acts(worker[w], n)
  BY <1>1, <1>3 DEF Settled, CommitVerdicts, Acts
<1>4. /\ \A v \in Workers : worker'[v].paths = worker[v].paths
      /\ \A v \in Workers : \A n \in Nodes : Acts(worker'[v], n) => v # w /\ Acts(worker[v], n)
  BY <1>1 DEF Acts
<1>5. ASSUME NEW n \in Nodes, Single(graph, n)
      PROVE  OneVisit(n)' /\ (Held(n)' => Held(n))
  <2>1. OneVisit(n)
    BY <1>5 DEF VisitsInv
  <2>2. /\ published'[n] <= 1
        /\ \A u, v \in Workers : Acts(worker'[u], n) /\ Acts(worker'[v], n) => u = v
        /\ \A u, v \in Workers : \A p \in worker'[u].paths, q \in worker'[v].paths :
             Heads(graph, p, n) /\ Heads(graph, q, n) => u = v /\ p = q
        /\ \A u, v \in Workers : Acts(worker'[v], n) => \A p \in worker'[u].paths : ~Heads(graph, p, n)
    BY <1>1, <1>4, <2>1 DEF OneVisit
  <2>3. Settled(n)' => \A v \in Workers :
          ~Acts(worker'[v], n) /\ \A p \in worker'[v].paths : ~Heads(graph, p, n)
    <3>1. CASE Settled(n)
      BY <1>4, <2>1, <3>1 DEF OneVisit
    <3>2. CASE Acts(worker[w], n)
      BY <1>4, <2>1, <3>2 DEF OneVisit
    <3>. QED  BY <1>3, <3>1, <3>2
  <2>4. Held(n)' => Held(n)
    BY <1>1, <1>3, <1>4 DEF Held
  <2>. QED  BY <1>1, <2>2, <2>3, <2>4 DEF OneVisit
<1>6. Rooted'
  BY <1>1, <1>2, <1>5, RootsStay
<1>. QED  BY <1>1, <1>2, <1>5, <1>6 DEF VisitsInv

\* A path takes one of the two ways behind a branch.
LEMMA ResolveBranchVisits ==
  ASSUME TypeInv, PlaceInv, VisitsInv, [Next]_vars, NoDuplicates', NEW w \in Workers, ResolveBranch(w)
  PROVE  VisitsInv'
<1>1. /\ graph' = graph /\ decided' = decided /\ published' = published /\ graph \in Graphs
      /\ worker \in [Workers -> WorkerType] /\ worker[w].pc = "plan" /\ worker[w] \in WorkerType
      /\ Placed(graph, worker[w], committed, published)
  BY ResolveBranchRecord DEF ResolveBranch, runVars, stepVars, mailVars, TypeInv, TypeOK, PlaceInv
<1>2. OneDelivery' /\ Deliverable' \subseteq Deliverable
  BY <1>1, InternalDelivery
<1>3. PICK p \in worker[w].paths, v \in Verdicts : ResolvedInto(worker[w], p, v, worker'[w])
  BY ResolveBranchRecord
<1>4. PICK q : q = Resolved(p, v)
  OBVIOUS
<1>. DEFINE b == p.at.dst
<1>5. /\ worker'[w].paths = (worker[w].paths \ {p}) \cup {q}
      /\ worker'[w].chosen = {c \in worker[w].chosen : c[1] # b} \cup {<<b, v>>}
      /\ worker'[w].pc = "plan" /\ b \in graph.branches
  BY <1>3, <1>4 DEF ResolvedInto, AtBranch
<1>6. p \in Path /\ p.at \in graph.edges
  BY <1>1, <1>3 DEF WorkerType, Placed
<1>7. q.at \in graph.edges /\ q.at.src = b
  <2>1. AtBranch(p) /\ v \in Verdicts
    BY <1>3 DEF ResolvedInto
  <2>. QED  BY <1>4, <1>6, <2>1, ResolvedPath
<1>8. \A u \in Workers \ {w} : worker'[u] = worker[u]
  BY OthersStay DEF Step
<1>9. b \in Nodes /\ Heads(graph, p, b) /\ ~Heads(graph, q, b)
  BY <1>1, <1>5, <1>6, <1>7, EdgeOfGraph, AheadOfItself, BranchIsBehind DEF Heads
<1>10. \A n \in Nodes : Heads(graph, q, n) => Heads(graph, p, n)
  BY <1>1, <1>5, <1>7, AheadOfBranch DEF Heads
<1>. HIDE DEF b
<1>11. \A n \in Nodes : Acts(worker'[w], n) => n = b \/ Acts(worker[w], n)
  BY <1>1, <1>5 DEF Acts
<1>12. ASSUME NEW n \in Nodes, Single(graph, n)
       PROVE  OneVisit(n)' /\ (Held(n)' => Held(n))
  <2>1. OneVisit(n)
    BY <1>12 DEF VisitsInv
  <2>2. ASSUME NEW u \in Workers, NEW x \in worker'[u].paths, Heads(graph, x, n)
        PROVE  \/ x \in worker[u].paths /\ (u = w => x # p \/ x = q)
               \/ u = w /\ x = q /\ Heads(graph, p, n)
    BY <1>5, <1>8, <1>10, <2>2
  <2>3. Held(n)' => Held(n)
    <3>1. ASSUME NEW u \in Workers, Acts(worker'[u], n)
          PROVE  Held(n)
      BY <1>3, <1>8, <1>9, <1>11, <3>1 DEF Held
    <3>2. ASSUME NEW u \in Workers, NEW x \in worker'[u].paths, Heads(graph, x, n)
          PROVE  Held(n)
      BY <1>3, <2>2, <3>2 DEF Held
    <3>. QED  BY <1>1, <3>1, <3>2 DEF Held, Settled
  <2>4. CASE n = b
    <3>1. /\ \A u \in Workers : ~Acts(worker[u], n)
          /\ \A u \in Workers : \A x \in worker[u].paths : Heads(graph, x, n) => u = w /\ x = p
          /\ ~Settled(n)
      BY <1>3, <1>9, <2>1, <2>4 DEF OneVisit
    <3>2. \A u \in Workers : \A x \in worker'[u].paths : ~Heads(graph, x, n)
      BY <1>5, <1>8, <1>9, <2>4, <3>1
    <3>3. \A u \in Workers : Acts(worker'[u], n) => u = w
      BY <1>8, <3>1
    <3>. QED  BY <1>1, <2>1, <2>3, <3>1, <3>2, <3>3 DEF OneVisit, Settled
  <2>5. CASE n # b
    <3>1. \A u \in Workers : Acts(worker'[u], n) => Acts(worker[u], n)
      BY <1>8, <1>11, <2>5
    <3>2. ASSUME NEW u \in Workers, NEW x \in worker'[u].paths, Heads(graph, x, n)
          PROVE  \E y \in worker[u].paths : Heads(graph, y, n)
      BY <1>3, <2>2, <3>2
    <3>3. ASSUME NEW u \in Workers, NEW x \in worker'[u].paths, Heads(graph, x, n),
                 NEW z \in Workers, NEW y \in worker'[z].paths, Heads(graph, y, n)
          PROVE  u = z /\ x = y
      <4>1. CASE Heads(graph, p, n)
        <5>1. \A t \in Workers : \A y1 \in worker[t].paths : Heads(graph, y1, n) => t = w /\ y1 = p
          BY <1>3, <2>1, <4>1 DEF OneVisit
        <5>2. \A t \in Workers : \A y1 \in worker'[t].paths : Heads(graph, y1, n) => t = w /\ y1 = q
          BY <1>5, <1>8, <5>1
        <5>. QED  BY <3>3, <5>2
      <4>2. CASE ~Heads(graph, p, n)
        BY <2>1, <2>2, <3>3, <4>2 DEF OneVisit
      <4>. QED  BY <4>1, <4>2
    <3>4. /\ published'[n] <= 1
          /\ \A u, z \in Workers : Acts(worker'[u], n) /\ Acts(worker'[z], n) => u = z
      BY <1>1, <2>1, <3>1 DEF OneVisit
    <3>5. \A u, z \in Workers : Acts(worker'[z], n) => \A x \in worker'[u].paths : ~Heads(graph, x, n)
      BY <2>1, <3>1, <3>2 DEF OneVisit
    <3>6. Settled(n)' => \A u \in Workers :
            ~Acts(worker'[u], n) /\ \A x \in worker'[u].paths : ~Heads(graph, x, n)
      BY <1>1, <2>1, <3>1, <3>2 DEF OneVisit, Settled
    <3>. QED  BY <1>1, <2>3, <3>3, <3>4, <3>5, <3>6 DEF OneVisit
  <2>. QED  BY <2>4, <2>5
<1>13. Rooted'
  BY <1>1, <1>2, <1>12, RootsStay
<1>. QED  BY <1>1, <1>2, <1>12, <1>13 DEF VisitsInv

\* A step's transaction sends paths out, for the only time from this node.
LEMMA CommitStepVisits ==
  ASSUME TypeInv, PlaceInv, ClaimInv, VisitsInv, NothingMeets(graph), [Next]_vars, NoDuplicates',
         NEW w \in Workers, CommitStep(w)
  PROVE  VisitsInv'
<1>. DEFINE j == worker[w].job
            m == worker[w].job.node
<1>1. /\ graph' = graph /\ published' = published /\ graph \in Graphs
      /\ worker \in [Workers -> WorkerType] /\ worker[w].pc = "execute" /\ Busy(worker[w])
      /\ Placed(graph, worker[w], committed, published) /\ j \in Job /\ m \in Nodes
      /\ published \in [Nodes -> Nat]
  BY DEF CommitStep, mailVars, TypeInv, TypeOK, PlaceInv, HoldsAJob, Busy, Job
<1>2. OneDelivery' /\ Deliverable' \subseteq Deliverable
  BY <1>1, InternalDelivery
<1>3. /\ worker'[w].pc = "plan" /\ worker'[w].paths = PathsFrom(m) /\ worker'[w].chosen = {}
      /\ worker[w].paths = {} /\ worker[w].chosen = {}
  BY <1>1 DEF CommitStep, WorkerType, Placed, Waiting
<1>4. \A v \in Workers \ {w} : worker'[v] = worker[v]
  BY OthersStay DEF Step
<1>5. j \in Deliverable /\ j.nth \in 1..published[m]
  BY <1>1 DEF Deliverable, Placed
<1>6. published[m] >= 1 /\ published[m] <= 1 /\ (m \notin graph.branches \/ m = Entry(graph)) /\ m \in graph.nodes
  BY <1>1, <1>5, OneJobEach DEF PlaceInv, Numbered
<1>7. \A e \in Outgoing(graph, m) : Source(graph, e)
  BY <1>6 DEF Source, Outgoing
<1>8. ASSUME NEW e \in Outgoing(graph, m), NEW n \in Nodes, Single(graph, n), n \in Ahead(graph, e.dst)
      PROVE  ~Held(n)
  <2>1. Awaited(m) /\ e \in graph.edges /\ e.src = m
    BY <1>5 DEF Awaited, Outgoing
  <2>2. Source(graph, e) /\ n \in Ahead(graph, e.dst) /\ Single(graph, n)
    BY <1>7, <1>8
  <2>3. Rooted
    BY DEF VisitsInv
  <2>4. Held(n) => ~Awaited(e.src)
    BY <2>1, <2>2, <2>3 DEF Rooted
  <2>. QED  BY <2>1, <2>4
<1>9. \A k \in Deliverable' : k.node # m
  <2>. SUFFICES ASSUME NEW k \in Deliverable', k.node = m  PROVE FALSE
    OBVIOUS
  <2>1. k \in Deliverable /\ k \in Job /\ k.nth \in 1..published[m]
    BY <1>2, DeliverableIsNumbered
  <2>2. k = j
    BY <1>1, <1>5, <1>6, <2>1 DEF Job
  <2>3. \A i \in 1..Len(queue) : queue[i] # j
    BY <1>1 DEF VisitsInv, OneDelivery
  <2>4. \A v \in Workers : Busy(worker'[v]) => worker'[v].job # j
    BY <1>1, <1>3, <1>4 DEF VisitsInv, OneDelivery, Busy
  <2>5. spent["resubmit"] = 0 => j \notin dead
    BY <1>1 DEF VisitsInv, OneDelivery
  <2>6. queue' = queue /\ dead' = dead /\ spent' = spent
    BY DEF CommitStep, mailVars
  <2>. QED  BY <2>2, <2>3, <2>4, <2>5, <2>6 DEF Deliverable
<1>. HIDE DEF j, m
<1>10. \A p \in PathsFrom(m) : p.at \in Outgoing(graph, m)
  BY DEF PathsFrom
<1>11. \A n \in Nodes : ~Acts(worker'[w], n) /\ ~Acts(worker[w], n)
  BY <1>1, <1>3 DEF Acts
<1>12. \A n \in Nodes : Single(graph, n) => decided'[n] = decided[n]
  <2>1. VerdictOnCommit(w) /\ decided \in [Nodes -> Verdicts \cup {"none"}]
    BY DEF CommitStep, TypeInv, TypeOK
  <2>2. m \in graph.branches => \A n \in Nodes : Single(graph, n) => n # m
    BY <1>6 DEF Single
  <2>. QED  BY <2>1, <2>2 DEF VerdictOnCommit, m
<1>13. ASSUME NEW n \in Nodes, Single(graph, n)
       PROVE  /\ OneVisit(n)'
              /\ Held(n)' => Held(n) \/ \E e \in Outgoing(graph, m) : n \in Ahead(graph, e.dst)
  <2>1. OneVisit(n) /\ decided'[n] = decided[n]
    BY <1>12, <1>13 DEF VisitsInv
  <2>2. \A v \in Workers : Acts(worker'[v], n) => v # w /\ Acts(worker[v], n)
    BY <1>4, <1>11
  <2>3. Held(n)' => Held(n) \/ \E e \in Outgoing(graph, m) : n \in Ahead(graph, e.dst)
    <3>1. ASSUME NEW v \in Workers, NEW p \in worker'[v].paths, Heads(graph, p, n)
          PROVE  Held(n) \/ \E e \in Outgoing(graph, m) : n \in Ahead(graph, e.dst)
      <4>1. CASE v = w
        BY <1>3, <1>10, <3>1, <4>1 DEF Heads
      <4>2. CASE v # w
        BY <1>4, <3>1, <4>2 DEF Held
      <4>. QED  BY <4>1, <4>2
    <3>. QED  BY <1>1, <2>1, <2>2, <3>1 DEF Held, Settled
  <2>4. CASE \E e \in Outgoing(graph, m) : n \in Ahead(graph, e.dst)
    <3>1. ~Held(n)
      BY <1>8, <1>13, <2>4
    <3>2. /\ ~Settled(n)' /\ published'[n] <= 1 /\ \A v \in Workers : ~Acts(worker'[v], n)
          /\ \A v \in Workers : \A p \in worker'[v].paths : Heads(graph, p, n) => v = w
      <4>1. \A v \in Workers : ~Acts(worker[v], n) /\ \A p \in worker[v].paths : ~Heads(graph, p, n)
        BY <3>1 DEF Held
      <4>2. ~Settled(n)' /\ published'[n] <= 1
        BY <1>1, <2>1, <3>1 DEF Held, Settled, OneVisit
      <4>. QED  BY <1>4, <2>2, <4>1, <4>2
    <3>3. ASSUME NEW p \in PathsFrom(m), NEW q \in PathsFrom(m), Heads(graph, p, n), Heads(graph, q, n)
          PROVE  p = q
      <4>1. p.at = q.at
        BY <1>1, <1>7, <1>10, <1>13, <3>3, OneSource DEF Heads
      <4>. QED  BY <4>1 DEF PathsFrom
    <3>. QED  BY <1>1, <1>3, <2>3, <3>2, <3>3 DEF OneVisit
  <2>5. CASE \A e \in Outgoing(graph, m) : n \notin Ahead(graph, e.dst)
    <3>1. \A v \in Workers : \A p \in worker'[v].paths : Heads(graph, p, n) => v # w /\ p \in worker[v].paths
      BY <1>3, <1>4, <1>10, <2>5 DEF Heads
    <3>2. OneVisit(n)'
      BY <1>1, <2>1, <2>2, <3>1 DEF OneVisit, Settled
    <3>. QED  BY <2>3, <3>2
  <2>. QED  BY <2>4, <2>5
<1>14. Rooted'
  <2>. SUFFICES ASSUME NEW e \in graph.edges, Source(graph, e), NEW n \in Ahead(graph, e.dst),
                       Single(graph, n), Held(n)'
                PROVE  published'[e.src] >= 1 /\ ~Awaited(e.src)'
    BY <1>1 DEF Rooted
  <2>1. CASE Held(n)
    BY <1>1, <1>2, <2>1 DEF VisitsInv, Rooted, Awaited
  <2>2. CASE ~Held(n)
    <3>1. PICK f \in Outgoing(graph, m) : n \in Ahead(graph, f.dst)
      BY <1>13, <2>2 DEF Ahead
    <3>2. e = f
      <4>1. Source(graph, f)
        BY <1>7, <3>1
      <4>. QED  BY <1>1, <3>1, <4>1, OneSource
    <3>3. e.src = m
      BY <3>1, <3>2 DEF Outgoing
    <3>. QED  BY <1>1, <1>6, <1>9, <3>3 DEF Awaited
  <2>. QED  BY <2>1, <2>2
<1>. QED  BY <1>1, <1>2, <1>13, <1>14 DEF VisitsInv

LEMMA NextVisits ==
  ASSUME TypeInv, PlaceInv, ClaimInv, VisitsInv, NothingMeets(graph), [Next]_vars, NoDuplicates'
  PROVE  VisitsInv'
<1>1. CASE PublishEntry
  BY <1>1, PublishEntryVisits
<1>2. CASE AcceptRun \/ Revoke \/ Restore \/ Resubmit \/ UNCHANGED vars
  BY <1>2, QuietVisits
<1>3. ASSUME NEW w \in Workers, Step(w) \/ Crash(w)
      PROVE  VisitsInv'
  <2>1. \/ Quiet(w) \/ CommitStep(w) \/ ResolveBranch(w) \/ CommitVerdicts(w)
        \/ ConsiderSuccessor(w) \/ Publish(w)
    BY <1>3 DEF Step, Quiet
  <2>. QED  BY <2>1, QuietVisits, CommitStepVisits, ResolveBranchVisits, CommitVerdictsVisits,
               ConsiderSuccessorVisits, PublishVisits
<1>. QED  BY <1>1, <1>2, <1>3 DEF Next

LEMMA DuplicatesStay ==
  ASSUME TypeInv, [Next]_vars, NoDuplicates'
  PROVE  NoDuplicates
BY ResubmitsCounted DEF NoDuplicates

LEMMA InitVisits == Init => VisitsInv
<1>. SUFFICES ASSUME Init  PROVE VisitsInv
  OBVIOUS
<1>1. /\ queue = <<>> /\ dead = {} /\ \A w \in Workers : worker[w] = IdleWorker
      /\ \A n \in Nodes : published[n] = 0 /\ decided[n] = "none"
  BY DEF Init
<1>2. Deliverable = {}
  BY <1>1 DEF Deliverable, Busy, IdleWorker
<1>3. OneDelivery
  BY <1>1 DEF OneDelivery, Busy, IdleWorker
<1>4. \A n \in Nodes : ~Held(n)
  BY <1>1 DEF Held, Settled, Acts, IdleWorker
<1>5. \A n \in Nodes : OneVisit(n)
  BY <1>1 DEF OneVisit, Settled, Acts, IdleWorker
<1>6. Rooted
  BY <1>4 DEF Rooted, Ahead
<1>. QED  BY <1>3, <1>5, <1>6 DEF VisitsInv

LEMMA VisitsHold == Spec => []OnceInv
<1>1. Init => OnceInv
  BY InitVisits DEF OnceInv
<1>2. TypeInv /\ PlaceInv /\ ClaimInv /\ OnceInv /\ [Next]_vars => OnceInv'
  <2>. SUFFICES ASSUME TypeInv, PlaceInv, ClaimInv, OnceInv, [Next]_vars, NoDuplicates', NothingMeets(graph')
                PROVE  VisitsInv'
    BY DEF OnceInv
  <2>1. NoDuplicates /\ graph' = graph
    BY DuplicatesStay, RowsStay
  <2>. QED  BY <2>1, NextVisits DEF OnceInv
<1>. QED  BY <1>1, <1>2, TypesHold, PlacesHold, ClaimsHold, PTL DEF Spec

\* Where no branch is reached by two edges, no node is executed under two step
\* executions, whatever workers crash, jobs are parked and permissions withdrawn.
THEOREM NoNodeRunsTwice == Spec => [](NothingMeets(graph) => RunsAtMostOnce)
<1>1. TypeInv /\ PlaceInv /\ ClaimInv /\ OnceInv => (NothingMeets(graph) => RunsAtMostOnce)
  <2>. SUFFICES ASSUME TypeInv, PlaceInv, ClaimInv, OnceInv, NothingMeets(graph), NoDuplicates,
                       NEW j \in committed, NEW k \in committed, j.node = k.node
                PROVE  j = k
    BY DEF RunsAtMostOnce
  <2>1. /\ j \in Job /\ k \in Job
        /\ j.nth \in 1..published[j.node] /\ k.nth \in 1..published[k.node]
    BY DEF TypeInv, TypeOK, PlaceInv, Numbered
  <2>2. published[j.node] \in Nat /\ published[j.node] <= 1
    BY <2>1, OneJobEach DEF OnceInv, Job
  <2>3. j.nth = 1 /\ k.nth = 1
    BY <2>1, <2>2
  <2>. QED  BY <2>1, <2>3 DEF Job
<1>. QED  BY <1>1, TypesHold, PlacesHold, ClaimsHold, VisitsHold, PTL

-----------------------------------------------------------------------------
(* A success is final.                                                        *)

\* Before the run is accepted there is nothing to work on.
Untouched ==
  gateway = "new" =>
    status = "NONE" /\ queue = <<>> /\ dead = {} /\ \A w \in Workers : worker[w].pc = "idle"

LEMMA UntouchedHolds == Spec => []Untouched
<1>1. Init => Untouched
  BY DEF Init, Untouched, IdleWorker
<1>2. Untouched /\ [Next]_vars => Untouched'
  <2>. SUFFICES ASSUME Untouched, [Next]_vars, gateway' = "new"
                PROVE  status' = "NONE" /\ queue' = <<>> /\ dead' = {}
                       /\ \A w \in Workers : worker'[w].pc = "idle"
    BY DEF Untouched
  <2>1. CASE gateway # "new"
    BY <2>1 DEF Next, Step, AcceptRun, PublishEntry, Poll, Load, StepFails, CommitStep, ResolveBranch,
         TooManyBranches, PlanFails, CommitVerdicts, ConsiderSuccessor, BindingFails, ClaimJoin,
         Publish, PublishRefused, Finish, Succeed, Crash, Revoke, Restore, Resubmit, vars
  <2>2. CASE gateway = "new"
    <3>1. status = "NONE" /\ queue = <<>> /\ dead = {} /\ \A w \in Workers : worker[w].pc = "idle"
      BY <2>2 DEF Untouched
    <3>2. \A w \in Workers : ~Step(w) /\ ~Crash(w)
      BY <3>1 DEF Step, Poll, Load, StepFails, CommitStep, ResolveBranch,
         TooManyBranches, PlanFails, CommitVerdicts, ConsiderSuccessor, BindingFails, ClaimJoin,
         Publish, PublishRefused, Finish, Succeed, Crash
    <3>3. Revoke \/ Restore \/ UNCHANGED vars
      BY <2>2, <3>1, <3>2 DEF Next, AcceptRun, PublishEntry, Resubmit
    <3>. QED  BY <3>1, <3>3 DEF Revoke, Restore, vars, runVars, mailVars
  <2>. QED  BY <2>1, <2>2
<1>. QED  BY <1>1, <1>2, PTL DEF Spec

LEMMA SuccessStays ==
  ASSUME TypeInv, PlaceInv, ClaimInv, OnceInv, EndsComplete, Untouched, [Next]_vars,
         status = "SUCCEEDED", graph.branches = {}, NoDuplicates
  PROVE  status' = "SUCCEEDED"
<1>1. VisitsInv
  BY DEF OnceInv, NothingMeets
<1>2. ASSUME NEW w \in Workers, CommitStep(w)
      PROVE  ~FirstWrite(w)
  <2>. DEFINE j == worker[w].job
  <2>1. j \in Job /\ j.nth \in 1..published[j.node]
    BY <1>2 DEF CommitStep, TypeInv, HoldsAJob, PlaceInv, Placed
  <2>2. published[j.node] \in Nat /\ published[j.node] <= 1
    BY <1>1, <2>1, OneJobEach DEF Job
  <2>3. j.node \in graph.nodes
    BY <2>1, <2>2 DEF PlaceInv, Numbered, Job
  <2>4. j.node \in Done /\ decided[j.node] = "none"
    BY <2>1, <2>3 DEF EndsComplete, PlaceInv, Numbered, Job
  <2>5. PICK k \in committed : k.node = j.node
    BY <2>4 DEF Done
  <2>6. k \in Job /\ k.nth \in 1..published[k.node]
    BY DEF TypeInv, TypeOK, PlaceInv, Numbered
  <2>7. k.nth = j.nth
    BY <2>1, <2>2, <2>5, <2>6
  <2>8. k = j
    BY <2>1, <2>5, <2>6, <2>7 DEF Job
  <2>. QED  BY <2>8 DEF FirstWrite
<1>3. gateway # "new"
  BY DEF Untouched
<1>. QED  BY <1>2, <1>3
     DEF Next, Step, AcceptRun, PublishEntry, Poll, Load, StepFails, CommitStep, StatusOnCommit,
         ResolveBranch, TooManyBranches, PlanFails, CommitVerdicts, ConsiderSuccessor, BindingFails,
         ClaimJoin, Publish, PublishRefused, Finish, Succeed, Crash, Revoke, Restore, Resubmit, vars,
         runVars, FailRun, Terminal

\* A run without branches that has succeeded stays so.
THEOREM SuccessIsNeverTakenBack == Spec => SuccessIsFinal
<1>1. TypeInv /\ PlaceInv /\ ClaimInv /\ OnceInv /\ EndsComplete /\ Untouched /\ [Next]_vars
        => [status = "SUCCEEDED" /\ graph.branches = {} /\ NoDuplicates => status' = "SUCCEEDED"]_vars
  BY SuccessStays
<1>. QED  BY <1>1, TypesHold, PlacesHold, ClaimsHold, VisitsHold, EndsHold, UntouchedHolds, PTL
          DEF Spec, SuccessIsFinal

-----------------------------------------------------------------------------
(* Nothing is lost.                                                           *)

\* A run that nothing has failed is not failed, and its jobs are in the rows or
\* somewhere to be taken up.
Kept ==
  \A n \in Nodes : \A i \in 1..published[n] :
    [node |-> n, nth |-> i] \in committed \cup Outstanding

LostInv ==
  spent["crash"] = 0 /\ NoDuplicates /\ NeverFailed /\ status # "SUCCEEDED"
    => status # "FAILED" /\ Kept

\* Counts only go up.
LEMMA CountsGrow ==
  ASSUME TypeInv, [Next]_vars
  PROVE  /\ steps \in Nat /\ steps' \in Nat /\ steps <= steps'
         /\ \A m \in Mishaps : spent[m] \in Nat /\ spent'[m] \in Nat /\ spent[m] <= spent'[m]
         /\ \A m \in Mishaps : Spend(m) => spent'[m] # 0
<1>1. steps \in Nat /\ spent \in [Mishaps -> Nat]
  BY DEF TypeInv, TypeOK
<1>2. steps' = steps \/ steps' = steps + 1
  BY DEF Next, Step, AcceptRun, PublishEntry, Poll, Load, StepFails, CommitStep, StepsOnCommit,
         ResolveBranch, TooManyBranches, PlanFails, CommitVerdicts, ConsiderSuccessor, BindingFails,
         ClaimJoin, Publish, PublishRefused, Finish, Succeed, Crash, Revoke, Restore, Resubmit, vars,
         runVars, stepVars
<1>3. spent' = spent \/ \E m \in Mishaps : spent' = [spent EXCEPT ![m] = @ + 1]
  BY DEF Next, Step, AcceptRun, PublishEntry, Poll, Load, StepFails, CommitStep, ResolveBranch,
         TooManyBranches, PlanFails, CommitVerdicts, ConsiderSuccessor, BindingFails, ClaimJoin,
         Publish, PublishRefused, Finish, Succeed, Crash, Revoke, Restore, Resubmit, vars, Spend, Mishaps
<1>4. \A m \in Mishaps : Spend(m) => spent'[m] # 0
  BY <1>1 DEF Spend
<1>. QED  BY <1>1, <1>2, <1>3, <1>4

\* Where nothing fails the run, no step does.
LEMMA NoFailure ==
  ASSUME TypeInv, PlaceInv, [Next]_vars, NeverFailed', NeverFailed, status # "FAILED"
  PROVE  /\ status' # "FAILED"
         /\ \A w \in Workers : ~StepFails(w) /\ ~PlanFails(w) /\ ~BindingFails(w) /\ ~TooManyBranches(w)
<1>1. ~Spend("fault") /\ ~AtLimit /\ graph.branches = {}
  BY CountsGrow, LimitsAssumption DEF NeverFailed, AtLimit, Mishaps
<1>2. \A w \in Workers : ~StepFails(w) /\ ~PlanFails(w) /\ ~BindingFails(w) /\ ~TooManyBranches(w)
  BY <1>1 DEF StepFails, PlanFails, BindingFails, TooManyBranches, AtBranch
<1>3. status' # "FAILED"
  BY <1>1, <1>2
     DEF Next, Step, AcceptRun, PublishEntry, Poll, Load, CommitStep, StatusOnCommit,
         ResolveBranch, CommitVerdicts, ConsiderSuccessor,
         ClaimJoin, Publish, PublishRefused, Finish, Succeed, Crash, Revoke, Restore, Resubmit, vars,
         runVars, FailRun, Terminal
<1>. QED  BY <1>2, <1>3

\* A job in hand is handed on, unless its worker dies, its step fails or the run
\* is over.
LEMMA InHandStays ==
  ASSUME TypeInv, [Next]_vars, NEW w \in Workers, Busy(worker[w]),
         status \notin Terminal, ~AtLimit, ~StepFails(w), ~Crash(w)
  PROVE  worker[w].job \in committed' \/ (Busy(worker'[w]) /\ worker'[w].job = worker[w].job)
<1>1. worker \in [Workers -> WorkerType]
  BY DEF TypeInv, TypeOK
<1>2. CASE worker'[w] = worker[w]
  BY <1>2
<1>3. CASE worker'[w] # worker[w]
  <2>1. Step(w)
    <3>1. \E v \in Workers : Step(v) \/ Crash(v)
      BY <1>3 DEF Next, AcceptRun, PublishEntry, Revoke, Restore, Resubmit, vars
    <3>. QED  BY <1>3, <3>1, OthersStay
  <2>2. Load(w) \/ CommitStep(w)
    BY <2>1 DEF Busy, Step, Poll, StepFails, ResolveBranch, TooManyBranches, PlanFails, CommitVerdicts,
         ConsiderSuccessor, BindingFails, ClaimJoin, Publish, PublishRefused, Finish, Succeed
  <2>3. CASE CommitStep(w)
    BY <2>3 DEF CommitStep
  <2>4. CASE Load(w)
    <3>1. Goto(w, "execute")
      BY <2>4 DEF Load
    <3>. QED  BY <1>1, <3>1 DEF Goto, WorkerType, Busy
  <2>. QED  BY <2>2, <2>3, <2>4
<1>. QED  BY <1>2, <1>3

LEMMA OutstandingIs ==
  ASSUME TypeInv
  PROVE  Outstanding = Mailed \cup {worker[w].job : w \in {v \in Workers : Busy(worker[v])}}
<1>1. DOMAIN queue = 1..Len(queue)
  BY DEF TypeInv, TypeOK
<1>. QED  BY <1>1 DEF Outstanding, Mailed, Busy

LEMMA OutstandingWillBe ==
  ASSUME TypeInv'
  PROVE  Outstanding' = Mailed' \cup {worker'[w].job : w \in {v \in Workers : Busy(worker'[v])}}
<1>1. DOMAIN queue' = 1..Len(queue')
  BY DEF TypeInv, TypeOK
<1>. QED  BY <1>1 DEF Outstanding, Mailed, Busy

\* What is queued or parked stays so, or is what a worker has just polled.
LEMMA MailStays ==
  ASSUME TypeInv, [Next]_vars
  PROVE  /\ \A j \in Mailed : j \in Mailed' \/ \E w \in Workers : Busy(worker'[w]) /\ worker'[w].job = j
         /\ \A n \in Nodes : Enqueue(n) => NewJob(n) \in Mailed'
<1>1. /\ queue \in Seq(Job) /\ dead \subseteq Job /\ worker \in [Workers -> WorkerType]
      /\ \A n \in Nodes : NewJob(n) \in Job
  BY DEF TypeInv, TypeOK, NewJob, Job
<1>2. CASE UNCHANGED <<queue, dead>>
  <2>1. \A n \in Nodes : ~Enqueue(n)
    <3>. SUFFICES ASSUME NEW n \in Nodes, queue' = Append(queue, NewJob(n))  PROVE FALSE
      BY DEF Enqueue
    <3>1. Len(queue') = Len(queue) + 1 /\ Len(queue) \in Nat
      BY <1>1
    <3>. QED  BY <1>2, <3>1
  <2>. QED  BY <1>2, <2>1 DEF Mailed
<1>3. ASSUME NEW j \in Job, queue' = Append(queue, j), dead' = dead
      PROVE  Mailed \subseteq Mailed' /\ j \in Mailed'
  <2>1. Len(queue') = Len(queue) + 1 /\ Len(queue) \in Nat /\ queue'[Len(queue) + 1] = j
        /\ \A i \in 1..Len(queue) : queue'[i] = queue[i]
    BY <1>1, <1>3
  <2>2. \A i \in 1..Len(queue) : i \in 1..Len(queue')
    BY <2>1
  <2>3. Len(queue) + 1 \in 1..Len(queue')
    BY <2>1
  <2>. QED  BY <1>3, <2>1, <2>2, <2>3 DEF Mailed
<1>4. ASSUME NEW w \in Workers, Poll(w)
      PROVE  \A j \in Mailed : j \in Mailed' \/ \E v \in Workers : Busy(worker'[v]) /\ worker'[v].job = j
  <2>1. queue # <<>> /\ queue' = Tail(queue)
    BY <1>4 DEF Poll
  <2>2. Len(queue') = Len(queue) - 1 /\ Head(queue) = queue[1] /\ Len(queue) \in Nat
        /\ \A i \in 1..Len(queue') : queue'[i] = queue[i + 1]
    BY <1>1, <2>1
  <2>3. ASSUME NEW i \in 1..Len(queue), i # 1
        PROVE  i - 1 \in 1..Len(queue') /\ queue'[i - 1] = queue[i]
    BY <2>2, <2>3
  <2>4. \A i \in 1..Len(queue) : queue[i] = Head(queue) \/ \E k \in 1..Len(queue') : queue[i] = queue'[k]
    BY <2>2, <2>3
  <2>5. CASE authorized
    <3>1. dead' = dead /\ worker'[w].pc = "load" /\ worker'[w].job = Head(queue)
      BY <1>1, <1>4, <2>5 DEF Poll, WorkerType
    <3>. QED  BY <2>4, <3>1 DEF Mailed, Busy
  <2>6. CASE ~authorized
    BY <1>4, <2>4, <2>6 DEF Poll, Park, Mailed
  <2>. QED  BY <2>5, <2>6
<1>5. \A n \in Nodes : Enqueue(n) => Mailed \subseteq Mailed' /\ NewJob(n) \in Mailed'
  BY <1>1, <1>3 DEF Enqueue
<1>6. CASE Resubmit
  <2>1. PICK j \in dead : queue' = Append(queue, j) /\ dead' = dead
    BY <1>6 DEF Resubmit
  <2>2. j \in Job
    BY <1>1, <2>1
  <2>. QED  BY <1>3, <1>5, <2>1, <2>2
<1>. QED  BY <1>2, <1>4, <1>5, <1>6, MailMoves

LEMMA NothingDropped ==
  ASSUME TypeInv, [Next]_vars, status \notin Terminal, ~AtLimit,
         \A w \in Workers : ~StepFails(w) /\ ~Crash(w),
         NEW j \in committed \cup Outstanding
  PROVE  j \in committed' \cup Outstanding'
<1>1. committed \subseteq committed' /\ TypeInv'
  BY NextTypes, JobsStay
<1>2. Outstanding' = Mailed' \cup {worker'[w].job : w \in {v \in Workers : Busy(worker'[v])}}
  BY <1>1, OutstandingWillBe
<1>3. CASE j \in committed
  BY <1>1, <1>3
<1>4. CASE j \in Mailed
  BY <1>2, <1>4, MailStays
<1>5. ASSUME NEW w \in Workers, Busy(worker[w]), j = worker[w].job
      PROVE  j \in committed' \cup Outstanding'
  BY <1>2, <1>5, InHandStays
<1>. QED  BY <1>3, <1>4, <1>5, OutstandingIs

LEMMA NextLost ==
  TypeInv /\ PlaceInv /\ ClaimInv /\ OnceInv /\ EndsComplete /\ Untouched /\ LostInv /\ [Next]_vars
    => LostInv'
<1>. SUFFICES ASSUME TypeInv, PlaceInv, ClaimInv, OnceInv, EndsComplete, Untouched, LostInv, [Next]_vars,
                     spent'["crash"] = 0, NoDuplicates', NeverFailed', status' # "SUCCEEDED"
              PROVE  status' # "FAILED" /\ Kept'
  BY DEF LostInv
<1>1. spent["crash"] = 0 /\ NoDuplicates /\ NeverFailed /\ ~Spend("crash") /\ ~AtLimit
  <2>1. graph' = graph /\ NoDuplicates
    BY RowsStay, DuplicatesStay
  <2>. QED  BY <2>1, CountsGrow, LimitsAssumption DEF NeverFailed, AtLimit, Mishaps
<1>2. status # "SUCCEEDED"
  BY <1>1, SuccessStays DEF NeverFailed
<1>3. status # "FAILED" /\ Kept
  BY <1>1, <1>2 DEF LostInv
<1>4. status' # "FAILED" /\ \A w \in Workers : ~StepFails(w) /\ ~Crash(w)
  BY <1>1, <1>3, NoFailure DEF Crash
<1>5. Kept'
  <2>. SUFFICES ASSUME NEW n \in Nodes, NEW i \in 1..published'[n]
                PROVE  [node |-> n, nth |-> i] \in committed' \cup Outstanding'
    BY DEF Kept
  <2>1. published \in [Nodes -> Nat]
    BY DEF TypeInv, TypeOK
  <2>2. CASE i \in 1..published[n]
    <3>1. [node |-> n, nth |-> i] \in committed \cup Outstanding
      BY <1>3, <2>2 DEF Kept
    <3>. QED  BY <1>1, <1>2, <1>3, <1>4, <3>1, NothingDropped DEF Terminal
  <2>3. CASE i \notin 1..published[n]
    <3>1. PICK m \in Nodes : Enqueue(m)
      <4>1. published' # published
        BY <2>3
      <4>. QED  BY <4>1, JobsCreated, EntryOfGraph DEF TypeInv, TypeOK, HoldsAJob, Publish
    <3>2. published' = [published EXCEPT ![m] = @ + 1]
      BY <3>1 DEF Enqueue
    <3>3. m = n /\ i = published[n] + 1
      BY <2>1, <2>3, <3>2
    <3>4. [node |-> n, nth |-> i] = NewJob(n)
      BY <3>3 DEF NewJob
    <3>5. TypeInv'
      BY NextTypes
    <3>6. Mailed' \subseteq Outstanding'
      BY <3>5, OutstandingWillBe
    <3>. QED  BY <3>1, <3>3, <3>4, <3>6, MailStays
  <2>. QED  BY <2>2, <2>3
<1>. QED  BY <1>4, <1>5

LEMMA LostHolds == Spec => []LostInv
<1>1. Init => LostInv
  BY DEF Init, LostInv, Kept
<1>. QED  BY <1>1, NextLost, TypesHold, PlacesHold, ClaimsHold, VisitsHold, EndsHold, UntouchedHolds,
             PTL DEF Spec

\* As long as no worker dies and nothing fails the run, each job of an open run
\* has its row or can still be taken up.
THEOREM NoJobIsLost == Spec => []NothingLost
<1>1. TypeInv /\ LostInv => NothingLost
  BY DEF LostInv, Kept, NothingLost, Terminal
<1>. QED  BY <1>1, LostHolds, TypesHold, PTL

-----------------------------------------------------------------------------
(***************************************************************************)
(* Whatever has come to a node has come along an edge that was open: a     *)
(* node that has run, has been decided or is being dispatched has an       *)
(* inbound edge from a node with a row, which no verdict refuses.  It is    *)
(* so because verdicts stand, once they are rows; where a branch is reached *)
(* twice, or is the entry, they need not (the hypothesis of what follows).  *)
(***************************************************************************)
PlainEntry(g) == Entry(g) \notin g.branches

Supported(g, n, done, verdicts) ==
  n = Entry(g) \/ \E e \in Incoming(g, n) : e.src \in done /\ ~Refused(g, e, verdicts)

\* The same of what a worker holds; while it plans, its paths and verdicts start
\* from its job or follow one another.
Led(g, r, done, verdicts) ==
  /\ r.pc \in {"claim", "publish"} => Supported(g, r.target, done, verdicts)
  /\ r.pc \in Sending => \A p \in r.paths : p.at.src \in done /\ ~Refused(g, p.at, verdicts)
  /\ r.pc = "plan" =>
       /\ \A p \in r.paths : p.at.src = r.job.node \/ <<p.at.src, p.at.cond>> \in r.chosen
       /\ \A c \in r.chosen : \E e \in Incoming(g, c[1]) :
            e.src = r.job.node \/ <<e.src, e.cond>> \in r.chosen

SupportInv ==
  /\ \A n \in Nodes : Settled(n) => Supported(graph, n, Done, decided)
  /\ \A w \in Workers : Led(graph, worker[w], Done, decided)

\* The state in which the steps below are taken.
Ordinary ==
  TypeInv /\ PlaceInv /\ ClaimInv /\ VisitsInv /\ NothingMeets(graph) /\ PlainEntry(graph)

LEMMA NoBranchRuns ==
  ASSUME Ordinary, NEW n \in Nodes, published[n] > 0
  PROVE  n \notin graph.branches /\ n \in graph.nodes
BY DEF Ordinary, PlainEntry, PlaceInv, Numbered

\* A row is of a job that was created, or of a verdict.
LEMMA DoneIsSettled ==
  ASSUME TypeInv, PlaceInv, NEW n
  PROVE  /\ n \in Done => n \in Nodes /\ Settled(n)
         /\ (\E j \in committed : j.node = n) => published[n] > 0
<1>1. ASSUME NEW j \in committed, j.node = n
      PROVE  n \in Nodes /\ published[n] > 0
  <2>1. j \in Job /\ j.nth \in 1..published[n] /\ published \in [Nodes -> Nat]
    BY <1>1 DEF TypeInv, TypeOK, PlaceInv, Numbered
  <2>. QED  BY <1>1, <2>1 DEF Job
<1>. QED  BY <1>1 DEF Done, Settled

\* A worker that holds a verdict is the first to reach one for this branch.
LEMMA FirstVerdict ==
  ASSUME Ordinary, NEW w \in Workers, worker[w].pc = "plan", NEW c \in worker[w].chosen
  PROVE  /\ c[1] \in Nodes /\ c[1] \in graph.branches /\ c[2] \in Verdicts /\ c = <<c[1], c[2]>>
         /\ ~Settled(c[1])
<1>1. c \in Nodes \X Verdicts /\ c[1] \in graph.branches
  BY DEF Ordinary, TypeInv, TypeOK, WorkerType, PlaceInv, Placed
<1>2. c[1] \in Nodes /\ c[2] \in Verdicts /\ c = <<c[1], c[2]>>
  BY <1>1
<1>3. Single(graph, c[1])
  <2>1. c[1] \in graph.nodes
    BY <1>1, GraphsAssumption DEF Ordinary, TypeInv, TypeOK, ValidGraph, WellFormedEdges
  <2>. QED  BY <1>1, <2>1 DEF Ordinary, Single, NothingMeets, PlainEntry
<1>4. Acts(worker[w], c[1])
  BY <1>2 DEF Acts
<1>. QED  BY <1>1, <1>2, <1>3, <1>4 DEF Ordinary, VisitsInv, OneVisit

\* What the verdicts' transaction writes.
LEMMA VerdictsWritten ==
  ASSUME Ordinary, NEW w \in Workers, CommitVerdicts(w)
  PROVE  /\ \A c \in worker[w].chosen : decided'[c[1]] = c[2] /\ c[1] \in Done'
         /\ \A n \in Nodes : decided'[n] # decided[n] => \E c \in worker[w].chosen : c[1] = n
<1>1. worker[w].pc = "plan" /\ worker[w].chosen \subseteq Nodes \X Verdicts
      /\ \A c, d \in worker[w].chosen : c[1] = d[1] => c = d
  BY DEF CommitVerdicts, Ordinary, TypeInv, TypeOK, WorkerType, PlaceInv, Placed
<1>2. decided' = [n \in Nodes |->
       IF \E v \in Verdicts : <<n, v>> \in worker[w].chosen
         THEN CHOOSE v \in Verdicts : <<n, v>> \in worker[w].chosen
         ELSE decided[n]]
  BY DEF CommitVerdicts
<1>3. ASSUME NEW c \in worker[w].chosen
      PROVE  decided'[c[1]] = c[2] /\ c[1] \in Done'
  <2>1. c[1] \in Nodes /\ c[2] \in Verdicts /\ <<c[1], c[2]>> \in worker[w].chosen
    BY <1>1, FirstVerdict
  <2>2. \A v \in Verdicts : <<c[1], v>> \in worker[w].chosen => v = c[2]
    <3>. SUFFICES ASSUME NEW v \in Verdicts, <<c[1], v>> \in worker[w].chosen  PROVE v = c[2]
      OBVIOUS
    <3>1. <<c[1], v>> = c
      BY <1>1
    <3>2. <<c[1], v>>[2] = v
      OBVIOUS
    <3>. QED  BY <3>1, <3>2
  <2>3. (CHOOSE v \in Verdicts : <<c[1], v>> \in worker[w].chosen) = c[2]
    BY <2>1, <2>2
  <2>4. decided'[c[1]] = c[2]
    BY <1>2, <2>1, <2>3
  <2>. QED  BY <2>1, <2>4 DEF Done, Verdicts
<1>4. ASSUME NEW n \in Nodes, decided'[n] # decided[n]
      PROVE  \E c \in worker[w].chosen : c[1] = n
  <2>1. PICK v \in Verdicts : <<n, v>> \in worker[w].chosen
    BY <1>2, <1>4
  <2>2. <<n, v>>[1] = n
    OBVIOUS
  <2>. QED  BY <2>1, <2>2
<1>. QED  BY <1>3, <1>4

\* Only a branch nobody has decided gets a verdict.
LEMMA VerdictsStand ==
  ASSUME Ordinary, [Next]_vars, NEW n \in Nodes, decided'[n] # decided[n]
  PROVE  ~Settled(n) /\ \E w \in Workers : CommitVerdicts(w) /\ \E c \in worker[w].chosen : c[1] = n
<1>1. decided \in [Nodes -> Verdicts \cup {"none"}]
  BY DEF Ordinary, TypeInv, TypeOK
<1>2. ASSUME NEW w \in Workers, CommitStep(w)
      PROVE  FALSE
  <2>1. worker[w].job \in Job /\ worker[w].job.nth \in 1..published[worker[w].job.node]
    BY <1>2 DEF Ordinary, CommitStep, TypeInv, HoldsAJob, PlaceInv, Placed
  <2>2. worker[w].job.node \in Nodes /\ published[worker[w].job.node] \in Nat
    BY <2>1 DEF Job, Ordinary, TypeInv, TypeOK
  <2>3. worker[w].job.node \notin graph.branches
    BY <2>1, <2>2, NoBranchRuns
  <2>. QED  BY <1>2, <2>3 DEF CommitStep, VerdictOnCommit
<1>3. PICK w \in Workers : CommitVerdicts(w)
  BY <1>2 DEF Next, Step, AcceptRun, PublishEntry, Poll, Load, StepFails, ResolveBranch,
         TooManyBranches, PlanFails, ConsiderSuccessor, BindingFails, ClaimJoin,
         Publish, PublishRefused, Finish, Succeed, Crash, Revoke, Restore, Resubmit, vars,
         runVars, stepVars
<1>4. PICK c \in worker[w].chosen : c[1] = n
  BY <1>3, VerdictsWritten
<1>5. worker[w].pc = "plan"
  BY <1>3 DEF CommitVerdicts
<1>6. ~Settled(n)
  BY <1>4, <1>5, FirstVerdict
<1>. QED  BY <1>3, <1>4, <1>6

\* An edge that was open or refused, once its source has a row, stays so.
LEMMA EdgesStand ==
  ASSUME Ordinary, [Next]_vars, NEW e \in graph.edges
  PROVE  /\ Refused(graph, e, decided) => Refused(graph, e, decided')
         /\ e.src \in Done /\ ~Refused(graph, e, decided) => e.src \in Done' /\ ~Refused(graph, e, decided')
<1>1. e.src \in Nodes /\ e.src \in graph.nodes
  BY EdgeOfGraph DEF Ordinary, TypeInv, TypeOK
<1>2. Done \subseteq Done'
  BY RowsStay DEF Ordinary
<1>3. CASE decided'[e.src] = decided[e.src]
  BY <1>2, <1>3 DEF Refused
<1>4. CASE decided'[e.src] # decided[e.src]
  <2>1. ~Settled(e.src)
    BY <1>1, <1>4, VerdictsStand
  <2>2. e.src \notin Done /\ decided[e.src] = "none"
    BY <2>1, DoneIsSettled DEF Ordinary, Settled
  <2>. QED  BY <2>2 DEF Refused, Verdicts
<1>. QED  BY <1>3, <1>4

LEMMA SupportStands ==
  ASSUME Ordinary, [Next]_vars, NEW n, Supported(graph, n, Done, decided)
  PROVE  Supported(graph, n, Done', decided')
BY EdgesStand DEF Supported, Incoming

\* What the verdicts' transaction leaves behind: the paths it opens and the
\* branches it decides have come along open edges.
LEMMA VerdictsSupport ==
  ASSUME Ordinary, SupportInv, [Next]_vars, NEW w \in Workers, CommitVerdicts(w)
  PROVE  /\ \A p \in worker[w].paths : p.at.src \in Done' /\ ~Refused(graph, p.at, decided')
         /\ \A c \in worker[w].chosen : Supported(graph, c[1], Done', decided')
<1>1. /\ worker[w].pc = "plan" /\ worker[w].job \in committed
      /\ \A p \in worker[w].paths : p.at \in graph.edges
  BY DEF CommitVerdicts, Ordinary, PlaceInv, Placed, Waiting
<1>. DEFINE m == worker[w].job.node
<1>2. m \in Done /\ m \in Nodes /\ m \notin graph.branches
  <2>1. m \in Done
    BY <1>1 DEF Done
  <2>2. m \in Nodes /\ published[m] > 0
    BY <1>1, <2>1, DoneIsSettled DEF Ordinary
  <2>. QED  BY <2>1, <2>2, NoBranchRuns
<1>. HIDE DEF m
<1>3. ASSUME NEW e \in graph.edges, e.src = m \/ <<e.src, e.cond>> \in worker[w].chosen
      PROVE  e.src \in Done' /\ ~Refused(graph, e, decided')
  <2>1. CASE e.src = m
    <3>1. Done \subseteq Done'
      BY RowsStay DEF Ordinary
    <3>. QED  BY <1>2, <2>1, <3>1 DEF Refused
  <2>2. CASE <<e.src, e.cond>> \in worker[w].chosen
    <3>1. decided'[<<e.src, e.cond>>[1]] = <<e.src, e.cond>>[2] /\ <<e.src, e.cond>>[1] \in Done'
      BY <2>2, VerdictsWritten
    <3>2. decided'[e.src] = e.cond /\ e.src \in Done'
      BY <3>1
    <3>. QED  BY <3>2 DEF Refused
  <2>. QED  BY <1>3, <2>1, <2>2
<1>4. Led(graph, worker[w], Done, decided)
  BY DEF SupportInv
<1>5. \A p \in worker[w].paths : p.at.src \in Done' /\ ~Refused(graph, p.at, decided')
  BY <1>1, <1>3, <1>4 DEF Led, m
<1>6. ASSUME NEW c \in worker[w].chosen
      PROVE  Supported(graph, c[1], Done', decided')
  <2>1. PICK e \in Incoming(graph, c[1]) : e.src = m \/ <<e.src, e.cond>> \in worker[w].chosen
    BY <1>1, <1>4 DEF Led, m
  <2>2. e \in graph.edges
    BY <2>1 DEF Incoming
  <2>. QED  BY <1>3, <2>1, <2>2 DEF Supported
<1>. QED  BY <1>5, <1>6

\* A worker whose record does not change, or that goes on with no more than it
\* had, is led as before.
LEMMA LedStays ==
  ASSUME Ordinary, SupportInv, [Next]_vars, NEW w \in Workers, NEW r,
         r.paths \subseteq worker[w].paths,
         r.pc \in {"claim", "publish"} => worker[w].pc \in {"claim", "publish"} /\ r.target = worker[w].target,
         r.pc \in Sending => worker[w].pc \in Sending,
         r.pc = "plan" => worker[w].pc = "plan" /\ r.job = worker[w].job /\ r.chosen = worker[w].chosen
  PROVE  Led(graph, r, Done', decided')
<1>1. Led(graph, worker[w], Done, decided) /\ \A p \in worker[w].paths : p.at \in graph.edges
  BY DEF SupportInv, Ordinary, PlaceInv, Placed
<1>2. r.pc \in {"claim", "publish"} => Supported(graph, r.target, Done', decided')
  BY <1>1, SupportStands DEF Led
<1>3. r.pc \in Sending => \A p \in r.paths : p.at.src \in Done' /\ ~Refused(graph, p.at, decided')
  BY <1>1, EdgesStand DEF Led
<1>4. r.pc = "plan" =>
       /\ \A p \in r.paths : p.at.src = r.job.node \/ <<p.at.src, p.at.cond>> \in r.chosen
       /\ \A c \in r.chosen : \E e \in Incoming(graph, c[1]) :
            e.src = r.job.node \/ <<e.src, e.cond>> \in r.chosen
  BY <1>1 DEF Led
<1>. QED  BY <1>2, <1>3, <1>4 DEF Led

LEMMA QuietLed ==
  ASSUME Ordinary, SupportInv, [Next]_vars, NEW w \in Workers, Quiet(w) \/ Publish(w)
  PROVE  Led(graph, worker'[w], Done', decided')
<1>1. worker \in [Workers -> WorkerType] /\ Placed(graph, worker[w], committed, published)
  BY DEF Ordinary, TypeInv, TypeOK, PlaceInv
<1>. DEFINE r == worker'[w]
<1>. SUFFICES /\ r.paths \subseteq worker[w].paths
              /\ r.pc \in {"claim", "publish"} =>
                   worker[w].pc \in {"claim", "publish"} /\ r.target = worker[w].target
              /\ r.pc \in Sending => worker[w].pc \in Sending
              /\ r.pc = "plan" => worker[w].pc = "plan" /\ r.job = worker[w].job /\ r.chosen = worker[w].chosen
  BY LedStays
<1>2. CASE GoIdle(w)
  BY <1>1, <1>2 DEF GoIdle, IdleWorker, Sending
<1>3. CASE \E s \in {"execute", "succeed"} : Goto(w, s)
  BY <1>1, <1>3 DEF Goto, WorkerType, Sending
<1>4. CASE Poll(w)
  BY <1>1, <1>4 DEF Poll, WorkerType, Sending
<1>5. CASE BindingFails(w)
  <2>1. PICK p \in worker[w].paths : worker' = [worker EXCEPT ![w].paths = @ \ {p}]
    BY <1>5 DEF BindingFails
  <2>2. r.paths \subseteq worker[w].paths /\ r.pc = "dispatch" /\ worker[w].pc = "dispatch"
    BY <1>1, <1>5, <2>1 DEF BindingFails, WorkerType
  <2>. QED  BY <2>2 DEF Sending
<1>6. CASE ClaimJoin(w)
  <2>1. /\ r.paths = worker[w].paths /\ r.pc \in {"dispatch", "publish"}
        /\ r.pc = "publish" => r.target = worker[w].target
        /\ worker[w].pc = "claim"
    BY <1>1, <1>6 DEF ClaimJoin, Goto, WorkerType
  <2>. QED  BY <2>1 DEF Sending
<1>7. CASE Publish(w)
  <2>1. r.paths = worker[w].paths /\ r.pc = "dispatch" /\ worker[w].pc = "publish"
    BY <1>1, <1>7 DEF Publish, WorkerType
  <2>. QED  BY <2>1 DEF Sending
<1>. QED  BY <1>2, <1>3, <1>4, <1>5, <1>6, <1>7
          DEF Quiet, Load, StepFails, TooManyBranches, PlanFails, PublishRefused, Finish, Succeed, Crash

LEMMA CommitStepLed ==
  ASSUME Ordinary, SupportInv, [Next]_vars, NEW w \in Workers, CommitStep(w)
  PROVE  Led(graph, worker'[w], Done', decided')
<1>1. worker \in [Workers -> WorkerType] /\ Placed(graph, worker[w], committed, published)
      /\ worker[w].pc = "execute"
  BY DEF Ordinary, TypeInv, TypeOK, PlaceInv, CommitStep
<1>2. /\ worker'[w].pc = "plan" /\ worker'[w].job = worker[w].job
      /\ worker'[w].paths = PathsFrom(worker[w].job.node) /\ worker'[w].chosen = {}
  BY <1>1 DEF CommitStep, WorkerType, Placed, Waiting
<1>3. \A p \in PathsFrom(worker[w].job.node) : p.at.src = worker[w].job.node
  BY DEF PathsFrom, Outgoing
<1>. QED  BY <1>2, <1>3 DEF Led, Sending

LEMMA ResolveBranchLed ==
  ASSUME Ordinary, SupportInv, [Next]_vars, NEW w \in Workers, ResolveBranch(w)
  PROVE  Led(graph, worker'[w], Done', decided')
<1>1. /\ graph \in Graphs /\ worker[w].pc = "plan" /\ worker[w] \in WorkerType /\ TypeInv
      /\ Placed(graph, worker[w], committed, published) /\ Led(graph, worker[w], Done, decided)
  BY ResolveBranchRecord DEF Ordinary, TypeInv, TypeOK, PlaceInv, SupportInv
<1>2. PICK p \in worker[w].paths, v \in Verdicts : ResolvedInto(worker[w], p, v, worker'[w])
  BY <1>1, ResolveBranchRecord
<1>3. PICK q : q = Resolved(p, v)
  OBVIOUS
<1>. DEFINE b == p.at.dst
<1>4. p \in Path /\ p.at \in graph.edges /\ AtBranch(p) /\ v \in Verdicts
  BY <1>1, <1>2 DEF WorkerType, Placed, ResolvedInto
<1>5. q.at \in graph.edges /\ q.at.src = b /\ q.at.cond = v
  BY <1>1, <1>3, <1>4, ResolvedPath
<1>6. p.at \in Incoming(graph, b) /\ b \in Nodes /\ b \in graph.nodes
  BY <1>1, <1>4, EdgeOfGraph
<1>7. \A c \in worker[w].chosen : c[1] # b
  <2>1. Single(graph, b) /\ Heads(graph, p, b)
    BY <1>4, <1>6, AheadOfItself DEF AtBranch, Ordinary, Single, NothingMeets, PlainEntry, Heads
  <2>2. ~Acts(worker[w], b)
    BY <1>2, <1>6, <2>1 DEF Ordinary, VisitsInv, OneVisit
  <2>. QED  BY <1>1, <2>2, FirstVerdict DEF Acts
<1>8. /\ worker'[w].paths = (worker[w].paths \ {p}) \cup {q}
      /\ worker'[w].chosen = worker[w].chosen \cup {<<b, v>>}
      /\ worker'[w].pc = "plan" /\ worker'[w].job = worker[w].job
  BY <1>2, <1>3, <1>7 DEF ResolvedInto
<1>. HIDE DEF b
<1>9. \A x \in worker'[w].paths :
        x.at.src = worker'[w].job.node \/ <<x.at.src, x.at.cond>> \in worker'[w].chosen
  BY <1>1, <1>5, <1>8 DEF Led
<1>10. \A c \in worker'[w].chosen : \E e \in Incoming(graph, c[1]) :
         e.src = worker'[w].job.node \/ <<e.src, e.cond>> \in worker'[w].chosen
  <2>1. \E e \in Incoming(graph, b) :
         e.src = worker'[w].job.node \/ <<e.src, e.cond>> \in worker'[w].chosen
    BY <1>1, <1>2, <1>6, <1>8 DEF Led
  <2>2. ASSUME NEW c \in worker[w].chosen
        PROVE  \E e \in Incoming(graph, c[1]) :
                 e.src = worker'[w].job.node \/ <<e.src, e.cond>> \in worker'[w].chosen
    BY <1>1, <1>8 DEF Led
  <2>3. <<b, v>>[1] = b
    OBVIOUS
  <2>. QED  BY <1>8, <2>1, <2>2, <2>3
<1>. QED  BY <1>8, <1>9, <1>10 DEF Led, Sending

LEMMA CommitVerdictsLed ==
  ASSUME Ordinary, SupportInv, [Next]_vars, NEW w \in Workers, CommitVerdicts(w)
  PROVE  Led(graph, worker'[w], Done', decided')
<1>1. worker'[w].pc = "dispatch" /\ worker'[w].paths = worker[w].paths
  BY DEF CommitVerdicts, Goto, Ordinary, TypeInv, TypeOK, WorkerType
<1>2. \A p \in worker[w].paths : p.at.src \in Done' /\ ~Refused(graph, p.at, decided')
  BY VerdictsSupport
<1>. QED  BY <1>1, <1>2 DEF Led, Sending

LEMMA ConsiderSuccessorLed ==
  ASSUME Ordinary, SupportInv, [Next]_vars, NEW w \in Workers, ConsiderSuccessor(w)
  PROVE  Led(graph, worker'[w], Done', decided')
<1>1. /\ worker[w].pc = "dispatch" /\ Done' = Done /\ decided' = decided /\ graph \in Graphs
      /\ Led(graph, worker[w], Done, decided) /\ TypeInv
      /\ Placed(graph, worker[w], committed, published)
  BY DEF ConsiderSuccessor, runVars, stepVars, Done, Ordinary, SupportInv, TypeInv, TypeOK, PlaceInv
<1>2. PICK p \in worker[w].paths :
        /\ worker'[w].paths = worker[w].paths \ {p}
        /\ \/ ~MayStart(p.at.dst) /\ worker'[w].pc = "dispatch"
           \/ /\ MayStart(p.at.dst) /\ worker'[w].target = p.at.dst
              /\ worker'[w].pc = IF Joining(graph, p.at.dst) THEN "claim" ELSE "publish"
  BY <1>1, ConsiderSuccessorRecord
<1>3. p.at \in Incoming(graph, p.at.dst) /\ p.at.src \in Done /\ ~Refused(graph, p.at, decided)
  BY <1>1, <1>2, EdgeOfGraph DEF Led, Placed, Sending
<1>4. Supported(graph, p.at.dst, Done, decided)
  BY <1>3 DEF Supported
<1>5. worker'[w].pc \in {"claim", "publish"} => worker'[w].target = p.at.dst
  BY <1>2
<1>6. worker'[w].pc # "plan" /\ \A x \in worker'[w].paths : x.at.src \in Done /\ ~Refused(graph, x.at, decided)
  BY <1>1, <1>2 DEF Led, Sending
<1>. QED  BY <1>1, <1>4, <1>5, <1>6 DEF Led

LEMMA NextSupport ==
  ASSUME Ordinary, SupportInv, [Next]_vars
  PROVE  SupportInv'
<1>1. graph' = graph /\ graph \in Graphs /\ TypeInv /\ PlaceInv
  BY RowsStay DEF Ordinary, TypeInv, TypeOK
<1>2. ASSUME NEW w \in Workers
      PROVE  Led(graph, worker'[w], Done', decided')
  <2>1. CASE worker'[w] = worker[w]
    BY <2>1, LedStays
  <2>2. CASE worker'[w] # worker[w]
    <3>1. Step(w) \/ Crash(w)
      <4>1. \E v \in Workers : Step(v) \/ Crash(v)
        BY <2>2 DEF Next, AcceptRun, PublishEntry, Revoke, Restore, Resubmit, vars
      <4>. QED  BY <1>1, <2>2, <4>1, OthersStay
    <3>2. \/ Quiet(w) \/ CommitStep(w) \/ ResolveBranch(w) \/ CommitVerdicts(w)
          \/ ConsiderSuccessor(w) \/ Publish(w)
      BY <3>1 DEF Step, Quiet
    <3>. QED  BY <3>2, QuietLed, CommitStepLed, ResolveBranchLed, CommitVerdictsLed, ConsiderSuccessorLed
  <2>. QED  BY <2>1, <2>2
<1>3. ASSUME NEW n \in Nodes, Settled(n)'
      PROVE  Supported(graph, n, Done', decided')
  <2>1. CASE Settled(n)
    BY <2>1, SupportStands DEF SupportInv
  <2>2. CASE decided'[n] # decided[n]
    BY <2>2, VerdictsStand, VerdictsSupport
  <2>3. CASE published'[n] # published[n]
    <3>1. CASE Enqueue(Entry(graph))
      BY <1>1, <2>3, <3>1 DEF Enqueue, TypeInv, TypeOK, Supported
    <3>2. ASSUME NEW w \in Workers, Publish(w), Enqueue(worker[w].target)
          PROVE  Supported(graph, n, Done', decided')
      <4>1. n = worker[w].target /\ worker[w].pc = "publish"
        BY <1>1, <2>3, <3>2 DEF Enqueue, Publish, TypeInv, TypeOK
      <4>2. Supported(graph, n, Done, decided)
        BY <4>1 DEF SupportInv, Led
      <4>. QED  BY <4>2, SupportStands
    <3>. QED  BY <1>1, <2>3, <3>1, <3>2, JobsCreated
  <2>. QED  BY <1>3, <2>1, <2>2, <2>3 DEF Settled
<1>. QED  BY <1>1, <1>2, <1>3 DEF SupportInv

SupportHolds == NoDuplicates /\ NothingMeets(graph) /\ PlainEntry(graph) => SupportInv

LEMMA EveryoneSupported == Spec => []SupportHolds
<1>1. Init => SupportHolds
  BY DEF Init, SupportHolds, SupportInv, Settled, Led, Sending, IdleWorker
<1>2. TypeInv /\ PlaceInv /\ ClaimInv /\ OnceInv /\ SupportHolds /\ [Next]_vars => SupportHolds'
  <2>. SUFFICES ASSUME TypeInv, PlaceInv, ClaimInv, OnceInv, SupportHolds, [Next]_vars,
                       NoDuplicates', NothingMeets(graph'), PlainEntry(graph')
                PROVE  SupportInv'
    BY DEF SupportHolds
  <2>1. NoDuplicates /\ graph' = graph
    BY DuplicatesStay, RowsStay
  <2>. QED  BY <2>1, NextSupport DEF SupportHolds, OnceInv, Ordinary
<1>. QED  BY <1>1, <1>2, TypesHold, PlacesHold, ClaimsHold, VisitsHold, PTL DEF Spec

-----------------------------------------------------------------------------
(* The test for closed paths is right.                                        *)

\* The promise speaks of the same graphs.
LEMMA SameGraph ==
  ASSUME NEW g, NEW e, NEW verdicts
  PROVE  /\ Promise!Entry(g) = Entry(g)
         /\ Promise!Refused(g, e, verdicts) <=> Refused(g, e, verdicts)
BY DEF Promise!Entry, Entry, Promise!Incoming, Incoming, Promise!Refused, Refused,
       Promise!Verdicts, Verdicts

\* What is reachable goes on through passable edges, from the entry.
LEMMA EntryIsReachable ==
  ASSUME graph \in Graphs
  PROVE  Entry(graph) \in Promise!Reachable(decided)
BY SameGraph, EntryOfGraph DEF Promise!Reachable

LEMMA ReachableGoesOn ==
  ASSUME graph \in Graphs, NEW e \in graph.edges, ~Refused(graph, e, decided),
         e.src \in Promise!Reachable(decided)
  PROVE  e.dst \in Promise!Reachable(decided)
BY SameGraph, EdgeOfGraph DEF Promise!Reachable, Promise!Passable

LEMMA DoneIsReachable ==
  ASSUME TypeInv, PlaceInv, SupportInv, PlainEntry(graph), NEW n \in Done
  PROVE  n \in Promise!Reachable(decided)
<1>. DEFINE R == Promise!Reachable(decided)
            D == Done \ R
<1>1. graph \in Graphs
  BY DEF TypeInv, TypeOK
<1>2. Done \subseteq graph.nodes
  <2>. SUFFICES ASSUME NEW m \in Done  PROVE m \in graph.nodes
    OBVIOUS
  <2>1. m \in Nodes /\ Settled(m)
    BY DoneIsSettled
  <2>. QED  BY <1>1, <2>1, GraphsAssumption
            DEF PlaceInv, Numbered, Settled, ValidGraph, WellFormedEdges
<1>3. SUFFICES ASSUME D # {}  PROVE FALSE
  OBVIOUS
<1>. HIDE DEF R
<1>4. PICK m \in D : \A e \in Incoming(graph, m) : e.src \in graph.nodes \ D
  BY <1>1, <1>2, <1>3, FirstOfNodes
<1>5. Supported(graph, m, Done, decided)
  BY <1>4, DoneIsSettled DEF SupportInv
<1>6. m # Entry(graph)
  BY <1>1, <1>4, EntryIsReachable DEF R
<1>7. PICK e \in Incoming(graph, m) : e.src \in Done /\ ~Refused(graph, e, decided)
  BY <1>5, <1>6 DEF Supported
<1>8. e \in graph.edges /\ e.dst = m /\ e.src \in R
  BY <1>4, <1>7 DEF Incoming
<1>9. m \in R
  BY <1>1, <1>7, <1>8, ReachableGoesOn DEF R
<1>. QED  BY <1>4, <1>9

\* No closed node is reachable: what is not closed holds the entry and goes on.
LEMMA ClosedIsUnreachable ==
  ASSUME graph \in Graphs
  PROVE  Closed(graph, Done, decided) \cap Promise!Reachable(decided) = {}
<1>. DEFINE C == Closed(graph, Done, decided)
            S == graph.nodes \ C
<1>1. Entry(graph) \in S
  BY EntryOfGraph, ClosedMeans
<1>2. \A e \in graph.edges : ~Refused(graph, e, decided) /\ e.src \in S => e.dst \in S
  <2>. SUFFICES ASSUME NEW e \in graph.edges, ~Refused(graph, e, decided), e.src \in S, e.dst \in C
                PROVE  FALSE
    BY EdgeOfGraph
  <2>1. e.dst \in graph.nodes /\ e \in Incoming(graph, e.dst)
    BY EdgeOfGraph
  <2>2. e.src \in C
    BY <2>1, ClosedMeans
  <2>. QED  BY <2>2
<1>. HIDE DEF C
<1>. QED  BY <1>1, <1>2, SameGraph DEF Promise!Reachable, Promise!Passable, C

\* The entry is the only node that nothing leads to.
LEMMA OneEntry ==
  ASSUME NEW g \in Graphs, NEW n \in g.nodes, Incoming(g, n) = {}
  PROVE  n = Entry(g)
<1>1. Cardinality(Entries(g)) = 1 /\ n \in Entries(g) /\ Entry(g) \in Entries(g)
  BY EntryOfGraph, GraphsAssumption DEF ValidGraph, Entries
<1>2. IsFiniteSet(Entries(g))
  BY GraphsAssumption, FS_Subset DEF Entries
<1>. QED  BY <1>1, <1>2, FS_Singleton

\* The first node that is neither closed nor reachable would be led to by a
\* passable edge from a reachable one.
LEMMA UnreachableIsClosed ==
  ASSUME TypeInv, PlaceInv, SupportInv, PlainEntry(graph),
         NEW n \in graph.nodes, n \notin Promise!Reachable(decided)
  PROVE  n \in Closed(graph, Done, decided)
<1>. DEFINE R == Promise!Reachable(decided)
            C == Closed(graph, Done, decided)
            T == (graph.nodes \ R) \ C
<1>1. graph \in Graphs
  BY DEF TypeInv, TypeOK
<1>. SUFFICES ASSUME T # {}  PROVE FALSE
  OBVIOUS
<1>2. PICK m \in T : \A e \in Incoming(graph, m) : e.src \in graph.nodes \ T
  <2>1. T \in SUBSET graph.nodes
    OBVIOUS
  <2>. HIDE DEF T
  <2>. QED  BY <1>1, <2>1, FirstOfNodes
<1>. HIDE DEF R
<1>3. Incoming(graph, m) # {}
  BY <1>1, <1>2, OneEntry, EntryIsReachable DEF R
<1>4. PICK e \in Incoming(graph, m) :
        ~Refused(graph, e, decided) /\ (e.src \in Done \/ e.src \notin C)
  <2>1. m \in graph.nodes /\ m \notin C
    BY <1>2
  <2>. QED  BY <1>1, <1>3, <2>1, ClosedMeans
<1>5. e.src \in R
  BY <1>2, <1>4, DoneIsReachable DEF R
<1>6. m \in R
  BY <1>1, <1>4, <1>5, ReachableGoesOn DEF R, Incoming
<1>. QED  BY <1>2, <1>6

\* The orchestrator's test for closed paths finds exactly what the decisions
\* have made unreachable, where the entry decides nothing and no branch is
\* reached by two edges.
THEOREM ClosedPathsAreFound ==
  Spec => [](NothingMeets(graph) /\ PlainEntry(graph) /\ NoDuplicates => ClosedMeansUnreachable)
<1>1. TypeInv /\ PlaceInv /\ SupportHolds
        => (NothingMeets(graph) /\ PlainEntry(graph) /\ NoDuplicates => ClosedMeansUnreachable)
  <2>. SUFFICES ASSUME TypeInv, PlaceInv, SupportInv, PlainEntry(graph)
                PROVE  ClosedMeansUnreachable
    BY DEF SupportHolds
  <2>1. graph \in Graphs /\ Closed(graph, Done, decided) \subseteq graph.nodes
    BY DEF TypeInv, TypeOK, Closed
  <2>. QED  BY <2>1, ClosedIsUnreachable, UnreachableIsClosed DEF ClosedMeansUnreachable
<1>. QED  BY <1>1, TypesHold, PlacesHold, EveryoneSupported, PTL

-----------------------------------------------------------------------------
(***************************************************************************)
(* A join never starts early.  Its paths are found to be in before it is   *)
(* claimed, and stay in: a row is not taken back, and what is closed stays *)
(* closed because only supported nodes run or are decided, and a supported *)
(* node is not closed.                                                     *)
(***************************************************************************)
JoinInv ==
  /\ \A n \in Nodes : published[n] > 0 /\ Joining(graph, n) => Arrived(graph, n, Done, decided)
  /\ \A w \in Workers :
       worker[w].pc \in {"claim", "publish"} /\ Joining(graph, worker[w].target) =>
         Arrived(graph, worker[w].target, Done, decided)

LEMMA SupportedIsOpen ==
  ASSUME NEW g \in Graphs, NEW n \in g.nodes, NEW done, NEW verdicts, Supported(g, n, done, verdicts)
  PROVE  n \notin Closed(g, done, verdicts)
BY EntryOfGraph, ClosedMeans DEF Supported

\* Of the branches a worker decides together, none is closed: the first would be
\* led to by the node just executed.
LEMMA DecidedAreOpen ==
  ASSUME Ordinary, SupportInv, NEW w \in Workers, worker[w].pc = "plan", NEW c \in worker[w].chosen
  PROVE  c[1] \notin Closed(graph, Done, decided)
<1>. DEFINE C == Closed(graph, Done, decided)
            D == {n \in C : \E d \in worker[w].chosen : d[1] = n}
            m == worker[w].job.node
<1>1. graph \in Graphs /\ C \subseteq graph.nodes
  BY DEF Ordinary, TypeInv, TypeOK, Closed
<1>2. m \in Done /\ m \notin graph.branches
  <2>1. worker[w].job \in committed
    BY DEF Ordinary, PlaceInv, Placed, Waiting
  <2>2. m \in Done
    BY <2>1 DEF Done
  <2>3. m \in Nodes /\ published[m] > 0
    BY <2>1, <2>2, DoneIsSettled DEF Ordinary
  <2>. QED  BY <2>2, <2>3, NoBranchRuns
<1>3. SUFFICES ASSUME D # {}  PROVE FALSE
  OBVIOUS
<1>. HIDE DEF C, m
<1>4. PICK n \in D : \A e \in Incoming(graph, n) : e.src \in graph.nodes \ D
  BY <1>1, <1>3, FirstOfNodes
<1>5. PICK d \in worker[w].chosen : d[1] = n
  BY <1>4
<1>6. PICK e \in Incoming(graph, n) : e.src = m \/ <<e.src, e.cond>> \in worker[w].chosen
  BY <1>5 DEF SupportInv, Led, m
<1>7. Refused(graph, e, decided) \/ (e.src \notin Done /\ e.src \in C)
  BY <1>1, <1>4, <1>6, ClosedMeans DEF C
<1>8. CASE e.src = m
  BY <1>2, <1>7, <1>8 DEF Refused
<1>9. CASE <<e.src, e.cond>> \in worker[w].chosen
  <2>1. <<e.src, e.cond>>[1] = e.src
    OBVIOUS
  <2>2. decided[e.src] = "none"
    BY <1>9, <2>1, FirstVerdict DEF Settled
  <2>3. e.src \in C
    BY <1>7, <2>2 DEF Refused, Verdicts
  <2>. QED  BY <1>4, <1>6, <1>9, <2>1, <2>3
<1>. QED  BY <1>6, <1>8, <1>9

\* No closed node gets a row.
LEMMA ClosedNeverRuns ==
  ASSUME Ordinary, SupportInv, [Next]_vars
  PROVE  Done' \cap Closed(graph, Done, decided) \subseteq Done
<1>. SUFFICES ASSUME NEW n \in Done', n \notin Done, n \in Closed(graph, Done, decided)
              PROVE  FALSE
  OBVIOUS
<1>1. TypeInv' /\ graph \in Graphs /\ n \in graph.nodes /\ n \in Nodes
  <2>1. graph \in Graphs /\ n \in graph.nodes
    BY DEF Ordinary, TypeInv, TypeOK, Closed
  <2>. QED  BY <2>1, NextTypes, GraphsAssumption DEF Ordinary
<1>2. CASE decided'[n] # decided[n]
  <2>1. PICK w \in Workers : CommitVerdicts(w) /\ \E c \in worker[w].chosen : c[1] = n
    BY <1>1, <1>2, VerdictsStand
  <2>2. worker[w].pc = "plan"
    BY <2>1 DEF CommitVerdicts
  <2>. QED  BY <2>1, <2>2, DecidedAreOpen
<1>3. CASE decided'[n] = decided[n]
  <2>1. PICK j \in committed' : j.node = n
    BY <1>3 DEF Done
  <2>2. j \notin committed
    BY <2>1 DEF Done
  <2>3. PICK w \in Workers : j = worker[w].job /\ worker[w].pc # "idle"
    BY <2>2 DEF Next, Step, AcceptRun, PublishEntry, Poll, Load, StepFails, CommitStep, ResolveBranch,
         TooManyBranches, PlanFails, CommitVerdicts, ConsiderSuccessor, BindingFails, ClaimJoin,
         Publish, PublishRefused, Finish, Succeed, Crash, Revoke, Restore, Resubmit, vars,
         runVars, stepVars
  <2>4. j.nth \in 1..published[n] /\ published[n] \in Nat
    BY <1>1, <2>1, <2>3 DEF Ordinary, PlaceInv, Placed, TypeInv, TypeOK
  <2>5. Settled(n)
    BY <2>4 DEF Settled
  <2>6. Supported(graph, n, Done, decided)
    BY <1>1, <2>5 DEF SupportInv
  <2>. QED  BY <1>1, <2>6, SupportedIsOpen
<1>. QED  BY <1>2, <1>3

LEMMA ArrivedStays ==
  ASSUME Ordinary, SupportInv, [Next]_vars, NEW n, Arrived(graph, n, Done, decided)
  PROVE  Arrived(graph, n, Done', decided')
<1>1. Done \subseteq Done' /\ graph \in Graphs
  BY RowsStay DEF Ordinary, TypeInv, TypeOK
<1>2. \A e \in graph.edges : Refused(graph, e, decided) => Refused(graph, e, decided')
  BY EdgesStand
<1>3. Closed(graph, Done, decided) \subseteq Closed(graph, Done', decided')
  BY <1>1, <1>2, ClosedNeverRuns, ClosedGrows
<1>. QED  BY <1>1, <1>3 DEF Arrived

\* Who comes to claim or publish was there before, or has just asked.
LEMMA ComesToPublish ==
  ASSUME TypeInv, PlaceInv, [Next]_vars, NEW w \in Workers, worker'[w].pc \in {"claim", "publish"}
  PROVE  \/ worker[w].pc \in {"claim", "publish"} /\ worker'[w].target = worker[w].target
         \/ ConsiderSuccessor(w) /\ MayStart(worker'[w].target)
<1>1. worker \in [Workers -> WorkerType]
  BY DEF TypeInv, TypeOK
<1>2. CASE worker'[w] = worker[w]
  BY <1>2
<1>3. CASE worker'[w] # worker[w]
  <2>1. Step(w) \/ Crash(w)
    <3>1. \E v \in Workers : Step(v) \/ Crash(v)
      BY <1>3 DEF Next, AcceptRun, PublishEntry, Revoke, Restore, Resubmit, vars
    <3>. QED  BY <1>3, <3>1, OthersStay
  <2>2. CASE ConsiderSuccessor(w)
    BY <2>2, ConsiderSuccessorRecord
  <2>3. CASE GoIdle(w) \/ \E s \in {"execute", "dispatch", "succeed"} : Goto(w, s)
    BY <1>1, <2>3 DEF GoIdle, IdleWorker, Goto, WorkerType
  <2>4. CASE Poll(w) \/ CommitStep(w) \/ Publish(w)
    <3>1. Poll(w) => worker' = worker \/ worker'[w].pc = "load"
      BY <1>1 DEF Poll, WorkerType
    <3>2. CommitStep(w) => worker'[w].pc = "plan"
      BY <1>1 DEF CommitStep, WorkerType
    <3>3. Publish(w) => worker'[w].pc = "dispatch"
      BY <1>1 DEF Publish, WorkerType
    <3>. QED  BY <1>3, <2>4, <3>1, <3>2, <3>3
  <2>5. CASE ResolveBranch(w)
    BY <2>5, ResolveBranchRecord DEF ResolvedInto
  <2>6. CASE BindingFails(w)
    <3>1. PICK ps : worker' = [worker EXCEPT ![w].paths = ps]
      BY <2>6 DEF BindingFails
    <3>. QED  BY <1>1, <2>6, <3>1 DEF BindingFails, WorkerType
  <2>7. CASE ClaimJoin(w)
    BY <1>1, <2>7 DEF ClaimJoin, Goto, WorkerType
  <2>. QED  BY <2>1, <2>2, <2>3, <2>4, <2>5, <2>6, <2>7
            DEF Step, Load, StepFails, TooManyBranches, PlanFails, CommitVerdicts,
                PublishRefused, Finish, Succeed, Crash
<1>. QED  BY <1>2, <1>3

LEMMA NextJoins ==
  ASSUME Ordinary, SupportInv, JoinInv, [Next]_vars
  PROVE  JoinInv'
<1>1. graph' = graph /\ graph \in Graphs /\ TypeInv /\ PlaceInv
  BY RowsStay DEF Ordinary, TypeInv, TypeOK
<1>2. ASSUME NEW n \in Nodes, published'[n] > 0, Joining(graph, n)
      PROVE  Arrived(graph, n, Done', decided')
  <2>1. CASE published[n] > 0
    BY <1>2, <2>1, ArrivedStays DEF JoinInv
  <2>2. CASE ~(published[n] > 0)
    <3>1. ~Enqueue(Entry(graph))
      BY <1>1, <1>2, <2>2, EntryOfGraph DEF Enqueue, TypeInv, TypeOK
    <3>2. PICK w \in Workers : Publish(w) /\ Enqueue(worker[w].target)
      BY <1>1, <1>2, <2>2, <3>1, JobsCreated
    <3>3. n = worker[w].target /\ worker[w].pc = "publish"
      BY <1>1, <1>2, <2>2, <3>2 DEF Enqueue, Publish, TypeInv, TypeOK
    <3>. QED  BY <1>2, <3>3, ArrivedStays DEF JoinInv
  <2>. QED  BY <2>1, <2>2
<1>3. ASSUME NEW w \in Workers, worker'[w].pc \in {"claim", "publish"},
             Joining(graph, worker'[w].target)
      PROVE  Arrived(graph, worker'[w].target, Done', decided')
  <2>1. Arrived(graph, worker'[w].target, Done, decided)
    BY <1>1, <1>3, ComesToPublish DEF JoinInv, MayStart, JoinReady
  <2>. QED  BY <2>1, ArrivedStays
<1>. QED  BY <1>1, <1>2, <1>3 DEF JoinInv

JoinsHold == NoDuplicates /\ NothingMeets(graph) /\ PlainEntry(graph) => JoinInv

LEMMA JoinsWait == Spec => []JoinsHold
<1>1. Init => JoinsHold
  BY DEF Init, JoinsHold, JoinInv, IdleWorker
<1>2. TypeInv /\ PlaceInv /\ ClaimInv /\ OnceInv /\ SupportHolds /\ JoinsHold /\ [Next]_vars => JoinsHold'
  <2>. SUFFICES ASSUME TypeInv, PlaceInv, ClaimInv, OnceInv, SupportHolds, JoinsHold, [Next]_vars,
                       NoDuplicates', NothingMeets(graph'), PlainEntry(graph')
                PROVE  JoinInv'
    BY DEF JoinsHold
  <2>1. NoDuplicates /\ graph' = graph
    BY DuplicatesStay, RowsStay
  <2>. QED  BY <2>1, NextJoins DEF JoinsHold, SupportHolds, OnceInv, Ordinary
<1>. QED  BY <1>1, <1>2, TypesHold, PlacesHold, ClaimsHold, VisitsHold, EveryoneSupported, PTL DEF Spec

\* Whoever holds a join's job, all paths into the join are in or closed, and
\* nothing takes that back.
THEOREM JoinsWaitForAll ==
  Spec => [](NothingMeets(graph) /\ PlainEntry(graph) => JoinNeverEarly)
<1>1. TypeInv /\ PlaceInv /\ JoinsHold
        => (NothingMeets(graph) /\ PlainEntry(graph) => JoinNeverEarly)
  <2>. SUFFICES ASSUME TypeInv, PlaceInv, JoinInv, NEW j \in Outstanding, Joining(graph, j.node)
                PROVE  Arrived(graph, j.node, Done, decided)
    BY DEF JoinsHold, JoinNeverEarly
  <2>1. j \in Mailed \/ \E w \in Workers : Busy(worker[w]) /\ j = worker[w].job
    BY OutstandingIs
  <2>2. j \in Job /\ j.nth \in 1..published[j.node]
    <3>1. CASE j \in Mailed
      BY <3>1 DEF TypeInv, TypeOK, Mailed, PlaceInv, Numbered
    <3>2. CASE \E w \in Workers : Busy(worker[w]) /\ j = worker[w].job
      BY <3>2 DEF TypeInv, HoldsAJob, PlaceInv, Placed, Busy
    <3>. QED  BY <2>1, <3>1, <3>2
  <2>3. j.node \in Nodes /\ published[j.node] \in Nat
    BY <2>2 DEF Job, TypeInv, TypeOK
  <2>. QED  BY <2>2, <2>3 DEF JoinInv
<1>. QED  BY <1>1, TypesHold, PlacesHold, JoinsWait, PTL

-----------------------------------------------------------------------------
(***************************************************************************)
(* The fleet implements the promise, but for two races: a worker that is    *)
(* under way when the run fails may write its rows afterwards, and one that *)
(* ends the run may read the rows between a step's transaction and that of  *)
(* the decisions behind it.  Where neither happens (the two hypotheses),    *)
(* every step of the fleet is a step of the abstract run.                   *)
(***************************************************************************)
NothingAfterFailure == status = "FAILED" => UNCHANGED <<status, committed, decided>>

\* Every branch that a path has come to has its verdict's row.
ChoicesAreMade ==
  \A e \in graph.edges :
    e.dst \in graph.branches /\ e.src \in Done /\ ~Refused(graph, e, decided)
      => decided[e.dst] # "none"

EndsOnChoices == \A w \in Workers : Finish(w) => ChoicesAreMade

\* Whoever is about to end the run, or has ended it, saw all done that the
\* decisions leave reachable.
EndsWell ==
  status = "SUCCEEDED" \/ (\E w \in Workers : worker[w].pc = "succeed")
    => Promise!Reachable(decided) \subseteq Done

LEMMA ReachableComesFrom ==
  ASSUME graph \in Graphs, NEW m \in Promise!Reachable(decided), m # Entry(graph)
  PROVE  \E e \in Incoming(graph, m) : ~Refused(graph, e, decided) /\ e.src \in Promise!Reachable(decided)
<1>. DEFINE R == Promise!Reachable(decided)
<1>1. R \subseteq graph.nodes
  BY DEF Promise!Reachable
<1>. SUFFICES ASSUME \A e \in Incoming(graph, m) : ~(~Refused(graph, e, decided) /\ e.src \in R)
              PROVE  FALSE
  OBVIOUS
<1>. DEFINE S == R \ {m}
<1>2. Entry(graph) \in S
  BY EntryIsReachable
<1>3. \A e \in graph.edges : ~Refused(graph, e, decided) /\ e.src \in S => e.dst \in S
  BY ReachableGoesOn DEF Incoming
<1>4. S \in SUBSET graph.nodes
  BY <1>1
<1>5. m \in S
  <2>1. m \in Promise!Reachable(decided)
    OBVIOUS
  <2>. HIDE DEF R, S
  <2>. QED  BY <1>2, <1>3, <1>4, <2>1, SameGraph DEF Promise!Reachable, Promise!Passable
<1>. QED  BY <1>5

\* A node that has come into play is reachable.
LEMMA SupportedIsReachable ==
  ASSUME TypeInv, PlaceInv, SupportInv, PlainEntry(graph), NEW n, Supported(graph, n, Done, decided)
  PROVE  n \in Promise!Reachable(decided)
<1>1. graph \in Graphs
  BY DEF TypeInv, TypeOK
<1>2. CASE n = Entry(graph)
  BY <1>1, <1>2, EntryIsReachable
<1>3. CASE \E e \in Incoming(graph, n) : e.src \in Done /\ ~Refused(graph, e, decided)
  <2>1. PICK e \in Incoming(graph, n) : e.src \in Done /\ ~Refused(graph, e, decided)
    BY <1>3
  <2>2. e \in graph.edges /\ e.dst = n
    BY DEF Incoming
  <2>3. e.src \in Promise!Reachable(decided)
    BY <2>1, DoneIsReachable
  <2>. QED  BY <1>1, <2>1, <2>2, <2>3, ReachableGoesOn
<1>. QED  BY <1>2, <1>3 DEF Supported

LEMMA ReachableShrinks ==
  ASSUME Ordinary, [Next]_vars
  PROVE  Promise!Reachable(decided)' \subseteq Promise!Reachable(decided)
<1>1. graph' = graph /\ graph \in Graphs
  BY RowsStay DEF Ordinary, TypeInv, TypeOK
<1>2. \A e \in graph.edges : ~Refused(graph, e, decided') => ~Refused(graph, e, decided)
  BY EdgesStand
<1>. QED  BY <1>1, <1>2, SameGraph DEF Promise!Reachable, Promise!Passable

\* When the choices are made and nothing remains, all that is reachable is done.
LEMMA NothingRemainsReachable ==
  ASSUME Ordinary, SupportInv, LooksOver, ChoicesAreMade
  PROVE  Promise!Reachable(decided) \subseteq Done
<1>. DEFINE R == Promise!Reachable(decided)
            U == R \ Done
<1>1. graph \in Graphs /\ TypeInv /\ PlaceInv /\ PlainEntry(graph) /\ R \subseteq graph.nodes
  BY DEF Ordinary, TypeInv, TypeOK, Promise!Reachable
<1>. SUFFICES ASSUME U # {}  PROVE FALSE
  OBVIOUS
<1>. HIDE DEF R
<1>2. PICK m \in U : \A e \in Incoming(graph, m) : e.src \in graph.nodes \ U
  BY <1>1, FirstOfNodes
<1>3. m \in graph.nodes /\ m \in R /\ m \notin Done
  BY <1>1, <1>2
<1>4. m \notin Closed(graph, Done, decided)
  BY <1>1, <1>3, ClosedIsUnreachable DEF R
<1>5. Arrived(graph, m, Done, decided)
  <2>. SUFFICES ASSUME NEW e \in Incoming(graph, m), e.src \notin Done
                PROVE  e.src \in Closed(graph, Done, decided)
    BY DEF Arrived
  <2>1. e.src \in graph.nodes /\ e.src \notin R
    BY <1>2
  <2>. QED  BY <1>1, <2>1, UnreachableIsClosed DEF R
<1>6. CASE m \notin graph.branches
  BY <1>3, <1>4, <1>5, <1>6 DEF LooksOver, WorkRemains
<1>7. CASE m \in graph.branches
  <2>1. m # Entry(graph)
    BY <1>1, <1>7 DEF PlainEntry
  <2>2. PICK e \in Incoming(graph, m) : ~Refused(graph, e, decided) /\ e.src \in R
    BY <1>1, <1>3, <2>1, ReachableComesFrom DEF R
  <2>3. e.src \in Done /\ e \in graph.edges /\ e.dst = m
    BY <1>2, <2>2 DEF Incoming
  <2>4. decided[m] # "none" /\ m \in Nodes
    BY <1>1, <1>3, <1>7, <2>2, <2>3, GraphsAssumption DEF ChoicesAreMade
  <2>. QED  BY <1>3, <2>4 DEF Done
<1>. QED  BY <1>6, <1>7

LEMMA NextEndsWell ==
  ASSUME Ordinary, SupportInv, EndsWell, [Next]_vars, EndsOnChoices \/ UNCHANGED vars
  PROVE  EndsWell'
<1>. SUFFICES ASSUME status' = "SUCCEEDED" \/ \E w \in Workers : worker'[w].pc = "succeed"
              PROVE  Promise!Reachable(decided)' \subseteq Done'
  BY DEF EndsWell
<1>1. Promise!Reachable(decided)' \subseteq Promise!Reachable(decided) /\ Done \subseteq Done' /\ TypeInv
  BY ReachableShrinks, RowsStay DEF Ordinary
<1>2. Promise!Reachable(decided) \subseteq Done
  <2>1. CASE status = "SUCCEEDED" \/ \E w \in Workers : worker[w].pc = "succeed"
    BY <2>1 DEF EndsWell
  <2>2. ASSUME NEW w \in Workers, Finish(w), ~worker[w].sent, LooksOver
        PROVE  Promise!Reachable(decided) \subseteq Done
    <3>1. CASE EndsOnChoices
      BY <2>2, <3>1, NothingRemainsReachable DEF EndsOnChoices
    <3>2. CASE UNCHANGED vars
      BY <2>1, <3>2 DEF vars, runVars
    <3>. QED  BY <3>1, <3>2
  <2>. QED  BY <1>1, <2>1, <2>2, ComesToEnd
<1>. QED  BY <1>1, <1>2

-----------------------------------------------------------------------------
(* The steps of the fleet as steps of the promise.                            *)

\* Before the run is accepted there is no row, and after it there is.
Accepted == gateway # "new" => status # "NONE"

LEMMA AcceptedHolds == Spec => []Accepted
<1>1. Init => Accepted
  BY DEF Init, Accepted
<1>2. Accepted /\ [Next]_vars => Accepted'
  <2>1. ASSUME Accepted, NEW w \in Workers, Step(w) \/ Crash(w)
        PROVE  Accepted'
    BY <2>1 DEF Accepted, Step, Poll, Load, StepFails, CommitStep, StatusOnCommit, ResolveBranch,
                TooManyBranches, PlanFails, CommitVerdicts, ConsiderSuccessor, BindingFails,
                ClaimJoin, Publish, PublishRefused, Finish, Succeed, Crash, runVars, FailRun
  <2>2. ASSUME Accepted, AcceptRun \/ PublishEntry \/ Revoke \/ Restore \/ Resubmit \/ UNCHANGED vars
        PROVE  Accepted'
    BY <2>2 DEF Accepted, AcceptRun, PublishEntry, Revoke, Restore, Resubmit, vars, runVars
  <2>. QED  BY <2>1, <2>2 DEF Next
<1>. QED  BY <1>1, <1>2, PTL DEF Spec

\* The rows are of what was executed and of what was decided.
LEMMA DoneIs ==
  ASSUME TypeInv, PlaceInv
  PROVE  Done = {j.node : j \in committed} \cup Promise!Decided(decided)
<1>1. graph.branches \subseteq Nodes
  BY GraphsAssumption DEF TypeInv, TypeOK, ValidGraph, WellFormedEdges
<1>2. \A n \in Nodes : decided[n] # "none" => n \in graph.branches
  BY DEF PlaceInv, Numbered
<1>. QED  BY <1>1, <1>2 DEF Done, Promise!Decided

\* Which steps the abstract run may see.
LEMMA WhatShows ==
  ASSUME TypeInv, [Next]_vars
  PROVE  \/ UNCHANGED <<status, committed, decided>>
         \/ AcceptRun
         \/ \E w \in Workers : CommitStep(w) \/ CommitVerdicts(w) \/ Succeed(w)
         \/ FailRun /\ UNCHANGED <<committed, decided>>
<1>1. ASSUME NEW w \in Workers, Step(w) \/ Crash(w), ~CommitStep(w), ~CommitVerdicts(w), ~Succeed(w)
      PROVE  \/ UNCHANGED <<status, committed, decided>>
             \/ FailRun /\ UNCHANGED <<committed, decided>>
  BY <1>1 DEF Step, Poll, Load, StepFails, ResolveBranch, TooManyBranches, PlanFails,
              ConsiderSuccessor, BindingFails, ClaimJoin, Publish, PublishRefused, Finish, Crash,
              runVars, stepVars
<1>2. CASE PublishEntry \/ Revoke \/ Restore \/ Resubmit \/ UNCHANGED vars
  BY <1>2 DEF PublishEntry, Revoke, Restore, Resubmit, vars, runVars, stepVars
<1>. QED  BY <1>1, <1>2 DEF Next

\* A step that is recorded for the first time is the node's first.
LEMMA FirstRow ==
  ASSUME Ordinary, NEW w \in Workers, CommitStep(w), FirstWrite(w)
  PROVE  LET n == worker[w].job.node IN
         /\ n \in Nodes /\ n \in graph.nodes /\ n \notin graph.branches /\ published[n] > 0
         /\ n \notin Done
<1>. DEFINE j == worker[w].job
            n == worker[w].job.node
<1>1. j \in Job /\ n \in Nodes /\ j.nth \in 1..published[n]
  BY DEF Ordinary, CommitStep, TypeInv, HoldsAJob, PlaceInv, Placed, Job
<1>2. published[n] \in Nat /\ published[n] <= 1
  BY <1>1, OneJobEach DEF Ordinary
<1>3. n \notin graph.branches /\ n \in graph.nodes
  BY <1>1, <1>2, NoBranchRuns
<1>4. decided[n] = "none"
  BY <1>1, <1>3 DEF Ordinary, PlaceInv, Numbered
<1>5. ASSUME NEW k \in committed, k.node = n
      PROVE  FALSE
  <2>1. k \in Job /\ k.nth \in 1..published[k.node]
    BY DEF Ordinary, TypeInv, TypeOK, PlaceInv, Numbered
  <2>2. k.nth = j.nth
    BY <1>1, <1>2, <1>5, <2>1
  <2>3. k = j
    BY <1>1, <1>5, <2>1, <2>2 DEF Job
  <2>. QED  BY <2>3 DEF FirstWrite
<1>. QED  BY <1>1, <1>2, <1>3, <1>4, <1>5 DEF Done

\* A step that writes nothing, or a decision where none was taken.
LEMMA RowsRepeat ==
  ASSUME Ordinary, NEW w \in Workers
  PROVE  /\ CommitStep(w) /\ ~FirstWrite(w) => UNCHANGED <<status, committed, decided>>
         /\ CommitVerdicts(w) /\ worker[w].chosen = {} => UNCHANGED <<status, committed, decided>>
<1>1. CommitStep(w) /\ ~FirstWrite(w) => UNCHANGED <<status, committed, decided>>
  BY DEF CommitStep, FirstWrite, StatusOnCommit, VerdictOnCommit
<1>2. CommitVerdicts(w) /\ worker[w].chosen = {} => UNCHANGED <<status, committed, decided>>
  BY DEF CommitVerdicts, Ordinary, TypeInv, TypeOK
<1>. QED  BY <1>1, <1>2

\* After a success nothing new is recorded: what is still under way has been done.
LEMMA NothingAfterSuccess ==
  ASSUME Ordinary, SupportInv, EndsWell, [Next]_vars, status = "SUCCEEDED", NEW w \in Workers
  PROVE  /\ CommitStep(w) => ~FirstWrite(w)
         /\ CommitVerdicts(w) => worker[w].chosen = {}
<1>1. /\ Promise!Reachable(decided) \subseteq Done /\ graph \in Graphs /\ TypeInv /\ PlaceInv
      /\ PlainEntry(graph)
  BY DEF EndsWell, Ordinary, TypeInv, TypeOK
<1>2. ASSUME CommitStep(w), FirstWrite(w)  PROVE FALSE
  <2>. DEFINE n == worker[w].job.node
  <2>1. n \in Nodes /\ n \notin Done /\ Settled(n)
    BY <1>2, FirstRow DEF Settled
  <2>2. n \in Promise!Reachable(decided)
    BY <1>1, <2>1, SupportedIsReachable DEF SupportInv
  <2>. QED  BY <1>1, <2>1, <2>2
<1>3. ASSUME CommitVerdicts(w), NEW c \in worker[w].chosen  PROVE FALSE
  <2>1. worker[w].pc = "plan"
    BY <1>3 DEF CommitVerdicts
  <2>2. c[1] \in graph.nodes /\ c[1] \notin Done
    <3>1. c[1] \in graph.branches /\ ~Settled(c[1])
      BY <2>1, FirstVerdict
    <3>. QED  BY <1>1, <3>1, DoneIsSettled, GraphsAssumption DEF ValidGraph, WellFormedEdges
  <2>3. c[1] \notin Closed(graph, Done, decided)
    BY <2>1, DecidedAreOpen
  <2>4. c[1] \in Promise!Reachable(decided)
    BY <1>1, <2>2, <2>3, UnreachableIsClosed
  <2>. QED  BY <1>1, <2>2, <2>4
<1>. QED  BY <1>2, <1>3

\* The state in which the steps below are taken.
Standing ==
  Ordinary /\ SupportInv /\ JoinInv /\ Untouched /\ Accepted /\ EndsWell

\* A row is written for the first time while the run is open.
LEMMA WritesWhileOpen ==
  ASSUME Standing, NothingAfterFailure, [Next]_vars, NEW w \in Workers,
         \/ CommitStep(w) /\ FirstWrite(w)
         \/ CommitVerdicts(w) /\ decided' # decided
  PROVE  status \in {"PENDING", "RUNNING"}
<1>1. status \in Statuses
  BY DEF Standing, Ordinary, TypeInv, TypeOK
<1>2. status # "NONE"
  <2>1. worker[w].pc # "idle"
    BY DEF CommitStep, CommitVerdicts
  <2>. QED  BY <2>1 DEF Standing, Untouched, Accepted
<1>3. status # "SUCCEEDED"
  BY NothingAfterSuccess, RowsRepeat DEF Standing
<1>4. status # "FAILED"
  BY DEF NothingAfterFailure, CommitStep, FirstWrite
<1>. QED  BY <1>1, <1>2, <1>3, <1>4 DEF Statuses

\* What a node that runs is fed by has run: a join's paths are in or closed, and
\* what is closed is not reachable; another node came along its only edge.
LEMMA FedWhenRun ==
  ASSUME Standing, NEW n \in Nodes, published[n] > 0
  PROVE  /\ n \in Promise!Reachable(decided)
         /\ Promise!Fed(n)
<1>1. graph \in Graphs /\ TypeInv /\ PlaceInv /\ PlainEntry(graph) /\ SupportInv
  BY DEF Standing, Ordinary, TypeInv, TypeOK
<1>2. Supported(graph, n, Done, decided)
  BY DEF Standing, SupportInv, Settled
<1>3. n \in Promise!Reachable(decided)
  BY <1>1, <1>2, SupportedIsReachable
<1>4. ASSUME NEW e \in Incoming(graph, n), e.src \in Promise!Reachable(decided)
      PROVE  e.src \in Done
  <2>1. CASE Joining(graph, n)
    <3>1. e.src \in Done \/ e.src \in Closed(graph, Done, decided)
      BY <2>1 DEF Standing, JoinInv, Arrived
    <3>. QED  BY <1>1, <1>4, <3>1, ClosedIsUnreachable
  <2>2. CASE ~Joining(graph, n)
    <3>1. n # Entry(graph)
      BY <1>1, EntryOfGraph
    <3>2. PICK f \in Incoming(graph, n) : f.src \in Done
      BY <1>2, <3>1 DEF Supported
    <3>3. e = f
      BY <2>2 DEF Joining
    <3>. QED  BY <3>2, <3>3
  <2>. QED  BY <2>1, <2>2
<1>5. Promise!Incoming(graph, n) = Incoming(graph, n)
  BY DEF Promise!Incoming, Incoming
<1>. QED  BY <1>1, <1>3, <1>4, <1>5, DoneIs DEF Promise!Fed

LEMMA CommitStepKeeps ==
  ASSUME Standing, NothingAfterFailure, [Next]_vars, NEW w \in Workers, CommitStep(w)
  PROVE  [Promise!Next]_(Promise!vars)
<1>1. CASE ~FirstWrite(w)
  BY <1>1, RowsRepeat, RowsStay DEF Standing, Ordinary, Promise!vars
<1>2. CASE FirstWrite(w)
  <2>1. PICK n \in Nodes : n = worker[w].job.node /\ n \notin graph.branches /\ published[n] > 0 /\ n \notin Done
    BY <1>2, FirstRow DEF Standing
  <2>2. status \in {"PENDING", "RUNNING"}
    BY <1>2, WritesWhileOpen
  <2>3. OutcomeOf(status) = "open" /\ OutcomeOf(status') = "open"
    BY <1>2, <2>2 DEF OutcomeOf, CommitStep, StatusOnCommit
  <2>4. {j.node : j \in committed'} = {j.node : j \in committed} \cup {n}
    BY <2>1 DEF CommitStep
  <2>5. UNCHANGED <<graph, decided>>
    BY <2>1 DEF CommitStep, VerdictOnCommit
  <2>6. n \notin {j.node : j \in committed}
    BY <2>1 DEF Done
  <2>7. n \in Promise!Reachable(decided) /\ Promise!Fed(n)
    BY <2>1, FedWhenRun
  <2>8. Promise!Execute(n)
    BY <2>3, <2>4, <2>5, <2>6, <2>7 DEF Promise!Execute
  <2>. QED  BY <2>1, <2>8 DEF Promise!Next
<1>. QED  BY <1>1, <1>2

LEMMA CommitVerdictsKeeps ==
  ASSUME Standing, NothingAfterFailure, [Next]_vars, NEW w \in Workers, CommitVerdicts(w)
  PROVE  [Promise!Next]_(Promise!vars)
<1>1. UNCHANGED <<graph, status, committed>> /\ worker[w].pc = "plan"
  BY DEF CommitVerdicts
<1>2. CASE decided' = decided
  BY <1>1, <1>2 DEF Promise!vars
<1>3. CASE decided' # decided
  <2>1. OutcomeOf(status) = "open"
    BY <1>3, WritesWhileOpen DEF OutcomeOf
  <2>2. decided' \in [Nodes -> Verdicts \cup {"none"}]
    BY NextTypes DEF Standing, Ordinary, TypeInv, TypeOK
  <2>3. \A m \in Nodes : decided[m] # "none" => decided'[m] = decided[m]
    BY VerdictsStand DEF Standing, Settled
  <2>4. ASSUME NEW m \in Nodes, decided'[m] # "none"
        PROVE  m \in graph.branches
    <3>1. CASE decided'[m] = decided[m]
      BY <2>4, <3>1 DEF Standing, Ordinary, PlaceInv, Numbered
    <3>2. CASE decided'[m] # decided[m]
      BY <1>1, <3>2, VerdictsWritten, FirstVerdict DEF Standing
    <3>. QED  BY <3>1, <3>2
  <2>5. Done' \subseteq {j.node : j \in committed} \cup Promise!Decided(decided')
    BY <1>1, <2>4 DEF Done, Promise!Decided
  <2>6. ASSUME NEW b \in Promise!Decided(decided') \ Promise!Decided(decided)
        PROVE  \E e \in Promise!Incoming(graph, b) \cap Promise!Passable(decided') :
                 e.src \in {j.node : j \in committed} \cup Promise!Decided(decided')
    <3>1. b \in graph.branches /\ decided'[b] # "none" /\ decided[b] = "none" /\ b \in Nodes
      BY GraphsAssumption DEF Promise!Decided, Standing, Ordinary, TypeInv, TypeOK, ValidGraph,
                              WellFormedEdges
    <3>2. PICK c \in worker[w].chosen : c[1] = b
      BY <3>1, VerdictsWritten DEF Standing
    <3>3. Supported(graph, b, Done', decided')
      BY <3>2, VerdictsSupport DEF Standing
    <3>4. b # Entry(graph)
      BY <3>1 DEF Standing, Ordinary, PlainEntry
    <3>5. PICK e \in Incoming(graph, b) : e.src \in Done' /\ ~Refused(graph, e, decided')
      BY <3>3, <3>4 DEF Supported
    <3>6. e \in Promise!Incoming(graph, b) /\ e \in Promise!Passable(decided')
      BY <3>5, SameGraph DEF Promise!Passable, Promise!Incoming, Incoming
    <3>. QED  BY <2>5, <3>5, <3>6
  <2>7. Promise!Verdicts = Verdicts
    BY DEF Promise!Verdicts, Verdicts
  <2>8. Promise!Decide
    BY <1>1, <2>1, <2>2, <2>3, <2>6, <2>7 DEF Promise!Decide
  <2>. QED  BY <2>8 DEF Promise!Next
<1>. QED  BY <1>2, <1>3

\* Where a terminal status is kept the promise stutters.
LEMMA SucceedKeeps ==
  ASSUME Standing, NEW w \in Workers, Succeed(w)
  PROVE  [Promise!Next]_(Promise!vars)
<1>1. UNCHANGED <<graph, committed, decided>>
  BY DEF Succeed, stepVars
<1>2. CASE status \in Terminal
  BY <1>1, <1>2 DEF Succeed, Promise!vars
<1>3. CASE status \notin Terminal
  <2>1. worker[w].pc = "succeed" /\ status' = "SUCCEEDED"
    BY <1>3 DEF Succeed
  <2>2. status \in {"PENDING", "RUNNING"}
    BY <1>3, <2>1 DEF Standing, Ordinary, TypeInv, TypeOK, Statuses, Terminal, Untouched, Accepted
  <2>3. OutcomeOf(status) = "open" /\ OutcomeOf(status') = "succeeded"
    BY <2>1, <2>2 DEF OutcomeOf
  <2>4. Promise!AllDone
    BY <2>1, DoneIs DEF Standing, Ordinary, EndsWell, Promise!AllDone
  <2>5. Promise!Succeed
    BY <1>1, <2>3, <2>4 DEF Promise!Succeed
  <2>. QED  BY <2>5 DEF Promise!Next
<1>. QED  BY <1>2, <1>3

LEMMA FailureKeeps ==
  ASSUME status \in Statuses, status # "NONE", FailRun, UNCHANGED <<graph, committed, decided>>
  PROVE  [Promise!Next]_(Promise!vars)
<1>1. CASE status \in Terminal
  BY <1>1 DEF FailRun, Promise!vars
<1>2. CASE status \notin Terminal
  <2>1. OutcomeOf(status) = "open" /\ OutcomeOf(status') = "failed"
    BY <1>2 DEF OutcomeOf, FailRun, Terminal, Statuses
  <2>2. Promise!Fail
    BY <2>1 DEF Promise!Fail
  <2>. QED  BY <2>2 DEF Promise!Next
<1>. QED  BY <1>1, <1>2

LEMMA AcceptKeeps ==
  ASSUME Untouched, AcceptRun
  PROVE  Promise!Next
<1>1. OutcomeOf(status) = "not accepted" /\ OutcomeOf(status') = "open"
  BY DEF Untouched, AcceptRun, OutcomeOf
<1>2. Promise!Accept
  BY <1>1 DEF AcceptRun, stepVars, Promise!Accept
<1>. QED  BY <1>2 DEF Promise!Next

\* The run fails only once it has been accepted.
LEMMA FailsWhenAccepted ==
  ASSUME Untouched, Accepted, [Next]_vars, FailRun,
         UNCHANGED <<committed, decided>>, status' # status
  PROVE  status # "NONE" \/ AcceptRun
BY DEF Untouched, Accepted, Next, Step, PublishEntry, Poll, Load, StepFails, CommitStep,
       ResolveBranch, TooManyBranches, PlanFails, CommitVerdicts, ConsiderSuccessor,
       BindingFails, ClaimJoin, Publish, PublishRefused, Finish, Succeed, Crash, Revoke,
       Restore, Resubmit, vars, runVars

LEMMA StepKeeps ==
  ASSUME Standing, NothingAfterFailure, [Next]_vars
  PROVE  [Promise!Next]_(Promise!vars)
<1>1. TypeInv /\ graph' = graph /\ status \in Statuses
  BY RowsStay DEF Standing, Ordinary, TypeInv, TypeOK
<1>2. CASE UNCHANGED <<status, committed, decided>>
  BY <1>1, <1>2 DEF Promise!vars
<1>3. CASE AcceptRun
  BY <1>3, AcceptKeeps DEF Standing
<1>4. ASSUME NEW w \in Workers, CommitStep(w) \/ CommitVerdicts(w) \/ Succeed(w)
      PROVE  [Promise!Next]_(Promise!vars)
  BY <1>4, CommitStepKeeps, CommitVerdictsKeeps, SucceedKeeps
<1>5. CASE FailRun /\ UNCHANGED <<committed, decided>> /\ status' # status
  BY <1>1, <1>3, <1>5, FailsWhenAccepted, FailureKeeps DEF Standing
<1>. QED  BY <1>1, <1>2, <1>3, <1>4, <1>5, WhatShows

LEMMA InitKeeps == Init => Promise!Init
BY DEF Init, Promise!Init, OutcomeOf

\* What holds of an ordinary run, as one invariant of the specification.
Plainly == NoDuplicates /\ NothingMeets(graph) /\ PlainEntry(graph)

\* The fleet implements the abstract run, where no parked job is put back twice,
\* no branch is the entry or reached by two edges, nothing is written once the
\* run has failed, and nobody ends it between a step's transaction and that of
\* the decisions behind it.
THEOREM FleetKeepsPromise ==
  Spec /\ []Plainly /\ [][NothingAfterFailure]_vars /\ [][EndsOnChoices]_vars => KeepsPromise
<1>1. Init => Promise!Init /\ EndsWell
  <2>1. Init => EndsWell
    BY DEF Init, EndsWell, IdleWorker
  <2>. QED  BY <2>1, InitKeeps
<1>2. TypeInv /\ PlaceInv /\ ClaimInv /\ OnceInv /\ SupportHolds /\ JoinsHold /\ Plainly
        => Ordinary /\ SupportInv /\ JoinInv
  BY DEF OnceInv, SupportHolds, JoinsHold, Plainly, Ordinary
<1>3. Ordinary /\ SupportInv /\ EndsWell /\ [Next]_vars /\ [EndsOnChoices]_vars => EndsWell'
  BY NextEndsWell
<1>4. Ordinary /\ SupportInv /\ JoinInv /\ Untouched /\ Accepted /\ EndsWell
        /\ [Next]_vars /\ [NothingAfterFailure]_vars => [Promise!Next]_(Promise!vars)
  <2>. SUFFICES ASSUME Standing, [Next]_vars, [NothingAfterFailure]_vars
                PROVE  [Promise!Next]_(Promise!vars)
    BY DEF Standing
  <2>1. CASE NothingAfterFailure
    BY <2>1, StepKeeps
  <2>2. CASE UNCHANGED vars
    BY <2>2 DEF vars, runVars, stepVars, Promise!vars
  <2>. QED  BY <2>1, <2>2
<1>. QED  BY <1>1, <1>2, <1>3, <1>4, TypesHold, PlacesHold, ClaimsHold, VisitsHold, EveryoneSupported,
             JoinsWait, UntouchedHolds, AcceptedHolds, PTL DEF Spec, KeepsPromise, Promise!Spec

\* Without branches every choice is made, so that only what is written after a
\* failure could break the promise.
THEOREM PlainGraphsKeepPromise ==
  Spec /\ [](NoDuplicates /\ graph.branches = {}) /\ [][NothingAfterFailure]_vars => KeepsPromise
<1>1. TypeInv /\ NoDuplicates /\ graph.branches = {} => Plainly /\ [EndsOnChoices]_vars
  BY DEF Plainly, NothingMeets, PlainEntry, EndsOnChoices, ChoicesAreMade
<1>. QED  BY <1>1, TypesHold, FleetKeepsPromise, PTL

=============================================================================
