---------------------------- MODULE Orchestrator ----------------------------
(***************************************************************************)
(* One run of a workflow, driven by a fleet of workers that share a queue  *)
(* and a database (services/orchestrator/runner.py, state_machine.py).     *)
(*                                                                         *)
(* A worker holds nothing between jobs.  Every decision it takes while it  *)
(* handles one is read from committed rows, and between any two of its     *)
(* reads and transactions the other workers may move: each action below is *)
(* one read, one transaction or one broker call of the code.               *)
(*                                                                         *)
(* Node outputs are abstracted away: an executor succeeds or fails, a      *)
(* branch decides either way, a binding resolves or does not.              *)
(***************************************************************************)
EXTENDS WorkflowGraphs, Naturals, Sequences, FiniteSets

CONSTANTS
  Workers,            \* worker processes (docker-compose.yml runs two)
  Nodes,              \* every node of every graph
  NoNode,             \* none of them
  Graphs,             \* the saved graphs a run may be started with
  MaxSteps,           \* settings.max_steps_per_run
  MaxInlineBranches,  \* state_machine.MAX_INLINE_BRANCHES
  Budget              \* how often each mishap may happen: bounds the model

Mishaps == {"fault", "crash", "revoke", "resubmit"}

ASSUME WorkersAssumption == IsFiniteSet(Workers) /\ Workers # {}
ASSUME NodesAssumption   == NoNode \notin Nodes
ASSUME GraphsAssumption  ==
  \A g \in Graphs : g.nodes \subseteq Nodes /\ IsFiniteSet(g.nodes) /\ ValidGraph(g)
ASSUME LimitsAssumption  == MaxSteps \in Nat \ {0} /\ MaxInlineBranches \in Nat
ASSUME BudgetAssumption  == Budget \in [Mishaps -> Nat]

VARIABLES
  graph,       \* Run.graph_snapshot: fixed once the run is accepted
  gateway,     \* how far start_run has got
  status,      \* Run.status; "NONE" before the row exists
  result,      \* Run.result: the node whose output the run reports
  steps,       \* Run.steps_executed
  committed,   \* the step executions that have a state row
  decided,     \* the verdict in the state row of each branch
  claimed,     \* the nodes with a "dispatch:<node>" row in the ledger
  queue,       \* the work queue, oldest job first
  dead,        \* the jobs parked in dead_letters
  authorized,  \* the run's owner still holds the scopes its jobs declare
  worker,      \* what each worker process is in the middle of
  published,   \* history: how many jobs workers have created for each node
  spent        \* how often each mishap has happened

stepVars == <<steps, committed, decided, claimed>>
runVars  == <<status, result, stepVars>>
mailVars == <<queue, dead, published>>
vars == <<graph, gateway, runVars, mailVars, authorized, worker, spent>>

-----------------------------------------------------------------------------
(* Values. *)

Statuses == {"NONE", "PENDING", "RUNNING", "SUCCEEDED", "FAILED"}
Terminal == {"SUCCEEDED", "FAILED"}

\* A step_execution_id is fresh for every job a worker creates: the n-th job
\* created for a node is named by that number.
Job    == [node : Nodes, nth : Nat]
NoJob  == [node |-> NoNode, nth |-> 0]
Edge   == UNION {g.edges : g \in Graphs}

\* One successor being planned: the outgoing edge it starts from, the edge
\* reached so far, and how many branches were resolved on the way.
Path == [via : Edge, at : Edge, hops : 0..MaxInlineBranches]

Stages == {"idle", "load", "execute", "plan", "dispatch", "claim", "publish", "succeed"}

IdleWorker ==
  [pc |-> "idle", job |-> NoJob, paths |-> {}, chosen |-> {}, last |-> NoNode,
   target |-> NoNode, sent |-> FALSE]

Done == {j.node : j \in committed} \cup {n \in Nodes : decided[n] # "none"}

-----------------------------------------------------------------------------
(* Helpers shared by the actions of a worker. *)

Goto(w, pc) == worker' = [worker EXCEPT ![w].pc = pc]
GoIdle(w)   == worker' = [worker EXCEPT ![w] = IdleWorker]

Spend(mishap) ==
  /\ spent[mishap] < Budget[mishap]
  /\ spent' = [spent EXCEPT ![mishap] = @ + 1]

\* _fail: the guarded update, which leaves a terminal run as it is.
FailRun == status' = IF status \in Terminal THEN status ELSE "FAILED"

NewJob(n) == [node |-> n, nth |-> published[n] + 1]

\* build_payload and ProducerWrapper.publish, once the producer's check passed.
Enqueue(n) ==
  /\ queue' = Append(queue, NewJob(n))
  /\ published' = [published EXCEPT ![n] = @ + 1]
  /\ UNCHANGED dead

-----------------------------------------------------------------------------
(* The gateway: start_run. *)

\* The run row is committed first, PENDING, with the graph in it.
AcceptRun ==
  /\ gateway = "new"
  /\ gateway' = "accepted"
  /\ status' = "PENDING"
  /\ UNCHANGED <<graph, result, stepVars, mailVars, authorized, worker, spent>>

\* Then the entry job is published, or refused by the producer's check, in
\* which case the exception leaves the row as it is.
PublishEntry ==
  /\ gateway = "accepted"
  /\ gateway' = "started"
  /\ IF authorized THEN Enqueue(Entry(graph)) ELSE UNCHANGED mailVars
  /\ UNCHANGED <<graph, runVars, authorized, worker, spent>>

-----------------------------------------------------------------------------
(* A worker takes a job. *)

\* (slip) a refused message is dropped
ParkNothing(j) == UNCHANGED dead

\* DeadLetterSink.park: the record that a refused message can be put back from.
Park(j) == dead' = dead \cup {j}

\* ConsumerWrapper.next: the pop removes the message; the runtime check decides
\* between handing it to the worker and parking it.
Poll(w) ==
  /\ worker[w].pc = "idle"
  /\ queue # <<>>
  /\ queue' = Tail(queue)
  /\ IF authorized
       THEN /\ worker' = [worker EXCEPT ![w].pc = "load", ![w].job = Head(queue)]
            /\ UNCHANGED dead
       ELSE /\ Park(Head(queue))
            /\ UNCHANGED worker
  /\ UNCHANGED <<graph, gateway, runVars, published, authorized, spent>>

\* (slip) one step more
PastLimit == steps > MaxSteps

AtLimit == steps >= MaxSteps

\* _process reads the run row once: a finished run is left alone, a run at its
\* limit is failed, and otherwise the node's executor is started.
Load(w) ==
  /\ worker[w].pc = "load"
  /\ \/ /\ status \in Terminal
        /\ GoIdle(w)
        /\ UNCHANGED status
     \/ /\ status \notin Terminal
        /\ AtLimit
        /\ FailRun
        /\ GoIdle(w)
     \/ /\ status \notin Terminal
        /\ ~AtLimit
        /\ Goto(w, "execute")
        /\ UNCHANGED status
  /\ UNCHANGED <<graph, gateway, result, stepVars, mailVars, authorized, spent>>

\* The executor raised, whatever it raised.
StepFails(w) ==
  /\ worker[w].pc = "execute"
  /\ Spend("fault")
  /\ FailRun
  /\ GoIdle(w)
  /\ UNCHANGED <<graph, gateway, result, stepVars, mailVars, authorized>>

\* Whether this step execution has no state row yet.
FirstWrite(w) == worker[w].job \notin committed

\* (slip) a duplicate counts backwards
StepsTakenBack(w) == IF FirstWrite(w) THEN steps + 1 ELSE steps - 2

StatusOnCommit(w) == IF FirstWrite(w) THEN "RUNNING" ELSE status
StepsOnCommit(w)  == IF FirstWrite(w) THEN steps + 1 ELSE steps

\* A branch dispatched as a job (an entry node that is a branch) leaves its
\* verdict in the row like any other output.
VerdictOnCommit(w) ==
  LET n == worker[w].job.node IN
  \/ /\ n \in graph.branches /\ FirstWrite(w)
     /\ \E v \in Verdicts : decided' = [decided EXCEPT ![n] = v]
  \/ /\ n \notin graph.branches \/ ~FirstWrite(w)
     /\ UNCHANGED decided

\* One path per outgoing edge of the node just executed.
PathsFrom(n) == {[via |-> e, at |-> e, hops |-> 0] : e \in Outgoing(graph, n)}

\* The step's transaction: the state row and, when this call wrote it, the
\* progress counter and the status.  A duplicate writes nothing and goes on to
\* plan all the same.
CommitStep(w) ==
  /\ worker[w].pc = "execute"
  /\ committed' = committed \cup {worker[w].job}
  /\ status' = StatusOnCommit(w)
  /\ steps' = StepsOnCommit(w)
  /\ VerdictOnCommit(w)
  /\ LET n == worker[w].job.node IN
     worker' = [worker EXCEPT ![w].pc = "plan", ![w].paths = PathsFrom(n), ![w].last = n]
  /\ UNCHANGED <<graph, gateway, result, claimed, mailVars, authorized, spent>>

-----------------------------------------------------------------------------
(* A worker plans what follows (plan_next, _follow). *)

AtBranch(p) == p.at.dst \in graph.branches

\* One branch on the way to a successor: its verdict is noted for its row and
\* the path continues along the edge the verdict selects.  Its output is now the
\* last one the worker has recorded (RunContext.previous_output).
ResolveBranch(w) ==
  /\ worker[w].pc = "plan"
  /\ \E p \in worker[w].paths, v \in Verdicts :
       /\ AtBranch(p)
       /\ p.hops < MaxInlineBranches
       /\ worker' = [worker EXCEPT
            ![w].paths = (@ \ {p}) \cup
               {[p EXCEPT !.at = EdgeFor(graph, p.at.dst, v), !.hops = @ + 1]},
            ![w].chosen = {c \in @ : c[1] # p.at.dst} \cup {<<p.at.dst, v>>},
            ![w].last = p.at.dst]
  /\ UNCHANGED <<graph, gateway, runVars, mailVars, authorized, spent>>

\* A chain of branches longer than the bound.
TooManyBranches(w) ==
  /\ worker[w].pc = "plan"
  /\ \E p \in worker[w].paths : AtBranch(p) /\ p.hops = MaxInlineBranches
  /\ FailRun
  /\ GoIdle(w)
  /\ UNCHANGED <<graph, gateway, result, stepVars, mailVars, authorized, spent>>

\* A branch whose comparison cannot be evaluated.  None of the verdicts reached
\* so far is written.
PlanFails(w) ==
  /\ worker[w].pc = "plan"
  /\ \E p \in worker[w].paths : AtBranch(p)
  /\ Spend("fault")
  /\ FailRun
  /\ GoIdle(w)
  /\ UNCHANGED <<graph, gateway, result, stepVars, mailVars, authorized>>

\* The verdicts become state rows in a transaction of their own, after the
\* step's.
CommitVerdicts(w) ==
  /\ worker[w].pc = "plan"
  /\ \A p \in worker[w].paths : ~AtBranch(p)
  /\ decided' = [n \in Nodes |->
       IF \E v \in Verdicts : <<n, v>> \in worker[w].chosen
         THEN CHOOSE v \in Verdicts : <<n, v>> \in worker[w].chosen
         ELSE decided[n]]
  /\ Goto(w, "dispatch")
  /\ UNCHANGED <<graph, gateway, status, result, steps, committed, claimed, mailVars, authorized, spent>>

-----------------------------------------------------------------------------
(* A worker dispatches the successors, one after another (_dispatch). *)

\* Whether a join is ready is read from the rows as they are now.
MayStart(n) == JoinReady(graph, n, Done, decided)

ConsiderSuccessor(w) ==
  /\ worker[w].pc = "dispatch"
  /\ \E p \in worker[w].paths :
       LET n == p.at.dst IN
       worker' = [worker EXCEPT
         ![w].paths = @ \ {p},
         ![w].target = IF MayStart(n) THEN n ELSE NoNode,
         ![w].pc = IF ~MayStart(n) THEN "dispatch"
                   ELSE IF Joining(graph, n) THEN "claim" ELSE "publish"]
  /\ UNCHANGED <<graph, gateway, runVars, mailVars, authorized, spent>>

\* A binding of the successor does not resolve: the run is failed, and the
\* worker goes on with its other successors.
BindingFails(w) ==
  /\ worker[w].pc = "dispatch"
  /\ \E p \in worker[w].paths :
       /\ MayStart(p.at.dst)
       /\ worker' = [worker EXCEPT ![w].paths = @ \ {p}]
  /\ Spend("fault")
  /\ FailRun
  /\ UNCHANGED <<graph, gateway, result, stepVars, mailVars, authorized>>

\* (slip) the insert's answer is not looked at
AlwaysPublish(n) == n \in Nodes

MayPublish(n) == n \notin claimed

\* claim_dispatch: the first insert for this node of this run wins.
ClaimJoin(w) ==
  /\ worker[w].pc = "claim"
  /\ claimed' = claimed \cup {worker[w].target}
  /\ IF MayPublish(worker[w].target)
       THEN Goto(w, "publish")
       ELSE worker' = [worker EXCEPT ![w].pc = "dispatch", ![w].target = NoNode]
  /\ UNCHANGED <<graph, gateway, status, result, steps, committed, decided, mailVars, authorized, spent>>

Publish(w) ==
  /\ worker[w].pc = "publish"
  /\ authorized
  /\ Enqueue(worker[w].target)
  /\ worker' = [worker EXCEPT ![w].pc = "dispatch", ![w].target = NoNode, ![w].sent = TRUE]
  /\ UNCHANGED <<graph, gateway, runVars, authorized, spent>>

\* The producer's check refuses: the exception ends the worker's handling of
\* this job, leaving the claim in the ledger and the run as it is.
PublishRefused(w) ==
  /\ worker[w].pc = "publish"
  /\ ~authorized
  /\ GoIdle(w)
  /\ UNCHANGED <<graph, gateway, runVars, mailVars, authorized, spent>>

\* (slip) a path's end is the run's end
OverWithThisPath == TRUE

LooksOver == ~WorkRemains(graph, Done, decided)

\* Every successor considered.  A worker that started none asks whether
\* anything is still to come, and otherwise ends the run.
Finish(w) ==
  /\ worker[w].pc = "dispatch"
  /\ worker[w].paths = {}
  /\ IF ~worker[w].sent /\ LooksOver THEN Goto(w, "succeed") ELSE GoIdle(w)
  /\ UNCHANGED <<graph, gateway, runVars, mailVars, authorized, spent>>

\* _succeed: the guarded update.  The run reports the output that the first
\* worker to come here recorded last.
Succeed(w) ==
  /\ worker[w].pc = "succeed"
  /\ status' = IF status \in Terminal THEN status ELSE "SUCCEEDED"
  /\ result' = IF status \in Terminal THEN result ELSE worker[w].last
  /\ GoIdle(w)
  /\ UNCHANGED <<graph, gateway, stepVars, mailVars, authorized, spent>>

-----------------------------------------------------------------------------
(* What goes wrong around the workers. *)

\* A worker process dies with the job it popped.
Crash(w) ==
  /\ worker[w].pc # "idle"
  /\ Spend("crash")
  /\ GoIdle(w)
  /\ UNCHANGED <<graph, gateway, runVars, mailVars, authorized>>

\* The owner's scopes are withdrawn, and may be granted again.
Revoke ==
  /\ authorized
  /\ Spend("revoke")
  /\ authorized' = FALSE
  /\ UNCHANGED <<graph, gateway, runVars, mailVars, worker>>

Restore ==
  /\ ~authorized
  /\ authorized' = TRUE
  /\ UNCHANGED <<graph, gateway, runVars, mailVars, worker, spent>>

\* An operator puts a parked job back; its record stays and can be used again.
Resubmit ==
  /\ \E j \in dead : queue' = Append(queue, j)
  /\ Spend("resubmit")
  /\ UNCHANGED <<graph, gateway, runVars, dead, published, authorized, worker>>

-----------------------------------------------------------------------------
Init ==
  /\ graph \in Graphs
  /\ gateway = "new"
  /\ status = "NONE"
  /\ result = NoNode
  /\ steps = 0
  /\ committed = {}
  /\ decided = [n \in Nodes |-> "none"]
  /\ claimed = {}
  /\ queue = <<>>
  /\ dead = {}
  /\ authorized = TRUE
  /\ worker = [w \in Workers |-> IdleWorker]
  /\ published = [n \in Nodes |-> 0]
  /\ spent = [m \in Mishaps |-> 0]

Step(w) ==
  \/ Poll(w) \/ Load(w) \/ StepFails(w) \/ CommitStep(w)
  \/ ResolveBranch(w) \/ TooManyBranches(w) \/ PlanFails(w) \/ CommitVerdicts(w)
  \/ ConsiderSuccessor(w) \/ BindingFails(w) \/ ClaimJoin(w)
  \/ Publish(w) \/ PublishRefused(w) \/ Finish(w) \/ Succeed(w)

Next ==
  \/ AcceptRun \/ PublishEntry
  \/ \E w \in Workers : Step(w) \/ Crash(w)
  \/ Revoke \/ Restore \/ Resubmit

Spec == Init /\ [][Next]_vars

\* The gateway's request runs to its end, and a worker's loop never stops: it
\* polls for ever and catches what a step lets through.
Fairness ==
  /\ WF_vars(AcceptRun)
  /\ WF_vars(PublishEntry)
  /\ \A w \in Workers : WF_vars(Step(w))

FairSpec == Spec /\ Fairness

=============================================================================
