----------------------- MODULE OrchestratorProperties -----------------------
(* What the orchestrator must keep true; see Orchestrator for the model. *)
EXTENDS Orchestrator

\* Types of all the state, the history variables included.
WorkerType ==
  [pc : Stages, job : Job \cup {NoJob}, paths : SUBSET Path,
   chosen : SUBSET (Nodes \X Verdicts), last : Nodes \cup {NoNode}, target : Nodes \cup {NoNode}, sent : BOOLEAN]

TypeOK ==
  /\ graph \in Graphs
  /\ gateway \in {"new", "accepted", "started"}
  /\ status \in Statuses
  /\ result \in Nodes \cup {NoNode}
  /\ steps \in Nat
  /\ committed \subseteq Job
  /\ decided \in [Nodes -> Verdicts \cup {"none"}]
  /\ claimed \subseteq Nodes
  /\ queue \in Seq(Job)
  /\ dead \subseteq Job
  /\ authorized \in BOOLEAN
  /\ worker \in [Workers -> WorkerType]
  /\ published \in [Nodes -> Nat]
  /\ spent \in [Mishaps -> Nat]

-----------------------------------------------------------------------------
(* Safety. *)

\* Two workers that finish the last two paths into a join both find it ready;
\* the claim lets one of them create its job, whatever crashes, is refused or is
\* delivered again (claim_dispatch; "A join is dispatched exactly once").
JoinDispatchedOnce ==
  \A n \in graph.nodes : Joining(graph, n) => published[n] <= 1

\* The step limit is read before a step runs and counted after it, so workers
\* that read together may pass it together, all but one of them by a step.
StepLimit == steps < MaxSteps + Cardinality(Workers)

\* A parked job put back once is delivered once; put back more often it is a
\* duplicate delivery, against which only the state row of its own step guards.
NoDuplicates == spent["resubmit"] <= 1

\* No node is executed to the end under two step executions.
RunsAtMostOnce ==
  NoDuplicates => \A j, k \in committed : j.node = k.node => j = k

\* Whoever holds a join's job, its inbound paths have all come in or been
\* closed: nothing that happens after the check takes that back.
Outstanding ==
  {queue[i] : i \in DOMAIN queue} \cup dead
    \cup {worker[w].job : w \in {v \in Workers : worker[v].pc \in {"load", "execute"}}}

JoinNeverEarly ==
  NoDuplicates =>
    \A j \in Outstanding : Joining(graph, j.node) => Arrived(graph, j.node, Done, decided)

\* Nothing has failed the run so far: a failed run may be reopened by a step that
\* was under way (see TerminalIsFinal) after other workers have dropped its jobs.
NeverFailed == spent["fault"] = 0 /\ steps < MaxSteps /\ graph.branches = {}

\* As long as no worker dies, a job created for an open run has left its row or
\* can still be taken up: the pop destroys the message, but a refused job is
\* parked, and a worker keeps the others until their rows are written.  With
\* duplicates a job may be lost: what they dispatch a second time reopens a run
\* that had succeeded, after other workers have dropped its jobs.
NothingLost ==
  spent["crash"] = 0 /\ NoDuplicates /\ NeverFailed /\ status \notin Terminal =>
    \A n \in Nodes : \A i \in 1..published[n] :
      [node |-> n, nth |-> i] \in committed \cup Outstanding

\* A run without branches that ended well has executed all of its graph: a path
\* that ended first did not take the others for finished ("The run ends when
\* the last path ends, not the first").
SuccessIsComplete ==
  status = "SUCCEEDED" /\ graph.branches = {} => graph.nodes \subseteq Done

\* ... and stays that way: no worker still holds a step that could reopen it.
SuccessIsFinal ==
  [][status = "SUCCEEDED" /\ graph.branches = {} /\ NoDuplicates
       => status' = "SUCCEEDED"]_vars

\* A terminal status is never left ("a late duplicate cannot re-open or
\* overwrite a run that already reached a terminal status").
TerminalIsFinal == [][(status \in Terminal) => status' = status]_vars

\* A run that ended well left nothing to run: what the decisions keep reachable
\* has been executed, with branches or without.
OutcomeOf(s) ==
  CASE s = "NONE"      -> "not accepted"
    [] s = "SUCCEEDED" -> "succeeded"
    [] s = "FAILED"    -> "failed"
    [] OTHER           -> "open"

Promise == INSTANCE RunPromise WITH
  outcome <- OutcomeOf(status),
  done    <- {j.node : j \in committed},
  verdict <- decided

\* The orchestrator's test for closed paths, a recursion over the rows that
\* stops at the first node that has run, finds exactly the nodes that no
\* passable path reaches any more.
ClosedMeansUnreachable ==
  Closed(graph, Done, decided) = graph.nodes \ Promise!Reachable(decided)

\* Every step of the fleet is a step of the abstract run, or none of it.
KeepsPromise == Promise!Spec

-----------------------------------------------------------------------------
(* Liveness. *)

\* An accepted run comes to an end ("A run must never look stuck"): with the
\* graphs that do not let a decision close a path into a join after the other
\* paths have come in, because they have no choices, no joins or no parallel work.
NoLateChoice ==
  \/ graph.branches = {}
  \/ \A n \in graph.nodes : ~Joining(graph, n)
  \/ \A n \in graph.nodes \ graph.branches : Cardinality(Outgoing(graph, n)) <= 1

EveryRunEnds == <>[](status \in Terminal)
RunEnds      == NoLateChoice => EveryRunEnds

\* With nothing going wrong it ends well: of the workers that finish the paths
\* into a join, one starts it, and of the workers that run out of successors,
\* one ends the run.
RunSucceeds == NoLateChoice => <>[](status = "SUCCEEDED")

=============================================================================
