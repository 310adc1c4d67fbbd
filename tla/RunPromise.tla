----------------------------- MODULE RunPromise -----------------------------
(***************************************************************************)
(* What a run promises the person who started it, with no queue, no        *)
(* workers and no ledger: every node the decisions leave reachable is      *)
(* executed once, after everything that feeds it; the run succeeds when    *)
(* all of them have been, or fails; and then nothing about it changes.     *)
(*                                                                         *)
(* Reachability is defined here on its own terms, not by the orchestrator's *)
(* test for closed paths.                                                  *)
(***************************************************************************)
EXTENDS WorkflowGraphs

CONSTANTS Nodes, Graphs

VARIABLES graph, outcome, done, verdict

vars == <<graph, outcome, done, verdict>>

TypeOK ==
  /\ graph \in Graphs
  /\ outcome \in {"not accepted", "open", "succeeded", "failed"}
  /\ done \subseteq Nodes
  /\ verdict \in [Nodes -> Verdicts \cup {"none"}]

-----------------------------------------------------------------------------
\* A path goes through an edge unless the branch it leaves went the other way.
Passable(v) == {e \in graph.edges : ~Refused(graph, e, v)}

\* The least set that holds the entry and is closed under passable edges.
Reachable(v) ==
  LET closedUnder(S) == \A e \in Passable(v) : e.src \in S => e.dst \in S
  IN  {n \in graph.nodes :
         \A S \in SUBSET graph.nodes : Entry(graph) \in S /\ closedUnder(S) => n \in S}

Decided(v) == {b \in graph.branches : v[b] # "none"}

\* Everything that can still feed the node has run or been decided.
Fed(n) ==
  \A e \in Incoming(graph, n) :
    e \in Passable(verdict) /\ e.src \in Reachable(verdict)
      => e.src \in done \cup Decided(verdict)

AllDone == Reachable(verdict) \subseteq done \cup Decided(verdict)

-----------------------------------------------------------------------------
Accept ==
  /\ outcome = "not accepted"
  /\ outcome' = "open"
  /\ UNCHANGED <<graph, done, verdict>>

Execute(n) ==
  /\ outcome = "open"
  /\ n \in Reachable(verdict) \ done
  /\ Fed(n)
  /\ done' = done \cup {n}
  /\ UNCHANGED <<graph, outcome, verdict>>

\* Branches on the way to a successor are decided together, once each, when
\* something that leads to them has run.
Decide ==
  /\ outcome = "open"
  /\ verdict' \in [Nodes -> Verdicts \cup {"none"}]
  /\ \A n \in Nodes : verdict[n] # "none" => verdict'[n] = verdict[n]
  /\ \A b \in Decided(verdict') \ Decided(verdict) :
       \E e \in Incoming(graph, b) \cap Passable(verdict') :
         e.src \in done \cup Decided(verdict')
  /\ UNCHANGED <<graph, outcome, done>>

Succeed ==
  /\ outcome = "open"
  /\ AllDone
  /\ outcome' = "succeeded"
  /\ UNCHANGED <<graph, done, verdict>>

Fail ==
  /\ outcome = "open"
  /\ outcome' = "failed"
  /\ UNCHANGED <<graph, done, verdict>>

Init ==
  /\ graph \in Graphs
  /\ outcome = "not accepted"
  /\ done = {}
  /\ verdict = [n \in Nodes |-> "none"]

Next ==
  \/ Accept \/ Decide \/ Succeed \/ Fail
  \/ \E n \in Nodes : Execute(n)

Spec == Init /\ [][Next]_vars

=============================================================================
