--------------------------- MODULE WorkflowGraphs ---------------------------
(***************************************************************************)
(* The saved workflow graph (packages/cwap_contracts/v4/graph.py) and the  *)
(* questions the orchestrator asks of it.  A graph is a record             *)
(*                                                                         *)
(*    [nodes, branches, edges]                                             *)
(*                                                                         *)
(* where branches is the subset of nodes of type BRANCH and an edge is     *)
(* [src, dst, cond]; cond is "none" on a plain edge and names the decision *)
(* that selects the edge when its source is a branch.                      *)
(*                                                                         *)
(* What has happened to a run is handed in as two arguments read from the  *)
(* state rows, as the code does it: done, the nodes that have a row, and   *)
(* decided, the verdict of each branch ("none" while it has none).         *)
(*                                                                         *)
(* A definition marked (slip), here and in the other modules, belongs to   *)
(* no specification: it is what a plausible mistake would make of the      *)
(* definition after it, kept to see that a property would notice.          *)
(***************************************************************************)
EXTENDS Naturals, FiniteSets

Verdicts == {"true", "false"}

Outgoing(g, n) == {e \in g.edges : e.src = n}
Incoming(g, n) == {e \in g.edges : e.dst = n}
Entries(g)     == {n \in g.nodes : Incoming(g, n) = {}}
Entry(g)       == CHOOSE n \in g.nodes : Incoming(g, n) = {}
EdgeFor(g, b, v) == CHOOSE e \in Outgoing(g, b) : e.cond = v

\* (slip) only from three inbound edges on is a node a join
JoiningFromThree(g, n) == Cardinality(Incoming(g, n)) > 2

\* More than one inbound edge: the node waits for all of them.
Joining(g, n) == \E e1, e2 \in Incoming(g, n) : e1 # e2

-----------------------------------------------------------------------------
(***************************************************************************)
(* What saving a graph checks (_validate_structure and its helpers).  The  *)
(* code finds cycles with Kahn's algorithm; here acyclicity is the fact    *)
(* that algorithm establishes: every nonempty set of nodes has a member    *)
(* with no edge from inside the set.                                       *)
(***************************************************************************)
WellFormedEdges(g) ==
  /\ g.branches \subseteq g.nodes
  /\ \A e \in g.edges : e.src \in g.nodes /\ e.dst \in g.nodes /\ e.src # e.dst
  /\ \A e, f \in g.edges : e.src = f.src /\ e.dst = f.dst => e = f

Acyclic(g) ==
  \A S \in SUBSET g.nodes :
    S # {} => \E n \in S : \A e \in Incoming(g, n) : e.src \notin S

BranchesChoose(g) ==
  \A b \in g.branches :
    /\ \A v \in Verdicts : \E e \in Outgoing(g, b) : e.cond = v
    /\ \A e \in Outgoing(g, b) : e.cond \in Verdicts
    /\ \A e, f \in Outgoing(g, b) : e.cond = f.cond => e = f

ValidGraph(g) ==
  /\ g.nodes # {}
  /\ WellFormedEdges(g)
  /\ Cardinality(Entries(g)) = 1
  /\ Acyclic(g)
  /\ BranchesChoose(g)

-----------------------------------------------------------------------------
(***************************************************************************)
(* _is_closed: a node can never run when each of its inbound edges either  *)
(* leaves a branch that decided the other way, or leaves a node that has   *)
(* no row and is itself closed.                                            *)
(***************************************************************************)
Refused(g, e, decided) ==
  /\ e.src \in g.branches
  /\ e.cond \in Verdicts
  /\ decided[e.src] \in Verdicts \ {e.cond}

\* (slip) one closed path is enough to close the node
ClosedByOnePath(g, done, decided) ==
  {n \in g.nodes : \E e \in Incoming(g, n) : Refused(g, e, decided)}

Closed(g, done, decided) ==
  LET closed[n \in g.nodes] ==
        /\ Incoming(g, n) # {}
        /\ \A e \in Incoming(g, n) :
             \/ Refused(g, e, decided)
             \/ e.src \notin done /\ closed[e.src]
  IN  {n \in g.nodes : closed[n]}

Arrived(g, n, done, decided) ==
  \A e \in Incoming(g, n) : e.src \in done \/ e.src \in Closed(g, done, decided)

\* (slip) the first path to arrive opens the join
ReadyOnFirst(g, n, done, decided) == \E e \in Incoming(g, n) : e.src \in done

\* (slip) a closed path is waited for
ReadyWhenAllRan(g, n, done, decided) == \A e \in Incoming(g, n) : e.src \in done

\* _join_ready: a node with one inbound edge is ready by being reached.
JoinReady(g, n, done, decided) ==
  Joining(g, n) => Arrived(g, n, done, decided)

\* (slip) nodes on a path not taken count as work
RemainsOnClosedPaths(g, done, decided) ==
  \E n \in g.nodes \ (done \cup g.branches) : Arrived(g, n, done, decided)

\* _work_remains: some node that is no branch has all its paths in, and no row.
WorkRemains(g, done, decided) ==
  \E n \in g.nodes \ (done \cup g.branches \cup Closed(g, done, decided)) :
    Arrived(g, n, done, decided)

=============================================================================
