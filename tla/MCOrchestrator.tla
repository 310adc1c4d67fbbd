--------------------------- MODULE MCOrchestrator ---------------------------
(* Graphs and constants for the runs of Orchestrator, and what they check. *)
EXTENDS OrchestratorProperties, TLC

plain(s, d)   == [src |-> s, dst |-> d, cond |-> "none"]
when(b, v, d) == [src |-> b, dst |-> d, cond |-> v]

\* Every graph on the nodes 1..k, up to the names of its nodes: numbered so that
\* edges go upwards, each node a plain one with any set of successors or a
\* branch with two different ones, and every node but the first reached by an
\* edge.
Above(n, k) == n + 1 .. k

Fans(n, k) == {{plain(n, d) : d \in D} : D \in SUBSET Above(n, k)}
Choices(n, k) ==
  {{when(n, "true", d[1]), when(n, "false", d[2])} :
     d \in {p \in Above(n, k) \X Above(n, k) : p[1] # p[2]}}

GraphOf(out, k) ==
  LET edges == UNION {out[n] : n \in 1..k} IN
  [nodes    |-> 1..k,
   branches |-> {n \in 1..k : \E e \in out[n] : e.cond # "none"},
   edges    |-> edges]

Rooted(g) == \A n \in g.nodes \ {1} : Incoming(g, n) # {}

\* Five nodes, plain or branching: one factor for the successors of each node.
ShapesOfFive ==
  {g \in {GraphOf(<<o1, o2, o3, o4, {}>>, 5) :
            o1 \in Fans(1, 5) \cup Choices(1, 5),
            o2 \in Fans(2, 5) \cup Choices(2, 5),
            o3 \in Fans(3, 5) \cup Choices(3, 5),
            o4 \in Fans(4, 5)} : Rooted(g)}

\* A branch is reached once: it is not the entry, and one edge leads to it.
ReachedOnce(g) == \A b \in g.branches : Cardinality(Incoming(g, b)) = 1

\* The diamond and the fork of tests/test_parallel.py.
Diamond == [nodes |-> 1..4, branches |-> {},
  edges |-> {plain(1, 2), plain(1, 3), plain(2, 4), plain(3, 4)}]
Forked == [nodes |-> 1..5, branches |-> {},
  edges |-> {plain(1, 2), plain(1, 3), plain(2, 4), plain(3, 5)}]

\* A choice whose two sides meet again: one inbound path of the join is closed.
Choice == [nodes |-> 1..5, branches |-> {2},
  edges |-> {plain(1, 2), when(2, "true", 3), when(2, "false", 4), plain(3, 5), plain(4, 5)}]

\* Two chained choices, the second reached only from one side of the first.
Chained == [nodes |-> 1..5, branches |-> {2, 3},
  edges |-> {plain(1, 2), when(2, "true", 3), when(2, "false", 5),
             when(3, "true", 4), when(3, "false", 5)}]

\* Independent work beside a choice; nothing joins.
ForkedChoice == [nodes |-> 1..6, branches |-> {4},
  edges |-> {plain(1, 2), plain(1, 3), plain(3, 4), when(4, "true", 5), when(4, "false", 6)}]

\* A join fed by plain work and by one side of a choice made beside it.
LateChoice == [nodes |-> 1..6, branches |-> {4},
  edges |-> {plain(1, 2), plain(1, 3), plain(3, 4), plain(2, 5),
             when(4, "true", 5), when(4, "false", 6)}]

\* A branch as the entry node.
BranchEntry == [nodes |-> 1..4, branches |-> {1},
  edges |-> {when(1, "true", 2), when(1, "false", 3), plain(2, 4), plain(3, 4)}]

SingleGraphs == {g \in ShapesOfFive : ReachedOnce(g)} \cup {ForkedChoice, LateChoice}
PairGraphs   == {g \in ShapesOfFive : g.branches = {} /\ Cardinality(g.edges) <= 5}
                  \cup {Choice, Chained}
FleetGraphs  == {Diamond, Forked, Choice, Chained, ForkedChoice, BranchEntry}
ForkedOnly   == {Forked}
AllNodes     == 1..6

\* At most f failed steps, c crashes, r revocations and s resubmissions.
upTo(f, c, r, s) ==
  ("fault" :> f) @@ ("crash" :> c) @@ ("revoke" :> r) @@ ("resubmit" :> s)

FaultsOnly == upTo(1, 0, 0, 0)
Mishap     == upTo(1, 1, 1, 2)
NoMishap   == upTo(0, 0, 0, 0)

WorkerSymmetry == Permutations(Workers)

=============================================================================
