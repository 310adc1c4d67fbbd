--------------------------- MODULE AgentProperties ---------------------------
(* What agents and their memory must keep true; see AgentLoop and Memory. *)
EXTENDS AgentLoop

\* The same lesson is not stored again on every run: of the copies of one lesson
\* no two are from one process, so that there are never more of them than there
\* are processes whose lookups can have overlapped (remember, _find_duplicate;
\* "an agent that learns the same lesson on every run").
OneCopyEach ==
  \A i, j \in DOMAIN memories :
    memories[i].lesson = memories[j].lesson /\ memories[i].by = memories[j].by => i = j

\* A scope outgrows its capacity only by rows whose own pruning is under way,
\* however the transactions of several prunings interleave (_prune_if_needed).
Growing(s) == {c \in Clients : memo[c].pc \in {"stored", "pruning"} /\ memo[c].lesson.scope = s}
CapacityHolds == \A s \in Scopes : Excess(s) <= Cardinality(Growing(s))

\* Usefulness is never more than what outcomes added to a new memory's, nor less
\* than what they took from it, though updates that meet are lost (remember,
\* reinforce).
TrustIsEarned ==
  \A i \in DOMAIN memories :
    /\ memories[i].use <= Fresh + memories[i].up
    /\ memories[i].use >= Fresh - memories[i].down

\* An approved text is the one the reviewer has seen last; without approval all
\* rounds were used and the revision after the last of them stands (run_loop;
\* "the run report says the loop ended unapproved rather than pretending").
VerdictFits ==
  \A w \in Clients : At(w, "over") =>
    /\ step[w].outcome = "approved" => step[w].judged = step[w].draft
    /\ step[w].outcome = "unapproved" =>
         /\ step[w].round = MaxRounds
         /\ step[w].draft = MaxRounds + 1 /\ step[w].judged = MaxRounds

\* What a step may cost is known before it starts: the turns of the draft and of
\* two agents a round, each with one closing question ("at most max_rounds extra
\* pairs of calls", max_iterations).
CostIsKnown ==
  \A w \in Clients : step[w].asked <= (MaxIterations + 1) * (1 + 2 * MaxRounds)

\* Every step that a worker has begun comes to an end, whatever the model
\* answers, the reviewer says and users delete meanwhile.
StepEnds == \A w \in Clients : ~ At(w, "idle") ~> At(w, "over")

=============================================================================
