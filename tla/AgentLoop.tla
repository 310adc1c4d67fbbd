------------------------------ MODULE AgentLoop ------------------------------
(***************************************************************************)
(* Workers that execute agent nodes: execute_agent and _review of          *)
(* services/orchestrator/executors.py, the loop of                         *)
(* services/agents/runtime.py that each agent runs in, the review loop of  *)
(* services/orchestrator/review.py, and the skills it uses                 *)
(* (services/skills/execution.py), over the shared memory.                 *)
(*                                                                         *)
(* The model answers as it likes: with a final answer, with calls of       *)
(* skills it has or has not, or not at all.  What a skill does is in       *)
(* SideEffects; here it works or fails, and its row counts it.             *)
(***************************************************************************)
EXTENDS Memory, Sequences

CONSTANTS
  Author, Reviewer,  \* the node's agent and the one its review nominates
  Skills,            \* the skills of the tenant
  SkillsOf,          \* skill_ids of each agent
  Parts,             \* the steps of each composite skill, <<>> for another one
  Flow,              \* memory_scope of the workflow
  Learning,          \* the agents whose memory is switched on
  Objectives,        \* what a node may ask for
  Trouble,           \* what a skill's failure says
  MaxIterations,     \* max_iterations of an agent
  MaxRounds,         \* max_rounds of a review
  MaxCalls,          \* bound on the calls of one turn
  Jobs,              \* the steps to execute, in the order of the queue
  Removals           \* bound on what users delete meanwhile

Agents == {Author, Reviewer}

ASSUME ScopesOfAgents ==
  /\ Scopes = Agents \cup Skills \cup {Flow}
  /\ Texts = Objectives \cup {Trouble}
  /\ SkillsOf \in [Agents -> SUBSET Skills]
  /\ Parts \in [Skills -> Seq(Skills)]
ASSUME BoundsOfAgents ==
  /\ Learning \subseteq Agents
  /\ MaxIterations \in Nat \ {0} /\ MaxRounds \in Nat \ {0} /\ MaxCalls \in Nat \ {0}
  /\ Jobs \in Seq([objective : Objectives, reviewed : BOOLEAN]) /\ Removals \in Nat

VARIABLES
  skills,     \* the skill rows: how often each was invoked and failed
  hired,      \* the agent rows
  step,       \* what each worker's step is doing
  delivered,  \* steps begun so far
  removed     \* deletions so far

loopVars == <<skills, hired, step, delivered, removed>>
vars == <<memoryVars, loopVars>>

NoStep == [pc |-> "idle", phase |-> "draft", objective |-> Trouble, reviewed |-> FALSE,
           round |-> 0, iteration |-> 0, kit |-> {}, left |-> 0, tally |-> <<>>, seen |-> <<>>,
           used |-> FALSE, todo |-> <<>>, recalled |-> {}, met |-> FALSE, asked |-> 0,
           draft |-> 0, judged |-> 0, outcome |-> "none"]

At(w, pc) == step[w].pc = pc
Goes(w, pc) == step' = [step EXCEPT ![w].pc = pc]
Ends(w, outcome) == step' = [step EXCEPT ![w] =
  [NoStep EXCEPT !.pc = "over", !.outcome = outcome, !.asked = step[w].asked,
                 !.round = step[w].round, !.draft = step[w].draft, !.judged = step[w].judged]]

\* Who runs: the reviewer when it reviews, the author otherwise.
Agent(w) == IF step[w].phase = "review" THEN Reviewer ELSE Author

Fault(s)      == [scope |-> s, kind |-> "failure", text |-> Trouble]
Worked(a, o)  == [scope |-> a, kind |-> "learning", text |-> o]
Needed(a, o)  == [scope |-> a, kind |-> "failure", text |-> o]
Outcome(o)    == [scope |-> Flow, kind |-> "fact", text |-> o]

-----------------------------------------------------------------------------
(* run_agent *)

\* execute_agent: the agent named by the node may have been deleted.
Deliver(w) ==
  LET job == Jobs[delivered + 1] IN
  /\ step[w].pc \in {"idle", "over"} /\ delivered < Len(Jobs)
  /\ delivered' = delivered + 1
  /\ step' = [step EXCEPT ![w] =
       IF Author \in hired
       THEN [NoStep EXCEPT !.pc = "recall", !.objective = job.objective, !.reviewed = job.reviewed]
       ELSE [NoStep EXCEPT !.pc = "over", !.outcome = "failed"]]
  /\ UNCHANGED <<memoryVars, skills, hired, removed>>

\* The skills that still exist are loaded, and both memories are asked.
Recall(w) ==
  LET asks(s) == IF Agent(w) \in Learning THEN Recalls(s, step[w].objective) ELSE {{}} IN
  /\ At(w, "recall")
  /\ \E own \in asks(Agent(w)), shared \in asks(Flow) :
       step' = [step EXCEPT ![w].pc = "think", ![w].iteration = 0, ![w].used = FALSE,
                            ![w].kit = SkillsOf[Agent(w)] \cap DOMAIN skills,
                            ![w].recalled = own \cup shared]
  /\ UNCHANGED <<memoryVars, skills, hired, delivered, removed>>

\* What a run taught: after the skills' lessons the agent's own, if it has one.
Taught(w, met) ==
  LET o == step[w].objective IN
  IF Agent(w) \notin Learning THEN <<>>
  ELSE step[w].todo \o (IF ~ met THEN <<Needed(Agent(w), o)>>
                        ELSE IF step[w].used THEN <<Worked(Agent(w), o)>> ELSE <<>>)
Ending(w, met) == [step EXCEPT ![w].pc = "learn", ![w].met = met, ![w].todo = Taught(w, met),
                               ![w].asked = @ + 1, ![w].left = 0]

\* One turn: no answer from the model fails the step, an answer without calls
\* meets the objective.
Think(w) ==
  /\ At(w, "think")
  /\ \/ Ends(w, "failed")
     \/ step' = Ending(w, TRUE)
     \/ \E calls \in 1..MaxCalls :
          step' = [step EXCEPT ![w].asked = @ + 1, ![w].iteration = @ + 1, ![w].left = calls,
                               ![w].pc = "invoke"]
  /\ UNCHANGED <<memoryVars, skills, hired, delivered, removed>>

\* How a skill can go: a composite one runs its parts until one fails or is gone.
Works(s) == Append([k \in 1..Len(Parts[s]) |-> [skill |-> Parts[s][k], failed |-> FALSE]],
                   [skill |-> s, failed |-> FALSE])
Fails(s) ==
  {[j \in 1..k |-> [skill |-> IF j < k THEN Parts[s][j] ELSE s, failed |-> j = k]] :
     k \in {1} \cup 1..Len(Parts[s])} \cup
  {[j \in 1..k + 1 |-> [skill |-> IF j <= k THEN Parts[s][j] ELSE s, failed |-> j >= k]] :
     k \in 1..Len(Parts[s])}

\* Mutant: one turn more than the budget has.
AfterCallsSlip(w, left) == IF left > 0 THEN "invoke"
                           ELSE IF step[w].iteration <= MaxIterations THEN "think" ELSE "conclude"

\* After the turn's calls the next turn, or none is left.
AfterCalls(w, left) == IF left > 0 THEN "invoke"
                       ELSE IF step[w].iteration < MaxIterations THEN "think" ELSE "conclude"

\* The next call of the turn.  A name the agent has no skill for is answered
\* with an error and nothing is run.
Invoke(w) ==
  LET left == step[w].left - 1 IN
  /\ At(w, "invoke")
  /\ \/ step' = [step EXCEPT ![w].left = left, ![w].pc = AfterCalls(w, left)]
     \/ \E s \in step[w].kit : \E tally \in {Works(s)} \cup Fails(s) :
          step' = [step EXCEPT ![w].left = left, ![w].pc = "count", ![w].tally = tally,
                     ![w].used = TRUE,
                     ![w].todo = IF tally = Works(s) THEN @ ELSE Append(@, Fault(s))]
  /\ UNCHANGED <<memoryVars, skills, hired, delivered, removed>>

\* record_invocation for each skill that ran, the parts before the whole.
CountNext(w) == LET rest == Tail(step[w].tally) IN
  [step EXCEPT ![w].tally = rest, ![w].seen = <<>>,
               ![w].pc = IF rest # <<>> THEN "count" ELSE AfterCalls(w, step[w].left)]

\* First the row is loaded; one that was deleted is not counted.
LoadCount(w) ==
  LET s == Head(step[w].tally).skill IN
  /\ At(w, "count")
  /\ step' = IF s \in DOMAIN skills
             THEN [step EXCEPT ![w].pc = "counting", ![w].seen = skills[s]]
             ELSE CountNext(w)
  /\ UNCHANGED <<memoryVars, skills, hired, delivered, removed>>

\* Then the changed columns are written; a row deleted in between is an error.
Counted(row, seen, failed) ==
  [invocations |-> seen.invocations + 1,
   failures    |-> IF failed THEN seen.failures + 1 ELSE row.failures]

WriteCount(w) ==
  LET t == Head(step[w].tally) IN
  /\ At(w, "counting")
  /\ IF t.skill \in DOMAIN skills
     THEN /\ skills' = [skills EXCEPT ![t.skill] = Counted(@, step[w].seen, t.failed)]
          /\ step' = CountNext(w)
     ELSE Ends(w, "broken") /\ UNCHANGED skills
  /\ UNCHANGED <<memoryVars, hired, delivered, removed>>

\* The closing question is asked without tools, and does without an answer.
FinalAnswer(w) ==
  /\ At(w, "conclude")
  /\ step' = Ending(w, FALSE)
  /\ UNCHANGED <<memoryVars, skills, hired, delivered, removed>>

-----------------------------------------------------------------------------
(* _reflect *)

\* One lesson after the other; that of a deleted skill is dropped.
Learn(w) ==
  LET l == Head(step[w].todo) IN
  /\ At(w, "learn") /\ step[w].todo # <<>> /\ atStage(w, "idle")
  /\ IF l.scope \in Skills \ DOMAIN skills THEN UNCHANGED memoryVars ELSE Look(w, l)
  /\ step' = [step EXCEPT ![w].todo = Tail(@)]
  /\ UNCHANGED <<skills, hired, delivered, removed>>

\* The memories that were recalled gain or lose by how it went.
Trust(w) ==
  /\ At(w, "learn") /\ step[w].todo = <<>> /\ step[w].recalled # {}
  /\ Fetch(w, step[w].recalled, IF step[w].met THEN Proved ELSE -Failed)
  /\ step' = [step EXCEPT ![w].recalled = {}]
  /\ UNCHANGED <<skills, hired, delivered, removed>>

Reflected(w) == At(w, "learn") /\ step[w].todo = <<>> /\ step[w].recalled = {} /\ atStage(w, "idle")

\* An error of the memory is an error of the step.
Lost(w) ==
  /\ At(w, "learn") /\ Recover(w)
  /\ Ends(w, "broken")
  /\ UNCHANGED <<skills, hired, delivered, removed>>

-----------------------------------------------------------------------------
(* run_loop *)

Verdicts == {"approved", "approved but", "not approved", "notes"}
\* A prefix of the verdict's first line.
Approves(verdict) == verdict \in {"approved", "approved but"}

Review(w, n) ==
  IF Reviewer \in hired
  THEN step' = [step EXCEPT ![w].phase = "review", ![w].pc = "recall", ![w].round = n,
                            ![w].draft = @ + 1]
  ELSE Ends(w, "failed")

\* The author's first text: the answer, or the start of the review.
Drafted(w) ==
  /\ Reflected(w) /\ step[w].phase = "draft"
  /\ IF step[w].reviewed THEN Review(w, 1) ELSE Goes(w, "tell")
  /\ UNCHANGED <<memoryVars, skills, hired, delivered, removed>>

Judged(w) ==
  /\ Reflected(w) /\ step[w].phase = "review"
  /\ \E v \in Verdicts :
       step' = IF Approves(v)
               THEN [step EXCEPT ![w].pc = "tell", ![w].judged = step[w].draft, ![w].outcome = "approved"]
               ELSE [step EXCEPT ![w].pc = "recall", ![w].phase = "revise", ![w].judged = step[w].draft]
  /\ UNCHANGED <<memoryVars, skills, hired, delivered, removed>>

\* Mutant: one round more than the review has.
RevisedSlip(w) ==
  /\ Reflected(w) /\ step[w].phase = "revise"
  /\ step' = IF step[w].round <= MaxRounds
             THEN [step EXCEPT ![w].pc = "recall", ![w].phase = "review", ![w].round = @ + 1,
                               ![w].draft = @ + 1]
             ELSE [step EXCEPT ![w].pc = "tell", ![w].draft = @ + 1, ![w].outcome = "unapproved"]
  /\ UNCHANGED <<memoryVars, skills, hired, delivered, removed>>

\* The reviewer was loaded before the first round and is not looked up again.
Revised(w) ==
  /\ Reflected(w) /\ step[w].phase = "revise"
  /\ step' = IF step[w].round < MaxRounds
             THEN [step EXCEPT ![w].pc = "recall", ![w].phase = "review", ![w].round = @ + 1,
                               ![w].draft = @ + 1]
             ELSE [step EXCEPT ![w].pc = "tell", ![w].draft = @ + 1, ![w].outcome = "unapproved"]
  /\ UNCHANGED <<memoryVars, skills, hired, delivered, removed>>

-----------------------------------------------------------------------------
(* The end of the step, and what others do meanwhile. *)

\* The run has succeeded and its outcome is remembered for the workflow.
Tell(w) ==
  /\ At(w, "tell")
  /\ Look(w, Outcome(step[w].objective))
  /\ Goes(w, "told")
  /\ UNCHANGED <<skills, hired, delivered, removed>>

\* ... whatever comes of that.
Told(w) ==
  /\ At(w, "told")
  /\ \/ atStage(w, "idle") /\ UNCHANGED memoryVars
     \/ Recover(w)
  /\ Ends(w, IF step[w].reviewed THEN step[w].outcome ELSE "answered")
  /\ UNCHANGED <<skills, hired, delivered, removed>>

Remember(w) ==
  /\ Proceed(w)
  /\ UNCHANGED loopVars

\* A user deletes a skill or an agent, and then its memory, or only a memory.
Remove ==
  /\ removed < Removals
  /\ removed' = removed + 1
  /\ \/ /\ \E s \in DOMAIN skills : skills' = [t \in DOMAIN skills \ {s} |-> skills[t]]
        /\ UNCHANGED <<memoryVars, hired>>
     \/ /\ \E a \in hired : hired' = hired \ {a}
        /\ UNCHANGED <<memoryVars, skills>>
     \/ /\ (\E s \in Scopes : Forget(s)) \/ (\E i \in DOMAIN memories : ForgetEntry(i))
        /\ UNCHANGED <<skills, hired>>
  /\ UNCHANGED <<step, delivered>>

Init ==
  /\ MemoryInit
  /\ skills = [s \in Skills |-> [invocations |-> 0, failures |-> 0]]
  /\ hired = Agents
  /\ step = [w \in Clients |-> NoStep]
  /\ delivered = 0 /\ removed = 0

Runs(w) ==
  \/ Recall(w) \/ Think(w) \/ Invoke(w) \/ LoadCount(w) \/ WriteCount(w)
  \/ FinalAnswer(w) \/ Learn(w) \/ Trust(w) \/ Lost(w)
  \/ Drafted(w) \/ Judged(w) \/ Revised(w) \/ Tell(w) \/ Told(w) \/ Remember(w)

Next == (\E w \in Clients : Deliver(w) \/ Runs(w)) \/ Remove

Spec == Init /\ [][Next]_vars

\* A worker that has a step goes on with it.
FairSpec == Spec /\ \A w \in Clients : WF_vars(Runs(w))

=============================================================================
