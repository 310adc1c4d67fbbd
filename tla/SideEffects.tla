----------------------------- MODULE SideEffects -----------------------------
(***************************************************************************)
(* One step that acts on the outside world, delivered more than once: an   *)
(* http node (services/orchestrator/executors.py) or an agent whose skills *)
(* call a web service or an MCP tool (services/skills/execution.py), each  *)
(* call behind the gate of packages/cwap_common/idempotency.py.            *)
(*                                                                         *)
(* The job may be in the queue several times (an operator can put a parked *)
(* job back more than once), so several workers execute the step at once.  *)
(* The run holds a write scope; tools marked read-only do not reach the    *)
(* gate and are left out.                                                  *)
(***************************************************************************)
EXTENDS Naturals, FiniteSets

CONSTANTS
  Workers,   \* the processes that execute steps
  NodeOps,   \* the request of an http node
  WebOps,    \* calls of an http skill, one for each set of arguments
  ToolOps,   \* calls of an MCP tool that writes, one for each set of arguments
  Blocked,   \* those whose host or server the deployment does not permit
  Anyone,    \* stands for the process in a key that does not depend on it
  Copies,    \* bound on deliveries of the job
  MaxUses    \* max_iterations of the agent: the calls one delivery may make

Operations == NodeOps \cup WebOps \cup ToolOps

ASSUME OperationsAssumption ==
  /\ NodeOps \cap (WebOps \cup ToolOps) = {} /\ WebOps \cap ToolOps = {}
  /\ Operations # {} /\ Blocked \subseteq Operations
ASSUME WorkersAssumption == IsFiniteSet(Workers) /\ Anyone \notin Workers
ASSUME BoundsAssumption == Copies \in Nat /\ MaxUses \in Nat \ {0}

VARIABLES
  step,      \* what the delivered step is: an http "node" or an "agent"
  copies,    \* deliveries of the job still in the queue
  over,      \* the run's row says that it has ended
  ledger,    \* idempotency_ledger: each key's status and recorded answer
  worker,    \* what each worker is doing, on which operation
  acts,      \* history: how often the outside world did what a key asks for
  failures,  \* history: how many attempts on a key were given up
  told       \* history: the recorded answers handed out in place of a call

vars == <<step, copies, over, ledger, worker, acts, failures, told>>

\* The key of a tool's call is a digest of its arguments, that of a web call
\* their hash(), which Python seeds anew in every process.
Key(w, o) == <<o, IF o \in WebOps THEN w ELSE Anyone>>
Keys == Operations \X (Workers \cup {Anyone})

Answers == [by : Workers \cup {Anyone}, ok : BOOLEAN]
NoAnswer == [by |-> Anyone, ok |-> FALSE]
Absent == "absent"
Entry == [status : {Absent, "IN_FLIGHT", "SUCCEEDED", "FAILED"}, answer : Answers]

Mine(w) == Key(w, worker[w].op)

\* What follows an error: an http node fails the run, a skill says so to the agent.
OnError == IF step = "node" THEN "failing" ELSE "ready"
\* What follows a result.
OnResult == IF step = "node" THEN "leaving" ELSE "ready"

At(w, stage) == worker[w].stage = stage
Go(w, stage) == worker' = [worker EXCEPT ![w].stage = stage]

-----------------------------------------------------------------------------
(* A delivery. *)

\* A job of a run that has ended is ignored.
Take(w) ==
  /\ At(w, "idle")
  /\ copies > 0
  /\ copies' = copies - 1
  /\ worker' = IF over THEN worker ELSE [worker EXCEPT ![w].stage = "ready", ![w].uses = 0]
  /\ UNCHANGED <<step, over, ledger, acts, failures, told>>

Allowance == IF step = "node" THEN 1 ELSE MaxUses

\* The allow-list of hosts, or of servers.
Permitted(o) == o \notin Blocked

\* What each kind of call does before its claim: a refusal fails the node, and is
\* told to the agent.
HttpNode(o)  == step = "node"  /\ o \in NodeOps
HttpSkill(o) == step = "agent" /\ o \in WebOps
ToolSkill(o) == step = "agent" /\ o \in ToolOps

\* The node's request, or the next call the model asks for.
Use(w, o) ==
  /\ At(w, "ready")
  /\ HttpNode(o) \/ HttpSkill(o) \/ ToolSkill(o)
  /\ worker[w].uses < Allowance
  /\ worker' = [worker EXCEPT ![w] =
       [stage |-> IF Permitted(o) THEN "claiming" ELSE OnError,
        op |-> o, answer |-> NoAnswer, uses |-> @.uses + 1]]
  /\ UNCHANGED <<step, copies, over, ledger, acts, failures, told>>

\* The step ends and its row is written, which sets the run's status whatever it
\* was: it goes on, or this step was its last.
Leave(w) ==
  /\ At(w, "leaving") \/ (At(w, "ready") /\ step = "agent")
  /\ Go(w, "idle")
  /\ over' \in BOOLEAN
  /\ UNCHANGED <<step, copies, ledger, acts, failures, told>>

FailRun(w) ==
  /\ At(w, "failing")
  /\ Go(w, "idle")
  /\ over' = TRUE
  /\ UNCHANGED <<step, copies, ledger, acts, failures, told>>

\* The process dies.  Its claim stays as it is.
Crash(w) ==
  /\ worker[w].stage \notin {"idle", "dead"}
  /\ Go(w, "dead")
  /\ UNCHANGED <<step, copies, over, ledger, acts, failures, told>>

-----------------------------------------------------------------------------
(* IdempotencyGate.pre_check. *)

\* The insert: whoever writes the row has the claim.
Claim(w) ==
  /\ At(w, "claiming")
  /\ IF ledger[Mine(w)].status = Absent
       THEN /\ ledger' = [ledger EXCEPT ![Mine(w)].status = "IN_FLIGHT"]
            /\ Go(w, "calling")
       ELSE Go(w, "reading") /\ UNCHANGED ledger
  /\ UNCHANGED <<step, copies, over, acts, failures, told>>

\* (slip) a claim somebody else holds is taken for one that may be retried
RetriesInFlight(s) == s \in {"FAILED", "IN_FLIGHT"}

MayRetry(s) == s = "FAILED"

\* The row that was there: its answer is replayed, its failure retried, and a
\* claim that somebody else holds is an error for a node.  A skill answers
\* "already performed".
Read(w) ==
  /\ At(w, "reading")
  /\ LET row == ledger[Mine(w)] IN
     \/ /\ row.status = "SUCCEEDED"
        /\ told' = told \cup {[key |-> Mine(w), answer |-> row.answer]}
        /\ Go(w, OnResult)
     \/ /\ MayRetry(row.status)
        /\ Go(w, "reopening")
        /\ UNCHANGED told
     \/ /\ row.status = "IN_FLIGHT" /\ ~MayRetry(row.status)
        /\ Go(w, OnError)
        /\ UNCHANGED told
  /\ UNCHANGED <<step, copies, over, ledger, acts, failures>>

\* The guarded update.  Its caller goes on whether or not it changed the row.
Reopened(s) == IF s = "FAILED" THEN "IN_FLIGHT" ELSE s

Reopen(w) ==
  /\ At(w, "reopening")
  /\ ledger' = [ledger EXCEPT ![Mine(w)].status = Reopened(@)]
  /\ Go(w, "calling")
  /\ UNCHANGED <<step, copies, over, acts, failures, told>>

-----------------------------------------------------------------------------
(* The call and what is recorded of it. *)

\* done: performed and answered; declined: answered with an error; lost: performed,
\* and the answer never arrives; unreached: not performed.
Outcomes == {"done", "declined", "lost", "unreached"}

\* An HTTP response is recorded whatever its status, an MCP tool that answers with
\* an error has failed.
Responded(o, outcome) == outcome = "done" \/ (outcome = "declined" /\ o \notin ToolOps)

Call(w) ==
  /\ At(w, "calling")
  /\ \E outcome \in Outcomes :
       /\ acts' = [acts EXCEPT ![Mine(w)] =
                     IF outcome \in {"done", "lost"} THEN @ + 1 ELSE @]
       /\ worker' = [worker EXCEPT ![w] =
            [@ EXCEPT !.answer = [by |-> w, ok |-> outcome = "done"],
                      !.stage = IF Responded(worker[w].op, outcome)
                                  THEN "answered" ELSE "failed"]]
  /\ UNCHANGED <<step, copies, over, ledger, failures, told>>

\* (slip) the update has no WHERE status
Unguarded(row, status, a) == [status |-> status, answer |-> a]

\* The update of commit and of abandon, which only a row in flight allows.
Guarded(row, status, a) ==
  IF row.status = "IN_FLIGHT" THEN [status |-> status, answer |-> a] ELSE row

\* A node whose response is an error fails after recording it.
Commit(w) ==
  /\ At(w, "answered")
  /\ ledger' = [ledger EXCEPT ![Mine(w)] = Guarded(@, "SUCCEEDED", worker[w].answer)]
  /\ Go(w, IF worker[w].answer.ok THEN OnResult ELSE OnError)
  /\ UNCHANGED <<step, copies, over, acts, failures, told>>

\* (slip) the error is reported and the claim kept
KeepClaim(w) ==
  /\ At(w, "failed")
  /\ failures' = [failures EXCEPT ![Mine(w)] = @ + 1]
  /\ Go(w, OnError)
  /\ UNCHANGED <<step, copies, over, ledger, acts, told>>

Abandon(w) ==
  /\ At(w, "failed")
  /\ ledger' = [ledger EXCEPT ![Mine(w)] = Guarded(@, "FAILED", NoAnswer)]
  /\ failures' = [failures EXCEPT ![Mine(w)] = @ + 1]
  /\ Go(w, OnError)
  /\ UNCHANGED <<step, copies, over, acts, told>>

-----------------------------------------------------------------------------
Init ==
  /\ step \in {"node", "agent"}
  /\ copies = Copies
  /\ over = FALSE
  /\ ledger = [k \in Keys |-> [status |-> Absent, answer |-> NoAnswer]]
  /\ worker = [w \in Workers |->
       [stage |-> "idle", op |-> CHOOSE o \in Operations : TRUE,
        answer |-> NoAnswer, uses |-> 0]]
  /\ acts = [k \in Keys |-> 0]
  /\ failures = [k \in Keys |-> 0]
  /\ told = {}

Step(w) ==
  \/ Take(w) \/ Leave(w) \/ FailRun(w)
  \/ \E o \in Operations : Use(w, o)
  \/ Claim(w) \/ Read(w) \/ Reopen(w) \/ Call(w) \/ Commit(w) \/ Abandon(w)

Next == \E w \in Workers : Step(w) \/ Crash(w)

Spec == Init /\ [][Next]_vars

=============================================================================
