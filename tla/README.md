# A verification development of CWAP, the Cognitive Workflow Automation Platform

CWAP lets people draw workflows (graphs of input, model, agent, retrieval, HTTP,
branch and output nodes), or has a model design them, and runs them: a gateway
accepts a run and puts its first job on a queue, a fleet of workers takes jobs,
executes one node each, writes the result as a row and queues what follows.  Every
event of a run is numbered, written down and streamed to browsers.  Agents think in
turns, use skills, some of them tools of MCP servers that a tenant has connected,
review each other and remember what they learn.

This directory holds TLA+ models of the parts where order matters, the
configurations that check them with TLC, and theorems proved with TLAPS.  All
paths below are relative to the repository's root.

- `tlc -config X.cfg M` checks a run; `PROJECT.json` lists each run with its
  module and its configuration.
- `tlapm M.tla` checks the proofs of a module.
- A definition marked *(slip)* or *Mutant* belongs to no specification: it is what a
  plausible mistake would make of the definition after it.  `PROJECT.json`
  ("mutants") says which property notices which slip.

---

## 1. Inventory

Where the difficulty of a part lies decides whether it is modelled.  "Hard" names
what a test hardly reaches; the same list, line by line, is under "hazards" in
`PROJECT.json` and continued in section 8.

| component | state it keeps | operations | interacts with | hard | correct when | modelled |
|---|---|---|---|---|---|---|
| Workflow graph (`packages/cwap_contracts/v4/graph.py`) | the saved graph | validate on save, lookups | read by the orchestrator | cycles, chains of branches | what it accepts can be run to an end | `WorkflowGraphs` |
| Orchestrator (`services/orchestrator/runner.py`, `state_machine.py`, `worker.py`) | the run's row, state rows, dispatch claims | `start_run`, `_process`, `plan_next`, `_dispatch`, `_succeed`, `_fail` | queue, ledger, executors, log | interleaving of workers between any two transactions, crashes, failed siblings | a node runs once and after its inputs; the run ends, in the right status | `Orchestrator`, `RunPromise` |
| Queue and contract gateway (`packages/cwap_common/broker.py`, `contract_gateway.py`, `authz.py`) | work queue, dead letters | publish, pop, park, resubmit | gateway, workers, administrators | a destructive pop, two checks of a permission that can change, copies put back | no job disappears while no process dies | in `Orchestrator` |
| Log bus and live feed (`packages/cwap_common/logbus.py`, `services/api_gateway/routers/runs.py`) | log rows, a counter in each process, subscribers' queues | emit, persist, fan out, relay; a socket's open, replay, tail | every process that executes, browsers | replay against tail, a lossy relay, slow browsers, two counters | the report is complete, the feed in order and without repetition | `LogStream` |
| Idempotency gate (`packages/cwap_common/idempotency.py`) | ledger rows | `pre_check`, `commit`, `abandon` | executors, skills | races for a claim, a crash holding it, a lost answer | one operation, one call; replays agree | `SideEffects` |
| Step executors (`services/orchestrator/executors.py`) | none | one per node type | gate, model, skills | `execute_http` behind the gate, the agent's step | as the gate, as the loop | `execute_http` in `SideEffects`, `execute_agent` in `AgentLoop`; the rest is "an output or a failure" in `Orchestrator` |
| Skill execution (`services/skills/execution.py`) | counters of a skill | prompt, retrieval, transform, HTTP, MCP, composite | gate, MCP client, memory | the key of a call, parts that fail or are gone | as the gate | gated calls in `SideEffects`, composites and lessons in `AgentLoop`, MCP calls in `MCPRegistry` |
| MCP client (`services/mcp_connect/client.py`) | one session a server and process, its task | `list_tools`, `call_tool`, `probe`, `disconnect` | registry, skills | threads that connect, call, fail and drop at once | no connection forgotten, none reused that failed | `MCPClient` |
| MCP registry (`services/mcp_connect/registry.py`, `services/api_gateway/routers/mcp.py`) | a server's row, its tools, their skills | connect, sync, enable, disable, disconnect | client, skills | handlers that overlap between database sessions | skills agree with the row | `MCPRegistry` |
| Agent runtime (`services/agents/runtime.py`) | the conversation of one step | think, invoke, answer, recall, reflect | skills, memory, model | a budget spent by a model that never answers; skills and memories deleted meanwhile | it ends with an answer, at a cost known before | `AgentLoop` |
| Review loop (`services/orchestrator/review.py`) | rounds of one step | produce, review, revise | two agents | the exhausted case | no approval that was not given to this text | `AgentLoop` |
| Memory (`services/memory/service.py`) | entries with usefulness | remember, recall, reinforce, prune, forget | agents | read, decide, write in separate sessions | lessons not hoarded, a bound per scope, usefulness earned | `Memory` |
| Skill and agent registries (`services/skills/registry.py`, `services/agents/registry.py`) | rows, counters, versions | create, ensure, edit, delete, count | agents, design | check and insert, read and write | what is made can be found again | `Registries`, `AgentLoop` |
| Design and templates (`services/design/service.py`, `services/templates/service.py`) | none | plan agents, resolve skills, attach tools, store | registries, model | a dozen transactions with anything in between | what is delivered is what was planned, nothing else is harmed | `Design` |
| Model proxy: choice (`services/llm_proxy/store.py`, `service.py`) | stored choices and keys, a cache of providers in each process | choose, save, resolve | agents, executors | caches other processes cannot clear | the provider called is the one chosen | `ModelChoice` |
| Model proxy: providers (`services/llm_proxy/client.py`, `streaming.py`, `live.py`) | what a server refused | generate, converse, stream | backends, live feed | refusals learned by several threads at once, streams that end early | an answer is whole, the screen shows it | `ModelCalls` |
| Knowledge (`services/knowledge/service.py`) | documents, chunks, vectors | ingest, retrieve, delete | agents, embedder | the windows of a text, servers with other embedders | every character is in a chunk; spaces never mix | `Knowledge` |
| Accounts (`services/api_gateway/security.py`) | users with scopes | register, bootstrap, grant | every route | two registrations at once, settings that change | no workspace without an owner who may act | `Accounts` |
| Database and boot (`packages/cwap_common/db.py`, `services/api_gateway/app.py`) | tables, columns | `init_db`, `add_missing_columns`, lifespan | every process | processes that come up together, or die half way | who is past it finds its schema | `Schema`, `Gateway` |
| Contracts, run inputs, catalogues, settings, secrets, diagnostics, web interface, deployment | tables and schemas | | | none of order | | not modelled (section 9) |

### How the parts interact

`start_run` commits the run's row and then publishes the entry job.  A worker pops
a job, checks the owner's permission again, reads the run, executes the node
(behind the gate if the node acts outside), commits its row, decides the branches
behind it, commits those verdicts, and for each successor that is ready publishes
a job, after winning a claim if the successor joins paths.  There is no
coordinator: *which worker opens a join* and *which worker ends the run* is decided
by each worker alone from the rows it reads, between transactions of the others.
Each process emits log events meanwhile; the gateway relays them to sockets, which
first replay the table.

An agent's step is a loop of turns with a model, through a provider object that all
threads of its process share, and of calls of skills; what the step taught is then
written to memories that every worker reads and prunes.  The gateway's handlers
and its inline worker share one MCP client; other workers have their own.  The
gateway's other handlers (designs, templates, edits, uploads) are threads that take
one transaction at a time over the same rows.

---

## 2. Modules

| module | contents |
|---|---|
| `WorkflowGraphs` | the saved graph, its validation, and the questions the orchestrator asks of it |
| `Orchestrator` | one run of one graph by a fleet: every read, transaction and broker call an action |
| `RunPromise` | the abstract run: no queue, no workers |
| `OrchestratorProperties`, `MCOrchestrator`, `OrchestratorProofs` | properties; graphs and bounds; theorems |
| `LogStream`, `LogStreamProperties`, `MCLogStream`, `LogStreamProofs` | the log of one run, its relay and its browsers |
| `SideEffects`, `SideEffectsProperties`, `MCSideEffects`, `SideEffectsProofs` | one step that acts outside, delivered several times |
| `MCPClient` | the sessions to one MCP server, in each process |
| `MCPRegistry` (extends `MCPClient`) | the server's rows and the handlers and agents that use the client |
| `MCPRegistryProperties`, `MCMCP`, `MCPRegistryProofs` | properties; constants; theorems |
| `Memory` | the memories table and the transactions of each call on it |
| `AgentLoop` (extends `Memory`) | workers that execute agent nodes: turns, skills, reflection, review |
| `AgentProperties`, `MCAgents`, `AgentProofs` | properties; constants of two runs; theorems |
| `ModelChoice` | saved choices, and how a thread comes to a provider object |
| `ModelCalls` (extends `ModelChoice`) | the call: payloads, refusals, streams, live text |
| `ModelProperties`, `MCModels`, `ModelProofs` | properties; constants; theorems |
| `Registries` | the skills and agents of a workspace, and requests of one transaction |
| `Design` (extends `Registries`) | designs, templates, skills on demand and edits, as threads |
| `DesignProperties`, `MCDesign`, `DesignProofs` | properties; constants; theorems |
| `Processes`, `Schema`, `Accounts`, `Knowledge` | the servers, and what each does at boot and after |
| `Gateway` (extends these) | their composition from boot to shutdown |
| `GatewayProperties`, `MCGateway`, `GatewayProofs` | properties; constants; theorems |

`OrchestratorProperties` instantiates `RunPromise` with a refinement mapping.
`MCPRegistry` composes the client's steps with the handlers': a handler asks the
client (`Ask`) and takes its answer (`Collect`), and everything the client does in
between is interleaved with the other threads.  `AgentLoop` composes the agents'
steps with the memory's in the same way (`Learn` begins a call, `Remember` takes its
next transaction), and `Gateway` lets schema, accounts and documents advance in each
process, held together by where the process is (`boot`).

### 2.1 The orchestrator

| state in the model | in the code |
|---|---|
| `graph`, `status`, `result`, `steps` | the run's row: `graph_snapshot`, `status`, `result`, `steps_executed` |
| `committed`, `decided` | the rows of `workflow_execution_state`: of steps, and of resolved branches |
| `claimed` | the ledger rows `dispatch:<node>` |
| `queue`, `dead` | the work queue, the dead-letter records |
| `authorized` | whether the owner holds the scopes the run's jobs declare |
| `worker` | the local variables of each worker between two accesses to shared state |
| `gateway` | how far `start_run` has got |
| `published`, `spent` | history, and the bound on mishaps; nothing in the code |

| action | code |
|---|---|
| `AcceptRun`, `PublishEntry` | `start_run`: the row in a transaction, then the publish |
| `Poll` | `ConsumerWrapper.next`: pop, check, hand over or park |
| `Load` | the start of `_process`: a finished run is ignored, a run at its limit failed |
| `StepFails`, `CommitStep` | the executor raised; the step's transaction |
| `ResolveBranch`, `TooManyBranches`, `PlanFails`, `CommitVerdicts` | `plan_next`, `_follow`, and the transaction with the verdicts |
| `ConsiderSuccessor`, `BindingFails`, `ClaimJoin`, `Publish`, `PublishRefused` | `_dispatch`, successor by successor |
| `Finish`, `Succeed` | `_work_remains` and `_succeed` |
| `Crash`, `Revoke`, `Restore`, `Resubmit` | a process dies; a permission is withdrawn and given back; an administrator puts a parked job back |

A job's payload is its node and a number that makes it unique (the step execution
id).  Outputs are abstracted: an executor succeeds or fails, a branch decides
either way, a binding resolves or does not.

`RunPromise` says what a run promises whoever started it: every node that the
decisions leave reachable is executed once, after everything that feeds it; the
run succeeds when all of them have been, or fails; then nothing changes.
Reachability is defined there as a least fixed point, not by the orchestrator's
recursion over closed paths, so that the refinement compares two definitions.

### 2.2 The log

`rows` is `run_logs`; `counter` is `LogBus._sequences` of each process; `emitter`
is the event a process is carrying through persist, fan-out and relay; `channel`
lies between the relay's publish and the gateway's listener; `watchers` and
`client` are `LogBus._subscribers` and each socket handler of `stream_logs`
(the status it read, its queue, `last_seq`).  Messages are named by their place in
the order of emission (`id`), apart from the number the code gives them (`seq`),
so that what a browser holds can be compared with what was said.  `EndRun` and
`SayEnded` are apart because the run's row ends before the event is emitted.

### 2.3 Gated calls

`ledger` is `idempotency_ledger`, `worker` what each process is doing on which
operation.  `Claim`, `Read`, `Reopen` are the three sessions of `pre_check`;
`Call` is the request with its four outcomes (performed and answered, answered with
an error, performed and the answer lost, not performed); `Commit` and `Abandon` are
the guarded updates.  The three callers differ in what they do with the gate's
answer and have an operator each: `HttpNode` (`execute_http`), `HttpSkill`
(`_run_http`) and `ToolSkill` (`_run_mcp`).  `Key` is how the caller makes its key:
for an http skill it contains `hash()` of the arguments, which each Python process
seeds anew, so the process is part of the key.  `acts`, `failures` and `told` are
history.

### 2.4 MCP

`sessions` is `MCPClient._sessions` of each process, `conn` the life of each
connection's task (`_own_connection`), `listing` the tools it listed when it
opened, `client` the stage of each thread inside `_session_for`, `call_tool`,
`disconnect` and `_shutdown`.  The lock of the client covers only the lookup, the
`setdefault` and the pop: these are one step each (`Lookup`, `Insert`, `Pop`),
and connecting, discarding a loser and closing are steps of their own.  Every wait
has a deadline, so its error (`NotConnected`, `TimeOut`) may always replace an
answer.  In the registry each database session is a step (`Read`, `Find`, `Write`,
`Delete`, ...).  `peace`, `failed` and `changes` are history.

### 2.5 Agents and their memory

`memories` is the table; `use` is usefulness in tenths; `by`, `up` and `down` are
history: who stored a row, and what calls meant to add to it and take from it.
`remember` is `Look` (the session of `_find_duplicate`), then `Load` and `Raise`, or
`Store`, then `Count` and `Prune`; `reinforce` is `Fetch` and `Adjust`.  SQLAlchemy
writes the value computed from the loaded row, so load and write are two actions.
A row that is gone raises where the code would: `row.usefulness` of `None`, or an
update that matched fewer rows than it was given.

`step` is what each worker's agent step is doing: `phase` says which agent runs
(draft, review, revise), `iteration`, `left` and `round` count turns, calls and
rounds, `kit` is the skills that were loaded, `tally` the invocations still to be
counted, `todo` the lessons still to be stored, `recalled` the ids to reinforce.
`draft` and `judged` number the text that stands and the text the reviewer saw.
`Works` and `Fails` list the ways a skill, and a composite with its parts, can go.
`Lost` is the error of a memory call, which ends the step; only `Told`, the outcome
remembered after a success, catches it (`runner.py`).

### 2.6 Model calls

`settings` is the table of choices, `cached` and `default` are `_tenant_providers`
and `_default` of one process, `built` every provider object with what its server
has refused to it (`_unsupported`).  Saving elsewhere changes the table and clears
nothing here.  `Lookup` and `Keep` are apart: two threads may build for one choice.
A call goes through `Payload`, `Post`, `Refuse` (the server names one parameter),
`Again`, `Answer`, `Read` (one fragment into `LiveText`'s buffers) and `Finish`.
`ConverseNative` and `ConversePrompted` are the two ways to offer tools.  `Ask` and
`Declined` are the Anthropic provider.  `found` and `heard` are history: the
choices that have been in the table since the call began, and who was told of which
refusal.

### 2.7 Designs

`skills` and `agents` are the tables; an agent's skills are serial numbers, as its
`skill_ids` are ids, and may outlive their rows.  `job` is what each thread is doing.
A design takes `Seed` (`ensure_builtins`), `Plan` (the model's team, or the
blueprint's), `Find`, `Synthesize` and `Make` for each skill of each agent, `Attach`
(connectors) with the announcement of `_note_write_scope`, `Mark`, and for each agent
`Reuse`, `Hire` or `Train` and `Save`.  A template's copy seeds and makes skills in
the same way and then always hires.  `alone` is history: whether no other request
overlapped this one; `last` keeps how a request ended until the next arrives.

### 2.8 Processes from boot

`boot` is where each process is: in `init_db` (its attempt, the tables and columns it
still has to see to), at the demo account, at the grant, serving, or dead of an
error; `lost` is history: `init_db` returned from its last attempt because another
process had made something first (`db.py:120-123`), not because an attempt was
completed.  Of the tables that exist only those that have grown are looked at.
On PostgreSQL `create_all` runs under an advisory lock in one transaction
(`CreateLocked`); on SQLite each table is checked and created on its own.
`users` is in order of creation; `form` is the registration a process has read for
and not yet stored.  `desk` is a request of the knowledge service.  A text is its
length and the positions of its breaks, a chunk the window it was cut from, a vector
the identity of its embedder.  `answer` is history.

---

## 3. Runs

Eleven runs hold and one shows a disagreement between the code and what the
repository says of it.  State counts are of distinct states.

| run | instance | what it shows |
|---|---|---|
| `orchestrator_single` (121 000) | one worker; 813 graphs: every rooted five-node graph (up to names) in which a branch is reached by one edge, and two six-node graphs; one executor, decision or binding may fail; limit 4 steps, one branch inline | the test for closed paths finds exactly the unreachable nodes (`ClosedMeansUnreachable`) and the run ends (`RunEnds`) |
| `orchestrator_pair` (142 000) | two workers in every interleaving; the branch-free five-node graphs with at most five edges, and two with choices; nothing goes wrong | every step is a step of `RunPromise` (`KeepsPromise`), and the run succeeds |
| `orchestrator_fleet` (512 000) | two workers; diamond, fork, choice, chained choices, choice beside work, branch as entry; one fault, one crash, one revocation, two resubmissions; limit 4 | what survives all of that: one job for a join, the limit overrun by less than the number of workers, no node run twice, no join early, no job lost, a success that is complete and final |
| `orchestrator_reopened` | fork, one fault | **finding**: `TerminalIsFinal` fails |
| `log_stream` (239 000) | one worker and the gateway, one browser, a queue of two, four events and one fragment, one message lost | report complete, feed in order, without gaps where nothing was dropped, and it tells the end |
| `side_effects` (1.57 million) | an http node (one request, one forbidden), or an agent's web and MCP skills; three deliveries, two workers that may crash, two calls each | repeats are bounded by attempts given up, replays agree, only the dead leave a claim |
| `mcp_registry` (2.06 million) | two handlers and an agent of one gateway, one tool, two connections, one change | no connection is lost track of, a failed session does not return, an operation that runs by itself puts the skills right |
| `agents_pair` (1.54 million) | two workers, three agent steps on two alike objectives and a third, a skill that may fail, scopes of capacity one | of one lesson no process stores two copies, scopes outgrow capacity only by rows still being pruned, usefulness is earned |
| `agents_alone` (270 000) | one reviewed step of two rounds and two turns, a composite skill, one deletion at any moment | the verdict fits the text, the cost is bounded, the step ends |
| `model_calls` (1.70 million) | two threads, two calls, a local server that refuses three or all four optional parameters, a Claude, one save here or elsewhere, answers of two fragments | the saved choice answers, refusals are survived, an answer is whole, the screen follows |
| `gateway_design` (1.22 million) | three requests of nine kinds on two threads; teams of up to two agents, tools that read and write, sketches that are and are not acceptable | what a design that nothing overlapped delivers and leaves alone, whatever state overlapping ones left before it |
| `gateway_boot` (3.91 million) | two processes, three tables, two attempts at them, one column added by a release, both databases, an empty, partial or old schema; two accounts; one text cut in windows; one restart with other settings | who is past `init_db` finds the schema, owners may act, spaces never mix, texts are indexed whole |

### What the properties say, and what they do not

*Orchestrator.*  `RunsAtMostOnce` and `JoinNeverEarly` are stated for at most one
resubmission: a parked job put back twice is two deliveries, and only the state row
of its own step collapses them, so its successors may be created twice.
`NothingLost` asks for no crash: the pop is destructive, so a process that dies
takes its job with it; and for at most one resubmission, too: a duplicate that
meets its own row is consumed.  `SuccessIsComplete` and `SuccessIsFinal` are about graphs
without branches, and `RunEnds` and `RunSucceeds` leave out graphs with a choice, a
join and parallel work together (`NoLateChoice`): section 6 says what the code does
with the others.  `orchestrator_single` and `orchestrator_pair` restrict branches to
those reached by one edge: a branch reached by several is decided once per arrival,
which `RunPromise` does not allow; this is hazard `state_machine.py:111`.

*Log.*  `missed` is the set of browsers for which a message was lost, by the relay or
from a full queue; `FeedHasNoGaps` and `FeedTellsTheEnd` are about the others.
`FeedInOrder` is about all.

*Gated calls.*  `RepeatsNeedFailures` allows each worker one repetition for every
attempt that was given up: two workers that read the same FAILED row both go on,
whichever changed it.  It counts by key, so it says nothing about an http skill
executed by two processes (section 6).

*MCP.*  `LastWordHolds` asks nothing of operations that overlapped (a sync that has
read its record may write skills of a server that has been removed meanwhile); it
says that the next operation that runs alone repairs what they left.
`NothingLeaks` is about one process's tasks: a transport that will not unwind is
the transport's.

*Agents.*  `OneCopyEach` admits a copy from each process whose lookup overlapped: no
constraint in the database forbids it.  `TrustIsEarned` admits that an update is
lost.  `VerdictFits` is about `run_loop`'s outcome and the text it returns.
`StepEnds` includes ending with an error; a worker that has the step goes on.

*Models.*  `UsesSavedChoice` admits any choice that was in the table at some moment of
the call, since it may be read before a save and used after it.  `RefusalsMeet` says
which failure over a parameter is left: two threads whose first calls are told of
the same refusal (`asks` is read off the shared object by the later of them).
`AnswerIsWhole` is checked with `CleanCuts = FALSE`: a connection that is closed
early without an error looks like an end of the stream to the code, and with
`CleanCuts = TRUE` the property fails.

*Designs.*  All four are about a request that nothing overlapped, in a state that
overlapping requests may have left.  Overlapping designs may do worse: create a
second agent of a name, lose a skill another added, or fail.

*Boot.*  `SchemaReady` asks everything only of a process that completed an attempt.  One
that lost a race in each of its attempts returns from `init_db` all the same, in the run
with tables still missing (section 6, 14); it is asked only to find the tables, and only on
PostgreSQL, where races are lost over columns.  `OwnersMayAct` says that an owner may act,
not that only one may: two registrations that race may both be first.
`SpacesNeverMix` leaves out documents stored before documents named their space,
which the code compares with any (`services/knowledge/service.py:164-166`).

### Bounds, and why they are enough

- *Two workers.*  Every race in the orchestrator is over a row that one worker reads
  and one other changes (a join's last two paths, the last two paths of a run, a
  claim, a status).  Three are covered by the theorems about claims and limits.
- *Five nodes.*  The smallest graphs with a fork, a join and a choice together have
  five nodes; with a choice beside a join, six (`LateChoice`, `ForkedChoice`).
- *MaxSteps 4 and MaxInlineBranches 1* are small so that both limits are met.
- *Budgets of mishaps.*  One fault, crash and revocation: each property is broken or
  kept by the first; two resubmissions, because the second makes a duplicate.
- *Log.*  A queue of two drops on the third message, of four.  `HistoryLimit` is 8,
  above `MaxEvents`: a run with more rows than the limit is hazard `logbus.py:224`.
- *Three deliveries* let one fail, one retry and one replay; *two calls* in a
  delivery repeat an operation within a process.
- *Two connections, one change, one tool* are enough for a race and its loser, or for a
  failure and the connection after it; when they have run out, handlers and the agent
  only fail to connect.  A server that has been removed stays so: connecting it again
  makes a server with another id.  For sessions the theorems cover any number.
- *Agents.*  Three steps let one worker learn what the other is learning and a third
  step meet both; capacity 1 makes every second lesson of a scope prune.
  `Best = 12` lets usefulness meet its upper end, 10 and twice a
  reinforcement; the lower end is ten steps away and is `Clamp`'s.
  In `agents_alone` two rounds and two turns are the least with a middle.
- *Models.*  Two threads on one object meet each race over what it has learned; a
  server that refuses all four parameters uses up all attempts.
- *Designs.*  Three requests: two that overlap and one that comes after them.  Two
  agents, one of whose names is taken, and four skills (`MaxSkills`) so that the
  limit is met.
- *Boot.*  Two processes and one restart: the property needs one to overtake the
  other once.  Three tables and two attempts are the fewest with which a process can
  give up while something is missing.  The theorems cover any number of processes,
  tables, columns, attempts, accounts and texts.

Deadlock is checked in `mcp_registry`, where a request may always be made.  It is
switched off in the others: a run that has ended, a log that has been read,
deliveries, calls or requests that are used up leave nothing to do.

---

## 4. Fairness

- `Orchestrator`: weak fairness of `AcceptRun` and `PublishEntry` (a request handler
  runs to its end) and of each worker's `Step`, because `run_forever`
  (`services/orchestrator/runner.py:137-147`) polls for ever and catches whatever a
  step lets through.  Nothing is assumed of mishaps or of an administrator.
  Fairness is per worker and not per action: which successor comes first and how a
  branch decides stays open.
- `LogStream`: weak fairness of the listener (a thread of its own,
  `logbus.py:305-333`), of every emitter that has begun (`emit` does not wait), of
  `SayEnded` (it follows the update of the row in the same function), and of a
  socket's handler once it is open.  Nothing makes a worker log or a tab open.
- `AgentLoop`: weak fairness of each worker's `Runs`, all that a worker does inside a
  step it has begun: the function runs to its end, and every wait for a model or a
  tool has a deadline.  What the model answers stays open; nothing makes a step arrive.
- `SideEffects`, `MCPRegistry`, `ModelCalls`, `Design` and `Gateway` have no fairness:
  only safety is checked.

---

## 5. Theorems

The proofs hold for every value of the constants that the named assumptions allow:
any finite set of workers, any set of valid graphs, any limits; any number of
processes, threads, connections, tools, accounts, workspaces, texts, lessons,
rounds, providers, fragments, browsers and events.  Every safety invariant that a run
checks is a theorem, with the exceptions listed at the end.

### 5.1 `OrchestratorProofs`

Three hypotheses recur, and section 6 says what the code does without them:
`NoDuplicates` (no parked job is put back twice), `NothingMeets` (no branch is reached
by two edges) and `PlainEntry` (the entry is not a branch).  They are hypotheses of the
theorems and not assumptions on the constants, so that the same specification is
checked with and without them.

- `TypeCorrect`.  `TypeOK` is not inductive: that a worker's paths end at nodes of
  the graph needs that its job and target are nodes while it holds them.
  `TypeInv` adds `HoldsAJob`.
- `JoinsDispatchedOnce` (`JoinDispatchedOnce`).  `ClaimInv`: for a join, the jobs
  published and the workers about to publish one are together at most one, and
  either needs the claim.  `ClaimJoin` passes the right on to one worker; a crash
  or a refusal only loses it; the entry of a valid graph is not a join.
- `LimitOverrun` (`StepLimit`).  `LimitInv`: steps counted and workers executing are
  together less than limit plus workers.  `Load` adds an executing worker only
  below the limit, `CommitStep` exchanges one for a step.
- `SuccessCoversTheGraph` (`SuccessIsComplete`).  `EndsComplete`: who is about to
  end the run, or has ended it, has seen every node done; rows stay, so what was seen
  is still true when it is written.
- `NoNodeRunsTwice` (`RunsAtMostOnce`, where `NothingMeets`).  That a node has one row
  says too little to be kept: what may still make a second one is a second job, a
  second delivery of a job, or a worker that is about to dispatch it.  `PlaceInv` says
  which jobs and rows there can be at each stage of a worker; `OneDelivery`, that a job
  is at one place (in the queue, in hand or parked); `VisitsInv`, that a node that one
  edge leads to has at most one job, which came from its one predecessor's step, and
  that no worker has a path to it while another has (`OneVisit`, `Rooted`).
  Joins have `ClaimInv` instead.  `Ahead` is what is reached through branches alone,
  since one job decides a chain of them.
- `SuccessIsNeverTakenBack` (`SuccessIsFinal`).  When a run without branches
  succeeds, every node has its row, so nobody's commit of another row is left to
  reopen it (`NoNodeRunsTwice`); and nobody who would fail it has a job.
- `NoJobIsLost` (`NothingLost`).  `LostInv`: until something fails the run or a worker
  dies, each job created has its row or is at one of the places it can be taken
  from; a worker lets go of a job only by committing it, publishing being atomic with
  the row that pays for it.
- `ClosedPathsAreFound` (`ClosedMeansUnreachable`, where `NothingMeets` and
  `PlainEntry`).  The recursion `Closed` stops at nodes that have run;
  unreachability does not.  `SupportInv`: whatever has run, has been decided or is
  being dispatched has an edge into it from a node with a row which no verdict
  refuses.  So stopping there loses nothing.  What a recursive function computes would need an
  induction over the graph, which the provers cannot be given.  But a recursive
  function is by definition *some* solution of its equation if there is one:
  `ClosedIsSolved` exhibits one, the least set closed under the rule, so `Closed`
  solves the equation, and with `SupportInv` any solution will do.
- `JoinsWaitForAll` (`JoinNeverEarly`, the same graphs).  `JoinInv`: of a join that
  has a job or a worker about to make one, all paths are in or closed.  A row
  stays; and a closed path does not open again, since only supported nodes run
  or are decided (`SupportInv`), and a supported node is not closed.
- `FleetKeepsPromise` (`KeepsPromise`): every step of the fleet is a step of
  `RunPromise` or leaves what that speaks of unchanged.  `EndsWell` says that who ends
  the run has seen all that is reachable done; each row is a step of the promise
  because what feeds the node has come in (`Supported` for nodes with one edge,
  `JoinInv` for joins) and because the node had no row (`VisitsInv`).  Two
  hypotheses more, as action properties: nothing is written after the run has
  failed (`NothingAfterFailure`), and nobody ends it between a step's transaction
  and the one of the decisions behind it (`EndsOnChoices`).  Both are behaviours of
  the code, which section 6 lists; on the graphs of `orchestrator_fleet` with
  choices, with two workers and one fault, TLC finds `KeepsPromise` violated
  when either is dropped, and holding with both.
- `PlainGraphsKeepPromise`: in graphs without branches only the first is needed.

### 5.2 `SideEffectsProofs`

- `TypeCorrect`.
- `ClaimsAreResolved` (`ClaimHasHolder`), inductive with the types: a worker leaves
  the holding stages only by a commit or an abandon, which leave no row in flight, or
  dead.
- `ReplaysAgree` (`OneAnswer`).  `AnswersInv`: an answer told is the one in the row of
  its key, and that row has succeeded.  A succeeded row is never written again, since
  commit, abandon and re-opening are guarded.
- `RepetitionsArePaidFor` (`RepeatsNeedFailures`).  `RepeatsInv` counts, for each key,
  calls made and workers that are on the way to one: together at most one, and each
  worker once more for every attempt given up.  A worker that has read a failed row
  may reopen it although another has meanwhile, so the bound is not one per failure.

### 5.3 `MCPRegistryProofs`

- `TypeCorrect`.  `TypeInv` adds that a thread holds a connection at the stages
  that read through one.
- `NothingIsLeaked` (`NothingLeaks`), inductive with the types: a thread gives up a
  hold only to the map, to the stage that discards a loser, or by closing.
- `FailedNotReused` (`FailedStaysDropped`).  `OwnInv`: a connection has one owner at a
  time.  Who makes it has it alone; stored, it is the session of one process, and
  only that process's threads call through it; so the pop of whoever's call failed
  on it removes it from the only map that can have it.
- `LastWordKept` (`LastWordHolds`).  `WordInv`: while an operation runs alone, what it
  has read is still so (`Knows`: the tools it holds are those of the row, the skills it
  found are all there are, who disables has disabled the row), and no other handler is
  in the middle of one; so its last transaction makes row and skills agree.  Nothing
  is asked of the state it began in.

### 5.4 `AgentProofs`

The memory is proved for any user of it: `MemorySpec` lets any client store any
lesson and report any outcome at any time, and `AgentsUseMemory` shows that the workers
with their steps, reviews and skills are one such user (a step refinement).

- `MemoryTypeCorrect`, `AgentTypeCorrect`.
- `AgentsLessonsAreStoredOnce` (`OneCopyEach`).  `CopiesInv`: a process that is
  between its lookup and its store has no copy of that lesson in the table, or its
  lookup would have found one.
- `AgentsEarnTheirTrust` (`TrustIsEarned`).  `TrustInv` adds the value a call has
  loaded: what it will write is within what calls so far meant to add and to take.
- `AgentsKeepTheCapacity` (`CapacityHolds`).  That a scope is over its capacity by no
  more than the rows of calls still pruning is not inductive: two prunings may choose
  the same rows.  `CapacityInv` (`FitsWithout`) says it of every subset of those calls:
  whatever others do, those left will do.
- `VerdictsFit` (`VerdictFits`) and `CostsAreKnown` (`CostIsKnown`), from `AgentInv`:
  at each stage which text the reviewer has seen, which rounds are behind it, and how
  often the model has been asked by the draft, the reviews and the revisions so far.

### 5.5 `ModelProofs`

- `ModelTypeCorrect`, and from the same `ModelInv` (a record per thread of what its
  call has found, been refused, read and shown):
- `CallsUseSavedChoice` (`UsesSavedChoice`), `RefusalsAreShared` (`RefusalsMeet`) and
  `ScreensFollow` (`ScreenFollows`): which objects are built of which choices stays;
  an object only learns; and what was shown and what is pending add up to what was read.
- `AnswersAreWhole` (`AnswerIsWhole`), assuming `~CleanCuts`: with early ends that
  look like ends it is false (section 6, 10).

### 5.6 `LogStreamProofs`

Assuming one worker (`OneWorker`; section 6, 3, says why):

- `LogTypeCorrect`: `FeedInv`, with the numbers in use.  The counter of the worker and
  that of the gateway never give a number twice, since the gateway's event is said
  when the worker has ended, or is read back from the table (`DurableAt` says how many
  of the first events are in the table, without recursion).
- `EveryEventIsKept` (`EveryEventKept`), `FeedsAreInOrder` (`FeedInOrder`): what a
  socket has in hand, in its queue and in the channel is past what it has shown, or
  will be passed over.
- `FeedsHaveNoGaps` (`FeedHasNoGaps`), also assuming `ShortRuns` (a run has no more rows
  than a replay reads).  `WholeInv`: of a browser for which nothing was lost, every
  row after the last it was shown is still ahead of it in one of those places, in order.

### 5.7 `GatewayProofs`

- `NothingFallsBetween` (`TextIsIndexed`).  `WindowsMeet`: a window ends beyond its
  start and at most a window's size from it, and the next one starts no later than
  it ends and later than it started.  `KnowledgeInv`: what a request has cut so far
  covers the text up to the end of its last window.  Any text, any set of breaks,
  any size, any overlap.
- `OneSpaceEach` (`SpacesNeverMix`), from the same invariant: a labelled document's
  vectors are of the space its label names, and what a search compares was let
  through by the label.
- `OwnersAreServed` (`OwnersMayAct`).  `AccountsInv` adds `Refused`: a registration
  under way that will not carry the scope has another account of its workspace
  before it, or its gateway gives the scope to nobody.  So an insert that makes the
  first account of a workspace without it leaves a gateway that is set to "nobody",
  and that gateway's next boot under another setting passes the grant before it serves.

- `SchemaIsMade` (`SchemaReady`).  `Prepared` adds where a process is half way: what it
  still has to create is all that is missing; once it looks for columns every table is
  there, and each missing column is in a table it has yet to look at or among those it is
  adding.  Other processes only add to both (`SchemaOnlyGrows`), so neither is undone
  between two steps.  Any number of tables, columns and attempts, and any that were
  there before.

### 5.8 `DesignProofs`

For any number of threads and requests, any tables of teams, any connected tools, and
any answer of a model.  All follow from `DesignInv`:

- `AgentsKeepToTheirDefinition`: what a plan names (`MaxPlanned`) and what is attached
  (`MaxConnectors`) together are no more than an agent may hold (`MaxSkills`), and an
  update that would go past that is refused.
- `DesignsDeliver` (`LoneDesignDelivers`), `FailuresAreExplained`
  (`LoneFailureIsExplained`), `PermissionsAreAnnounced` (`WritesAreAnnounced`).  These
  speak of a request that has ended.  `Shape` says where a request is, in which list and
  for which agent.  `LoneInv` says of one that nothing has overlapped so far that the
  tables still agree with what it knows (`Fits`): each wish whose turn is over has its
  skill (`Served`), a name found to be free is free (`Vacant`), the row it read is the
  row that is there (`RowKnown`), who is seated has what was planned (`Seats`), and whom
  it stored holds nothing else (`Newcomers`).  A request that begins meanwhile takes
  `alone` away, so nothing is asked of other requests' steps.
- `DesignsOnlyAdd` (`LoneDesignOnlyAdds`), an action property: of all steps only `Hire`
  and `Save` write agents.  `Hire` comes after a look that found nobody (`Vacant`),
  `Save` writes the skills that are there and more (`RowKnown`).

### 5.9 Assumptions, and what is only model-checked

Assumptions: `WorkersAssumption`, `NodesAssumption`, `GraphsAssumption` (each graph is
finite and passes the validation of the code), `LimitsAssumption`, `BudgetAssumption`;
`OperationsAssumption`, `BoundsAssumption`; `ThreadsAssumption` (a thread belongs to
a process), `ConnectionsAssumption`, `CallersAssumption`, `ChangesAssumption`;
`ClientsAssumption` and the others of agents, memory, models and the log;
`SchemaAssumption`, `AccountsAssumption`, `KnowledgeAssumption`, `GatewayAssumption`;
`RegistriesAssumption`, `DesignAssumption`.  The last says of the tables of teams
(`Prepared`) that names differ and that an agent has fewer than `MaxPlanned` skills,
as it does throughout `services/design/blueprints.py` and `services/templates/catalogue.py`,
and that `MaxPlanned + MaxConnectors <= MaxSkills`; in the code 8, 8 and 24.
TLC evaluates them in the passing runs.  `~CleanCuts`, `OneWorker` and `ShortRuns` are
assumed by single theorems.

Only model-checked:

- liveness (`RunEnds`, `RunSucceeds`, `FeedTellsTheEnd`, `StepEnds`), which the provers
  cannot be asked.

---

## 6. Where the code and its documents part

`orchestrator_reopened` is a run that TLC stops with a counterexample; `PROJECT.json`
quotes the lines.  A step under way when its sibling fails the run sets the run back
to RUNNING when it commits: only `_succeed` and `_fail` guard their update,
`runner.py:281-293` does not.

The models show more, each by checking a stronger property than those that are kept:

1. *A stranded run.*  A decision that closes the last open path into a join whose other
   paths have come in leaves the join to nobody; the run stays RUNNING.  One worker is
   enough.  `<>[](status \in Terminal)` fails without `NoLateChoice`.
2. *An early success.*  Between a step's transaction and the one with its verdicts
   another worker sees nothing left to do and marks the run SUCCEEDED; the decision's
   successor is dispatched afterwards.
3. *Two workers number one run.*  Each counts from its own counter, and the second
   event with a number is not written down.  `EveryEventKept` fails with two workers.
4. *Keys of http skills.*  They contain `hash()`, which depends on the process: a
   delivery executed elsewhere makes the call again.
5. *Resynchronising an MCP server.*  A sync takes its tools from the session's first
   listing for as long as the session lives (`client.py:326`).
6. *Agents of one name.*  Nothing keeps a template's copy, or a user, from giving two
   agents one name; `find_by_name` then raises (`services/agents/registry.py:101`,
   `one_or_none`), and every design that plans that name fails.
   `LoneFailureIsExplained` lists this as one of two causes.
7. *A permission announced or not.*  `_note_write_scope` looks at the skills this plan
   gives (`services/design/service.py:676-715`); an agent that is reused may hold others
   that write, for which the run route then asks a permission the design did not
   mention.  `WritesAreAnnounced` is therefore about agents the design has stored.
8. *A lesson that fails a step.*  `remember` loads the duplicate in a session after the
   one that found it; one that is gone meanwhile is a `None` that ends the step, which
   had its answer (`services/memory/service.py:92`).
9. *A kept key.*  Saving another provider without a key keeps the key of the one before
   (`services/llm_proxy/store.py:159`).
10. *A clean cut.*  A stream that is closed without an error counts as finished if
    anything came (`services/llm_proxy/streaming.py`).
11. *Boot.*  SQLite's "duplicate column name" is not among the markers of
    `packages/cwap_common/db.py:75-79`: of two processes that add a column one dies.
    Two gateways that make the demo account at once: one dies of the unique address.
12. *A branch as the entry.*  `plan_next` plans one step for each edge that leaves the
    node just executed (`services/orchestrator/state_machine.py:93-130`), so both sides
    of a branch that is itself executed as a job run, although its docstring says that
    a branch node "still chooses exactly one of its two".  With a rejected side that is
    longer than the other (1-true-2-4, 1-false-3-5-4), TLC finds `JoinNeverEarly`
    violated: the join starts when the recorded verdict closes the side that is
    running.  The theorems about joins and closed paths therefore ask for `PlainEntry`.
13. *Written after the failure.*  A worker that is executing when another fails the run
    commits its row afterwards (and, see above, reopens the run).  With 2, this is all
    that keeps the fleet from implementing `RunPromise` (section 5.1).
14. *Success by losing.*  `init_db` takes its last lost race for "the outcome we wanted"
    (`packages/cwap_common/db.py:120-124`): another process has made that one table, or
    column, not the others.  On SQLite, with two attempts and three tables, a process that
    loses a race in each serves while the third table is missing; three attempts need
    four.  Without `~ boot[p].lost`, TLC finds `SchemaReady` violated in nine steps.

---

## 7. Plan

Done: the orchestrator with its queue and gates, the log and its feed, gated calls,
MCP sessions and rows, agents with reviews and memory, model choices and calls,
designs and registries, boot, accounts and documents; theorems for the safety
invariants of all of these, and the step refinements of
`RunPromise` by the fleet and of `MemorySpec` by the agents.

What would come next:

1. Composition of the log's events with the orchestrator's steps, so that the feed can
   be compared with what ran; liveness of the MCP client (every caller returns, by its
   deadline); an abstract "performed once" that the gate implements when nothing fails.
2. The graph a design builds against `ValidGraph`, so that what is designed is a graph
   the orchestrator's assumptions admit.

---

## 8. More hazards

`PROJECT.json` lists those with a property and the most important without one.  The
others met while reading:

- `runner.py:119`, a publish that is refused leaves the run PENDING without a job;
  `:493`, the output a run reports is that of whoever came first;
  `:508`, `_succeed` goes on whether or not its update changed anything: the
  outcome may be remembered and `run.succeeded` logged twice, or for a failed run;
  `:394`, a join's `$output` bindings depend on which sibling committed last;
  `:160`, `drain` stops at the first parked message.
- `runner.py:510`, `web/components/Builder.tsx:196`: a run's row ends before its last
  log row is written; a socket or a page that looks in between has no end to show.
- `logbus.py:161`, a log row is written outside the step's transaction; `:224`, a replay
  of 2000 rows leaves out what lies between them and the tail.
- `executors.py:683`, an error response is recorded as SUCCEEDED before the node fails;
  `:640`, a duplicate that meets a claim in flight fails the run.
- `skills/execution.py:223`, "already performed" of a claim in flight; `:335`, what is
  neither `MCPError` nor `MCPPolicyError` leaves a claim in flight; `:380`, composite
  skills that name each other.
- `mcp_connect/client.py:326`, an old listing; `:342`, a call that timed out keeps its
  session; `:650`, a fault leaves the session in the map until a call on it fails;
  `:347`, a failed call drops whichever session the process has by then; `:885`, two
  clients built at first use.
- `mcp_connect/registry.py:178`, other processes' sessions survive a removal; `:344`, a
  sync that outlives the removal; `:335`, skill names that collide after normalising.
- `skills/registry.py:237`, `agents/registry.py:87`: a lost count, a version shared by
  two edits.
- `llm_proxy/client.py:1263`, the deployment's provider tested and returned by two
  reads; `llm_proxy/store.py:159`, a key kept for another provider.
- `api_gateway/security.py:115`: two registrations of one address.
- `celery_app.py:46`: late acknowledgement redelivers the drain, not the job.
- `api_gateway/routers/workflows.py:75`: two saves of one workflow, the later wins.

---

## 9. Not modelled, and why

- Wire formats of model backends, the parsing of their answers, images, catalogues:
  conversions without state of their own.  `ModelCalls` has their outcomes.
- Retrieval and recall scores: arithmetic on vectors.  What they decide between is a
  choice in `Recalls`, `Look` and `Score`.
- The classification of a goal and the words of a blueprint, the layout of a designed
  graph: heuristics on words.
- Run inputs and variables: substitution in text.
- Settings, encryption of secrets, diagnostics, deployment, the template catalogue:
  tables and reports.  The settings that matter are constants or variables.
- Log-in, tokens, the saving of workflows, lists and statistics: one row read or written.
- The web interface beyond its socket: it draws what the gateway returns.
- Contracts other than the graph: schemas; every message the system writes is valid.
- Of modelled components: log lines in `Orchestrator`, `drain` (tests and Celery use
  it), the transport and the pre-flight request of an MCP connection, read-only tools
  (they pass the gate by), edits of a skill's own fields.
