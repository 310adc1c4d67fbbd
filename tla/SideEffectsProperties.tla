------------------------ MODULE SideEffectsProperties ------------------------
(* What a gated call may rely on; see SideEffects. *)
EXTENDS SideEffects

Stages == {"idle", "ready", "claiming", "reading", "reopening", "calling", "answered",
           "failed", "failing", "leaving", "dead"}

WorkerState == [stage : Stages, op : Operations, answer : Answers, uses : 0..MaxUses]

TypeOK ==
  /\ step \in {"node", "agent"}
  /\ copies \in 0..Copies
  /\ over \in BOOLEAN
  /\ ledger \in [Keys -> Entry]
  /\ worker \in [Workers -> WorkerState]
  /\ acts \in [Keys -> Nat]
  /\ failures \in [Keys -> Nat]
  /\ told \subseteq [key : Keys, answer : Answers]

-----------------------------------------------------------------------------
\* What an operation asks for is done once, and once more at most by each worker
\* for every attempt that was given up ("however many times the broker redelivers
\* this job, the third party is called once"; a failure may be retried, and
\* everyone who reads the failed row retries).
RepeatsNeedFailures ==
  \A k \in Keys : acts[k] <= 1 + Cardinality(Workers) * failures[k]

\* Every replay of a key hands out the same answer, and one that was received:
\* "it cannot clobber a claim another worker already resolved".
OneAnswer ==
  \A t \in told : /\ t.answer.by \in Workers
                  /\ t.answer.ok => acts[t.key] > 0
                  /\ \A u \in told : u.key = t.key => u.answer = t.answer

Holds(w, k) == Mine(w) = k /\ worker[w].stage \in {"calling", "answered", "failed", "dead"}

\* A claim in flight has a worker under way with it, or one that died: nobody who
\* goes on living leaves a claim that keeps all later deliveries from the call.
ClaimHasHolder ==
  \A k \in Keys : ledger[k].status = "IN_FLIGHT" => \E w \in Workers : Holds(w, k)

=============================================================================
