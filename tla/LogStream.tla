------------------------------ MODULE LogStream ------------------------------
(***************************************************************************)
(* The log of one run: numbered and written down by the processes that     *)
(* emit it, carried to the gateway, and watched by browsers                *)
(* (packages/cwap_common/logbus.py, the socket of                          *)
(* services/api_gateway/routers/runs.py).                                  *)
(*                                                                         *)
(* Each process numbers events from a counter of its own, which it starts  *)
(* from the highest number in the table the first time it emits for a run. *)
(* A message is named by its place in the order of emission, so that what  *)
(* the table and a browser hold can be compared with what was said.        *)
(***************************************************************************)
EXTENDS Naturals, Sequences, FiniteSets

CONSTANTS
  Workers,       \* processes that execute steps and hold no browser
  Gateway,       \* the process that accepts the run and holds the browsers
  Clients,       \* browser tabs that open the socket, each once
  Buffer,        \* SUBSCRIBER_BUFFER
  HistoryLimit,  \* how many rows a replay reads
  MaxEvents,     \* bound on emitted events
  MaxFragments,  \* bound on transient events
  MaxDrops       \* bound on messages the relay loses

Processes == Workers \cup {Gateway}

ASSUME ProcessesAssumption == Gateway \notin Workers
ASSUME BoundsAssumption ==
  /\ {Buffer, HistoryLimit} \subseteq Nat \ {0}
  /\ {MaxEvents, MaxFragments, MaxDrops} \subseteq Nat

VARIABLES
  over,      \* the run's row says SUCCEEDED or FAILED
  rows,      \* run_logs: the events that have a row, unique by seq
  counter,   \* LogBus._sequences of each process; None while it has no entry
  emitter,   \* the event each process is in the middle of emitting
  channel,   \* messages between the relay's publish and the gateway's listener
  watchers,  \* LogBus._subscribers of the gateway
  client,    \* each socket handler: stage, status it read, queue, last_seq
  shown,     \* the messages each browser has been sent
  emitted,   \* history: how many durable events there were
  fragments, \* history: how many transient ones
  drops,     \* history: how many messages the relay lost
  missed     \* history: the browsers for which a message was dropped

vars == <<over, rows, counter, emitter, channel, watchers, client, shown,
          emitted, fragments, drops, missed>>

None == 0 - 1

Kinds  == {"step", "succeeded", "failed", "fragment"}
Event  == [id : Nat, seq : Nat, kind : Kinds]
Silent == [stage |-> "idle", event |-> [id |-> 0, seq |-> 0, kind |-> "step"]]

-----------------------------------------------------------------------------
(* Numbering. *)

Highest == IF rows = {} THEN 0 ELSE CHOOSE s \in {r.seq : r \in rows} :
                                      \A r \in rows : r.seq <= s

\* (slip) a process that meets the run late starts from nothing
StartFromZero(p) == IF counter[p] = None THEN 0 ELSE counter[p]

\* _current_seq: the process's own counter, or the table's for a run it has
\* none for.
CurrentSeq(p) == IF counter[p] = None THEN Highest ELSE counter[p]

\* _next_seq, under the bus's lock.  The event is not in the table yet.
Number(p, kind) ==
  /\ emitter[p].stage = "idle"
  /\ emitted < MaxEvents
  /\ emitted' = emitted + 1
  /\ counter' = [counter EXCEPT ![p] = CurrentSeq(p) + 1]
  /\ emitter' = [emitter EXCEPT ![p] =
       [stage |-> "persist",
        event |-> [id |-> emitted + 1, seq |-> CurrentSeq(p) + 1, kind |-> kind]]]

\* The gateway says that the run was accepted before any worker can have it.
Accept ==
  /\ emitted = 0
  /\ Number(Gateway, "step")
  /\ UNCHANGED <<over, rows, channel, watchers, client, shown, fragments, drops, missed>>

Accepted == emitted > 0 /\ emitter[Gateway].stage = "idle"

Log(w) ==
  /\ Accepted
  /\ Number(w, "step")
  /\ UNCHANGED <<over, rows, channel, watchers, client, shown, fragments, drops, missed>>

\* A run is ended in its row first (the guarded update of _succeed and _fail),
\* and said to be ended afterwards.
EndRun(w) ==
  /\ Accepted
  /\ emitter[w].stage = "idle"
  /\ ~over
  /\ over' = TRUE
  /\ emitter' = [emitter EXCEPT ![w].stage = "ending"]
  /\ UNCHANGED <<rows, counter, channel, watchers, client, shown, emitted, fragments,
                 drops, missed>>

SayEnded(w) ==
  /\ emitter[w].stage = "ending"
  /\ emitted' = emitted + 1
  /\ counter' = [counter EXCEPT ![w] = CurrentSeq(w) + 1]
  /\ \E kind \in {"succeeded", "failed"} :
       emitter' = [emitter EXCEPT ![w] =
         [stage |-> "persist",
          event |-> [id |-> emitted + 1, seq |-> CurrentSeq(w) + 1, kind |-> kind]]]
  /\ UNCHANGED <<over, rows, channel, watchers, client, shown, fragments, drops, missed>>

FragmentSeq(p) == CurrentSeq(p)

\* transient: a fragment of an answer takes the number the run has reached and is
\* never written down.
Stream(w) ==
  /\ Accepted
  /\ ~over
  /\ emitter[w].stage = "idle"
  /\ fragments < MaxFragments
  /\ fragments' = fragments + 1
  /\ counter' = [counter EXCEPT ![w] = CurrentSeq(w)]
  /\ emitter' = [emitter EXCEPT ![w] =
       [stage |-> "fan out",
        event |-> [id |-> fragments + 1, seq |-> FragmentSeq(w), kind |-> "fragment"]]]
  /\ UNCHANGED <<over, rows, channel, watchers, client, shown, emitted, drops, missed>>

-----------------------------------------------------------------------------
(* Publishing. *)

\* append_log: one row per number; a second event with the number is not written.
Persist(p) ==
  /\ emitter[p].stage = "persist"
  /\ LET e == emitter[p].event IN
     rows' = IF \E r \in rows : r.seq = e.seq THEN rows ELSE rows \cup {e}
  /\ emitter' = [emitter EXCEPT ![p].stage = "fan out"]
  /\ UNCHANGED <<over, counter, channel, watchers, client, shown, emitted, fragments,
                 drops, missed>>

\* (slip) a place is left over
AlmostFull(q) == Len(q) + 1 >= Buffer

Full(q) == Len(q) >= Buffer

\* _offer: a subscriber that cannot keep up loses its oldest message.
Offer(q, e) == IF Full(q) THEN Append(Tail(q), e) ELSE Append(q, e)

Deliver(e) ==
  /\ client' = [c \in Clients |->
       IF c \in watchers THEN [client[c] EXCEPT !.queue = Offer(@, e)] ELSE client[c]]
  /\ missed' = missed \cup {c \in watchers : Len(client[c].queue) = Buffer}

\* _fan_out reaches the browsers of this process.
FanOut(p) ==
  /\ emitter[p].stage = "fan out"
  /\ IF p = Gateway THEN Deliver(emitter[p].event) ELSE UNCHANGED <<client, missed>>
  /\ emitter' = [emitter EXCEPT ![p].stage = "relay"]
  /\ UNCHANGED <<over, rows, counter, channel, watchers, shown, emitted, fragments, drops>>

\* The relay's publish.  What it cannot send is lost, and the emitter goes on; a
\* process that has said the run is over forgets its counter.
Relay(p) ==
  /\ emitter[p].stage = "relay"
  /\ \/ channel' = Append(channel, emitter[p].event) /\ UNCHANGED <<drops, missed>>
     \/ /\ drops < MaxDrops
        /\ drops' = drops + 1
        /\ missed' = missed \cup watchers
        /\ UNCHANGED channel
  /\ counter' = IF emitter[p].event.kind \in {"succeeded", "failed"}
                  THEN [counter EXCEPT ![p] = None] ELSE counter
  /\ emitter' = [emitter EXCEPT ![p] = Silent]
  /\ UNCHANGED <<over, rows, watchers, client, shown, emitted, fragments>>

\* The gateway's listener.  It hears the gateway's own messages as well.
Listen ==
  /\ channel # <<>>
  /\ channel' = Tail(channel)
  /\ Deliver(Head(channel))
  /\ UNCHANGED <<over, rows, counter, emitter, watchers, shown, emitted, fragments, drops>>

-----------------------------------------------------------------------------
(* A browser's socket (stream_logs). *)

\* The run's row is read before anything else.
Open(c) ==
  /\ client[c].stage = "away"
  /\ client' = [client EXCEPT ![c].stage = "opened", ![c].over = over]
  /\ UNCHANGED <<over, rows, counter, emitter, channel, watchers, shown, emitted, fragments,
                 drops, missed>>

Subscribe(c) ==
  /\ client[c].stage = "opened"
  /\ watchers' = watchers \cup {c}
  /\ client' = [client EXCEPT ![c].stage = "subscribed"]
  /\ UNCHANGED <<over, rows, counter, emitter, channel, shown, emitted, fragments, drops, missed>>

\* history: the rows with the lowest numbers, as many as the limit allows.
Position(r) == Cardinality({s \in rows : s.seq <= r.seq})

History ==
  LET n == IF Cardinality(rows) < HistoryLimit THEN Cardinality(rows) ELSE HistoryLimit
  IN  [i \in 1..n |-> CHOOSE r \in rows : Position(r) = i]

LastOf(h) == IF h = <<>> THEN 0 ELSE h[Len(h)].seq

\* The replay.  A run that was over when its row was read is not tailed.
Replay(c) ==
  /\ client[c].stage = "subscribed"
  /\ shown' = [shown EXCEPT ![c] = History]
  /\ client' = [client EXCEPT ![c].last = LastOf(History),
                              ![c].stage = IF client[c].over THEN "closed" ELSE "tailing"]
  /\ watchers' = IF client[c].over THEN watchers \ {c} ELSE watchers
  /\ UNCHANGED <<over, rows, counter, emitter, channel, emitted, fragments, drops, missed>>

\* (slip) the last number replayed is let through once more
FreshFrom(c, e) == e.kind = "fragment" \/ e.seq >= client[c].last

\* What was replayed already is not sent again; a fragment has no row, so it
\* cannot have been.
Fresh(c, e) == e.kind = "fragment" \/ e.seq > client[c].last

\* (slip) a failed run is not the end of the feed
EndsWithSuccess(e) == e.kind = "succeeded"

Ends(e) == e.kind \in {"succeeded", "failed"}

Rest(c) == [client[c] EXCEPT !.queue = Tail(@)]

Skip(c) ==
  /\ client[c].stage = "tailing"
  /\ client[c].queue # <<>>
  /\ ~Fresh(c, Head(client[c].queue))
  /\ client' = [client EXCEPT ![c] = Rest(c)]
  /\ UNCHANGED <<over, rows, counter, emitter, channel, watchers, shown, emitted, fragments,
                 drops, missed>>

Send(c) ==
  /\ client[c].stage = "tailing"
  /\ client[c].queue # <<>>
  /\ LET e == Head(client[c].queue) IN
     /\ Fresh(c, e)
     /\ shown' = [shown EXCEPT ![c] = Append(@, e)]
     /\ client' = [client EXCEPT ![c] =
          [Rest(c) EXCEPT !.last  = IF e.kind = "fragment" THEN @ ELSE e.seq,
                           !.stage = IF Ends(e) THEN "closed" ELSE @]]
     /\ watchers' = IF Ends(e) THEN watchers \ {c} ELSE watchers
  /\ UNCHANGED <<over, rows, counter, emitter, channel, emitted, fragments, drops, missed>>

\* The tab is closed: the handler unsubscribes.
Leave(c) ==
  /\ client[c].stage \in {"opened", "subscribed", "tailing"}
  /\ client' = [client EXCEPT ![c].stage = "gone"]
  /\ watchers' = watchers \ {c}
  /\ UNCHANGED <<over, rows, counter, emitter, channel, shown, emitted, fragments, drops, missed>>

-----------------------------------------------------------------------------
Init ==
  /\ over = FALSE
  /\ rows = {}
  /\ counter = [p \in Processes |-> None]
  /\ emitter = [p \in Processes |-> Silent]
  /\ channel = <<>>
  /\ watchers = {}
  /\ client = [c \in Clients |->
       [stage |-> "away", over |-> FALSE, queue |-> <<>>, last |-> 0]]
  /\ shown = [c \in Clients |-> <<>>]
  /\ emitted = 0
  /\ fragments = 0
  /\ drops = 0
  /\ missed = {}

Emit(p) == Persist(p) \/ FanOut(p) \/ Relay(p)
Watch(c) == Open(c) \/ Subscribe(c) \/ Replay(c) \/ Skip(c) \/ Send(c)

Next ==
  \/ Accept \/ Listen
  \/ \E w \in Workers : Log(w) \/ EndRun(w) \/ SayEnded(w) \/ Stream(w)
  \/ \E p \in Processes : Emit(p)
  \/ \E c \in Clients : Watch(c) \/ Leave(c)

Spec == Init /\ [][Next]_vars

\* An emitter carries what it has begun through, the listener's thread and the
\* sockets' handlers run on.  Nothing makes a worker log, or a tab open.
Fairness ==
  /\ WF_vars(Listen)
  /\ \A p \in Processes : WF_vars(Emit(p))
  /\ \A w \in Workers : WF_vars(SayEnded(w))
  /\ \A c \in Clients : WF_vars(Subscribe(c) \/ Replay(c) \/ Skip(c) \/ Send(c))

FairSpec == Spec /\ Fairness

=============================================================================
