------------------------ MODULE LogStreamProperties ------------------------
(* What the log and those who watch it may rely on; see LogStream. *)
EXTENDS LogStream

-----------------------------------------------------------------------------
Unwritten == {emitter[p].event.id : p \in {q \in Processes : emitter[q].stage = "persist"}}

\* Every event that was emitted is in the table, once its emitter has written it
\* ("Every action, external call payload, state change and error becomes a LogEvent
\* that goes to [...] the run_logs table, so the run report is durable").
EveryEventKept ==
  \A i \in (1..emitted) \ Unwritten : \E r \in rows : r.id = i

DurableAt(c) == {i \in 1..Len(shown[c]) : shown[c][i].kind # "fragment"}

\* A browser never sees a durable event twice, nor after one that was said later,
\* wherever the replay and the live tail overlap and however often the relay says it.
FeedInOrder ==
  \A c \in Clients : \A i, j \in DurableAt(c) :
    i < j => shown[c][i].id < shown[c][j].id

\* Unless a message was dropped for it, a browser has seen every row up to the
\* last it has seen ("the feed has no gaps or duplicates").
FeedHasNoGaps ==
  \A c \in Clients \ missed : \A i \in DurableAt(c) : \A r \in rows :
    r.seq <= shown[c][i].seq => \E j \in 1..i : shown[c][j] = r

-----------------------------------------------------------------------------
Told(c) == \E i \in 1..Len(shown[c]) : Ends(shown[c][i])

\* A browser that is tailing the run when it ends is told so, by the replay it has
\* just been sent or by the tail, unless a message was dropped for it or the tab is
\* gone.
FeedTellsTheEnd ==
  \A c \in Clients :
    (over /\ client[c].stage = "tailing")
      ~> (Told(c) \/ client[c].stage = "gone" \/ c \in missed)

=============================================================================
