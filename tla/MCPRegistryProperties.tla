------------------------ MODULE MCPRegistryProperties ------------------------
(* What the connections and the skills may be relied on for. *)
EXTENDS MCPRegistry

ClientStages == {"idle", "looking", "dialing", "inserting", "discarding",
                 "using", "dropping", "closing", "done"}
CallerStages == {"idle", "probing", "storing", "reading", "listing", "comparing", "writing",
                 "dropping", "disabling", "resolving", "deleting", "holding", "calling"}

ClientState ==
  [at : ClientStages, goal : {"none", "list", "call", "probe", "drop"},
   conn : Connections \cup {None}, spare : Connections \cup {None},
   ok : BOOLEAN, tools : SUBSET Tools]

CallerState ==
  [op : {"none", "connect", "sync", "enable", "disable", "disconnect", "agent"},
   at : CallerStages, tools : SUBSET Tools, found : SUBSET Tools]

ClientTypes ==
  /\ offers \subseteq Tools
  /\ conn \in [Connections -> {"unused", "opening", "open", "closed"}]
  /\ listing \in [Connections -> SUBSET Tools]
  /\ sessions \in [Processes -> Connections \cup {None}]
  /\ client \in [Threads -> ClientState]
  /\ failed \subseteq Connections

RegistryTypes ==
  /\ server \in {"absent", "enabled", "disabled", "deleted"}
  /\ cached \subseteq Tools
  /\ skills \in [Tools -> {"none", "available", "unavailable"}]
  /\ caller \in [Threads -> CallerState]
  /\ changes \in 0..MaxChanges
  /\ peace \in {"alone", "crowded", "settled"}

TypeOK == ClientTypes /\ RegistryTypes

-----------------------------------------------------------------------------
\* A thread is about to store the connection, or to close it.
InHand(t, c) ==
  \/ client[t].conn = c /\ client[t].at \in {"dialing", "inserting", "closing"}
  \/ client[t].spare = c /\ In(t, "discarding")

\* A connection that is up is the session of a process or in the hands of a thread
\* that will store or close it ("keep one session per server rather than leaking
\* the loser"; no attempt leaves a task "holding a socket, or a subprocess, that
\* nobody would ever close").
NothingLeaks ==
  \A c \in Connections : conn[c] \in Live =>
    (\E p \in Processes : sessions[p] = c) \/ (\E t \in Threads : InHand(t, c))

\* A session is not found again once a call that failed on it has dropped it,
\* whatever other threads store meanwhile ("drop it so the next invocation
\* reconnects rather than failing the same way").
FailedStaysDropped == \A p \in Processes : sessions[p] \notin failed

\* An operation on the server that ran by itself leaves skills that agree with
\* the row, whatever operations that overlapped had left before ("the server's
\* tool list is the truth", "disabling [...] disables its skills", "remove a server
\* and the skills it contributed").
LastWordHolds ==
  peace = "settled" =>
    CASE server = "enabled" -> Available = cached
      [] server = "disabled" -> Available = {}
      [] OTHER -> Offered = {}

=============================================================================
