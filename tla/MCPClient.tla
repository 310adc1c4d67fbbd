------------------------------ MODULE MCPClient ------------------------------
(***************************************************************************)
(* Connections to one MCP server (services/mcp_connect/client.py): each    *)
(* process keeps at most one session and reuses it, its threads ask for    *)
(* the session, call tools through it, and drop it.                        *)
(*                                                                         *)
(* A connection is a task of its own that opens the transport and waits    *)
(* until it is told to stop.  Every wait has a deadline, so an answer may  *)
(* always be replaced by the error of the deadline.                        *)
(***************************************************************************)
EXTENDS Naturals, FiniteSets

CONSTANTS
  Processes,       \* each has an MCPClient of its own
  Threads,         \* what calls it: request handlers, agents
  Home,            \* the process a thread belongs to
  Tools,           \* what the server may advertise
  MaxConnections   \* bound on connections ever opened

ASSUME ThreadsAssumption == Home \in [Threads -> Processes]
ASSUME ConnectionsAssumption == MaxConnections \in Nat

VARIABLES
  offers,    \* the tools the server advertises now
  conn,      \* each connection's task: unused, opening, open, or told to stop: closed
  listing,   \* the tools a connection listed when it was opened
  sessions,  \* MCPClient._sessions of each process, for this server
  client,    \* what each thread is doing in the client
  failed     \* history: connections dropped because a call on them failed

clientVars == <<offers, conn, listing, sessions, client, failed>>

Connections == 1..MaxConnections
None == 0

Live == {"opening", "open"}

Idle == [at |-> "idle", goal |-> "none", conn |-> None, spare |-> None, ok |-> FALSE, tools |-> {}]

In(t, stage) == client[t].at = stage
Goal(t) == client[t].goal
Goes(t, stage) == client' = [client EXCEPT ![t].at = stage]

\* The call returns, or raises.
Return(t, ok, tools) ==
  client' = [client EXCEPT ![t] = [Idle EXCEPT !.at = "done", !.ok = ok, !.tools = tools]]

-----------------------------------------------------------------------------
(* What a caller does: ask, and take the answer. *)

\* list_tools, call_tool, probe or disconnect.
Ask(t, goal) ==
  /\ In(t, "idle")
  /\ client' = [client EXCEPT ![t] = [Idle EXCEPT !.goal = goal,
                                      !.at = IF goal = "drop" THEN "dropping" ELSE "looking"]]

Collect(t) == In(t, "done") /\ client' = [client EXCEPT ![t] = Idle]

-----------------------------------------------------------------------------
(* _session_for *)

\* The lookup, under the lock; a probe does without.
Known(t) == IF Goal(t) = "probe" THEN None ELSE sessions[Home[t]]

Lookup(t) ==
  /\ In(t, "looking")
  /\ Known(t) # None
  /\ client' = [client EXCEPT ![t].at = "using", ![t].conn = Known(t)]
  /\ UNCHANGED <<offers, conn, listing, sessions, failed>>

\* No session: the next connection's task starts.
Connect(t) ==
  /\ In(t, "looking")
  /\ Known(t) = None
  /\ \E c \in Connections :
       /\ conn[c] = "unused" /\ \A d \in 1..(c - 1) : conn[d] # "unused"
       /\ conn' = [conn EXCEPT ![c] = "opening"]
       /\ client' = [client EXCEPT ![t].at = "dialing", ![t].conn = c]
  /\ UNCHANGED <<offers, listing, sessions, failed>>

\* The policy or the pre-flight request refuses before a transport is opened.
Refused(t) ==
  /\ In(t, "looking")
  /\ Known(t) = None
  /\ Return(t, FALSE, {})
  /\ UNCHANGED <<offers, conn, listing, sessions, failed>>

\* The handshake and the listing are done.
Connected(t) ==
  /\ In(t, "dialing")
  /\ conn' = [conn EXCEPT ![client[t].conn] = "open"]
  /\ listing' = [listing EXCEPT ![client[t].conn] = offers]
  /\ Goes(t, IF Goal(t) = "probe" THEN "closing" ELSE "inserting")
  /\ UNCHANGED <<offers, sessions, failed>>

\* _shutdown tells the task to stop, and waits a bounded time for what it unwinds.
Stopped(c) == [conn EXCEPT ![c] = "closed"]

\* A phase fails or stalls: the caller is answered before the transport unwinds.
NotConnected(t) ==
  /\ In(t, "dialing")
  /\ conn' = Stopped(client[t].conn)
  /\ Return(t, FALSE, {})
  /\ UNCHANGED <<offers, listing, sessions, failed>>

\* (slip) the loser of the race is forgotten
KeepsLoser(t) ==
  /\ In(t, "inserting")
  /\ LET p == Home[t]
         winner == IF sessions[p] = None THEN client[t].conn ELSE sessions[p] IN
       /\ sessions' = [sessions EXCEPT ![p] = winner]
       /\ client' = [client EXCEPT ![t].at = "using", ![t].conn = winner]
  /\ UNCHANGED <<offers, conn, listing, failed>>

\* setdefault, under the lock: the first session stays, a later one is discarded.
Insert(t) ==
  /\ In(t, "inserting")
  /\ LET p == Home[t]  mine == client[t].conn IN
       IF sessions[p] = None
         THEN /\ sessions' = [sessions EXCEPT ![p] = mine]
              /\ Goes(t, "using")
         ELSE /\ client' = [client EXCEPT ![t].at = "discarding",
                                          ![t].conn = sessions[p], ![t].spare = mine]
              /\ UNCHANGED sessions
  /\ UNCHANGED <<offers, conn, listing, failed>>

Discard(t) ==
  /\ In(t, "discarding")
  /\ conn' = Stopped(client[t].spare)
  /\ client' = [client EXCEPT ![t].at = "using", ![t].spare = None]
  /\ UNCHANGED <<offers, listing, sessions, failed>>

-----------------------------------------------------------------------------
(* list_tools and call_tool *)

\* The tools are those the connection listed when it was opened.
ListTools(t) ==
  /\ In(t, "using") /\ Goal(t) = "list"
  /\ Return(t, TRUE, listing[client[t].conn])
  /\ UNCHANGED <<offers, conn, listing, sessions, failed>>

\* The tool's result, or its report of an error.
Reply(t) ==
  /\ In(t, "using") /\ Goal(t) = "call"
  /\ conn[client[t].conn] = "open"
  /\ \E ok \in BOOLEAN : Return(t, ok, {})
  /\ UNCHANGED <<offers, conn, listing, sessions, failed>>

\* The deadline passes: submit raises an MCPError, and the session stays.
TimeOut(t) ==
  /\ In(t, "using") /\ Goal(t) = "call"
  /\ Return(t, FALSE, {})
  /\ UNCHANGED <<offers, conn, listing, sessions, failed>>

\* (slip) the session of a failed call stays
KeepsSession(t) ==
  /\ In(t, "using") /\ Goal(t) = "call"
  /\ failed' = failed \cup {client[t].conn}
  /\ Return(t, FALSE, {})
  /\ UNCHANGED <<offers, conn, listing, sessions>>

\* Anything else raised by the call: the connection is closed, or the server
\* refused the request.
CallFails(t) ==
  /\ In(t, "using") /\ Goal(t) = "call"
  /\ Goes(t, "dropping")
  /\ UNCHANGED <<offers, conn, listing, sessions, failed>>

-----------------------------------------------------------------------------
(* disconnect *)

\* The pop, under the lock: whatever session the process has now.
Pop(t) ==
  /\ In(t, "dropping")
  /\ LET p == Home[t]  known == sessions[p] IN
       /\ sessions' = [sessions EXCEPT ![p] = None]
       /\ failed' = IF Goal(t) = "call" THEN failed \cup {client[t].conn} ELSE failed
       /\ IF known = None
            THEN Return(t, Goal(t) = "drop", {})
            ELSE client' = [client EXCEPT ![t].at = "closing", ![t].conn = known]
  /\ UNCHANGED <<offers, conn, listing>>

\* _shutdown of a session that was popped, or of a probe's.
Close(t) ==
  /\ In(t, "closing")
  /\ conn' = Stopped(client[t].conn)
  /\ Return(t, Goal(t) # "call",
            IF Goal(t) = "probe" THEN listing[client[t].conn] ELSE {})
  /\ UNCHANGED <<offers, listing, sessions, failed>>

-----------------------------------------------------------------------------
(* The connection's task and the server. *)

\* The transport reports a fault, or ends: the session stays where it was.
Fault(c) ==
  /\ conn[c] = "open"
  /\ conn' = Stopped(c)
  /\ UNCHANGED <<offers, listing, sessions, client, failed>>

ClientInit ==
  /\ offers = Tools
  /\ conn = [c \in Connections |-> "unused"]
  /\ listing = [c \in Connections |-> {}]
  /\ sessions = [p \in Processes |-> None]
  /\ client = [t \in Threads |-> Idle]
  /\ failed = {}

\* What a thread does by itself, the passing of its deadlines included.
ClientStep(t) ==
  \/ Lookup(t) \/ Connect(t) \/ Refused(t) \/ NotConnected(t) \/ Insert(t) \/ Discard(t)
  \/ ListTools(t) \/ TimeOut(t) \/ CallFails(t) \/ Pop(t) \/ Close(t)

\* What it takes the server to do.
ServerStep(t) == Connected(t) \/ Reply(t)

=============================================================================
