----------------------------- MODULE MCPRegistry -----------------------------
(***************************************************************************)
(* One MCP server of a tenant and the skills made of its tools             *)
(* (services/mcp_connect/registry.py, with the handlers of                 *)
(* services/api_gateway/routers/mcp.py), and the agents that call them     *)
(* (_run_mcp of services/skills/execution.py).  The gateway's handlers run *)
(* at the same time; each database session is one step.                    *)
(***************************************************************************)
EXTENDS MCPClient

CONSTANTS
  Handlers,     \* the gateway's threads
  Agents,       \* the workers' threads
  MaxChanges    \* bound on changes of what the server advertises

ASSUME CallersAssumption == Threads = Handlers \cup Agents /\ Handlers \cap Agents = {}
ASSUME ChangesAssumption == MaxChanges \in Nat

VARIABLES
  server,    \* the server's row: absent, enabled, disabled, deleted
  cached,    \* the tools stored in it
  skills,    \* each tool's skill row: none, available, unavailable
  caller,    \* what each thread is doing outside the client
  changes,   \* how often the server has changed its tools
  peace      \* history: whether the last operation ran alone, and to its end

registryVars == <<server, cached, skills, caller, changes, peace>>
vars == <<clientVars, registryVars>>

Exists == server \in {"enabled", "disabled"}
Offered == {x \in Tools : skills[x] # "none"}
Available == {x \in Tools : skills[x] = "available"}

AtRest == [op |-> "none", at |-> "idle", tools |-> {}, found |-> {}]

Stage(t, stage) == caller[t].at = stage
Proceed(t, stage) == caller' = [caller EXCEPT ![t].at = stage]
Finish(t) == caller' = [caller EXCEPT ![t] = AtRest]

\* An operation starts, by itself or beside another.
Begin(t, op, stage) ==
  /\ t \in Handlers /\ Stage(t, "idle")
  /\ caller' = [caller EXCEPT ![t] = [AtRest EXCEPT !.op = op, !.at = stage]]
  /\ peace' = IF \A u \in Handlers \ {t} : Stage(u, "idle") THEN "alone" ELSE "crowded"

\* Its last transaction.
Conclude(t) ==
  /\ Finish(t)
  /\ peace' = IF peace = "alone" THEN "settled" ELSE peace

-----------------------------------------------------------------------------
(* connect *)

\* A name that is taken is refused.  The server is tried first.
ConnectServer(t) ==
  /\ server = "absent"
  /\ Begin(t, "connect", "probing")
  /\ Ask(t, "probe")
  /\ UNCHANGED <<offers, conn, listing, sessions, failed, server, cached, skills, changes>>

Probed(t) ==
  /\ Stage(t, "probing")
  /\ Collect(t)
  /\ caller' = [caller EXCEPT ![t] =
       IF client[t].ok THEN [@ EXCEPT !.at = "storing", !.tools = client[t].tools] ELSE AtRest]
  /\ UNCHANGED <<offers, conn, listing, sessions, failed, server, cached, skills, changes, peace>>

\* The row, unless another handler has stored the name meanwhile.
Store(t) ==
  /\ Stage(t, "storing")
  /\ IF server = "absent"
       THEN /\ server' = "enabled" /\ cached' = caller[t].tools
            /\ Proceed(t, "reading")
       ELSE Finish(t) /\ UNCHANGED <<server, cached>>
  /\ UNCHANGED <<clientVars, skills, changes, peace>>

-----------------------------------------------------------------------------
(* sync_skills *)

Sync(t) ==
  /\ Exists
  /\ Begin(t, "sync", "reading")
  /\ UNCHANGED <<clientVars, server, cached, skills, changes>>

\* The record; nothing is done for a server that is gone or switched off.
Read(t) ==
  /\ Stage(t, "reading")
  /\ IF server = "enabled"
       THEN /\ caller' = [caller EXCEPT ![t].at = "listing", ![t].tools = cached]
            /\ Ask(t, "list")
       ELSE Finish(t) /\ UNCHANGED client
  /\ UNCHANGED <<offers, conn, listing, sessions, failed, server, cached, skills, changes, peace>>

\* _refresh_tools: the tools are stored with the row, and if the server cannot be
\* reached those of the record are taken.
Refresh(t) ==
  /\ Stage(t, "listing")
  /\ Collect(t)
  /\ IF client[t].ok
       THEN /\ caller' = [caller EXCEPT ![t].at = "comparing", ![t].tools = client[t].tools]
            /\ cached' = IF Exists THEN client[t].tools ELSE cached
       ELSE Proceed(t, "comparing") /\ UNCHANGED cached
  /\ UNCHANGED <<offers, conn, listing, sessions, failed, server, skills, changes, peace>>

\* The skills the server has now: to compare with, or to delete.
Find(t) ==
  /\ Stage(t, "comparing") \/ Stage(t, "resolving")
  /\ caller' = [caller EXCEPT ![t].found = Offered,
                              ![t].at = IF @ = "comparing" THEN "writing" ELSE "deleting"]
  /\ UNCHANGED <<clientVars, server, cached, skills, changes, peace>>

\* (slip) a tool the server no longer has keeps its skill
OnlyAdded(wanted, found) ==
  [x \in Tools |-> IF x \in wanted THEN "available" ELSE skills[x]]

Reconciled(wanted, found) ==
  [x \in Tools |-> CASE x \in wanted -> "available"
                     [] x \in found \ wanted -> "unavailable"
                     [] OTHER -> skills[x]]

\* All or nothing: a skill to be marked that was deleted meanwhile is an error.
Write(t) ==
  /\ Stage(t, "writing")
  /\ LET wanted == caller[t].tools  found == caller[t].found IN
       IF found \ wanted \subseteq Offered
         THEN skills' = Reconciled(wanted, found) /\ Conclude(t)
         ELSE Finish(t) /\ UNCHANGED <<skills, peace>>
  /\ UNCHANGED <<clientVars, server, cached, changes>>

-----------------------------------------------------------------------------
(* set_enabled and disconnect *)

RowState(enabled) == IF enabled THEN "enabled" ELSE "disabled"

Switch(t, enabled) ==
  /\ Exists
  /\ Begin(t, IF enabled THEN "enable" ELSE "disable", "dropping")
  /\ server' = RowState(enabled)
  /\ Ask(t, "drop")
  /\ UNCHANGED <<offers, conn, listing, sessions, failed, cached, skills, changes>>

Disconnect(t) ==
  /\ server # "absent"
  /\ Begin(t, "disconnect", "dropping")
  /\ Ask(t, "drop")
  /\ UNCHANGED <<offers, conn, listing, sessions, failed, server, cached, skills, changes>>

\* The session of this process is gone.
Dropped(t) ==
  /\ Stage(t, "dropping")
  /\ Collect(t)
  /\ Proceed(t, CASE caller[t].op = "enable" -> "reading"
                  [] caller[t].op = "disable" -> "disabling"
                  [] OTHER -> "resolving")
  /\ UNCHANGED <<offers, conn, listing, sessions, failed, server, cached, skills, changes, peace>>

DisableSkills(t) ==
  /\ Stage(t, "disabling")
  /\ skills' = [x \in Tools |-> IF x \in Offered THEN "unavailable" ELSE skills[x]]
  /\ Conclude(t)
  /\ UNCHANGED <<clientVars, server, cached, changes>>

\* The row, and with it the skills that were found.
Delete(t) ==
  /\ Stage(t, "deleting")
  /\ IF Exists
       THEN /\ server' = "deleted" /\ cached' = {}
            /\ skills' = [x \in Tools |-> IF x \in caller[t].found THEN "none" ELSE skills[x]]
            /\ Conclude(t)
       ELSE Finish(t) /\ UNCHANGED <<server, cached, skills, peace>>
  /\ UNCHANGED <<clientVars, changes>>

-----------------------------------------------------------------------------
(* An agent *)

\* An agent is given a skill; what it holds is a copy.
Hold(t) ==
  /\ t \in Agents /\ Stage(t, "idle")
  /\ Available # {}
  /\ caller' = [caller EXCEPT ![t] = [AtRest EXCEPT !.op = "agent", !.at = "holding"]]
  /\ UNCHANGED <<clientVars, server, cached, skills, changes, peace>>

\* A server that is gone or switched off is not called.
RunMCP(t) ==
  /\ Stage(t, "holding")
  /\ IF server = "enabled"
       THEN Proceed(t, "calling") /\ Ask(t, "call")
       ELSE Finish(t) /\ UNCHANGED client
  /\ UNCHANGED <<offers, conn, listing, sessions, failed, server, cached, skills, changes, peace>>

Called(t) ==
  /\ Stage(t, "calling")
  /\ Collect(t)
  /\ Finish(t)
  /\ UNCHANGED <<offers, conn, listing, sessions, failed, server, cached, skills, changes, peace>>

-----------------------------------------------------------------------------
\* The server gains or loses tools.
Change ==
  /\ changes < MaxChanges
  /\ \E now \in SUBSET Tools \ {offers} : offers' = now
  /\ changes' = changes + 1
  /\ UNCHANGED <<conn, listing, sessions, client, failed, server, cached, skills, caller, peace>>

\* A gateway starts, before the server is connected or with its rows there.
Init ==
  /\ ClientInit
  /\ \/ server = "absent" /\ cached = {} /\ skills = [x \in Tools |-> "none"]
     \/ server = "enabled" /\ cached = Tools /\ skills = [x \in Tools |-> "available"]
  /\ caller = [t \in Threads |-> AtRest]
  /\ changes = 0
  /\ peace = "settled"

\* What a person or a run may ask for at any time.
Request(t) ==
  \/ ConnectServer(t) \/ Sync(t) \/ Disconnect(t) \/ Hold(t)
  \/ \E enabled \in BOOLEAN : Switch(t, enabled)

\* How an operation goes on.
CallerStep(t) ==
  \/ Probed(t) \/ Store(t) \/ Read(t) \/ Refresh(t) \/ Find(t) \/ Write(t)
  \/ Dropped(t) \/ DisableSkills(t) \/ Delete(t) \/ RunMCP(t) \/ Called(t)

InClient(A) == A /\ UNCHANGED registryVars

Next ==
  \/ \E t \in Threads : Request(t) \/ CallerStep(t)
                        \/ InClient(ClientStep(t)) \/ InClient(ServerStep(t))
  \/ \E c \in Connections : InClient(Fault(c))
  \/ Change

Spec == Init /\ [][Next]_vars

=============================================================================
