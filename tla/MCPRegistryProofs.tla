-------------------------- MODULE MCPRegistryProofs --------------------------
(***************************************************************************)
(* Theorems about the connections to an MCP server and the rows made of    *)
(* it, for any number of processes, threads, connections and tools.        *)
(***************************************************************************)
EXTENDS MCPRegistryProperties, TLAPS

-----------------------------------------------------------------------------
(* Types.  What a thread reads through a connection needs it to hold one. *)

Holding(r) ==
  /\ r.at \in {"dialing", "inserting", "using", "closing", "discarding"} => r.conn \in Connections
  /\ r.at = "dropping" /\ r.goal = "call" => r.conn \in Connections
  /\ r.at = "discarding" => r.spare \in Connections

TypeInv == TypeOK /\ \A t \in Threads : Holding(client[t])

LEMMA NoneIsNone == None \notin Connections
BY DEF None, Connections

\* A step of the client changes the record of one thread.
LEMMA ClientUpdate ==
  ASSUME TypeInv, NEW t \in Threads, NEW r \in ClientState, Holding(r),
         client' = [client EXCEPT ![t] = r]
  PROVE  /\ client' \in [Threads -> ClientState]
         /\ \A u \in Threads : Holding(client'[u])
         /\ client'[t] = r /\ \A u \in Threads \ {t} : client'[u] = client[u]
<1>1. client \in [Threads -> ClientState]
  BY DEF TypeInv, TypeOK, ClientTypes
<1>2. \A u \in Threads : client'[u] = IF u = t THEN r ELSE client[u]
  BY <1>1
<1>. QED  BY <1>1, <1>2 DEF TypeInv

LEMMA IdleTyped == Idle \in ClientState /\ Holding(Idle)
BY DEF Idle, ClientState, ClientStages, Holding

LEMMA ReturnTypes ==
  ASSUME TypeInv, NEW t \in Threads, NEW ok \in BOOLEAN, NEW S \in SUBSET Tools, Return(t, ok, S)
  PROVE  /\ client' \in [Threads -> ClientState]
         /\ \A u \in Threads : Holding(client'[u])
         /\ client'[t].at = "done" /\ \A u \in Threads \ {t} : client'[u] = client[u]
<1>. DEFINE r == [Idle EXCEPT !.at = "done", !.ok = ok, !.tools = S]
<1>1. r \in ClientState /\ Holding(r) /\ r.at = "done"
  BY IdleTyped DEF Idle, ClientState, ClientStages, Holding
<1>2. client' = [client EXCEPT ![t] = r]
  BY DEF Return
<1>. HIDE DEF r
<1>. QED  BY <1>1, <1>2, ClientUpdate

\* Who stays with the connection it has moves between the stages of one call.
LEMMA GoesTypes ==
  ASSUME TypeInv, NEW t \in Threads, NEW s \in ClientStages, Goes(t, s),
         s # "discarding",
         s \in {"using", "closing", "inserting", "dropping"} => client[t].conn \in Connections,
         s # "dialing"
  PROVE  /\ client' \in [Threads -> ClientState]
         /\ \A u \in Threads : Holding(client'[u])
         /\ client'[t] = [client[t] EXCEPT !.at = s]
         /\ \A u \in Threads \ {t} : client'[u] = client[u]
<1>. DEFINE r == [client[t] EXCEPT !.at = s]
<1>1. client[t] \in ClientState
  BY DEF TypeInv, TypeOK, ClientTypes
<1>2. r \in ClientState /\ Holding(r)
  BY <1>1 DEF ClientState, Holding
<1>3. client' = [client EXCEPT ![t] = r]
  BY DEF Goes
<1>. HIDE DEF r
<1>4. client'[t] = r /\ \A u \in Threads \ {t} : client'[u] = client[u]
  BY <1>2, <1>3, ClientUpdate
<1>. QED  BY <1>2, <1>3, <1>4, ClientUpdate DEF r

LEMMA AskTypes ==
  ASSUME TypeInv, NEW t \in Threads, NEW goal \in {"list", "call", "probe", "drop"}, Ask(t, goal)
  PROVE  /\ client' \in [Threads -> ClientState]
         /\ \A u \in Threads : Holding(client'[u])
         /\ client[t].at = "idle" /\ client'[t].at \in {"looking", "dropping"}
         /\ \A u \in Threads \ {t} : client'[u] = client[u]
<1>. DEFINE r == [Idle EXCEPT !.goal = goal, !.at = IF goal = "drop" THEN "dropping" ELSE "looking"]
<1>1. r \in ClientState /\ Holding(r) /\ r.at \in {"looking", "dropping"}
  BY IdleTyped DEF Idle, ClientState, ClientStages, Holding
<1>2. client' = [client EXCEPT ![t] = r] /\ client[t].at = "idle"
  BY DEF Ask, In
<1>. HIDE DEF r
<1>. QED  BY <1>1, <1>2, ClientUpdate

LEMMA CollectTypes ==
  ASSUME TypeInv, NEW t \in Threads, Collect(t)
  PROVE  /\ client' \in [Threads -> ClientState]
         /\ \A u \in Threads : Holding(client'[u])
         /\ client[t].at = "done" /\ client'[t].at = "idle"
         /\ \A u \in Threads \ {t} : client'[u] = client[u]
<1>1. client' = [client EXCEPT ![t] = Idle] /\ client[t].at = "done" /\ Idle.at = "idle"
  BY DEF Collect, In, Idle
<1>. QED  BY <1>1, IdleTyped, ClientUpdate

ClientFrame == ClientTypes /\ \A t \in Threads : Holding(client[t])

LEMMA StoppedTypes ==
  ASSUME TypeInv, NEW c \in Connections
  PROVE  /\ Stopped(c) \in [Connections -> {"unused", "opening", "open", "closed"}]
         /\ \A d \in Connections : Stopped(c)[d] = IF d = c THEN "closed" ELSE conn[d]
BY DEF TypeInv, TypeOK, ClientTypes, Stopped

LEMMA ClientStepTypes ==
  ASSUME TypeInv, NEW t \in Threads, ClientStep(t) \/ ServerStep(t)
  PROVE  ClientFrame'
<1>. USE DEF ClientTypes
<1>0. /\ ClientTypes /\ client[t] \in ClientState /\ Holding(client[t])
      /\ sessions[Home[t]] \in Connections \cup {None} /\ Home[t] \in Processes
  BY ThreadsAssumption DEF TypeInv, TypeOK
<1>. USE DEF In, Goal
<1>1. CASE Lookup(t)
  <2>. DEFINE r == [client[t] EXCEPT !.at = "using", !.conn = Known(t)]
  <2>1. Known(t) \in Connections
    BY <1>0, <1>1 DEF Lookup, Known
  <2>2. r \in ClientState /\ Holding(r)
    BY <1>0, <2>1 DEF ClientState, ClientStages, Holding
  <2>3. client' = [client EXCEPT ![t] = r]
    BY <1>1 DEF Lookup
  <2>. HIDE DEF r
  <2>. QED  BY <1>0, <1>1, <2>2, <2>3, ClientUpdate DEF Lookup, ClientFrame
<1>2. CASE Connect(t)
  <2>1. PICK c \in Connections :
          /\ conn' = [conn EXCEPT ![c] = "opening"]
          /\ client' = [client EXCEPT ![t].at = "dialing", ![t].conn = c]
    BY <1>2 DEF Connect
  <2>. DEFINE r == [client[t] EXCEPT !.at = "dialing", !.conn = c]
  <2>2. r \in ClientState /\ Holding(r)
    BY <1>0 DEF ClientState, ClientStages, Holding
  <2>3. client' = [client EXCEPT ![t] = r]
    BY <2>1
  <2>. HIDE DEF r
  <2>. QED  BY <1>0, <1>2, <2>1, <2>2, <2>3, ClientUpdate DEF Connect, ClientFrame
<1>3. CASE Refused(t)
  BY <1>0, <1>3, ReturnTypes DEF Refused, ClientFrame
<1>4. CASE NotConnected(t)
  <2>1. conn' = Stopped(client[t].conn) /\ client[t].conn \in Connections
    BY <1>0, <1>4 DEF NotConnected, Holding
  <2>. QED  BY <1>0, <1>4, <2>1, StoppedTypes, ReturnTypes DEF NotConnected, ClientFrame
<1>5. CASE Insert(t)
  <2>0. client[t].conn \in Connections
    BY <1>0, <1>5 DEF Insert, Holding
  <2>1. CASE sessions[Home[t]] = None
    <3>1. Goes(t, "using") /\ sessions' = [sessions EXCEPT ![Home[t]] = client[t].conn]
      BY <1>5, <2>1 DEF Insert
    <3>. QED  BY <1>0, <1>5, <2>0, <3>1, GoesTypes DEF Insert, ClientFrame, ClientStages
  <2>2. CASE sessions[Home[t]] # None
    <3>. DEFINE r == [client[t] EXCEPT !.at = "discarding", !.conn = sessions[Home[t]],
                                       !.spare = client[t].conn]
    <3>1. r \in ClientState /\ Holding(r)
      BY <1>0, <2>0, <2>2 DEF ClientState, ClientStages, Holding
    <3>2. client' = [client EXCEPT ![t] = r]
      BY <1>5, <2>2 DEF Insert
    <3>. HIDE DEF r
    <3>. QED  BY <1>0, <1>5, <2>2, <3>1, <3>2, ClientUpdate DEF Insert, ClientFrame
  <2>. QED  BY <2>1, <2>2
<1>6. CASE Discard(t)
  <2>. DEFINE r == [client[t] EXCEPT !.at = "using", !.spare = None]
  <2>1. r \in ClientState /\ Holding(r)
    BY <1>0, <1>6 DEF Discard, ClientState, ClientStages, Holding
  <2>2. client' = [client EXCEPT ![t] = r]
    BY <1>6 DEF Discard
  <2>. HIDE DEF r
  <2>3. client[t].spare \in Connections
    BY <1>0, <1>6 DEF Discard, Holding
  <2>. QED  BY <1>0, <1>6, <2>1, <2>2, <2>3, ClientUpdate, StoppedTypes DEF Discard, ClientFrame
<1>7. CASE ListTools(t)
  <2>1. listing[client[t].conn] \in SUBSET Tools
    BY <1>0, <1>7 DEF ListTools, Holding
  <2>. QED  BY <1>0, <1>7, <2>1, ReturnTypes DEF ListTools, ClientFrame
<1>8. CASE TimeOut(t) \/ Reply(t)
  BY <1>0, <1>8, ReturnTypes DEF TimeOut, Reply, ClientFrame
<1>9. CASE CallFails(t)
  <2>1. client[t].conn \in Connections
    BY <1>0, <1>9 DEF CallFails, Holding
  <2>. QED  BY <1>0, <1>9, <2>1, GoesTypes DEF CallFails, ClientFrame, ClientStages
<1>10. CASE Pop(t)
  <2>1. failed' \subseteq Connections
    BY <1>0, <1>10 DEF Pop, Holding
  <2>2. sessions' \in [Processes -> Connections \cup {None}]
    BY <1>0, <1>10 DEF Pop
  <2>3. CASE sessions[Home[t]] = None
    BY <1>0, <1>10, <2>1, <2>2, <2>3, ReturnTypes DEF Pop, ClientFrame
  <2>4. CASE sessions[Home[t]] # None
    <3>. DEFINE r == [client[t] EXCEPT !.at = "closing", !.conn = sessions[Home[t]]]
    <3>1. r \in ClientState /\ Holding(r)
      BY <1>0, <2>4 DEF ClientState, ClientStages, Holding
    <3>2. client' = [client EXCEPT ![t] = r]
      BY <1>10, <2>4 DEF Pop
    <3>. HIDE DEF r
    <3>. QED  BY <1>0, <1>10, <2>1, <2>2, <3>1, <3>2, ClientUpdate DEF Pop, ClientFrame
  <2>. QED  BY <2>3, <2>4
<1>11. CASE Close(t)
  <2>1. client[t].conn \in Connections
    BY <1>0, <1>11 DEF Close, Holding
  <2>2. (IF Goal(t) = "probe" THEN listing[client[t].conn] ELSE {}) \in SUBSET Tools
    BY <1>0, <2>1
  <2>. QED  BY <1>0, <1>11, <2>1, <2>2, StoppedTypes, ReturnTypes DEF Close, ClientFrame
<1>12. CASE Connected(t)
  <2>1. client[t].conn \in Connections
    BY <1>0, <1>12 DEF Connected, Holding
  <2>2. /\ conn' \in [Connections -> {"unused", "opening", "open", "closed"}]
        /\ listing' \in [Connections -> SUBSET Tools]
    BY <1>0, <1>12 DEF Connected
  <2>. QED  BY <1>0, <1>12, <2>1, <2>2, GoesTypes DEF Connected, ClientFrame, ClientStages
<1>. QED
  BY <1>1, <1>2, <1>3, <1>4, <1>5, <1>6, <1>7, <1>8, <1>9, <1>10, <1>11, <1>12
     DEF ClientStep, ServerStep

-----------------------------------------------------------------------------
(* The rows. *)

LEMMA AtRestTyped == AtRest \in CallerState
BY DEF AtRest, CallerState, CallerStages

LEMMA StageTypes ==
  ASSUME TypeInv, NEW t \in Threads, NEW s \in CallerStages,
         caller' = [caller EXCEPT ![t].at = s]
  PROVE  caller' \in [Threads -> CallerState]
<1>1. caller \in [Threads -> CallerState] /\ caller[t] \in CallerState
  BY DEF TypeInv, TypeOK, RegistryTypes
<1>2. [caller[t] EXCEPT !.at = s] \in CallerState
  BY <1>1 DEF CallerState
<1>. QED  BY <1>1, <1>2

LEMMA FinishTypes ==
  ASSUME TypeInv, NEW t \in Threads, Finish(t)
  PROVE  caller' \in [Threads -> CallerState]
BY AtRestTyped DEF Finish, TypeInv, TypeOK, RegistryTypes

LEMMA ConcludeTypes ==
  ASSUME TypeInv, NEW t \in Threads, Conclude(t)
  PROVE  caller' \in [Threads -> CallerState] /\ peace' \in {"alone", "crowded", "settled"}
BY FinishTypes DEF Conclude, TypeInv, TypeOK, RegistryTypes

LEMMA BeginTypes ==
  ASSUME TypeInv, NEW t \in Threads, NEW s \in CallerStages,
         NEW op \in {"connect", "sync", "enable", "disable", "disconnect"}, Begin(t, op, s)
  PROVE  caller' \in [Threads -> CallerState] /\ peace' \in {"alone", "crowded", "settled"}
<1>1. [AtRest EXCEPT !.op = op, !.at = s] \in CallerState
  BY AtRestTyped DEF AtRest, CallerState
<1>. QED  BY <1>1 DEF Begin, TypeInv, TypeOK, RegistryTypes

\* An operation that leaves the client to its threads, or asks it for something.
LEMMA RequestTypes ==
  ASSUME TypeInv, NEW t \in Threads, Request(t)
  PROVE  ClientFrame' /\ RegistryTypes'
<1>. USE DEF ClientTypes, RegistryTypes
<1>0. /\ ClientTypes /\ RegistryTypes /\ \A u \in Threads : Holding(client[u])
      /\ {"probing", "reading", "dropping"} \subseteq CallerStages
  BY DEF TypeInv, TypeOK, CallerStages
<1>1. CASE ConnectServer(t)
  BY <1>0, <1>1, BeginTypes, AskTypes DEF ConnectServer, ClientFrame
<1>2. CASE Sync(t)
  BY <1>0, <1>2, BeginTypes DEF Sync, clientVars, ClientFrame
<1>3. CASE Disconnect(t)
  BY <1>0, <1>3, BeginTypes, AskTypes DEF Disconnect, ClientFrame
<1>4. CASE Hold(t)
  <2>1. [AtRest EXCEPT !.op = "agent", !.at = "holding"] \in CallerState
    BY AtRestTyped DEF AtRest, CallerState, CallerStages
  <2>. QED  BY <1>0, <1>4, <2>1 DEF Hold, clientVars, ClientFrame
<1>5. ASSUME NEW enabled \in BOOLEAN, Switch(t, enabled)
      PROVE  ClientFrame' /\ RegistryTypes'
  <2>1. PICK op \in {"enable", "disable"} : Begin(t, op, "dropping")
    BY <1>5 DEF Switch
  <2>. QED  BY <1>0, <1>5, <2>1, BeginTypes, AskTypes DEF Switch, RowState, ClientFrame
<1>. QED  BY <1>1, <1>2, <1>3, <1>4, <1>5 DEF Request

LEMMA CallerStepTypes ==
  ASSUME TypeInv, NEW t \in Threads, CallerStep(t)
  PROVE  ClientFrame' /\ RegistryTypes'
<1>. USE DEF ClientTypes, RegistryTypes
<1>0. /\ ClientTypes /\ RegistryTypes /\ \A u \in Threads : Holding(client[u])
      /\ caller[t] \in CallerState /\ client[t] \in ClientState
  BY DEF TypeInv, TypeOK
<1>1. CASE Probed(t)
  <2>. DEFINE r == IF client[t].ok THEN [caller[t] EXCEPT !.at = "storing", !.tools = client[t].tools]
                                   ELSE AtRest
  <2>1. r \in CallerState
    BY <1>0, AtRestTyped DEF CallerState, CallerStages, ClientState
  <2>2. caller' = [caller EXCEPT ![t] = r]
    BY <1>1 DEF Probed
  <2>. HIDE DEF r
  <2>. QED  BY <1>0, <1>1, <2>1, <2>2, CollectTypes DEF Probed, ClientFrame
<1>2. CASE Store(t)
  <2>1. caller' \in [Threads -> CallerState]
    BY <1>2, StageTypes, FinishTypes DEF Store, Proceed, CallerStages
  <2>2. cached' \subseteq Tools
    BY <1>0, <1>2 DEF Store, CallerState
  <2>. QED  BY <1>0, <1>2, <2>1, <2>2 DEF Store, clientVars, ClientFrame
<1>3. CASE Read(t)
  <2>1. CASE server = "enabled"
    <3>. DEFINE r == [caller[t] EXCEPT !.at = "listing", !.tools = cached]
    <3>1. r \in CallerState
      BY <1>0 DEF CallerState, CallerStages
    <3>2. caller' = [caller EXCEPT ![t] = r]
      BY <1>3, <2>1 DEF Read
    <3>. HIDE DEF r
    <3>. QED  BY <1>0, <1>3, <2>1, <3>1, <3>2, AskTypes DEF Read, ClientFrame
  <2>2. CASE server # "enabled"
    BY <1>0, <1>3, <2>2, FinishTypes DEF Read, ClientFrame
  <2>. QED  BY <2>1, <2>2
<1>4. CASE Refresh(t)
  <2>1. cached' \subseteq Tools
    BY <1>0, <1>4 DEF Refresh, ClientState
  <2>2. caller' \in [Threads -> CallerState]
    <3>. DEFINE r == [caller[t] EXCEPT !.at = "comparing", !.tools = client[t].tools]
    <3>1. r \in CallerState
      BY <1>0 DEF CallerState, CallerStages, ClientState
    <3>2. CASE client[t].ok
      <4>1. caller' = [caller EXCEPT ![t] = r]
        BY <1>4, <3>2 DEF Refresh
      <4>. HIDE DEF r
      <4>. QED  BY <1>0, <3>1, <4>1
    <3>3. CASE ~client[t].ok
      BY <1>4, <3>3, StageTypes DEF Refresh, Proceed, CallerStages
    <3>. QED  BY <3>2, <3>3
  <2>. QED  BY <1>0, <1>4, <2>1, <2>2, CollectTypes DEF Refresh, ClientFrame
<1>5. CASE Find(t)
  <2>. DEFINE r == [caller[t] EXCEPT !.found = Offered,
                                     !.at = IF @ = "comparing" THEN "writing" ELSE "deleting"]
  <2>1. r \in CallerState
    BY <1>0 DEF CallerState, CallerStages, Offered
  <2>2. caller' = [caller EXCEPT ![t] = r]
    BY <1>5 DEF Find
  <2>. HIDE DEF r
  <2>3. UNCHANGED <<clientVars, server, cached, skills, changes, peace>>
    BY <1>5 DEF Find
  <2>. QED  BY <1>0, <2>1, <2>2, <2>3 DEF clientVars, ClientFrame
<1>6. CASE Write(t)
  <2>1. skills' \in [Tools -> {"none", "available", "unavailable"}]
    BY <1>0, <1>6 DEF Write, Reconciled
  <2>2. caller' \in [Threads -> CallerState] /\ peace' \in {"alone", "crowded", "settled"}
    BY <1>0, <1>6, ConcludeTypes, FinishTypes DEF Write
  <2>. QED  BY <1>0, <1>6, <2>1, <2>2 DEF Write, clientVars, ClientFrame
<1>7. CASE Dropped(t)
  <2>1. caller' \in [Threads -> CallerState]
    <3>1. PICK s \in {"reading", "disabling", "resolving"} : Proceed(t, s)
      BY <1>7 DEF Dropped
    <3>. QED  BY <3>1, StageTypes DEF Proceed, CallerStages
  <2>. QED  BY <1>0, <1>7, <2>1, CollectTypes DEF Dropped, ClientFrame
<1>8. CASE DisableSkills(t)
  BY <1>0, <1>8, ConcludeTypes DEF DisableSkills, clientVars, ClientFrame
<1>9. CASE Delete(t)
  <2>1. skills' \in [Tools -> {"none", "available", "unavailable"}]
    BY <1>0, <1>9 DEF Delete
  <2>2. caller' \in [Threads -> CallerState] /\ peace' \in {"alone", "crowded", "settled"}
    BY <1>0, <1>9, ConcludeTypes, FinishTypes DEF Delete
  <2>. QED  BY <1>0, <1>9, <2>1, <2>2 DEF Delete, clientVars, ClientFrame
<1>10. CASE RunMCP(t)
  <2>1. caller' \in [Threads -> CallerState]
    BY <1>10, StageTypes, FinishTypes DEF RunMCP, Proceed, CallerStages
  <2>2. client' \in [Threads -> ClientState] /\ \A u \in Threads : Holding(client'[u])
    BY <1>0, <1>10, AskTypes DEF RunMCP
  <2>. QED  BY <1>0, <1>10, <2>1, <2>2 DEF RunMCP, ClientFrame
<1>11. CASE Called(t)
  BY <1>0, <1>11, FinishTypes, CollectTypes DEF Called, ClientFrame
<1>. QED
  BY <1>1, <1>2, <1>3, <1>4, <1>5, <1>6, <1>7, <1>8, <1>9, <1>10, <1>11 DEF CallerStep

LEMMA InitTypes == Init => TypeInv
<1>. SUFFICES ASSUME Init PROVE TypeInv
  OBVIOUS
<1>1. 0 \in 0..MaxChanges
  BY ChangesAssumption
<1>. QED
  BY <1>1, IdleTyped, AtRestTyped
     DEF Init, ClientInit, TypeInv, TypeOK, ClientTypes, RegistryTypes, Connections

LEMMA ChangeTypes == TypeInv /\ Change => ClientFrame' /\ RegistryTypes'
<1>. SUFFICES ASSUME TypeInv, Change PROVE ClientFrame' /\ RegistryTypes'
  OBVIOUS
<1>. USE DEF ClientTypes, RegistryTypes
<1>0. ClientTypes /\ RegistryTypes /\ \A u \in Threads : Holding(client[u])
  BY DEF TypeInv, TypeOK
<1>1. changes' \in 0..MaxChanges
  BY <1>0, ChangesAssumption DEF Change
<1>. QED  BY <1>0, <1>1 DEF Change, ClientFrame

LEMMA FaultTypes ==
  ASSUME TypeInv, NEW c \in Connections, Fault(c)
  PROVE  ClientFrame'
BY StoppedTypes DEF Fault, ClientFrame, ClientTypes, TypeInv, TypeOK

LEMMA NextTypes == TypeInv /\ [Next]_vars => TypeInv'
<1>. SUFFICES ASSUME TypeInv, [Next]_vars PROVE ClientFrame' /\ RegistryTypes'
  BY DEF TypeInv, TypeOK, ClientFrame
<1>0. ClientTypes /\ RegistryTypes /\ \A u \in Threads : Holding(client[u])
  BY DEF TypeInv, TypeOK
<1>1. CASE UNCHANGED vars
  BY <1>0, <1>1 DEF vars, clientVars, registryVars, ClientTypes, RegistryTypes, ClientFrame
<1>2. CASE UNCHANGED registryVars
  <2>1. RegistryTypes'
    BY <1>0, <1>2 DEF registryVars, RegistryTypes
  <2>2. ASSUME NEW t \in Threads, ClientStep(t) \/ ServerStep(t) PROVE ClientFrame'
    BY <2>2, ClientStepTypes
  <2>3. ASSUME NEW c \in Connections, Fault(c) PROVE ClientFrame'
    BY <2>3, FaultTypes
  <2>4. ASSUME NEW t \in Threads, Request(t) \/ CallerStep(t) PROVE ClientFrame' /\ RegistryTypes'
    BY <2>4, RequestTypes, CallerStepTypes
  <2>. QED  BY <1>1, <2>1, <2>2, <2>3, <2>4, ChangeTypes DEF Next, InClient
<1>3. CASE UNCHANGED registryVars \/ \E t \in Threads : Request(t) \/ CallerStep(t)
  BY <1>2, <1>3, RequestTypes, CallerStepTypes
<1>. QED  BY <1>1, <1>2, <1>3, ChangeTypes DEF Next, InClient

LEMMA TypesHold == Spec => []TypeInv
BY InitTypes, NextTypes, PTL DEF Spec

\* All state has its type, whatever threads, connections and tools there are.
THEOREM TypeCorrect == Spec => []TypeOK
<1>1. TypeInv => TypeOK
  BY DEF TypeInv
<1>. QED  BY <1>1, TypesHold, PTL

-----------------------------------------------------------------------------
(* No connection is lost track of.  A step gives up a hold on a connection *)
(* only to another thread's record, to the map, or by closing it.          *)

Kept(c) == (\E p \in Processes : sessions[p] = c) \/ (\E t \in Threads : InHand(t, c))

\* Whoever else had the connection still has it.
LEMMA StillKept ==
  ASSUME NothingLeaks, NEW t \in Threads, NEW c \in Connections,
         conn[c] \in Live, ~InHand(t, c),
         \A u \in Threads \ {t} : client'[u] = client[u],
         \A p \in Processes : sessions[p] = c => sessions'[p] = c
  PROVE  Kept(c)'
<1>1. CASE \E p \in Processes : sessions[p] = c
  BY <1>1 DEF Kept
<1>2. CASE \E u \in Threads : InHand(u, c)
  <2>1. PICK u \in Threads \ {t} : InHand(u, c)
    BY <1>2
  <2>2. InHand(u, c)'
    BY <2>1 DEF InHand, In
  <2>. QED  BY <2>2 DEF Kept
<1>. QED  BY <1>1, <1>2 DEF NothingLeaks

LEMMA ClientStepKeeps ==
  ASSUME TypeInv, NothingLeaks, NEW t \in Threads, ClientStep(t) \/ ServerStep(t),
         NEW c \in Connections, conn'[c] \in Live
  PROVE  Kept(c)'
<1>0. /\ conn \in [Connections -> {"unused", "opening", "open", "closed"}]
      /\ sessions \in [Processes -> Connections \cup {None}]
      /\ client \in [Threads -> ClientState] /\ client[t] \in ClientState /\ Holding(client[t])
      /\ Home[t] \in Processes /\ c # None
  BY ThreadsAssumption, NoneIsNone DEF TypeInv, TypeOK, ClientTypes
<1>. USE DEF In, Goal, InHand
<1>1. CASE Lookup(t) \/ Refused(t) \/ ListTools(t) \/ TimeOut(t) \/ Reply(t) \/ CallFails(t)
  <2>1. /\ conn' = conn /\ sessions' = sessions /\ ~InHand(t, c)
        /\ \A u \in Threads \ {t} : client'[u] = client[u]
    BY <1>0, <1>1 DEF Lookup, Refused, ListTools, TimeOut, Reply, CallFails, Return, Goes
  <2>. QED  BY <2>1, StillKept
<1>2. CASE Connect(t)
  <2>1. PICK d \in Connections :
          /\ conn' = [conn EXCEPT ![d] = "opening"]
          /\ client' = [client EXCEPT ![t].at = "dialing", ![t].conn = d]
    BY <1>2 DEF Connect
  <2>2. CASE c = d
    <3>1. client'[t].at = "dialing" /\ client'[t].conn = c
      BY <1>0, <2>1, <2>2 DEF ClientState
    <3>. QED  BY <3>1 DEF Kept
  <2>3. CASE c # d
    <3>1. /\ conn[c] \in Live /\ sessions' = sessions /\ ~InHand(t, c)
          /\ \A u \in Threads \ {t} : client'[u] = client[u]
      BY <1>0, <1>2, <2>1, <2>3 DEF Connect
    <3>. QED  BY <3>1, StillKept
  <2>. QED  BY <2>2, <2>3
<1>3. CASE NotConnected(t) \/ Discard(t) \/ Close(t)
  <2>1. PICK d \in Connections :
          /\ conn' = Stopped(d)
          /\ d = IF In(t, "discarding") THEN client[t].spare ELSE client[t].conn
    BY <1>0, <1>3 DEF NotConnected, Discard, Close, Holding
  <2>2. c # d /\ conn[c] \in Live
    BY <2>1, StoppedTypes DEF Live
  <2>3. /\ sessions' = sessions /\ ~InHand(t, c)
        /\ \A u \in Threads \ {t} : client'[u] = client[u]
    BY <1>0, <1>3, <2>1, <2>2 DEF NotConnected, Discard, Close, Return
  <2>. QED  BY <2>2, <2>3, StillKept
<1>4. CASE Insert(t)
  <2>0. /\ conn' = conn
        /\ \A u \in Threads \ {t} : client'[u] = client[u]
        /\ \A p \in Processes : sessions[p] = c => sessions'[p] = c
    BY <1>0, <1>4 DEF Insert, Goes
  <2>1. CASE c = client[t].conn /\ sessions[Home[t]] = None
    <3>1. sessions'[Home[t]] = c
      BY <1>0, <1>4, <2>1 DEF Insert
    <3>. QED  BY <1>0, <3>1 DEF Kept
  <2>2. CASE c = client[t].conn /\ sessions[Home[t]] # None
    <3>1. client'[t].at = "discarding" /\ client'[t].spare = c
      BY <1>0, <1>4, <2>2 DEF Insert, ClientState
    <3>. QED  BY <3>1 DEF Kept
  <2>3. CASE c # client[t].conn
    <3>1. ~InHand(t, c)
      BY <1>4, <2>3 DEF Insert
    <3>. QED  BY <2>0, <3>1, StillKept
  <2>. QED  BY <2>1, <2>2, <2>3
<1>5. CASE Pop(t)
  <2>0. /\ conn' = conn /\ ~InHand(t, c)
        /\ sessions' = [sessions EXCEPT ![Home[t]] = None]
        /\ \A u \in Threads \ {t} : client'[u] = client[u]
    BY <1>0, <1>5 DEF Pop, Return
  <2>1. CASE sessions[Home[t]] = c
    <3>1. client'[t].at = "closing" /\ client'[t].conn = c
      BY <1>0, <1>5, <2>1 DEF Pop, ClientState
    <3>. QED  BY <3>1 DEF Kept
  <2>2. CASE sessions[Home[t]] # c
    <3>1. \A p \in Processes : sessions[p] = c => sessions'[p] = c
      BY <1>0, <2>0, <2>2
    <3>. QED  BY <2>0, <3>1, StillKept
  <2>. QED  BY <2>1, <2>2
<1>6. CASE Connected(t)
  <2>0. /\ conn' = [conn EXCEPT ![client[t].conn] = "open"] /\ sessions' = sessions
        /\ \A u \in Threads \ {t} : client'[u] = client[u]
    BY <1>0, <1>6 DEF Connected, Goes
  <2>1. CASE c = client[t].conn
    <3>1. client'[t].at \in {"closing", "inserting"} /\ client'[t].conn = c
      BY <1>0, <1>6, <2>1 DEF Connected, Goes, ClientState
    <3>. QED  BY <3>1 DEF Kept
  <2>2. CASE c # client[t].conn
    <3>1. conn[c] \in Live /\ ~InHand(t, c)
      BY <1>0, <1>6, <2>0, <2>2 DEF Connected
    <3>. QED  BY <2>0, <3>1, StillKept
  <2>. QED  BY <2>1, <2>2
<1>. QED  BY <1>1, <1>2, <1>3, <1>4, <1>5, <1>6 DEF ClientStep, ServerStep

\* What goes on outside the client asks it for something, or takes its answer.
LEMMA CallerStepKeeps ==
  ASSUME TypeInv, NothingLeaks, NEW t \in Threads, Request(t) \/ CallerStep(t),
         NEW c \in Connections, conn'[c] \in Live
  PROVE  Kept(c)'
<1>1. /\ conn' = conn /\ sessions' = sessions
      /\ \/ client' = client
         \/ Collect(t)
         \/ \E goal \in {"list", "call", "probe", "drop"} : Ask(t, goal)
  BY DEF Request, ConnectServer, Sync, Disconnect, Hold, Switch, CallerStep, Probed, Store,
         Read, Refresh, Find, Write, Dropped, DisableSkills, Delete, RunMCP, Called, clientVars
<1>2. CASE client' = client
  BY <1>1, <1>2 DEF NothingLeaks, Kept, InHand, In
<1>3. CASE client' # client
  <2>1. /\ client[t].at \in {"done", "idle"}
        /\ \A u \in Threads \ {t} : client'[u] = client[u]
    BY <1>1, <1>3, CollectTypes, AskTypes
  <2>2. ~InHand(t, c)
    BY <2>1 DEF InHand, In
  <2>. QED  BY <1>1, <2>1, <2>2, StillKept
<1>. QED  BY <1>2, <1>3

LEMMA NextKeeps == TypeInv /\ NothingLeaks /\ [Next]_vars => NothingLeaks'
<1>. SUFFICES ASSUME TypeInv, NothingLeaks, [Next]_vars, NEW c \in Connections, conn'[c] \in Live
              PROVE  Kept(c)'
  BY DEF NothingLeaks, Kept, Connections, Live
<1>1. CASE UNCHANGED <<conn, sessions, client>>
  BY <1>1 DEF NothingLeaks, Kept, InHand, In
<1>2. ASSUME NEW d \in Connections, Fault(d) PROVE Kept(c)'
  <2>1. conn[c] \in Live /\ sessions' = sessions /\ client' = client
    BY <1>2, StoppedTypes DEF Fault, Live
  <2>. QED  BY <2>1 DEF NothingLeaks, Kept, InHand, In
<1>3. ASSUME NEW t \in Threads, Request(t) \/ CallerStep(t) PROVE Kept(c)'
  BY <1>3, CallerStepKeeps
<1>4. ASSUME NEW t \in Threads, ClientStep(t) \/ ServerStep(t) PROVE Kept(c)'
  BY <1>4, ClientStepKeeps
<1>. QED  BY <1>1, <1>2, <1>3, <1>4 DEF Next, InClient, Change, vars, clientVars

\* A connection that is up is some process's session or is about to be stored or
\* closed by the thread that holds it, however many threads race to connect, call
\* and disconnect.
THEOREM NothingIsLeaked == Spec => []NothingLeaks
<1>1. Init => NothingLeaks
  BY DEF Init, ClientInit, NothingLeaks, Live
<1>. QED  BY <1>1, NextKeeps, TypesHold, PTL DEF Spec

-----------------------------------------------------------------------------
(* A failed session does not return.  That is so because a connection has   *)
(* one owner at a time: the thread that makes it, then one process, whose   *)
(* threads are the only ones to call through it and so to drop it.          *)

Making(t, c) == client[t].conn = c /\ client[t].at \in {"dialing", "inserting"}

\* A thread calls through the connection, or is about to drop it for a failed call.
Using(t, c) ==
  /\ client[t].conn = c
  /\ client[t].at \in {"using", "discarding"} \/ (In(t, "dropping") /\ Goal(t) = "call")

Private(c) ==
  /\ c \notin failed
  /\ \A p \in Processes : sessions[p] # c
  /\ \A t \in Threads : ~Using(t, c)

Owned(c) ==
  /\ \A t \in Threads : Making(t, c) =>
       Private(c) /\ \A u \in Threads \ {t} : ~Making(u, c)
  /\ \A p \in Processes : sessions[p] = c =>
       /\ c \notin failed
       /\ \A q \in Processes : sessions[q] = c => q = p
       /\ \A t \in Threads : Using(t, c) => Home[t] = p
  /\ conn[c] = "unused" => Private(c) /\ \A t \in Threads : ~Making(t, c)

OwnInv == \A c \in Connections : Owned(c)

\* Nobody gains a hold on the connection.
LEMMA StillOwned ==
  ASSUME NEW c \in Connections, Owned(c),
         c \in failed' => c \in failed,
         conn'[c] = "unused" => conn[c] = "unused",
         \A p \in Processes : sessions'[p] = c => sessions[p] = c,
         \A t \in Threads : /\ Making(t, c)' => Making(t, c)
                            /\ Using(t, c)' => Using(t, c)
  PROVE  Owned(c)'
BY DEF Owned, Private

\* The same, of a step of one thread.
LEMMA OneThread ==
  ASSUME NEW c \in Connections, Owned(c), NEW t \in Threads,
         c \in failed' => c \in failed,
         conn'[c] = "unused" => conn[c] = "unused",
         \A p \in Processes : sessions'[p] = c => sessions[p] = c,
         \A u \in Threads \ {t} : client'[u] = client[u],
         Making(t, c)' => Making(t, c),
         Using(t, c)' => Using(t, c)
  PROVE  Owned(c)'
<1>1. ASSUME NEW u \in Threads
      PROVE  (Making(u, c)' => Making(u, c)) /\ (Using(u, c)' => Using(u, c))
  BY DEF Making, Using, In, Goal
<1>. QED  BY <1>1, StillOwned

LEMMA InsertOwned ==
  ASSUME TypeInv, OwnInv, NEW t \in Threads, Insert(t), NEW c \in Connections
  PROVE  Owned(c)'
<1>0. /\ sessions \in [Processes -> Connections \cup {None}]
      /\ client \in [Threads -> ClientState] /\ client[t] \in ClientState
      /\ Home[t] \in Processes /\ c # None /\ Owned(c)
  BY ThreadsAssumption, NoneIsNone DEF TypeInv, TypeOK, ClientTypes, OwnInv
<1>1. /\ conn' = conn /\ failed' = failed /\ client[t].at = "inserting"
      /\ \A u \in Threads \ {t} : client'[u] = client[u]
  BY <1>0 DEF Insert, Goes, In
<1>2. CASE sessions[Home[t]] = None
  <2>1. /\ sessions' = [sessions EXCEPT ![Home[t]] = client[t].conn]
        /\ client'[t] = [client[t] EXCEPT !.at = "using"]
    BY <1>0, <1>2 DEF Insert, Goes
  <2>2. client'[t].at = "using" /\ client'[t].conn = client[t].conn
    BY <1>0, <2>1 DEF ClientState
  <2>3. CASE client[t].conn = c
    <3>1. Making(t, c) /\ Private(c) /\ \A u \in Threads \ {t} : ~Making(u, c)
      BY <1>0, <1>1, <2>3 DEF Making, Owned
    <3>2. \A p \in Processes : sessions'[p] = c => p = Home[t]
      BY <1>0, <2>1, <3>1 DEF Private
    <3>3. \A u \in Threads : Using(u, c)' => u = t
      BY <1>1, <3>1 DEF Private, Using, In, Goal
    <3>4. \A u \in Threads : ~Making(u, c)'
      BY <1>1, <2>2, <3>1 DEF Making
    <3>5. conn[c] # "unused" /\ c \notin failed
      BY <1>0, <3>1 DEF Owned, Private
    <3>. QED  BY <1>1, <3>2, <3>3, <3>4, <3>5 DEF Owned
  <2>4. CASE client[t].conn # c
    <3>1. \A p \in Processes : sessions'[p] = c => sessions[p] = c
      BY <1>0, <2>1, <2>4
    <3>2. ~Making(t, c)' /\ ~Using(t, c)'
      BY <2>2, <2>4 DEF Making, Using
    <3>. QED  BY <1>0, <1>1, <3>1, <3>2, OneThread
  <2>. QED  BY <2>3, <2>4
<1>3. CASE sessions[Home[t]] # None
  <2>1. sessions' = sessions /\ client'[t].at = "discarding" /\ client'[t].conn = sessions[Home[t]]
    BY <1>0, <1>3 DEF Insert, ClientState
  <2>2. CASE sessions[Home[t]] = c
    <3>1. \A u \in Threads : ~Making(u, c)'
      <4>1. \A u \in Threads : ~Making(u, c)
        BY <1>0, <2>2 DEF Owned, Private
      <4>. QED  BY <1>1, <2>1, <4>1 DEF Making
    <3>2. \A u \in Threads \ {t} : Using(u, c)' => Using(u, c)
      BY <1>1 DEF Using, In, Goal
    <3>3. \A p \in Processes : sessions[p] = c =>
             c \notin failed /\ p = Home[t] /\ \A u \in Threads : Using(u, c) => Home[u] = p
      BY <1>0, <2>2 DEF Owned
    <3>4. conn[c] # "unused"
      BY <1>0, <2>2 DEF Owned, Private
    <3>. QED  BY <1>1, <2>1, <3>1, <3>2, <3>3, <3>4 DEF Owned
  <2>3. CASE sessions[Home[t]] # c
    <3>1. ~Making(t, c)' /\ ~Using(t, c)'
      BY <2>1, <2>3 DEF Making, Using
    <3>. QED  BY <1>0, <1>1, <2>1, <3>1, OneThread
  <2>. QED  BY <2>2, <2>3
<1>. QED  BY <1>2, <1>3

LEMMA LookupOwned ==
  ASSUME TypeInv, OwnInv, NEW t \in Threads, Lookup(t), NEW c \in Connections
  PROVE  Owned(c)'
<1>0. /\ sessions \in [Processes -> Connections \cup {None}]
      /\ client \in [Threads -> ClientState] /\ client[t] \in ClientState
      /\ Home[t] \in Processes /\ Owned(c)
  BY ThreadsAssumption DEF TypeInv, TypeOK, ClientTypes, OwnInv
<1>1. /\ conn' = conn /\ failed' = failed /\ sessions' = sessions
      /\ \A u \in Threads \ {t} : client'[u] = client[u]
      /\ client'[t].at = "using" /\ client'[t].conn = sessions[Home[t]]
  BY <1>0 DEF Lookup, Known, ClientState
<1>2. CASE sessions[Home[t]] = c
  <2>1. \A u \in Threads : ~Making(u, c)'
    <3>1. \A u \in Threads : ~Making(u, c)
      BY <1>0, <1>2 DEF Owned, Private
    <3>. QED  BY <1>1, <3>1 DEF Making
  <2>2. \A u \in Threads \ {t} : Using(u, c)' => Using(u, c)
    BY <1>1 DEF Using, In, Goal
  <2>3. \A p \in Processes : sessions[p] = c =>
           c \notin failed /\ p = Home[t] /\ \A u \in Threads : Using(u, c) => Home[u] = p
    BY <1>0, <1>2 DEF Owned
  <2>4. conn[c] # "unused"
    BY <1>0, <1>2 DEF Owned, Private
  <2>. QED  BY <1>1, <2>1, <2>2, <2>3, <2>4 DEF Owned
<1>3. CASE sessions[Home[t]] # c
  <2>1. ~Making(t, c)' /\ ~Using(t, c)'
    BY <1>1, <1>3 DEF Making, Using
  <2>. QED  BY <1>0, <1>1, <2>1, OneThread
<1>. QED  BY <1>2, <1>3

LEMMA ConnectOwned ==
  ASSUME TypeInv, OwnInv, NEW t \in Threads, Connect(t), NEW c \in Connections
  PROVE  Owned(c)'
<1>0. /\ conn \in [Connections -> {"unused", "opening", "open", "closed"}]
      /\ client \in [Threads -> ClientState] /\ client[t] \in ClientState /\ Owned(c)
  BY DEF TypeInv, TypeOK, ClientTypes, OwnInv
<1>1. PICK d \in Connections :
        /\ conn[d] = "unused" /\ conn' = [conn EXCEPT ![d] = "opening"]
        /\ client' = [client EXCEPT ![t].at = "dialing", ![t].conn = d]
  BY DEF Connect
<1>2. /\ failed' = failed /\ sessions' = sessions
      /\ \A u \in Threads \ {t} : client'[u] = client[u]
      /\ client'[t].at = "dialing" /\ client'[t].conn = d
  BY <1>0, <1>1 DEF Connect, ClientState
<1>3. CASE c = d
  <2>1. Private(c) /\ \A u \in Threads : ~Making(u, c)
    BY <1>0, <1>1, <1>3 DEF Owned
  <2>2. \A u \in Threads : ~Using(u, c)' /\ (Making(u, c)' => u = t)
    BY <1>2, <2>1 DEF Private, Making, Using, In, Goal
  <2>3. conn'[c] # "unused"
    BY <1>0, <1>1, <1>3
  <2>. QED  BY <1>2, <2>1, <2>2, <2>3 DEF Owned, Private
<1>4. CASE c # d
  <2>1. conn'[c] = conn[c]
    BY <1>0, <1>1, <1>4
  <2>2. ~Making(t, c)' /\ ~Using(t, c)'
    BY <1>2, <1>4 DEF Making, Using
  <2>. QED  BY <1>0, <1>2, <2>1, <2>2, OneThread
<1>. QED  BY <1>3, <1>4

LEMMA ReturnsDone ==
  ASSUME TypeInv, NEW t \in Threads, NEW ok, NEW S, Return(t, ok, S)
  PROVE  client'[t].at = "done"
<1>. DEFINE r == [Idle EXCEPT !.at = "done", !.ok = ok, !.tools = S]
<1>1. r.at = "done"
  BY DEF Idle
<1>2. client' = [client EXCEPT ![t] = r] /\ client \in [Threads -> ClientState]
  BY DEF Return, TypeInv, TypeOK, ClientTypes
<1>. HIDE DEF r
<1>. QED  BY <1>1, <1>2

LEMMA PopOwned ==
  ASSUME TypeInv, OwnInv, NEW t \in Threads, Pop(t), NEW c \in Connections
  PROVE  Owned(c)'
<1>0. /\ sessions \in [Processes -> Connections \cup {None}]
      /\ client \in [Threads -> ClientState] /\ client[t] \in ClientState
      /\ Home[t] \in Processes /\ c # None /\ Owned(c)
  BY ThreadsAssumption, NoneIsNone DEF TypeInv, TypeOK, ClientTypes, OwnInv
<1>1. /\ conn' = conn /\ client[t].at = "dropping"
      /\ sessions' = [sessions EXCEPT ![Home[t]] = None]
      /\ failed' = IF Goal(t) = "call" THEN failed \cup {client[t].conn} ELSE failed
      /\ \A u \in Threads \ {t} : client'[u] = client[u]
  BY <1>0 DEF Pop, Return, In
<1>2. client'[t].at \in {"done", "closing"}
  <2>1. CASE sessions[Home[t]] = None
    BY <2>1, ReturnsDone DEF Pop
  <2>2. CASE sessions[Home[t]] # None
    BY <1>0, <2>2 DEF Pop, ClientState
  <2>. QED  BY <2>1, <2>2
<1>3. ~Making(t, c)' /\ ~Using(t, c)'
  BY <1>2 DEF Making, Using, In
<1>4. \A p \in Processes : sessions'[p] = c => sessions[p] = c /\ p # Home[t]
  BY <1>0, <1>1
<1>5. CASE Goal(t) = "call" /\ client[t].conn = c
  <2>1. Using(t, c)
    BY <1>1, <1>5 DEF Using, In
  <2>2. \A p \in Processes : sessions'[p] # c
    BY <1>0, <1>4, <2>1 DEF Owned
  <2>3. conn'[c] # "unused" /\ \A u \in Threads : ~Making(u, c)
    BY <1>0, <1>1, <2>1 DEF Owned, Private
  <2>4. \A u \in Threads : ~Making(u, c)'
    BY <1>1, <1>3, <2>3 DEF Making
  <2>. QED  BY <2>2, <2>3, <2>4 DEF Owned
<1>6. CASE ~(Goal(t) = "call" /\ client[t].conn = c)
  <2>1. c \in failed' => c \in failed
    BY <1>1, <1>6
  <2>. QED  BY <1>0, <1>1, <1>3, <1>4, <2>1, OneThread
<1>. QED  BY <1>5, <1>6

\* The other steps of a thread in the client at most let go of a connection.
LEMMA QuietOwned ==
  ASSUME TypeInv, OwnInv, NEW t \in Threads,
         \/ Refused(t) \/ NotConnected(t) \/ Discard(t) \/ ListTools(t) \/ TimeOut(t)
         \/ Reply(t) \/ CallFails(t) \/ Close(t) \/ Connected(t),
         NEW c \in Connections
  PROVE  Owned(c)'
<1>0. /\ conn \in [Connections -> {"unused", "opening", "open", "closed"}]
      /\ client \in [Threads -> ClientState] /\ client[t] \in ClientState
      /\ Holding(client[t]) /\ Owned(c)
  BY DEF TypeInv, TypeOK, ClientTypes, OwnInv
<1>1. /\ sessions' = sessions /\ failed' = failed
      /\ \A u \in Threads \ {t} : client'[u] = client[u]
  BY <1>0 DEF Refused, NotConnected, Discard, ListTools, TimeOut, Reply, CallFails, Close,
              Connected, Return, Goes
<1>2. conn'[c] = "unused" => conn[c] = "unused"
  <2>1. CASE Connected(t)
    BY <1>0, <2>1 DEF Connected
  <2>2. CASE NotConnected(t) \/ Discard(t) \/ Close(t)
    <3>1. PICK d \in Connections : conn' = Stopped(d)
      BY <1>0, <2>2 DEF NotConnected, Discard, Close, Holding, In
    <3>. QED  BY <3>1, StoppedTypes
  <2>3. CASE Refused(t) \/ ListTools(t) \/ TimeOut(t) \/ Reply(t) \/ CallFails(t)
    BY <2>3 DEF Refused, ListTools, TimeOut, Reply, CallFails
  <2>. QED  BY <2>1, <2>2, <2>3
<1>3. (Making(t, c)' => Making(t, c)) /\ (Using(t, c)' => Using(t, c))
  <2>1. CASE Refused(t) \/ NotConnected(t) \/ ListTools(t) \/ TimeOut(t) \/ Reply(t) \/ Close(t)
    <3>1. client'[t].at = "done"
      BY <2>1, ReturnsDone DEF Refused, NotConnected, ListTools, TimeOut, Reply, Close
    <3>. QED  BY <3>1 DEF Making, Using, In
  <2>2. CASE Discard(t)
    <3>1. client[t].at = "discarding" /\ client'[t].at = "using" /\ client'[t].conn = client[t].conn
      BY <1>0, <2>2 DEF Discard, In, ClientState
    <3>. QED  BY <3>1 DEF Making, Using, In
  <2>3. CASE CallFails(t)
    <3>1. /\ client[t].at = "using" /\ client[t].goal = "call"
          /\ client'[t].at = "dropping" /\ client'[t].conn = client[t].conn
      BY <1>0, <2>3 DEF CallFails, Goes, In, Goal, ClientState
    <3>. QED  BY <3>1 DEF Making, Using, In
  <2>4. CASE Connected(t)
    <3>1. /\ client[t].at = "dialing" /\ client'[t].at \in {"closing", "inserting"}
          /\ client'[t].conn = client[t].conn
      BY <1>0, <2>4 DEF Connected, Goes, In, ClientState
    <3>. QED  BY <3>1 DEF Making, Using, In
  <2>. QED  BY <2>1, <2>2, <2>3, <2>4
<1>. QED  BY <1>0, <1>1, <1>2, <1>3, OneThread

LEMMA CallerStepOwned ==
  ASSUME TypeInv, OwnInv, NEW t \in Threads, Request(t) \/ CallerStep(t), NEW c \in Connections
  PROVE  Owned(c)'
<1>1. /\ conn' = conn /\ sessions' = sessions /\ failed' = failed
      /\ \/ client' = client
         \/ Collect(t)
         \/ \E goal \in {"list", "call", "probe", "drop"} : Ask(t, goal)
  BY DEF Request, ConnectServer, Sync, Disconnect, Hold, Switch, CallerStep, Probed, Store,
         Read, Refresh, Find, Write, Dropped, DisableSkills, Delete, RunMCP, Called, clientVars
<1>2. CASE client' = client
  BY <1>1, <1>2, StillOwned DEF OwnInv, Making, Using, In, Goal
<1>3. CASE Collect(t)
  <2>1. client'[t].at = "idle" /\ \A u \in Threads \ {t} : client'[u] = client[u]
    BY <1>3, CollectTypes
  <2>. QED  BY <1>1, <2>1, OneThread DEF OwnInv, Making, Using, In
<1>4. ASSUME NEW goal \in {"list", "call", "probe", "drop"}, Ask(t, goal) PROVE Owned(c)'
  <2>1. /\ client'[t].at \in {"looking", "dropping"}
        /\ \A u \in Threads \ {t} : client'[u] = client[u]
    BY <1>4, AskTypes
  <2>2. client'[t].conn = None
    BY <1>4 DEF Ask, Idle, TypeInv, TypeOK, ClientTypes
  <2>3. ~Making(t, c)' /\ ~Using(t, c)'
    BY <2>2, NoneIsNone DEF Making, Using
  <2>. QED  BY <1>1, <2>1, <2>3, OneThread DEF OwnInv
<1>. QED  BY <1>1, <1>2, <1>3, <1>4

LEMMA InitOwned == Init => OwnInv
BY NoneIsNone DEF Init, ClientInit, Idle, OwnInv, Owned, Private, Making, Using, In, Goal

LEMMA NextOwned == TypeInv /\ OwnInv /\ [Next]_vars => OwnInv'
<1>. SUFFICES ASSUME TypeInv, OwnInv, [Next]_vars, NEW c \in Connections PROVE Owned(c)'
  BY DEF OwnInv, Connections
<1>1. CASE UNCHANGED <<conn, sessions, client, failed>>
  BY <1>1, StillOwned DEF OwnInv, Making, Using, In, Goal
<1>2. ASSUME NEW d \in Connections, Fault(d) PROVE Owned(c)'
  <2>1. /\ conn'[c] = "unused" => conn[c] = "unused"
        /\ UNCHANGED <<sessions, client, failed>>
    BY <1>2, StoppedTypes DEF Fault
  <2>. QED  BY <2>1, StillOwned DEF OwnInv, Making, Using, In, Goal
<1>3. ASSUME NEW t \in Threads, ClientStep(t) \/ ServerStep(t) PROVE Owned(c)'
  BY <1>3, LookupOwned, ConnectOwned, InsertOwned, PopOwned, QuietOwned
     DEF ClientStep, ServerStep
<1>4. ASSUME NEW t \in Threads, Request(t) \/ CallerStep(t) PROVE Owned(c)'
  BY <1>4, CallerStepOwned
<1>. QED  BY <1>1, <1>2, <1>3, <1>4 DEF Next, InClient, Change, vars, clientVars

\* Whatever threads connect, call and fail at the same time, in however many
\* processes, no session is one that a failed call has dropped.
THEOREM FailedNotReused == Spec => []FailedStaysDropped
<1>1. TypeInv /\ OwnInv => FailedStaysDropped
  BY NoneIsNone DEF TypeInv, TypeOK, ClientTypes, OwnInv, Owned, FailedStaysDropped
<1>. QED  BY <1>1, InitOwned, NextOwned, TypesHold, PTL DEF Spec

-----------------------------------------------------------------------------
(* The last word.  Of an operation that runs by itself, what has been read  *)
(* stays true until it is used: no other handler is in the middle of one,   *)
(* and agents and the client's threads write no rows.                       *)

\* Skills that agree with the row.
Agree ==
  CASE server = "enabled" -> Available = cached
    [] server = "disabled" -> Available = {}
    [] OTHER -> Offered = {}

\* What the stages of a lone operation know of the row and of the skills.
Knows(r, row, tools, offered) ==
  /\ r.at \in {"listing", "comparing", "writing"} => row = "enabled" /\ r.tools = tools
  /\ r.at \in {"writing", "deleting"} => r.found = offered
  /\ r.op = "disable" /\ r.at \in {"dropping", "disabling"} => row = "disabled"
  /\ r.at = "disabling" => r.op = "disable"

WordInv ==
  /\ \A t \in Agents : caller[t].at \in {"idle", "holding", "calling"}
  /\ peace = "settled" => Agree /\ \A t \in Handlers : Stage(t, "idle")
  /\ peace = "alone" => \A t \in Handlers :
       /\ Knows(caller[t], server, cached, Offered)
       /\ ~Stage(t, "idle") => \A u \in Handlers \ {t} : Stage(u, "idle")

LEMMA IdleKnows ==
  ASSUME NEW r, r.at = "idle", NEW row, NEW tools, NEW offered
  PROVE  Knows(r, row, tools, offered)
BY DEF Knows

\* A thread's record is replaced and the history is kept: only what a lone
\* operation knows, and what an agent may be doing, is to be shown.
LEMMA WordGoesOn ==
  ASSUME TypeInv, WordInv, NEW t \in Threads, NEW r, caller' = [caller EXCEPT ![t] = r],
         peace' = peace, t \in Handlers => ~Stage(t, "idle"),
         t \in Agents => r.at \in {"idle", "holding", "calling"} /\ UNCHANGED <<server, cached, skills>>,
         t \in Handlers /\ peace = "alone" => Knows(r, server', cached', Offered')
  PROVE  WordInv'
<1>1. caller \in [Threads -> CallerState] /\ Handlers \subseteq Threads /\ Agents \subseteq Threads
      /\ Handlers \cap Agents = {} /\ Threads = Handlers \cup Agents
  BY CallersAssumption DEF TypeInv, TypeOK, RegistryTypes
<1>2. caller'[t] = r /\ \A u \in Threads \ {t} : caller'[u] = caller[u]
  BY <1>1
<1>3. CASE t \in Agents
  <2>1. \A u \in Handlers : caller'[u] = caller[u]
    BY <1>1, <1>2, <1>3
  <2>2. UNCHANGED <<server, cached, skills>> /\ r.at \in {"idle", "holding", "calling"}
    BY <1>3
  <2>. QED  BY <1>1, <1>2, <2>1, <2>2 DEF WordInv, Agree, Knows, Stage, Available, Offered
<1>4. CASE t \in Handlers
  <2>1. peace # "settled"
    BY <1>4 DEF WordInv
  <2>2. ASSUME peace = "alone"
        PROVE  \A u \in Handlers \ {t} : caller'[u] = caller[u] /\ caller'[u].at = "idle"
    BY <1>1, <1>2, <1>4, <2>2 DEF WordInv, Stage
  <2>3. ASSUME NEW u \in Handlers, peace' = "alone"
        PROVE  /\ Knows(caller'[u], server', cached', Offered')
               /\ u # t => caller'[u].at = "idle"
    <3>1. CASE u = t
      BY <1>2, <1>4, <2>3, <3>1
    <3>2. CASE u # t
      <4>1. caller'[u].at = "idle"
        BY <2>2, <2>3, <3>2
      <4>. QED  BY <3>2, <4>1, IdleKnows
    <3>. QED  BY <3>1, <3>2
  <2>4. peace' = "alone" => \A u \in Handlers :
          /\ Knows(caller'[u], server', cached', Offered')
          /\ caller'[u].at # "idle" => \A v \in Handlers \ {u} : caller'[v].at = "idle"
    BY <2>3
  <2>5. \A u \in Agents : caller'[u].at \in {"idle", "holding", "calling"}
    BY <1>1, <1>2, <1>4 DEF WordInv
  <2>. QED  BY <2>1, <2>4, <2>5 DEF WordInv, Stage
<1>. QED  BY <1>1, <1>3, <1>4

\* A lone operation has its last word.
LEMMA WordIsSpoken ==
  ASSUME TypeInv, WordInv, NEW t \in Handlers, ~Stage(t, "idle"), Conclude(t),
         peace = "alone" => Agree'
  PROVE  WordInv'
<1>1. caller \in [Threads -> CallerState] /\ Handlers \subseteq Threads /\ Agents \subseteq Threads
      /\ Handlers \cap Agents = {}
  BY CallersAssumption DEF TypeInv, TypeOK, RegistryTypes
<1>2. caller'[t].at = "idle" /\ \A u \in Threads \ {t} : caller'[u] = caller[u]
  BY <1>1 DEF Conclude, Finish, AtRest
<1>3. peace # "settled"
  BY DEF WordInv
<1>4. peace' = IF peace = "alone" THEN "settled" ELSE peace
  BY DEF Conclude
<1>5. \A u \in Agents : caller'[u].at \in {"idle", "holding", "calling"}
  BY <1>1, <1>2 DEF WordInv
<1>6. CASE peace = "alone"
  <2>1. \A u \in Handlers : caller'[u].at = "idle"
    BY <1>1, <1>2, <1>6 DEF WordInv, Stage
  <2>. QED  BY <1>4, <1>5, <1>6, <2>1 DEF WordInv, Stage
<1>7. CASE peace # "alone"
  BY <1>3, <1>4, <1>5, <1>7 DEF WordInv
<1>. QED  BY <1>6, <1>7

\* An operation begins, by itself or not.
LEMMA WordBegins ==
  ASSUME TypeInv, WordInv, NEW t \in Threads, NEW op, NEW s, Begin(t, op, s),
         s \in {"probing", "reading", "dropping"}, op = "disable" => server' = "disabled"
  PROVE  WordInv'
<1>1. caller \in [Threads -> CallerState] /\ Handlers \subseteq Threads /\ Agents \subseteq Threads
      /\ Handlers \cap Agents = {} /\ t \in Handlers
  BY CallersAssumption DEF TypeInv, TypeOK, RegistryTypes, Begin
<1>2. PICK r : r = [AtRest EXCEPT !.op = op, !.at = s]
  OBVIOUS
<1>3. r.op = op /\ r.at = s
  BY <1>2 DEF AtRest
<1>4. caller'[t] = r /\ \A u \in Threads \ {t} : caller'[u] = caller[u]
  BY <1>1, <1>2 DEF Begin
<1>5. /\ peace' \in {"alone", "crowded"}
      /\ peace' = "alone" => \A u \in Handlers \ {t} : caller[u].at = "idle"
  BY DEF Begin, Stage
<1>6. Knows(r, server', cached', Offered')
  BY <1>3 DEF Knows
<1>7. ASSUME NEW u \in Handlers, peace' = "alone"
      PROVE  /\ Knows(caller'[u], server', cached', Offered')
             /\ u # t => caller'[u].at = "idle"
  <2>1. CASE u = t
    BY <1>4, <1>6, <2>1
  <2>2. CASE u # t
    <3>1. caller'[u].at = "idle"
      BY <1>1, <1>4, <1>5, <1>7, <2>2
    <3>. QED  BY <2>2, <3>1, IdleKnows
  <2>. QED  BY <2>1, <2>2
<1>8. peace' = "alone" => \A u \in Handlers :
        /\ Knows(caller'[u], server', cached', Offered')
        /\ caller'[u].at # "idle" => \A v \in Handlers \ {u} : caller'[v].at = "idle"
  BY <1>7
<1>9. \A u \in Agents : caller'[u].at \in {"idle", "holding", "calling"}
  BY <1>1, <1>4 DEF WordInv
<1>. QED  BY <1>5, <1>8, <1>9 DEF WordInv, Stage

LEMMA WordOfRequest ==
  ASSUME TypeInv, WordInv, NEW t \in Threads, Request(t)
  PROVE  WordInv'
<1>1. CASE ConnectServer(t)
  BY <1>1, WordBegins DEF ConnectServer
<1>2. CASE Sync(t)
  BY <1>2, WordBegins DEF Sync
<1>3. CASE Disconnect(t)
  BY <1>3, WordBegins DEF Disconnect
<1>4. CASE Hold(t)
  <2>1. t \in Agents /\ t \notin Handlers
    BY <1>4, CallersAssumption DEF Hold
  <2>2. PICK r : r = [AtRest EXCEPT !.op = "agent", !.at = "holding"]
    OBVIOUS
  <2>3. r.at = "holding"
    BY <2>2 DEF AtRest
  <2>. QED  BY <1>4, <2>1, <2>2, <2>3, WordGoesOn DEF Hold
<1>5. ASSUME NEW enabled \in BOOLEAN, Switch(t, enabled)  PROVE WordInv'
  <2>1. PICK op : op = IF enabled THEN "enable" ELSE "disable"
    OBVIOUS
  <2>2. Begin(t, op, "dropping") /\ server' = RowState(enabled)
    BY <1>5, <2>1 DEF Switch
  <2>3. op = "disable" => server' = "disabled"
    BY <2>1, <2>2 DEF RowState
  <2>. QED  BY <2>2, <2>3, WordBegins
<1>. QED  BY <1>1, <1>2, <1>3, <1>4, <1>5 DEF Request

\* An operation of the gateway gives up, or an agent is done.
LEMMA WordEnds ==
  ASSUME TypeInv, WordInv, NEW t \in Threads, ~Stage(t, "idle"), Finish(t),
         peace' = peace, UNCHANGED <<server, cached, skills>>
  PROVE  WordInv'
<1>1. PICK r : r = AtRest
  OBVIOUS
<1>2. r.at = "idle" /\ caller' = [caller EXCEPT ![t] = r]
  BY <1>1 DEF AtRest, Finish
<1>3. Knows(r, server', cached', Offered')
  BY <1>2, IdleKnows
<1>. QED  BY <1>2, <1>3, WordGoesOn

LEMMA WordOfAgent ==
  ASSUME TypeInv, WordInv, NEW t \in Threads, RunMCP(t) \/ Called(t)
  PROVE  WordInv'
<1>1. CASE RunMCP(t) /\ server = "enabled"
  <2>1. PICK r : r = [caller[t] EXCEPT !.at = "calling"]
    OBVIOUS
  <2>2. caller' = [caller EXCEPT ![t] = r] /\ caller[t] \in CallerState /\ caller[t].at = "holding"
    BY <1>1, <2>1 DEF RunMCP, Proceed, Stage, TypeInv, TypeOK, RegistryTypes
  <2>3. r.at = "calling"
    BY <2>1, <2>2 DEF CallerState
  <2>4. Knows(r, server', cached', Offered')
    <3>1. r.op = caller[t].op
      BY <2>1, <2>2 DEF CallerState
    <3>. QED  BY <2>3 DEF Knows
  <2>. QED  BY <1>1, <2>2, <2>3, <2>4, WordGoesOn DEF RunMCP, Stage
<1>2. CASE RunMCP(t) /\ server # "enabled"
  BY <1>2, WordEnds DEF RunMCP, Stage
<1>3. CASE Called(t)
  BY <1>3, WordEnds DEF Called, Stage
<1>. QED  BY <1>1, <1>2, <1>3

\* What a step of an operation may use.
LEMMA WordKnown ==
  ASSUME TypeInv, WordInv, NEW t \in Threads, caller[t].at \notin {"idle", "holding", "calling"}
  PROVE  /\ t \in Handlers /\ ~Stage(t, "idle")
         /\ caller \in [Threads -> CallerState] /\ caller[t] \in CallerState
         /\ skills \in [Tools -> {"none", "available", "unavailable"}]
         /\ peace = "alone" => Knows(caller[t], server, cached, Offered)
         /\ peace = "alone" => \A u \in Handlers \ {t} : Stage(u, "idle")
<1>1. caller \in [Threads -> CallerState] /\ t \in Handlers
  BY CallersAssumption DEF TypeInv, TypeOK, RegistryTypes, WordInv
<1>2. ~Stage(t, "idle") /\ caller[t] \in CallerState
  BY <1>1 DEF Stage
<1>. QED  BY <1>1, <1>2 DEF TypeInv, TypeOK, RegistryTypes, WordInv

\* The next stage of an operation that keeps the skills and leaves the rows as
\* they are.
LEMMA WordProceeds ==
  ASSUME TypeInv, WordInv, NEW t \in Threads, caller[t].at \notin {"idle", "holding", "calling"},
         NEW r, caller' = [caller EXCEPT ![t] = r], peace' = peace,
         peace = "alone" => Knows(r, server', cached', Offered')
  PROVE  WordInv'
BY WordKnown, WordGoesOn, CallersAssumption

LEMMA WordOfRows ==
  ASSUME TypeInv, WordInv, NEW t \in Threads,
         Probed(t) \/ Store(t) \/ Read(t) \/ Refresh(t) \/ Find(t) \/ Dropped(t)
  PROVE  WordInv'
<1>1. CASE Probed(t)
  <2>1. caller[t].at = "probing"
    BY <1>1 DEF Probed, Stage
  <2>2. caller[t] \in CallerState
    BY <2>1, WordKnown
  <2>3. PICK r : r = IF client[t].ok THEN [caller[t] EXCEPT !.at = "storing", !.tools = client[t].tools]
                                     ELSE AtRest
    OBVIOUS
  <2>4. r.at \in {"storing", "idle"}
    BY <2>2, <2>3 DEF AtRest, CallerState
  <2>5. Knows(r, server', cached', Offered')
    BY <2>4 DEF Knows
  <2>6. caller' = [caller EXCEPT ![t] = r] /\ peace' = peace
    BY <1>1, <2>3 DEF Probed
  <2>. QED  BY <2>1, <2>5, <2>6, WordProceeds
<1>2. CASE Store(t)
  <2>1. caller[t].at = "storing" /\ peace' = peace
    BY <1>2 DEF Store, Stage
  <2>2. caller[t] \in CallerState
    BY <2>1, WordKnown
  <2>3. PICK r : r = IF server = "absent" THEN [caller[t] EXCEPT !.at = "reading"] ELSE AtRest
    OBVIOUS
  <2>4. caller' = [caller EXCEPT ![t] = r] /\ r.at \in {"reading", "idle"}
    BY <1>2, <2>2, <2>3 DEF Store, Proceed, Finish, AtRest, CallerState
  <2>5. Knows(r, server', cached', Offered')
    BY <2>4 DEF Knows
  <2>. QED  BY <2>1, <2>4, <2>5, WordProceeds
<1>3. CASE Read(t)
  <2>1. caller[t].at = "reading" /\ peace' = peace /\ server' = server /\ cached' = cached
    BY <1>3 DEF Read, Stage
  <2>2. caller[t] \in CallerState
    BY <2>1, WordKnown
  <2>3. CASE server = "enabled"
    <3>1. PICK r : r = [caller[t] EXCEPT !.at = "listing", !.tools = cached]
      OBVIOUS
    <3>2. r.at = "listing" /\ r.tools = cached /\ caller' = [caller EXCEPT ![t] = r]
      BY <1>3, <2>2, <2>3, <3>1, WordKnown DEF Read, CallerState, Stage, TypeInv, TypeOK, RegistryTypes
    <3>3. Knows(r, server', cached', Offered')
      BY <2>1, <2>3, <3>2 DEF Knows
    <3>. QED  BY <2>1, <3>2, <3>3, WordProceeds
  <2>4. CASE server # "enabled"
    <3>1. Finish(t) /\ UNCHANGED <<server, cached, skills>>
      BY <1>3, <2>4 DEF Read
    <3>. QED  BY <2>1, <3>1, WordEnds DEF Stage
  <2>. QED  BY <2>3, <2>4
<1>4. CASE Refresh(t)
  <2>1. caller[t].at = "listing" /\ peace' = peace /\ server' = server
    BY <1>4 DEF Refresh, Stage
  <2>2. /\ caller \in [Threads -> CallerState] /\ caller[t] \in CallerState
        /\ peace = "alone" => server = "enabled" /\ caller[t].tools = cached
    BY <2>1, WordKnown DEF Knows
  <2>3. PICK r : r = IF client[t].ok THEN [caller[t] EXCEPT !.at = "comparing", !.tools = client[t].tools]
                                     ELSE [caller[t] EXCEPT !.at = "comparing"]
    OBVIOUS
  <2>4. caller' = [caller EXCEPT ![t] = r] /\ r.at = "comparing"
    BY <1>4, <2>2, <2>3 DEF Refresh, Proceed, CallerState
  <2>5. peace = "alone" => server' = "enabled" /\ r.tools = cached'
    BY <1>4, <2>1, <2>2, <2>3 DEF Refresh, CallerState, Exists
  <2>6. peace = "alone" => Knows(r, server', cached', Offered')
    BY <2>4, <2>5 DEF Knows
  <2>. QED  BY <2>1, <2>4, <2>6, WordProceeds
<1>5. CASE Find(t)
  <2>1. /\ caller[t].at \in {"comparing", "resolving"} /\ peace' = peace
        /\ UNCHANGED <<server, cached, skills>>
    BY <1>5 DEF Find, Stage
  <2>2. /\ caller \in [Threads -> CallerState] /\ caller[t] \in CallerState
        /\ peace = "alone" => Knows(caller[t], server, cached, Offered)
    BY <2>1, WordKnown
  <2>3. PICK r : r = [caller[t] EXCEPT !.found = Offered,
                                       !.at = IF @ = "comparing" THEN "writing" ELSE "deleting"]
    OBVIOUS
  <2>4. /\ caller' = [caller EXCEPT ![t] = r] /\ r.found = Offered /\ r.tools = caller[t].tools
        /\ r.at = IF caller[t].at = "comparing" THEN "writing" ELSE "deleting"
    BY <1>5, <2>2, <2>3 DEF Find, CallerState
  <2>5. Offered' = Offered
    BY <2>1 DEF Offered
  <2>6. peace = "alone" => Knows(r, server', cached', Offered')
    BY <2>1, <2>2, <2>4, <2>5 DEF Knows
  <2>. QED  BY <2>1, <2>4, <2>6, WordProceeds
<1>6. CASE Dropped(t)
  <2>1. caller[t].at = "dropping" /\ peace' = peace /\ server' = server
    BY <1>6 DEF Dropped, Stage
  <2>2. /\ caller \in [Threads -> CallerState] /\ caller[t] \in CallerState
        /\ peace = "alone" => Knows(caller[t], server, cached, Offered)
    BY <2>1, WordKnown
  <2>3. PICK s : s = CASE caller[t].op = "enable" -> "reading"
                       [] caller[t].op = "disable" -> "disabling"
                       [] OTHER -> "resolving"
    OBVIOUS
  <2>4. PICK r : r = [caller[t] EXCEPT !.at = s]
    OBVIOUS
  <2>5. caller' = [caller EXCEPT ![t] = r]
    BY <1>6, <2>3, <2>4 DEF Dropped, Proceed
  <2>6. r.at = s /\ r.op = caller[t].op
    BY <2>2, <2>4 DEF CallerState
  <2>7. s \in {"reading", "disabling", "resolving"} /\ (s = "disabling" => r.op = "disable")
    BY <2>3, <2>6
  <2>8. peace = "alone" => Knows(r, server', cached', Offered')
    BY <2>1, <2>2, <2>6, <2>7 DEF Knows
  <2>. QED  BY <2>1, <2>5, <2>8, WordProceeds
<1>. QED  BY <1>1, <1>2, <1>3, <1>4, <1>5, <1>6

LEMMA WordOfSkills ==
  ASSUME TypeInv, WordInv, NEW t \in Threads, Write(t) \/ DisableSkills(t) \/ Delete(t)
  PROVE  WordInv'
<1>1. CASE Write(t)
  <2>1. caller[t].at = "writing" /\ UNCHANGED <<server, cached>>
    BY <1>1 DEF Write, Stage
  <2>2. /\ t \in Handlers /\ ~Stage(t, "idle")
        /\ skills \in [Tools -> {"none", "available", "unavailable"}]
        /\ peace = "alone" => server = "enabled" /\ caller[t].tools = cached /\ caller[t].found = Offered
    BY <2>1, WordKnown DEF Knows
  <2>3. CASE caller[t].found \ caller[t].tools \subseteq Offered
    <3>1. skills' = Reconciled(caller[t].tools, caller[t].found) /\ Conclude(t)
      BY <1>1, <2>3 DEF Write
    <3>2. ASSUME peace = "alone"  PROVE Agree'
      <4>1. skills' = Reconciled(cached, Offered) /\ server' = "enabled" /\ cached' = cached
        BY <2>1, <2>2, <3>1, <3>2
      <4>2. cached \subseteq Tools
        BY DEF TypeInv, TypeOK, RegistryTypes
      <4>3. Available' = cached
        BY <2>2, <4>1, <4>2 DEF Available, Reconciled, Offered
      <4>. QED  BY <4>1, <4>3 DEF Agree
    <3>. QED  BY <2>2, <3>1, <3>2, WordIsSpoken
  <2>4. CASE ~(caller[t].found \ caller[t].tools \subseteq Offered)
    BY <1>1, <2>1, <2>2, <2>4, WordEnds DEF Write
  <2>. QED  BY <2>3, <2>4
<1>2. CASE DisableSkills(t)
  <2>1. caller[t].at = "disabling" /\ UNCHANGED <<server, cached>>
    BY <1>2 DEF DisableSkills, Stage
  <2>2. /\ t \in Handlers /\ ~Stage(t, "idle")
        /\ peace = "alone" => server = "disabled"
    BY <2>1, WordKnown DEF Knows
  <2>3. Conclude(t) /\ Available' = {}
    BY <1>2 DEF DisableSkills, Available, Offered
  <2>. QED  BY <2>1, <2>2, <2>3, WordIsSpoken DEF Agree
<1>3. CASE Delete(t)
  <2>1. caller[t].at = "deleting"
    BY <1>3 DEF Delete, Stage
  <2>2. /\ t \in Handlers /\ ~Stage(t, "idle")
        /\ peace = "alone" => caller[t].found = Offered
    BY <2>1, WordKnown DEF Knows
  <2>3. CASE Exists
    <3>1. /\ Conclude(t) /\ server' = "deleted"
          /\ skills' = [x \in Tools |-> IF x \in caller[t].found THEN "none" ELSE skills[x]]
      BY <1>3, <2>3 DEF Delete
    <3>2. peace = "alone" => Offered' = {}
      BY <2>2, <3>1 DEF Offered
    <3>. QED  BY <2>2, <3>1, <3>2, WordIsSpoken DEF Agree
  <2>4. CASE ~Exists
    BY <1>3, <2>2, <2>4, WordEnds DEF Delete
  <2>. QED  BY <2>3, <2>4
<1>. QED  BY <1>1, <1>2, <1>3

LEMMA InitWord == Init => WordInv
<1>. SUFFICES ASSUME Init  PROVE WordInv
  OBVIOUS
<1>1. \A t \in Threads : caller[t].at = "idle"
  BY DEF Init, AtRest
<1>2. Agree
  BY DEF Init, Agree, Available, Offered
<1>3. peace = "settled"
  BY DEF Init
<1>. QED  BY <1>1, <1>2, <1>3, CallersAssumption DEF WordInv, Stage

LEMMA NextWord == TypeInv /\ WordInv /\ [Next]_vars => WordInv'
<1>. SUFFICES ASSUME TypeInv, WordInv, [Next]_vars  PROVE WordInv'
  OBVIOUS
<1>1. CASE UNCHANGED <<server, cached, skills, caller, peace>>
  BY <1>1 DEF WordInv, Agree, Knows, Stage, Available, Offered
<1>2. ASSUME NEW t \in Threads, Request(t) \/ CallerStep(t)  PROVE WordInv'
  BY <1>2, WordOfRequest, WordOfRows, WordOfSkills, WordOfAgent DEF CallerStep
<1>. QED  BY <1>1, <1>2 DEF Next, InClient, Change, vars, registryVars

\* An operation on a server that ran by itself, to its end, leaves skills that
\* agree with the row, whatever the operations before it had left, whenever the
\* server changed its tools and whatever the client and the agents did meanwhile.
THEOREM LastWordKept == Spec => []LastWordHolds
<1>1. WordInv => LastWordHolds
  BY DEF WordInv, Agree, LastWordHolds
<1>. QED  BY <1>1, InitWord, NextWord, TypesHold, PTL DEF Spec

=============================================================================
