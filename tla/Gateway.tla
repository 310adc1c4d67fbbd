------------------------------- MODULE Gateway -------------------------------
(***************************************************************************)
(* The processes of the platform from boot to shutdown: lifespan of        *)
(* services/api_gateway/app.py and main of services/orchestrator/worker.py.*)
(* Each makes the schema, then the demo account, and grants the owners     *)
(* their scope; and only then are requests taken.  A worker stops after    *)
(* the schema: it is a server nobody asks for more than a search.          *)
(***************************************************************************)
EXTENDS Schema, Accounts, Knowledge

CONSTANT MaxStops \* bound on restarts

ASSUME GatewayAssumption == MaxStops \in Nat

VARIABLE stops \* restarts so far

vars == <<schemaVars, accountsVars, knowledgeVars, stops>>

At(p, stage) == boot[p].stage = stage
Go(p, stage) == Leave(p, stage) /\ UNCHANGED <<dialect, tables, columns>>

Serving(p) == At(p, "serving")

-----------------------------------------------------------------------------

MakeSchema(p) ==
  /\ InitDb(p)
  /\ UNCHANGED <<accountsVars, knowledgeVars, stops>>

\* bootstrap_demo_user, where a password for it is configured.
BeginDemo(p) ==
  /\ At(p, "ready")
  /\ Go(p, "demo")
  /\ CreateUser(p, DemoEmail)
  /\ UNCHANGED <<knowledgeVars, stops>>

NoDemo(p) ==
  /\ At(p, "ready")
  /\ Go(p, "grant")
  /\ UNCHANGED <<accountsVars, knowledgeVars, stops>>

\* Another gateway may have made it since: this one does not survive that.
EndDemo(p) ==
  /\ At(p, "demo")
  /\ \/ Insert(p) /\ Go(p, "grant")
     \/ Taken(p) /\ Go(p, "dead")
  /\ UNCHANGED <<knowledgeVars, stops>>

\* Mutant: requests are taken before the owners have their scope.
GrantSlip(p) ==
  /\ At(p, "grant")
  /\ Go(p, "serving")
  /\ UNCHANGED <<accountsVars, knowledgeVars, stops>>

Grant(p) ==
  /\ At(p, "grant")
  /\ GrantOwnerScopes(p)
  /\ Go(p, "serving")
  /\ UNCHANGED <<knowledgeVars, stops>>

\* Any process may end at any moment and be started again.
Restart(p, setting, configured) ==
  /\ ~ At(p, "off") /\ stops < MaxStops
  /\ stops' = stops + 1
  /\ Stop(p) /\ Configure(p, setting) /\ Reconfigure(p, configured)

-----------------------------------------------------------------------------

Register(p, email) ==
  /\ Serving(p) /\ IsFree(p)
  /\ CreateUser(p, email)
  /\ UNCHANGED <<schemaVars, knowledgeVars, stops>>

Registered(p) ==
  /\ Serving(p)
  /\ Insert(p) \/ Taken(p)
  /\ UNCHANGED <<schemaVars, knowledgeVars, stops>>

Ask(p) ==
  /\ Serving(p) /\ ~ form[p].open
  /\ \/ \E text \in Texts : Upload(p, text)
     \/ \E doc \in documents : Search(p, doc)
  /\ UNCHANGED <<schemaVars, accountsVars, stops>>

Work(p) ==
  /\ Serving(p)
  /\ Cut(p) \/ Embed(p) \/ Store(p) \/ Score(p)
  /\ UNCHANGED <<schemaVars, accountsVars, stops>>

DeleteDocument(p, doc) ==
  /\ Serving(p)
  /\ Delete(doc)
  /\ UNCHANGED <<schemaVars, accountsVars, stops>>

-----------------------------------------------------------------------------

Init == SchemaInit /\ AccountsInit /\ KnowledgeInit /\ stops = 0

Next == \E p \in Servers :
  \/ MakeSchema(p)
  \/ BeginDemo(p) \/ NoDemo(p) \/ EndDemo(p) \/ Grant(p)
  \/ \E s \in Settings, e \in Spaces : Restart(p, s, e)
  \/ \E email \in Emails : Register(p, email)
  \/ Registered(p) \/ Ask(p) \/ Work(p)
  \/ \E doc \in documents : DeleteDocument(p, doc)

Spec == Init /\ [][Next]_vars

=============================================================================
