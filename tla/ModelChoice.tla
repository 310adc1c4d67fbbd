----------------------------- MODULE ModelChoice -----------------------------
(***************************************************************************)
(* Which model a call runs on: the choices a workspace has saved           *)
(* (services/llm_proxy/store.py, service.py) and the provider objects that *)
(* get_provider and provider_for_choice of client.py build from them and   *)
(* keep.  The threads are those of one process; a choice is saved here or  *)
(* by another process, which cannot clear this one's cache.                *)
(*                                                                         *)
(* A key is named for the provider it was entered for, NoKey is none: the  *)
(* deployment's own key is used then.  Addresses and timeouts go with the  *)
(* model.                                                                  *)
(***************************************************************************)
EXTENDS Integers, Sequences, FiniteSets

CONSTANTS
  Threads,     \* the threads that call models
  Providers,   \* the backends
  Models,      \* what a choice says besides the provider
  Deployment,  \* the provider of the deployment's own configuration
  Edits        \* bound on the choices saved and cleared

ASSUME ChoiceAssumption ==
  Threads # {} /\ Models # {} /\ Deployment \in Providers /\ Edits \in Nat

NoKey == "none"
Main  == "main"      \* the row of the workspace's own choice
Here  == "here"      \* saved by this process
Nobody == "nobody"   \* ... no agent's provider: the workspace's is wanted

VARIABLES
  settings,  \* the saved rows: the main one, and one for each provider's credential
  saving,    \* where a save stands that has not cleared the cache yet
  built,     \* the provider objects: their choice and what the server refused to them
  cached,    \* _tenant_providers, an object for each choice
  default,   \* _default, 0 before it is built
  edits,     \* choices saved and cleared so far
  call       \* what each thread's call is doing

choiceVars == <<settings, saving, built, cached, default, edits>>

Kinds == {Main} \cup Providers
Row   == [provider : Providers, model : Models, key : Providers \cup {NoKey}]
AnyModel == CHOOSE m \in Models : TRUE

At(t, pc) == call[t].pc = pc
Choosing  == {"specific", "load"}

-----------------------------------------------------------------------------
(* Saving a choice. *)

\* No key in the request keeps the key of the row.
KeptKey(kind) == IF kind \in DOMAIN settings THEN settings[kind].key ELSE NoKey
Stored(kind, row) == [k \in DOMAIN settings \cup {kind} |-> IF k = kind THEN row ELSE settings[k]]

\* What a call that wants this provider may find in these rows.
MayFind(rows, want) ==
  IF want = Nobody
  THEN IF Main \in DOMAIN rows THEN {rows[Main]}
       ELSE {[provider |-> Deployment, model |-> AnyModel, key |-> NoKey]}
  ELSE IF want \in DOMAIN rows THEN {[rows[want] EXCEPT !.model = AnyModel]}
       ELSE [provider : {want}, model : {AnyModel}, key : Providers \cup {NoKey}]

\* History: the calls that are still choosing may find what has just been saved.
Noticed == call' = [t \in Threads |->
  IF call[t].pc \in Choosing
  THEN [call[t] EXCEPT !.found = @ \cup MayFind(settings', call[t].want)] ELSE call[t]]

Edited(where) ==
  /\ edits < Edits /\ edits' = edits + 1
  /\ saving = "no" /\ saving' = IF where = Here THEN "saved" ELSE "no"
  /\ Noticed
  /\ UNCHANGED <<built, cached, default>>

\* save_choice: the workspace's choice, or only a credential for a provider.
Save(where, only, p, m, withKey) ==
  LET kind == IF only THEN p ELSE Main IN
  /\ settings' = Stored(kind, [provider |-> p, model |-> m, key |-> IF withKey THEN p ELSE KeptKey(kind)])
  /\ Edited(where)

ClearChoice(where) ==
  /\ Main \in DOMAIN settings
  /\ settings' = [k \in DOMAIN settings \ {Main} |-> settings[k]]
  /\ Edited(where)

\* reset_provider_cache, after the transaction.
Reset ==
  /\ saving = "saved" /\ saving' = "no"
  /\ cached' = <<>> /\ default' = 0
  /\ UNCHANGED <<settings, built, edits, call>>

-----------------------------------------------------------------------------
(* Choosing the provider of a call. *)

Step(t, fields) == call' = [call EXCEPT ![t] = [f \in DOMAIN @ |-> IF f \in DOMAIN fields THEN fields[f] ELSE @[f]]]

\* credential_for looks for the provider's own row first,
FindSpecific(t) ==
  /\ At(t, "specific")
  /\ IF call[t].want \in DOMAIN settings
     THEN Step(t, [pc |-> "lookup", choice |-> [settings[call[t].want] EXCEPT !.model = AnyModel]])
     ELSE Step(t, [pc |-> "load"])
  /\ UNCHANGED choiceVars

\* ... then for the main row, if it happens to be of the same provider.
Matching(want) ==
  [provider |-> want, model |-> AnyModel,
   key |-> IF Main \in DOMAIN settings /\ settings[Main].provider = want THEN settings[Main].key ELSE NoKey]

LoadMain(t) ==
  LET want == call[t].want IN
  /\ At(t, "load")
  /\ Step(t, IF want # Nobody THEN [pc |-> "lookup", choice |-> Matching(want)]
             ELSE IF Main \in DOMAIN settings THEN [pc |-> "lookup", choice |-> settings[Main]]
             ELSE [pc |-> "default"])
  /\ UNCHANGED choiceVars

\* Mutant: a provider's objects are taken for each other.
CacheKeySlip(choice) == choice.provider
\* What an object is kept under: all that it was built from.
CacheKey(choice) == choice

New(choice) == Append(built, [choice |-> choice, refused |-> {}])

\* The object that is kept for the choice, or a new one; two threads that find
\* none build one each.
Lookup(t) ==
  LET k == CacheKey(call[t].choice) IN
  /\ At(t, "lookup")
  /\ IF k \in DOMAIN cached
     THEN Step(t, [pc |-> "build", object |-> cached[k]]) /\ UNCHANGED built
     ELSE built' = New(call[t].choice) /\ Step(t, [pc |-> "keep", object |-> Len(built')])
  /\ UNCHANGED <<settings, saving, cached, default, edits>>

Keep(t) ==
  LET k == CacheKey(call[t].choice) IN
  /\ At(t, "keep")
  /\ cached' = [j \in DOMAIN cached \cup {k} |-> IF j = k THEN call[t].object ELSE cached[j]]
  /\ Step(t, [pc |-> "build"])
  /\ UNCHANGED <<settings, saving, built, default, edits>>

\* The deployment's own provider is built where it is missed; what is there then
\* is returned, which a reset in between has taken away again.
TakeDefault(t) ==
  \/ /\ At(t, "default")
     /\ Step(t, [pc |-> IF default = 0 THEN "building" ELSE "return"])
     /\ UNCHANGED choiceVars
  \/ /\ At(t, "building")
     /\ built' = New([provider |-> Deployment, model |-> AnyModel, key |-> NoKey])
     /\ default' = Len(built')
     /\ Step(t, [pc |-> "return"])
     /\ UNCHANGED <<settings, saving, cached, edits>>
  \/ /\ At(t, "return")
     /\ Step(t, IF default = 0 THEN [pc |-> "over", outcome |-> "broken"]
                ELSE [pc |-> "build", object |-> default, choice |-> built[default].choice])
     /\ UNCHANGED choiceVars

Choose(t) == FindSpecific(t) \/ LoadMain(t) \/ Lookup(t) \/ Keep(t) \/ TakeDefault(t)

ChoiceInit ==
  /\ settings = <<>> /\ saving = "no" /\ built = <<>>
  /\ cached = <<>> /\ default = 0 /\ edits = 0

=============================================================================
