------------------------------ MODULE Accounts ------------------------------
(***************************************************************************)
(* Accounts and the scope that lets one act on the outside world:          *)
(* services/api_gateway/security.py with the users table.                  *)
(*                                                                         *)
(* An account is its email address and whether it holds WRITE_EXTERNAL; the *)
(* rows are in the order of their creation.  What each gateway does about  *)
(* the scope, CWAP_WRITE_EXTERNAL, may change when it restarts.            *)
(***************************************************************************)
EXTENDS Integers, Sequences, Processes

CONSTANTS
  Emails,    \* addresses that register
  TenantOf,  \* the workspace each of them registers in
  Settings,  \* values CWAP_WRITE_EXTERNAL is given
  DemoEmail  \* CWAP_DEMO_EMAIL: the account made at boot

ASSUME AccountsAssumption ==
  /\ DemoEmail \in Emails
  /\ Settings \subseteq {"owner", "everyone", "nobody"}

VARIABLES
  users,     \* the users table, as a sequence
  mode,      \* CWAP_WRITE_EXTERNAL of each process
  form       \* the registration each process is in the middle of

accountsVars == <<users, mode, form>>

Blank == [email |-> DemoEmail, outward |-> FALSE, open |-> FALSE]

Known(email)    == \E i \in DOMAIN users : users[i].email = email
Members(tenant) == {i \in DOMAIN users : TenantOf[users[i].email] = tenant}
First(i)        == \A j \in Members(TenantOf[users[i].email]) : i <= j

\* scopes_for_new_user: does a new account of this workspace act outside?
ScopesForNewUser(p, tenant) ==
  \/ mode[p] = "everyone"
  \/ mode[p] = "owner" /\ Members(tenant) = {}

-----------------------------------------------------------------------------

\* create_user looks for the address and for other accounts, ...
CreateUser(p, email) ==
  /\ ~ form[p].open /\ ~ Known(email)
  /\ form' = [form EXCEPT ![p] =
       [email |-> email, outward |-> ScopesForNewUser(p, TenantOf[email]), open |-> TRUE]]
  /\ UNCHANGED <<users, mode>>

Clear(p) == form' = [form EXCEPT ![p] = Blank]

\* ... and inserts a row, unless the address has been taken in the meantime.
Insert(p) ==
  /\ form[p].open /\ ~ Known(form[p].email)
  /\ users' = Append(users, [email |-> form[p].email, outward |-> form[p].outward])
  /\ Clear(p)
  /\ UNCHANGED mode

Taken(p) ==
  /\ form[p].open /\ Known(form[p].email)
  /\ Clear(p)
  /\ UNCHANGED <<users, mode>>

\* grant_owner_scopes, at every boot.
Owed(p, i) == mode[p] = "everyone" \/ (mode[p] = "owner" /\ First(i))

GrantOwnerScopes(p) ==
  /\ users' = [i \in DOMAIN users |->
                 [users[i] EXCEPT !.outward = @ \/ Owed(p, i)]]
  /\ UNCHANGED <<mode, form>>

\* A restart may bring another setting.
Configure(p, setting) ==
  /\ mode' = [mode EXCEPT ![p] = setting]
  /\ Clear(p)
  /\ UNCHANGED users

AccountsInit ==
  /\ users = <<>>
  /\ mode \in [Servers -> Settings]
  /\ form = [p \in Servers |-> Blank]

=============================================================================
