-------------------------- MODULE GatewayProperties --------------------------
(* What the processes of the platform promise from boot on. *)
EXTENDS Gateway

(* A process that completed an attempt of init_db finds every table, and     *)
(* every column that could be added: no query of its names something the     *)
(* database lacks, in whatever order the processes of a deployment came up   *)
(* and went (db.py, init_db).  One that lost a race in each of its attempts  *)
(* is let through as well; on PostgreSQL it still finds every table.         *)
SchemaReady ==
  \A p \in Servers : boot[p].stage \notin InInitDb \cup {"off", "dead"} =>
    /\ dialect = "postgresql" \/ ~ boot[p].lost => Tables \subseteq tables
    /\ ~ boot[p].lost => Safe \subseteq columns

(* Once every gateway serves, and none is set to grant it to nobody, the     *)
(* first account of each workspace may act on the outside world: neither a   *)
(* race of registrations nor a change of the setting leaves a workspace in   *)
(* which no account may (security.py, scopes_for_new_user and                *)
(* grant_owner_scopes).                                                      *)
OwnersMayAct ==
  (\A p \in Servers : Serving(p) /\ mode[p] # "nobody") =>
    \A i \in DOMAIN users : First(i) => users[i].outward

(* No search scores a document's vectors against a query of another          *)
(* embedding space, however the servers are reconfigured between indexing    *)
(* and searching (service.py, retrieve).  Documents from before the label    *)
(* was stored are the exception the code makes.                              *)
SpacesNeverMix ==
  \A a \in answer : a.label # Unlabelled => a.space = a.query

(* Every part of an indexed text lies in one of its chunks, and no chunk is  *)
(* larger than was asked for: nothing falls between two windows (service.py, *)
(* chunk_text and ingest).                                                   *)
Whole(text, chunks) ==
  /\ \A i \in 1..text.length : \E w \in chunks : Covers(w, i)
  /\ \A w \in chunks : w.to - w.from <= text.size

TextIsIndexed ==
  /\ \A doc \in documents : Whole(doc.text, doc.chunks)
  /\ \A p \in Servers : desk[p].stage \in {"embed", "store"} =>
       Whole(desk[p].text, desk[p].chunks)

=============================================================================
