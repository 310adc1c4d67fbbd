------------------------------ MODULE MCGateway ------------------------------
(* Constants for the run of Gateway. *)
EXTENDS GatewayProperties, TLC

CONSTANTS g1, g2, users_t, memories_t, runs_t, kind, demo, ann, hashing, remote

OfTable   == (kind :> memories_t)
Workspace == (demo :> "demo-tenant") @@ (ann :> "demo-tenant")
Uploads   == {[length |-> 9, breaks |-> {2, 4}, size |-> 6, overlap |-> 1]}
Alike     == Permutations({g1, g2}) \cup Permutations({hashing, remote})

=============================================================================
