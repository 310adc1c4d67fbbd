------------------------------ MODULE Processes ------------------------------
(* The processes of a deployment that share one database. *)

CONSTANT Servers

=============================================================================
