---------------------------- MODULE MCLogStream ----------------------------
(* Constants for the runs of LogStream. *)
EXTENDS LogStreamProperties, TLC

=============================================================================
