------------------------------- MODULE MCMCP -------------------------------
(* Constants for the runs of MCPRegistry: the handlers of a gateway and its  *)
(* inline worker, which share one client (services/api_gateway/app.py).      *)
EXTENDS MCPRegistryProperties, TLC

CONSTANT Gateway

Callers == Handlers \cup Agents
InGateway == [t \in Callers |-> Gateway]

Symmetry == Permutations(Handlers)

=============================================================================
