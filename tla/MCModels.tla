------------------------------ MODULE MCModels ------------------------------
(* Constants for the runs of ModelCalls. *)
EXTENDS ModelProperties, TLC

CONSTANTS t1, t2, hosted, local, small, large

Refusing   == {(hosted :> {}) @@ (local :> P) : P \in {{"reasoning", "usage", "tools"}, Params}}
Request(only, p, withKey) == [only |-> only, provider |-> p, model |-> small, withKey |-> withKey]
NewChoices == {Request(FALSE, hosted, TRUE), Request(TRUE, local, TRUE)}
TwoUses    == {[want |-> Nobody, tools |-> FALSE], [want |-> local, tools |-> TRUE]}
AnyThread  == Permutations({t1, t2})

=============================================================================
