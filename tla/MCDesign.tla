------------------------------- MODULE MCDesign -------------------------------
(* Constants for the runs of Design. *)
EXTENDS DesignProperties, TLC

CONSTANTS t1, t2, writer, checker, summarise, brief, search, handle, merge, read

Agent(name, its, needs) == [name |-> name, skills |-> its, needs |-> needs]
BuiltinNames == <<summarise>>
Fallen       == <<Agent(writer, <<summarise>>, "read")>>
Copy         == <<Agent(writer, <<brief>>, "nothing")>>
Teams        == {<<Agent(writer, <<brief>>, "nothing"), Agent(checker, <<>>, "write")>>,
                 <<Agent(NoName, <<>>, "nothing")>>}
Proposals    == {[name |-> brief, kind |-> "http", sound |-> TRUE],
                 [name |-> summarise, kind |-> "prompt", sound |-> TRUE]}
UserSkills   == {[name |-> brief, kind |-> "http"]}
AnyThread    == Permutations({t1, t2})

=============================================================================
