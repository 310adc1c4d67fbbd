---------------------------- MODULE ModelProperties ----------------------------
(* What a call of a model must keep true; see ModelChoice and ModelCalls. *)
EXTENDS ModelCalls

\* A call runs on what was saved for it at some moment since it began, whichever
\* process saved it and whatever objects are kept ("a save that changed the model
\* must not be answered by a client built from the old one", save_choice).
UsesSavedChoice ==
  \A t \in Threads : At(t, "build") => Object(t).choice \in call[t].found

\* A call fails over a parameter only if another thread's call was told of the same
\* refusal meanwhile, and never runs out of attempts (_send; the comment at
\* its last line).
RefusalsMeet ==
  \A t \in Threads :
    /\ call[t].outcome # "shapeless"
    /\ call[t].outcome = "refused" =>
         \E u \in Threads \ {t} : heard[call[t].object][<<"reasoning", u>>] = 1

\* An answer that is returned is all that the server wrote ("the partial answer
\* must not be mistaken for a finished one", StreamInterrupted).
AnswerIsWhole ==
  \A t \in Threads : call[t].outcome = "answered" => call[t].got = Pieces

\* The live text is what was read, in order; when the call is over it lacks
\* nothing, whatever ended the call, and it never holds what may turn out to be a
\* call of a tool (LiveText, _reasoning_only, the finally of _think).
ScreenFollows ==
  \A t \in Threads :
    LET c == call[t]
        read(k) == Cardinality({n \in 1..c.got : k \in Sink(t, n)})
    IN /\ \A k \in DOMAIN Zero : c.shown[k] + c.pending[k] = read(k)
       /\ call[t].prompted => c.shown["content"] = 0

=============================================================================
