------------------------------ MODULE ModelCalls ------------------------------
(***************************************************************************)
(* Threads that call models: the OpenAI-compatible provider of             *)
(* services/llm_proxy/client.py with what it learns of its server, the     *)
(* Anthropic one beside it, the stream that streaming.py puts together,    *)
(* and the live text of live.py.                                           *)
(*                                                                         *)
(* A server refuses some optional parameters, naming one at a time; the    *)
(* object notes it for every later call.  Threads share the objects.       *)
(* An answer is a sequence of Pieces fragments, the first of reasoning,    *)
(* the others of prose or of a tool call.                                  *)
(***************************************************************************)
EXTENDS ModelChoice

CONSTANTS
  Requests,   \* what is asked to be saved
  Claude,     \* the providers reached through the Anthropic SDK
  Servers,    \* what the servers may refuse: functions from providers to parameters
  Uses,       \* what calls want: a provider, or Nobody for the workspace's, and tools
  Pieces,     \* fragments of an answer
  Calls,      \* bound on the calls made
  CleanCuts   \* whether a connection that ends early can look like an end

Params == {"reasoning", "usage", "stream", "tools"}

ASSUME CallsAssumption ==
  /\ Requests \subseteq [only : BOOLEAN, provider : Providers, model : Models, withKey : BOOLEAN]
  /\ Claude \subseteq Providers
  /\ Servers \subseteq {s \in [Providers -> SUBSET Params] : \A p \in Claude : s[p] = {}}
  /\ Uses \subseteq [want : Providers \cup {Nobody}, tools : BOOLEAN]
  /\ Pieces \in Nat \ {0} /\ Calls \in Nat /\ CleanCuts \in BOOLEAN

VARIABLES
  refuses,  \* what each server refuses
  heard,    \* history: how often each object was refused a parameter, by thread
  calls     \* calls made so far

vars == <<choiceVars, call, refuses, heard, calls>>

Zero == [reasoning |-> 0, content |-> 0]
NoCall == [pc |-> "idle", want |-> Nobody, found |-> {},
           choice |-> [provider |-> Deployment, model |-> AnyModel, key |-> NoKey], object |-> 0,
           tools |-> FALSE, prompted |-> FALSE, payload |-> {}, asks |-> FALSE, tries |-> 0,
           speaks |-> FALSE, got |-> 0, pending |-> Zero, shown |-> Zero, outcome |-> "none"]

Object(t)  == built[call[t].object]
Refused(t) == Object(t).refused
Server(t)  == refuses[Object(t).choice.provider]
Anthropic(t) == Object(t).choice.provider \in Claude

\* The call ends.  What was read and shown of an answer stays for the invariants;
\* a buffer is emptied however a call ends.
Over(t, outcome, shown) ==
  call' = [call EXCEPT ![t] = [NoCall EXCEPT
    !.pc = "over", !.outcome = outcome, !.shown = shown, !.got = call[t].got, !.speaks = call[t].speaks,
    !.prompted = call[t].prompted, !.object = call[t].object]]

\* Mutant: what waits in the buffer at the end stays there.
EndsSlip(t, outcome) == Over(t, outcome, call[t].shown)
Ends(t, outcome) == Over(t, outcome, [k \in DOMAIN Zero |-> call[t].shown[k] + call[t].pending[k]])

-----------------------------------------------------------------------------

\* An agent may name its provider; it may have tools to offer.
Begin(t, want, tools) ==
  /\ call[t].pc \in {"idle", "over"} /\ calls < Calls
  /\ calls' = calls + 1
  /\ call' = [call EXCEPT ![t] = [NoCall EXCEPT
       !.pc = IF want = Nobody THEN "load" ELSE "specific", !.want = want, !.tools = tools,
       !.found = MayFind(settings, want)]]
  /\ UNCHANGED <<choiceVars, refuses, heard>>

\* _base_payload asks for what was not refused before; token counts are part of a
\* stream.  Tools of a server that refused them are described in the prompt.
Payload(t) ==
  LET wanted == Params \ Refused(t) IN
  {p \in wanted : /\ p = "usage" => "stream" \in wanted
                  /\ p = "tools" => call[t].tools /\ ~ call[t].prompted}

Send(t, inWords) ==
  /\ Step(t, [pc |-> "post", payload |-> Payload(t), tries |-> 0, prompted |-> inWords])
  /\ UNCHANGED <<choiceVars, refuses, heard, calls>>

\* A text is completed; a turn is taken with the server's own tool calling, or with
\* calls in words where that was refused.
Complete(t) == At(t, "build") /\ ~ Anthropic(t) /\ ~ call[t].tools /\ Send(t, FALSE)
InWords(t)  == call[t].prompted \/ "tools" \in Refused(t)
ConverseNative(t)   == At(t, "build") /\ ~ Anthropic(t) /\ call[t].tools /\ ~ InWords(t) /\ Send(t, FALSE)
ConversePrompted(t) == At(t, "build") /\ ~ Anthropic(t) /\ call[t].tools /\ InWords(t) /\ Send(t, TRUE)

\* The Messages API: nothing in the request is optional to the server, and an SDK
\* that does not know the fallback is asked again without it, within the call.
Deliveries == {{"stream"}, {}}
Ask(t) ==
  /\ At(t, "build") /\ Anthropic(t)
  /\ \E payload \in Deliveries : Step(t, [pc |-> "wait", payload |-> payload])
  /\ UNCHANGED <<choiceVars, refuses, heard, calls>>

\* The calls of _post: whether a refusal of reasoning is one to handle is read
\* off the object, not off the payload.  The mutant lacks the attempt after the
\* last refusal.
MaxTriesSlip == 3
MaxTries == 4
Post(t) ==
  /\ At(t, "post")
  /\ IF call[t].tries = MaxTries THEN Ends(t, "shapeless")
     ELSE Step(t, [pc |-> "wait", tries |-> call[t].tries + 1, asks |-> "reasoning" \notin Refused(t)])
  /\ UNCHANGED <<choiceVars, refuses, heard, calls>>

\* What is refused to one call is not asked again by the next.
Notes(t, p) == [built EXCEPT ![call[t].object].refused = @ \cup {p}]

\* The request without the parameter, sent again; without tools it is another
\* request, which describes them.
Again(t, p) == LET payload == call[t].payload \ IF p = "stream" THEN {"stream", "usage"} ELSE {p} IN
  Step(t, IF p = "tools" THEN [pc |-> "build", prompted |-> TRUE] ELSE [pc |-> "post", payload |-> payload])

Refuse(t) ==
  /\ At(t, "wait")
  /\ \E p \in call[t].payload \cap Server(t) :
       /\ heard' = [i \in 1..Len(built) |-> [heard[i] EXCEPT ![<<p, t>>] = IF i = call[t].object THEN @ + 1 ELSE @]]
       /\ IF p = "reasoning" /\ ~ call[t].asks
          THEN Ends(t, "refused") /\ UNCHANGED built
          ELSE Again(t, p) /\ built' = Notes(t, p)
  /\ UNCHANGED <<settings, saving, cached, default, edits, refuses, calls>>

\* The server cannot be reached, refuses the key, or does not answer in time.
NoAnswer(t) ==
  /\ At(t, "wait")
  /\ Ends(t, "failed")
  /\ UNCHANGED <<choiceVars, refuses, heard, calls>>

\* An answer begins, or is there in one piece, whether or not a stream was asked
\* for.  It may call a tool where there is one.
Answer(t) ==
  /\ At(t, "wait") /\ call[t].payload \cap Server(t) = {}
  /\ \/ /\ "stream" \in call[t].payload
        /\ \E speaks \in {TRUE, ~ call[t].tools} : Step(t, [pc |-> "read", speaks |-> speaks])
     \/ Ends(t, "whole")
  /\ UNCHANGED <<choiceVars, refuses, heard, calls>>

\* Which sink a fragment goes to: reasoning is always shown, prose where it
\* cannot turn out to be a call in words, the arguments of a call never.
Sink(t, n) == IF n = 1 THEN {"reasoning"}
              ELSE IF call[t].speaks /\ ~ call[t].prompted THEN {"content"} ELSE {}

\* A fragment arrives and waits in the buffer of its kind, until that is due.
Read(t) ==
  LET n == call[t].got + 1
      waiting == [k \in DOMAIN Zero |-> call[t].pending[k] + IF k \in Sink(t, n) THEN 1 ELSE 0]
  IN
  /\ At(t, "read") /\ n <= Pieces
  /\ \/ Step(t, [got |-> n, pending |-> waiting])
     \/ \E k \in Sink(t, n) :
          Step(t, [got |-> n, pending |-> [waiting EXCEPT ![k] = 0],
                   shown |-> [call[t].shown EXCEPT ![k] = @ + waiting[k]]])
  /\ UNCHANGED <<choiceVars, refuses, heard, calls>>

\* Mutant: an error inside the stream ends it like any other end.
StopsSlip(t) == Ends(t, "answered")
\* An error inside the stream, or silence, loses the answer.
Stops(t) == Ends(t, "failed")

\* The end of the stream.  The connection may also break, or be closed early: the
\* first is an error nobody has named, the second an answer if anything came.
Finish(t) ==
  /\ At(t, "read")
  /\ \/ call[t].got = Pieces /\ Ends(t, "answered")
     \/ Stops(t)
     \/ Ends(t, "broken")
     \/ CleanCuts /\ Ends(t, IF call[t].got > 0 THEN "answered" ELSE "failed")
  /\ UNCHANGED <<choiceVars, refuses, heard, calls>>

\* Claude declines, at once or in the middle of a text that is then discarded: the
\* stop reason says so, in an answer that is no error.
Declined(t) ==
  /\ At(t, "wait") \/ At(t, "read")
  /\ Anthropic(t)
  /\ Ends(t, "declined")
  /\ UNCHANGED <<choiceVars, refuses, heard, calls>>

-----------------------------------------------------------------------------

\* A new object has heard of no refusal.
Counts == heard' = [i \in 1..Len(built') |-> IF i \in DOMAIN heard THEN heard[i] ELSE [d \in Params \X Threads |-> 0]]

Init ==
  /\ ChoiceInit
  /\ call = [t \in Threads |-> NoCall]
  /\ refuses \in Servers
  /\ heard = <<>> /\ calls = 0

Converse(t) ==
  \/ Complete(t) \/ ConverseNative(t) \/ ConversePrompted(t) \/ Ask(t)
  \/ Post(t) \/ Refuse(t) \/ NoAnswer(t) \/ Answer(t) \/ Read(t) \/ Finish(t) \/ Declined(t)

EditSettings ==
  \/ \E where \in {Here, "elsewhere"}, r \in Requests : Save(where, r.only, r.provider, r.model, r.withKey)
  \/ \E where \in {Here, "elsewhere"} : ClearChoice(where)
  \/ Reset

Next ==
  \/ \E t \in Threads :
       \/ \E use \in Uses : Begin(t, use.want, use.tools)
       \/ Choose(t) /\ Counts /\ UNCHANGED <<refuses, calls>>
       \/ Converse(t)
  \/ EditSettings /\ UNCHANGED <<refuses, heard, calls>>

Spec == Init /\ [][Next]_vars

=============================================================================
