------------------------------ MODULE Knowledge ------------------------------
(***************************************************************************)
(* Documents indexed and searched: services/knowledge/service.py with the  *)
(* process-wide embedder of embeddings.py.                                 *)
(*                                                                         *)
(* A text is its length and the positions at which a sentence or paragraph *)
(* ends; a chunk is the window of positions it was cut from.  A vector is  *)
(* known by its space: the identity of the embedder that made it.  Each    *)
(* server handles one request at a time; a restart ends it, and may bring  *)
(* another configuration of the embedder.                                  *)
(***************************************************************************)
EXTENDS Integers, FiniteSets, Processes

CONSTANTS
  Texts,     \* documents that are uploaded: [length, breaks, size, overlap]
  Spaces,    \* identities an embedder can have
  Unlabelled,\* the space of a document stored before documents named theirs
  MaxDocs    \* bound on the documents stored

ASSUME KnowledgeAssumption ==
  /\ Texts \subseteq [length : Nat, breaks : SUBSET Nat, size : Nat \ {0}, overlap : Nat]
  /\ Unlabelled \notin Spaces

VARIABLES
  documents, \* the documents and chunks tables
  desk,      \* the request each server is handling
  space,     \* the space each server's configuration names
  stored,    \* documents stored so far, which numbers them
  answer    \* history: what searches have returned

knowledgeVars == <<documents, desk, space, stored, answer>>

Larger(a, b)  == IF a >= b THEN a ELSE b
Smaller(a, b) == IF a <= b THEN a ELSE b
Most(S)       == CHOOSE x \in S : \A y \in S : y <= x

NoText == [length |-> 0, breaks |-> {}, size |-> 1, overlap |-> 0]
Free == [stage |-> "free", text |-> NoText, start |-> 0, chunks |-> {},
         id |-> 0, with |-> Unlabelled]

-----------------------------------------------------------------------------

(* chunk_text: windows of size positions that step back to the last break in *)
(* their final part, and overlap.                                            *)

\* Breaks too early in a window are not worth the lost text.
Usable(text, start, end) ==
  {b \in text.breaks : b < end /\ 10 * (b - start) > 6 * text.size}

WindowEnd(text, start) ==
  LET end == Smaller(start + text.size, text.length)
      usable == Usable(text, start, end)
  IN IF end < text.length /\ usable # {} THEN Most(usable) ELSE end

\* Mutant: the step is that of a window that was not cut short.
NextStartSlip(text, start) == Larger(start + text.size - text.overlap, start + 1)
NextStart(text, start) == Larger(WindowEnd(text, start) - text.overlap, start + 1)

Window(text, start) == [from |-> start, to |-> WindowEnd(text, start)]

Covers(window, i) == window.from < i /\ i <= window.to

-----------------------------------------------------------------------------

IsFree(p) == desk[p].stage = "free"

\* The request ends, with an answer or an error.
Dismiss(p) == desk' = [desk EXCEPT ![p] = Free]
Handle(p, request) == desk' = [desk EXCEPT ![p] = request]

\* An upload: one chunk if it fits, an error if the windows would not advance.
Upload(p, text) ==
  /\ IsFree(p) /\ text.length > 0
  /\ IF text.length <= text.size
     THEN Handle(p, [Free EXCEPT !.stage = "embed", !.text = text,
                                 !.chunks = {[from |-> 0, to |-> text.length]}])
     ELSE /\ text.overlap < text.size
          /\ Handle(p, [Free EXCEPT !.stage = "cut", !.text = text])
  /\ UNCHANGED <<documents, space, stored, answer>>

Cut(p) ==
  /\ desk[p].stage = "cut"
  /\ LET text == desk[p].text
         window == Window(text, desk[p].start)
     IN Handle(p, [desk[p] EXCEPT
          !.chunks = @ \cup {window},
          !.start = IF window.to < text.length THEN NextStart(text, @) ELSE @,
          !.stage = IF window.to < text.length THEN "cut" ELSE "embed"])
  /\ UNCHANGED <<documents, space, stored, answer>>

\* The chunks go to the embedding server outside any transaction.
Embed(p) ==
  /\ desk[p].stage = "embed"
  /\ \/ Handle(p, [desk[p] EXCEPT !.stage = "store", !.with = space[p]])
     \/ Dismiss(p)
  /\ UNCHANGED <<documents, space, stored, answer>>

\* One transaction for the document and its chunks.
Store(p) ==
  /\ desk[p].stage = "store" /\ stored < MaxDocs
  /\ stored' = stored + 1
  /\ documents' = documents \cup
       {[id |-> stored + 1, text |-> desk[p].text, label |-> desk[p].with,
         space |-> desk[p].with, chunks |-> desk[p].chunks]}
  /\ Dismiss(p)
  /\ UNCHANGED <<space, answer>>

\* Mutant: labels are not compared.
MixedSlip(p, doc) == FALSE

\* A search: the embedder is taken first, then the document's row is read.
Search(p, doc) ==
  /\ IsFree(p) /\ doc \in documents
  /\ Handle(p, [Free EXCEPT !.stage = "score", !.id = doc.id, !.with = space[p]])
  /\ UNCHANGED <<documents, space, stored, answer>>

\* Another space than the document's label is refused; a document from before
\* there were labels is not.
Mixed(p, doc) == doc.label # Unlabelled /\ doc.label # desk[p].with

\* Its chunks are another query of the session, and may be gone by now; the
\* embedding server may fail.
Score(p) ==
  /\ desk[p].stage = "score"
  /\ Dismiss(p)
  /\ LET found == {d \in documents : d.id = desk[p].id}
     IN \/ /\ \A d \in found : ~ Mixed(p, d)
           /\ answer' = {[query |-> desk[p].with, label |-> d.label, space |-> d.space] : d \in found}
        \/ UNCHANGED answer
  /\ UNCHANGED <<documents, space, stored>>

Delete(doc) ==
  /\ doc \in documents
  /\ documents' = documents \ {doc}
  /\ UNCHANGED <<desk, space, stored, answer>>

\* A restart may bring another configuration of the embedder.
Reconfigure(p, configured) ==
  /\ space' = [space EXCEPT ![p] = configured]
  /\ Dismiss(p)
  /\ UNCHANGED <<documents, stored, answer>>

-----------------------------------------------------------------------------

KnowledgeInit ==
  /\ documents \in SUBSET {[id |-> 0, text |-> NoText, label |-> Unlabelled, space |-> s, chunks |-> {}] : s \in Spaces}
  /\ Cardinality(documents) <= 1
  /\ desk = [p \in Servers |-> Free]
  /\ space \in [Servers -> Spaces]
  /\ stored = 0
  /\ answer = {}

=============================================================================
