---------------------------- MODULE GatewayProofs ----------------------------
(***************************************************************************)
(* Theorems about the gateways, for any number of them, of tables and      *)
(* columns, of accounts and workspaces, and of texts, sizes of window and  *)
(* embedders.                                                              *)
(***************************************************************************)
EXTENDS GatewayProperties, WellFoundedInduction, SequenceTheorems, TLAPS

-----------------------------------------------------------------------------
(* Windows. *)

LEMMA MostIsLargest ==
  ASSUME NEW S \in SUBSET Nat, S # {}, NEW n \in Nat, \A x \in S : x <= n
  PROVE  Most(S) \in S /\ \A y \in S : y <= Most(S)
<1>. DEFINE T == {n - x : x \in S}
<1>1. T \subseteq Nat /\ T # {}
  <2>1. \A x \in S : n - x \in Nat
    OBVIOUS
  <2>2. PICK x \in S : TRUE
    OBVIOUS
  <2>3. n - x \in T
    BY <2>2
  <2>. QED  BY <2>1, <2>3
<1>2. PICK m \in T : \A y \in T : ~ (<<y, m>> \in OpToRel(<, Nat))
  <2>. HIDE DEF T
  <2>. QED  BY <1>1, WFMin, NatLessThanWellFounded, Zenon
<1>3. \A y \in T : ~ (y < m)
  <2>. HIDE DEF T
  <2>1. \A y \in T : <<y, m>> \in Nat \X Nat
    BY <1>1
  <2>. QED  BY <1>2, <2>1, Zenon DEF OpToRel
<1>4. PICK x \in S : m = n - x
  OBVIOUS
<1>5. \A y \in S : y <= x
  <2>. SUFFICES ASSUME NEW y \in S PROVE y <= x
    OBVIOUS
  <2>1. ~ (n - y < n - x)
    BY <1>3, <1>4
  <2>. QED  BY <2>1
<1>. QED  BY <1>5 DEF Most

\* A window is not empty, and no larger than was asked for; the next one begins
\* no later than it ends, and after it began.
LEMMA WindowsMeet ==
  ASSUME NEW text \in Texts, NEW start \in Nat, start < text.length
  PROVE  /\ WindowEnd(text, start) \in Nat /\ NextStart(text, start) \in Nat
         /\ start < WindowEnd(text, start) /\ WindowEnd(text, start) <= text.length
         /\ WindowEnd(text, start) <= start + text.size
         /\ start < NextStart(text, start)
         /\ NextStart(text, start) <= WindowEnd(text, start)
<1>. DEFINE end == Smaller(start + text.size, text.length)
            usable == Usable(text, start, end)
<1>1. text \in [length : Nat, breaks : SUBSET Nat, size : Nat \ {0}, overlap : Nat]
  BY KnowledgeAssumption
<1>2. end \in Nat /\ start < end /\ end <= text.length /\ end <= start + text.size
  BY <1>1 DEF Smaller
<1>3. usable # {} => Most(usable) \in usable
  <2>1. usable \in SUBSET Nat /\ \A x \in usable : x <= end
    BY <1>1, <1>2 DEF Usable
  <2>. HIDE DEF usable, end
  <2>. QED  BY <1>2, <2>1, MostIsLargest
<1>4. usable # {} => Most(usable) \in Nat /\ start < Most(usable) /\ Most(usable) < end
  BY <1>1, <1>2, <1>3 DEF Usable
<1>5. WindowEnd(text, start) = end \/ (usable # {} /\ WindowEnd(text, start) = Most(usable))
  BY DEF WindowEnd
<1>6. /\ WindowEnd(text, start) \in Nat /\ start < WindowEnd(text, start)
      /\ WindowEnd(text, start) <= text.length /\ WindowEnd(text, start) <= start + text.size
  <2>. HIDE DEF usable, end
  <2>. QED  BY <1>1, <1>2, <1>4, <1>5
<1>. QED  BY <1>1, <1>6 DEF NextStart, Larger

-----------------------------------------------------------------------------
(* Documents: what is at the desk is cut up to where the next window starts. *)

Windows == [from : Nat, to : Nat]

Covered(text, chunks, reach) ==
  /\ \A i \in 1..reach : \E w \in chunks : Covers(w, i)
  /\ \A w \in chunks : w.to - w.from <= text.size

Request ==
  {r \in [stage : {"free", "cut", "embed", "store", "score"}, text : Texts \cup {NoText},
          start : Nat, chunks : SUBSET Windows, id : Nat, with : Spaces \cup {Unlabelled}] :
     /\ r.stage = "cut" => r.text \in Texts /\ r.start < r.text.length
                           /\ Covered(r.text, r.chunks, r.start)
     /\ r.stage \in {"embed", "store"} => Whole(r.text, r.chunks)
     /\ r.stage \in {"store", "score"} => r.with \in Spaces}

Row ==
  {d \in [id : Nat, text : Texts \cup {NoText}, label : Spaces \cup {Unlabelled},
          space : Spaces, chunks : SUBSET Windows] :
     Whole(d.text, d.chunks) /\ (d.label # Unlabelled => d.label = d.space)}

KnowledgeInv ==
  /\ documents \subseteq Row
  /\ desk \in [Servers -> Request]
  /\ space \in [Servers -> Spaces]
  /\ stored \in Nat
  /\ SpacesNeverMix

LEMMA FreeFields ==
  /\ Free \in [stage : {"free", "cut", "embed", "store", "score"}, text : Texts \cup {NoText},
              start : Nat, chunks : SUBSET Windows, id : Nat, with : Spaces \cup {Unlabelled}]
  /\ Free.start = 0 /\ Free.chunks = {}
BY DEF Free, Windows

LEMMA FreeIsRequest == Free \in Request
BY DEF Free, Request, Windows, NoText

LEMMA KnowledgeInitial == KnowledgeInit => KnowledgeInv
BY FreeIsRequest DEF KnowledgeInit, KnowledgeInv, SpacesNeverMix, Row, Whole, NoText, Windows

LEMMA Uploads ==
  ASSUME KnowledgeInv, NEW p \in Servers, NEW text \in Texts, Upload(p, text)
  PROVE  KnowledgeInv'
<1>. DEFINE r1 == [Free EXCEPT !.stage = "embed", !.text = text,
                               !.chunks = {[from |-> 0, to |-> text.length]}]
            r2 == [Free EXCEPT !.stage = "cut", !.text = text]
<1>1. text \in [length : Nat, breaks : SUBSET Nat, size : Nat \ {0}, overlap : Nat]
  BY KnowledgeAssumption
<1>2. text.length <= text.size => r1 \in Request
  <2>1. {[from |-> 0, to |-> text.length]} \in SUBSET Windows
    BY <1>1 DEF Windows
  <2>2. /\ r1 \in [stage : {"free", "cut", "embed", "store", "score"}, text : Texts \cup {NoText},
                  start : Nat, chunks : SUBSET Windows, id : Nat, with : Spaces \cup {Unlabelled}]
        /\ r1.stage = "embed" /\ r1.text = text /\ r1.chunks = {[from |-> 0, to |-> text.length]}
    BY <2>1, FreeFields
  <2>3. text.length <= text.size => Whole(r1.text, r1.chunks)
    <3>. HIDE DEF r1
    <3>. QED  BY <1>1, <2>2 DEF Whole, Covers
  <2>. HIDE DEF r1
  <2>. QED  BY <2>2, <2>3 DEF Request
<1>3. text.length > 0 => r2 \in Request
  <2>1. /\ r2 \in [stage : {"free", "cut", "embed", "store", "score"}, text : Texts \cup {NoText},
                  start : Nat, chunks : SUBSET Windows, id : Nat, with : Spaces \cup {Unlabelled}]
        /\ r2.stage = "cut" /\ r2.text = text /\ r2.start = 0 /\ r2.chunks = {}
    BY FreeFields
  <2>2. Covered(text, {}, 0)
    BY DEF Covered
  <2>. HIDE DEF r2
  <2>. QED  BY <1>1, <2>1, <2>2 DEF Request
<1>4. desk' \in [Servers -> Request]
  BY <1>2, <1>3 DEF Upload, Handle, KnowledgeInv
<1>. QED  BY <1>4 DEF KnowledgeInv, Upload, SpacesNeverMix

LEMMA Cuts ==
  ASSUME KnowledgeInv, NEW p \in Servers, Cut(p)
  PROVE  KnowledgeInv'
<1>. DEFINE r == desk[p]
            text == r.text
            window == Window(text, r.start)
            more == window.to < text.length
            s == [r EXCEPT !.chunks = @ \cup {window},
                           !.start = IF more THEN NextStart(text, @) ELSE @,
                           !.stage = IF more THEN "cut" ELSE "embed"]
<1>1. r \in Request /\ r.stage = "cut"
  BY DEF KnowledgeInv, Cut
<1>2. text \in Texts /\ r.start \in Nat /\ r.start < text.length /\ Covered(text, r.chunks, r.start)
  BY <1>1 DEF Request
<1>3. /\ window \in Windows /\ window.from = r.start /\ window.to = WindowEnd(text, r.start)
      /\ window.to - window.from <= text.size /\ text.size \in Nat /\ text.length \in Nat
  BY <1>2, WindowsMeet, KnowledgeAssumption DEF Window, Windows
<1>4. Covered(text, r.chunks \cup {window}, window.to)
  <2>1. ASSUME NEW i \in 1..window.to PROVE \E w \in r.chunks \cup {window} : Covers(w, i)
    <3>1. CASE i <= r.start
      BY <1>2, <2>1, <3>1 DEF Covered
    <3>2. CASE ~ (i <= r.start)
      BY <1>2, <1>3, <2>1, <3>2 DEF Covers, Windows
    <3>. QED  BY <3>1, <3>2
  <2>. QED  BY <1>2, <1>3, <2>1 DEF Covered
<1>5. s \in Request
  <2>1. CASE more
    <3>1. s.stage = "cut" /\ s.text = text /\ s.start = NextStart(text, r.start)
          /\ s.chunks = r.chunks \cup {window} /\ s.id = r.id /\ s.with = r.with
      BY <1>1, <2>1 DEF Request
    <3>2. /\ s.start \in Nat /\ s.start <= window.to /\ s.start < text.length
      BY <1>2, <1>3, <2>1, <3>1, WindowsMeet
    <3>3. Covered(s.text, s.chunks, s.start)
      BY <1>3, <1>4, <3>1, <3>2 DEF Covered, Windows
    <3>. QED  BY <1>1, <1>2, <1>3, <3>1, <3>2, <3>3 DEF Request
  <2>2. CASE ~ more
    <3>1. s.stage = "embed" /\ s.text = text /\ s.start = r.start
          /\ s.chunks = r.chunks \cup {window} /\ s.id = r.id /\ s.with = r.with
      BY <1>1, <2>2 DEF Request
    <3>2. window.to = text.length
      BY <1>2, <1>3, <2>2, WindowsMeet DEF Windows
    <3>3. Whole(s.text, s.chunks)
      BY <1>4, <3>1, <3>2 DEF Covered, Whole
    <3>. QED  BY <1>1, <1>2, <1>3, <3>1, <3>3 DEF Request
  <2>. QED  BY <2>1, <2>2
<1>6. desk' = [desk EXCEPT ![p] = s]
  BY DEF Cut, Handle
<1>. HIDE DEF s
<1>. QED  BY <1>5, <1>6 DEF KnowledgeInv, Cut, SpacesNeverMix

LEMMA Embeds ==
  ASSUME KnowledgeInv, NEW p \in Servers, Embed(p)
  PROVE  KnowledgeInv'
<1>. DEFINE s == [desk[p] EXCEPT !.stage = "store", !.with = space[p]]
<1>1. desk[p] \in Request /\ desk[p].stage = "embed" /\ space[p] \in Spaces
  BY DEF KnowledgeInv, Embed
<1>2. s \in Request
  BY <1>1 DEF Request
<1>3. desk' \in [Servers -> Request]
  BY <1>2, FreeIsRequest DEF Embed, Handle, Dismiss, KnowledgeInv
<1>. QED  BY <1>3 DEF KnowledgeInv, Embed, SpacesNeverMix

LEMMA Stores ==
  ASSUME KnowledgeInv, NEW p \in Servers, Store(p)
  PROVE  KnowledgeInv'
<1>. DEFINE d == [id |-> stored + 1, text |-> desk[p].text, label |-> desk[p].with,
                  space |-> desk[p].with, chunks |-> desk[p].chunks]
<1>1. desk[p] \in Request /\ desk[p].stage = "store"
  BY DEF KnowledgeInv, Store
<1>2. d \in Row
  BY <1>1 DEF Row, Request, KnowledgeInv
<1>3. desk' \in [Servers -> Request]
  BY FreeIsRequest DEF Store, Dismiss, KnowledgeInv
<1>. QED  BY <1>2, <1>3 DEF KnowledgeInv, Store, SpacesNeverMix

LEMMA Searches ==
  ASSUME KnowledgeInv, NEW p \in Servers, NEW doc \in documents, Search(p, doc)
  PROVE  KnowledgeInv'
<1>. DEFINE s == [Free EXCEPT !.stage = "score", !.id = doc.id, !.with = space[p]]
<1>1. s \in Request
  BY FreeIsRequest DEF Request, Free, Row, KnowledgeInv
<1>2. desk' \in [Servers -> Request]
  BY <1>1 DEF Search, Handle, KnowledgeInv
<1>. QED  BY <1>2 DEF KnowledgeInv, Search, SpacesNeverMix

LEMMA Scores ==
  ASSUME KnowledgeInv, NEW p \in Servers, Score(p)
  PROVE  KnowledgeInv'
<1>1. desk' \in [Servers -> Request]
  BY FreeIsRequest DEF Score, Dismiss, KnowledgeInv
<1>2. SpacesNeverMix'
  BY DEF Score, SpacesNeverMix, KnowledgeInv, Row, Mixed
<1>. QED  BY <1>1, <1>2 DEF KnowledgeInv, Score

LEMMA DeletesAndRestarts ==
  ASSUME KnowledgeInv, NEW p \in Servers, NEW e \in Spaces,
         (\E doc \in documents : Delete(doc)) \/ Reconfigure(p, e)
  PROVE  KnowledgeInv'
BY FreeIsRequest DEF KnowledgeInv, Delete, Reconfigure, Dismiss, SpacesNeverMix

LEMMA KnowledgeStutters ==
  ASSUME KnowledgeInv, UNCHANGED knowledgeVars
  PROVE  KnowledgeInv'
BY DEF KnowledgeInv, knowledgeVars, SpacesNeverMix

LEMMA KnowledgeStep ==
  ASSUME KnowledgeInv, [Next]_vars
  PROVE  KnowledgeInv'
<1>1. CASE UNCHANGED vars
  BY <1>1, KnowledgeStutters DEF vars, knowledgeVars
<1>2. ASSUME NEW p \in Servers,
             \/ MakeSchema(p) \/ BeginDemo(p) \/ NoDemo(p) \/ EndDemo(p) \/ Grant(p)
             \/ \E email \in Emails : Register(p, email)
             \/ Registered(p)
      PROVE  KnowledgeInv'
  BY <1>2, KnowledgeStutters DEF MakeSchema, BeginDemo, NoDemo, EndDemo, Grant, Register, Registered
<1>3. ASSUME NEW p \in Servers, NEW s \in Settings, NEW e \in Spaces, Restart(p, s, e)
      PROVE  KnowledgeInv'
  BY <1>3, DeletesAndRestarts DEF Restart
<1>4. ASSUME NEW p \in Servers, Ask(p)
      PROVE  KnowledgeInv'
  BY <1>4, Uploads, Searches DEF Ask
<1>5. ASSUME NEW p \in Servers, Work(p)
      PROVE  KnowledgeInv'
  BY <1>5, Cuts, Embeds, Stores, Scores DEF Work
<1>6. ASSUME NEW p \in Servers, NEW doc \in documents, DeleteDocument(p, doc)
      PROVE  KnowledgeInv'
  BY <1>6 DEF DeleteDocument, Delete, KnowledgeInv, SpacesNeverMix
<1>. QED  BY <1>1, <1>2, <1>3, <1>4, <1>5, <1>6 DEF Next

LEMMA KnowledgeAlways == Spec => []KnowledgeInv
<1>1. Init => KnowledgeInv
  BY KnowledgeInitial DEF Init
<1>2. KnowledgeInv /\ [Next]_vars => KnowledgeInv'
  BY KnowledgeStep
<1>. QED  BY <1>1, <1>2, PTL DEF Spec

(* Every part of an indexed text is in one of its chunks, whatever the text, *)
(* where its sentences end, the size of a window and the overlap             *)
(* (service.py, chunk_text and ingest).                                      *)
THEOREM NothingFallsBetween == Spec => []TextIsIndexed
<1>1. KnowledgeInv => TextIsIndexed
  BY DEF KnowledgeInv, TextIsIndexed, Request, Row
<1>. QED  BY <1>1, KnowledgeAlways, PTL

(* No search compares vectors of two embedding spaces, for any number of     *)
(* servers, however they are reconfigured (service.py, retrieve).            *)
THEOREM OneSpaceEach == Spec => []SpacesNeverMix
<1>1. KnowledgeInv => SpacesNeverMix
  BY DEF KnowledgeInv
<1>. QED  BY <1>1, KnowledgeAlways, PTL

-----------------------------------------------------------------------------
(* Accounts.  A registration in progress that will not give the scope has    *)
(* another account before it, or its gateway gives it to nobody.             *)

Account  == [email : Emails, outward : BOOLEAN]
Stages   == {"off", "create", "creating", "inspect", "ready", "demo", "grant", "serving", "dead"}
Progress == [stage : Stages, attempt : Nat, todo : SUBSET Tables, adding : SUBSET Added,
             lost : BOOLEAN]

Refused(p) ==
  form[p].open /\ ~ form[p].outward =>
    mode[p] = "nobody" \/ Members(TenantOf[form[p].email]) # {}

AccountsType ==
  /\ users \in Seq(Account)
  /\ form \in [Servers -> [email : Emails, outward : BOOLEAN, open : BOOLEAN]]
  /\ mode \in [Servers -> Settings]
  /\ boot \in [Servers -> Progress]

AccountsInv ==
  /\ AccountsType
  /\ \A p \in Servers : Refused(p)
  /\ OwnersMayAct

LEMMA OffFields == Off \in Progress /\ Off.stage = "off"
BY SchemaAssumption DEF Off, Progress, Stages

LEMMA AccountsInitial == Init => AccountsInv
<1>. SUFFICES ASSUME Init PROVE AccountsInv
  OBVIOUS
<1>1. /\ users = <<>> /\ mode \in [Servers -> Settings] /\ form = [p \in Servers |-> Blank]
      /\ boot = [p \in Servers |-> Off]
  BY DEF Init, AccountsInit, SchemaInit
<1>2. Blank \in [email : Emails, outward : BOOLEAN, open : BOOLEAN] /\ ~ Blank.open
  BY AccountsAssumption DEF Blank
<1>3. AccountsType
  BY <1>1, <1>2, OffFields DEF AccountsType
<1>4. \A p \in Servers : Refused(p)
  BY <1>1, <1>2 DEF Refused
<1>5. DOMAIN users = {}
  BY <1>1
<1>. QED  BY <1>3, <1>4, <1>5 DEF AccountsInv, OwnersMayAct

\* A process that boots takes no requests yet.
LEMMA Boots ==
  ASSUME AccountsInv, NEW p \in Servers, InitDb(p)
  PROVE  boot' \in [Servers -> Progress] /\ ~ Serving(p)'
<1>1. boot[p] \in Progress
  BY DEF AccountsInv, AccountsType
<1>2. ASSUME NEW stage \in Stages, NEW todo \in SUBSET Tables, NEW adding \in SUBSET Added,
             stage # "serving", Move(p, stage, todo, adding)
      PROVE  boot' \in [Servers -> Progress] /\ ~ Serving(p)'
  BY <1>1, <1>2 DEF Move, AccountsInv, AccountsType, Progress, Serving, At
<1>3. ASSUME NEW stage \in Stages, stage # "serving", Leave(p, stage)
      PROVE  boot' \in [Servers -> Progress] /\ ~ Serving(p)'
  BY <1>1, <1>3, OffFields DEF Leave, AccountsInv, AccountsType, Progress, Serving, At
<1>4. ASSUME Retry(p)
      PROVE  boot' \in [Servers -> Progress] /\ ~ Serving(p)'
  <2>. DEFINE r == [Off EXCEPT !.stage = "ready", !.lost = TRUE]
              s == [Off EXCEPT !.stage = "create", !.attempt = boot[p].attempt + 1]
  <2>1. boot[p].attempt + 1 \in Nat
    BY <1>1 DEF Progress
  <2>2. r \in Progress /\ r.stage = "ready" /\ s \in Progress /\ s.stage = "create"
    BY <2>1, OffFields DEF Progress, Stages
  <2>3. boot' = [boot EXCEPT ![p] = r] \/ boot' = [boot EXCEPT ![p] = s]
    BY <1>4 DEF Retry
  <2>. HIDE DEF r, s
  <2>. QED  BY <2>2, <2>3 DEF AccountsInv, AccountsType, Serving, At
<1>5. ASSUME NEW todo \in SUBSET Tables, NEW adding \in SUBSET Added, Continue(p, todo, adding)
      PROVE  boot' \in [Servers -> Progress] /\ ~ Serving(p)'
  BY <1>2, <1>3, <1>5 DEF Continue, Stages
<1>6. AddColumns(p) => boot' \in [Servers -> Progress] /\ ~ Serving(p)'
  <2>1. {TableOf[c] : c \in Safe} \in SUBSET Tables
    BY SchemaAssumption
  <2>. QED  BY <1>5, <2>1 DEF AddColumns
<1>7. CASE Boot(p)
  BY <1>2, <1>7 DEF Boot, Stages
<1>8. CASE CreateLocked(p)
  BY <1>8, <1>6 DEF CreateLocked
<1>9. CASE Look(p)
  <2>1. AddColumns(p) \/ Move(p, "creating", Tables \ tables, {})
    BY <1>9 DEF Look
  <2>. QED  BY <1>2, <1>6, <2>1 DEF Stages
<1>10. ASSUME NEW t \in Tables, CreateTable(p, t)
       PROVE  boot' \in [Servers -> Progress] /\ ~ Serving(p)'
  <2>. DEFINE rest == boot[p].todo \ {t}
  <2>1. rest \in SUBSET Tables /\ "creating" \in Stages
    BY <1>1 DEF Progress, Stages
  <2>2. Retry(p) \/ AddColumns(p) \/ Move(p, "creating", rest, {})
    BY <1>10 DEF CreateTable
  <2>. HIDE DEF rest
  <2>3. Move(p, "creating", rest, {}) => boot' \in [Servers -> Progress] /\ ~ Serving(p)'
    BY <1>2, <2>1
  <2>. QED  BY <1>4, <1>6, <2>2, <2>3
<1>11. ASSUME NEW t \in Tables, Inspect(p, t)
       PROVE  boot' \in [Servers -> Progress] /\ ~ Serving(p)'
  <2>1. boot[p].todo \ {t} \in SUBSET Tables /\ Lacking(t) \in SUBSET Added
    BY <1>1, SchemaAssumption DEF Progress, Lacking
  <2>. QED  BY <1>5, <1>11, <2>1 DEF Inspect
<1>12. ASSUME NEW c \in Added, AddColumn(p, c)
       PROVE  boot' \in [Servers -> Progress] /\ ~ Serving(p)'
  <2>1. boot[p].todo \in SUBSET Tables /\ boot[p].adding \ {c} \in SUBSET Added
    BY <1>1 DEF Progress
  <2>2. \/ Leave(p, "dead") \/ Retry(p)
        \/ Continue(p, boot[p].todo, boot[p].adding \ {c})
    BY <1>12 DEF AddColumn
  <2>. QED  BY <1>3, <1>4, <1>5, <2>1, <2>2 DEF Stages
<1>. QED  BY <1>7, <1>8, <1>9, <1>10, <1>11, <1>12 DEF InitDb

LEMMA Goes ==
  ASSUME AccountsInv, NEW p \in Servers, NEW stage \in Stages, Go(p, stage)
  PROVE  /\ boot' \in [Servers -> Progress] /\ boot'[p].stage = stage
         /\ \A q \in Servers \ {p} : boot'[q] = boot[q]
<1>. DEFINE r == [Off EXCEPT !.stage = stage, !.lost = boot[p].lost]
<1>1. r \in Progress /\ r.stage = stage
  BY OffFields DEF Progress, AccountsInv, AccountsType
<1>2. boot' = [boot EXCEPT ![p] = r]
  BY DEF Go, Leave
<1>. HIDE DEF r
<1>. QED  BY <1>1, <1>2 DEF AccountsInv, AccountsType

\* The premise of the invariant is false as long as one gateway boots.
LEMMA NotYet ==
  ASSUME NEW p \in Servers, ~ Serving(p)'
  PROVE  OwnersMayAct'
BY DEF OwnersMayAct

LEMMA Creates ==
  ASSUME AccountsInv, NEW p \in Servers, NEW email \in Emails, CreateUser(p, email)
  PROVE  /\ form' \in [Servers -> [email : Emails, outward : BOOLEAN, open : BOOLEAN]]
         /\ \A q \in Servers : Refused(q)'
<1>. DEFINE f == [email |-> email, outward |-> ScopesForNewUser(p, TenantOf[email]), open |-> TRUE]
<1>1. ScopesForNewUser(p, TenantOf[email]) \in BOOLEAN
  BY DEF ScopesForNewUser
<1>2. f \in [email : Emails, outward : BOOLEAN, open : BOOLEAN]
  BY <1>1
<1>3. form' = [form EXCEPT ![p] = f] /\ users' = users /\ mode' = mode
  BY DEF CreateUser
<1>4. form' \in [Servers -> [email : Emails, outward : BOOLEAN, open : BOOLEAN]]
  BY <1>2, <1>3 DEF AccountsInv, AccountsType
<1>5. \A q \in Servers \ {p} : Refused(q)'
  BY <1>3 DEF AccountsInv, AccountsType, Refused, Members
<1>6. ~ f.outward => mode[p] = "nobody" \/ Members(TenantOf[email]) # {}
  <2>1. mode[p] \in {"owner", "everyone", "nobody"}
    BY AccountsAssumption DEF AccountsInv, AccountsType
  <2>. QED  BY <2>1 DEF ScopesForNewUser
<1>7. Refused(p)'
  <2>1. form'[p] = f
    BY <1>3 DEF AccountsInv, AccountsType
  <2>. QED  BY <1>3, <1>6, <2>1 DEF Refused, Members
<1>. QED  BY <1>4, <1>5, <1>7

\* The desk that is cleared refuses nobody.
LEMMA Clears ==
  ASSUME AccountsInv, NEW p \in Servers, Clear(p), mode' \in [Servers -> Settings],
         \A q \in Servers \ {p} : mode'[q] = mode[q],
         users' \in Seq(Account), Len(users) <= Len(users'),
         \A i \in 1..Len(users) : users'[i].email = users[i].email
  PROVE  /\ form' \in [Servers -> [email : Emails, outward : BOOLEAN, open : BOOLEAN]]
         /\ \A q \in Servers : Refused(q)'
<1>1. form' = [form EXCEPT ![p] = Blank]
  BY DEF Clear
<1>2. form' \in [Servers -> [email : Emails, outward : BOOLEAN, open : BOOLEAN]]
  BY <1>1, AccountsAssumption DEF AccountsInv, AccountsType, Blank
<1>3. ~ form'[p].open
  BY <1>1 DEF AccountsInv, AccountsType, Blank
<1>4. \A tenant : Members(tenant) \subseteq Members(tenant)'
  <2>1. DOMAIN users = 1..Len(users) /\ DOMAIN users' = 1..Len(users')
        /\ Len(users) \in Nat /\ Len(users') \in Nat
    BY DEF AccountsInv, AccountsType
  <2>. QED  BY <2>1 DEF Members
<1>5. ASSUME NEW q \in Servers \ {p} PROVE Refused(q)'
  <2>1. form'[q] = form[q] /\ mode'[q] = mode[q] /\ Refused(q)
    BY <1>1 DEF AccountsInv, AccountsType
  <2>. QED  BY <1>4, <2>1 DEF Refused
<1>. QED  BY <1>2, <1>3, <1>5 DEF Refused

LEMMA Inserts ==
  ASSUME AccountsInv, NEW p \in Servers, Insert(p)
  PROVE  /\ users' \in Seq(Account) /\ mode' = mode
         /\ form' \in [Servers -> [email : Emails, outward : BOOLEAN, open : BOOLEAN]]
         /\ \A q \in Servers : Refused(q)'
         /\ UNCHANGED boot => OwnersMayAct'
<1>. DEFINE a == [email |-> form[p].email, outward |-> form[p].outward]
<1>1. a \in Account /\ users \in Seq(Account) /\ form[p].open /\ Refused(p)
  BY DEF AccountsInv, AccountsType, Account, Insert
<1>2. users' = Append(users, a) /\ mode' = mode /\ Clear(p)
  BY DEF Insert
<1>. HIDE DEF a
<1>3. /\ users' \in Seq(Account) /\ Len(users') = Len(users) + 1 /\ Len(users) \in Nat
      /\ \A i \in 1..Len(users) : users'[i] = users[i]
      /\ users'[Len(users) + 1] = a
  BY <1>1, <1>2
<1>4. /\ form' \in [Servers -> [email : Emails, outward : BOOLEAN, open : BOOLEAN]]
      /\ \A q \in Servers : Refused(q)'
  BY <1>2, <1>3, Clears DEF AccountsInv, AccountsType
<1>5. ASSUME UNCHANGED boot, \A q \in Servers : Serving(q)' /\ mode'[q] # "nobody",
             NEW i \in DOMAIN users', First(i)'
      PROVE  users'[i].outward
  <2>1. \A q \in Servers : Serving(q) /\ mode[q] # "nobody"
    BY <1>2, <1>5 DEF Serving, At
  <2>2. \A j \in DOMAIN users : First(j) => users[j].outward
    BY <2>1 DEF AccountsInv, OwnersMayAct
  <2>3. DOMAIN users = 1..Len(users) /\ DOMAIN users' = 1..(Len(users) + 1)
    BY <1>1, <1>3
  <2>4. CASE i \in DOMAIN users
    <3>1. First(i)
      BY <1>3, <1>5, <2>3, <2>4 DEF First, Members
    <3>. QED  BY <1>3, <2>2, <2>3, <2>4, <3>1
  <2>5. CASE i = Len(users) + 1
    <3>1. \A j \in 1..Len(users) : TenantOf[users[j].email] # TenantOf[a.email]
      BY <1>3, <1>5, <2>3, <2>5 DEF First, Members
    <3>2. Members(TenantOf[form[p].email]) = {}
      BY <2>3, <3>1 DEF Members, a
    <3>3. form[p].outward
      BY <1>1, <2>1, <3>2 DEF Refused
    <3>. QED  BY <1>3, <2>5, <3>3 DEF a
  <2>. QED  BY <1>3, <2>3, <2>4, <2>5
<1>. QED  BY <1>2, <1>3, <1>4, <1>5 DEF OwnersMayAct

LEMMA Grants ==
  ASSUME AccountsInv, NEW p \in Servers, Grant(p)
  PROVE  AccountsInv'
<1>1. /\ users' = [i \in DOMAIN users |-> [users[i] EXCEPT !.outward = @ \/ Owed(p, i)]]
      /\ mode' = mode /\ form' = form
  BY DEF Grant, GrantOwnerScopes
<1>2. users \in Seq(Account) /\ DOMAIN users = 1..Len(users) /\ Len(users) \in Nat
  BY DEF AccountsInv, AccountsType
<1>3. \A i \in DOMAIN users :
        users'[i] \in Account /\ users'[i].email = users[i].email
        /\ (Owed(p, i) => users'[i].outward)
  <2>. SUFFICES ASSUME NEW i \in DOMAIN users
                PROVE  users'[i] \in Account /\ users'[i].email = users[i].email
                       /\ (Owed(p, i) => users'[i].outward)
    OBVIOUS
  <2>1. users[i] \in Account /\ Owed(p, i) \in BOOLEAN
    BY <1>2 DEF Owed
  <2>2. users'[i] = [users[i] EXCEPT !.outward = @ \/ Owed(p, i)]
    BY <1>1
  <2>. QED  BY <2>1, <2>2 DEF Account
<1>4. users' \in Seq(Account) /\ DOMAIN users' = DOMAIN users
  <2>1. DOMAIN users' = DOMAIN users /\ users' = [i \in 1..Len(users) |-> users'[i]]
    BY <1>1, <1>2, Zenon
  <2>2. \A i \in 1..Len(users) : users'[i] \in Account
    BY <1>2, <1>3
  <2>3. users' \in [1..Len(users) -> Account]
    BY <2>1, <2>2, Zenon
  <2>4. users' \in UNION {[1..n -> Account] : n \in Nat}
    BY <1>2, <2>3, Zenon
  <2>. QED  BY <2>1, <2>4, SeqDef, Zenon
<1>5. \A tenant : Members(tenant)' = Members(tenant)
  BY <1>3, <1>4 DEF Members
<1>6. \A i \in DOMAIN users : First(i)' = First(i)
  BY <1>3, <1>5 DEF First
<1>7. boot' \in [Servers -> Progress]
  <2>1. Go(p, "serving")
    BY DEF Grant
  <2>. QED  BY <2>1, Goes DEF Stages
<1>8. \A q \in Servers : Refused(q)'
  BY <1>1, <1>5 DEF Refused, AccountsInv
<1>9. OwnersMayAct'
  <2>. SUFFICES ASSUME mode[p] # "nobody", NEW i \in DOMAIN users, First(i)
                PROVE  users'[i].outward
    BY <1>1, <1>4, <1>6 DEF OwnersMayAct
  <2>1. mode[p] \in {"owner", "everyone", "nobody"}
    BY AccountsAssumption DEF AccountsInv, AccountsType
  <2>2. Owed(p, i)
    BY <2>1 DEF Owed
  <2>. QED  BY <1>3, <2>2
<1>. QED  BY <1>1, <1>4, <1>7, <1>8, <1>9 DEF AccountsInv, AccountsType

LEMMA Unregistered ==
  ASSUME AccountsInv, NEW p \in Servers, Taken(p)
  PROVE  /\ users' = users /\ mode' = mode
         /\ form' \in [Servers -> [email : Emails, outward : BOOLEAN, open : BOOLEAN]]
         /\ \A q \in Servers : Refused(q)'
<1>1. Clear(p) /\ users' = users /\ mode' = mode
  BY DEF Taken
<1>2. users \in Seq(Account) /\ mode \in [Servers -> Settings] /\ Len(users) \in Nat
  BY DEF AccountsInv, AccountsType
<1>. QED  BY <1>1, <1>2, Clears

LEMMA Restarts ==
  ASSUME AccountsInv, NEW p \in Servers, NEW s \in Settings, NEW e \in Spaces, Restart(p, s, e)
  PROVE  AccountsInv'
<1>1. Clear(p) /\ users' = users /\ mode' = [mode EXCEPT ![p] = s] /\ Stop(p)
  BY DEF Restart, Configure
<1>2. users \in Seq(Account) /\ mode \in [Servers -> Settings] /\ Len(users) \in Nat
  BY DEF AccountsInv, AccountsType
<1>3. mode' \in [Servers -> Settings] /\ \A q \in Servers \ {p} : mode'[q] = mode[q]
  BY <1>1, <1>2
<1>4. /\ form' \in [Servers -> [email : Emails, outward : BOOLEAN, open : BOOLEAN]]
      /\ \A q \in Servers : Refused(q)'
  BY <1>1, <1>2, <1>3, Clears
<1>5. boot' \in [Servers -> Progress] /\ ~ Serving(p)'
  BY <1>1, OffFields DEF Stop, AccountsInv, AccountsType, Serving, At
<1>. QED  BY <1>1, <1>2, <1>3, <1>4, <1>5, NotYet DEF AccountsInv, AccountsType

LEMMA AccountsStutter ==
  ASSUME AccountsInv, UNCHANGED <<users, mode, form, boot>>
  PROVE  AccountsInv'
BY DEF AccountsInv, AccountsType, Refused, OwnersMayAct, Members, First, Serving, At

LEMMA AccountsStep ==
  ASSUME AccountsInv, [Next]_vars
  PROVE  AccountsInv'
<1>1. CASE UNCHANGED vars
  BY <1>1, AccountsStutter DEF vars, accountsVars, schemaVars
<1>2. ASSUME NEW p \in Servers, MakeSchema(p)
      PROVE  AccountsInv'
  <2>1. UNCHANGED <<users, mode, form>>
    BY <1>2 DEF MakeSchema, accountsVars
  <2>2. boot' \in [Servers -> Progress] /\ OwnersMayAct'
    BY <1>2, Boots, NotYet DEF MakeSchema
  <2>. QED  BY <2>1, <2>2 DEF AccountsInv, AccountsType, Refused, Members
<1>3. ASSUME NEW p \in Servers, BeginDemo(p)
      PROVE  AccountsInv'
  <2>1. boot' \in [Servers -> Progress] /\ OwnersMayAct'
    <3>1. Go(p, "demo")
      BY <1>3 DEF BeginDemo
    <3>. QED  BY <3>1, Goes, NotYet DEF Serving, At, Stages
  <2>2. UNCHANGED <<users, mode>>
    BY <1>3 DEF BeginDemo, CreateUser
  <2>. QED  BY <1>3, <2>1, <2>2, Creates, AccountsAssumption DEF BeginDemo, AccountsInv, AccountsType
<1>4. ASSUME NEW p \in Servers, NoDemo(p)
      PROVE  AccountsInv'
  <2>1. boot' \in [Servers -> Progress] /\ OwnersMayAct'
    <3>1. Go(p, "grant")
      BY <1>4 DEF NoDemo
    <3>. QED  BY <3>1, Goes, NotYet DEF Serving, At, Stages
  <2>. QED  BY <1>4, <2>1 DEF NoDemo, accountsVars, AccountsInv, AccountsType, Refused, Members
<1>5. ASSUME NEW p \in Servers, EndDemo(p)
      PROVE  AccountsInv'
  <2>1. boot' \in [Servers -> Progress] /\ OwnersMayAct'
    <3>1. Go(p, "grant") \/ Go(p, "dead")
      BY <1>5 DEF EndDemo
    <3>. QED  BY <3>1, Goes, NotYet DEF Serving, At, Stages
  <2>2. CASE Insert(p)
    BY <2>1, <2>2, Inserts DEF AccountsInv, AccountsType
  <2>3. CASE Taken(p)
    BY <2>1, <2>3, Unregistered DEF AccountsInv, AccountsType
  <2>. QED  BY <1>5, <2>2, <2>3 DEF EndDemo
<1>6. ASSUME NEW p \in Servers, Grant(p)
      PROVE  AccountsInv'
  BY <1>6, Grants
<1>7. ASSUME NEW p \in Servers, NEW s \in Settings, NEW e \in Spaces, Restart(p, s, e)
      PROVE  AccountsInv'
  BY <1>7, Restarts
<1>8. ASSUME NEW p \in Servers, NEW email \in Emails, Register(p, email)
      PROVE  AccountsInv'
  <2>1. UNCHANGED <<users, mode, boot>>
    BY <1>8 DEF Register, CreateUser, schemaVars
  <2>2. OwnersMayAct'
    BY <2>1 DEF AccountsInv, OwnersMayAct, First, Members, Serving, At
  <2>. QED  BY <1>8, <2>1, <2>2, Creates DEF Register, AccountsInv, AccountsType
<1>9. ASSUME NEW p \in Servers, Registered(p)
      PROVE  AccountsInv'
  <2>1. UNCHANGED boot
    BY <1>9 DEF Registered, schemaVars
  <2>2. CASE Insert(p)
    BY <2>1, <2>2, Inserts DEF AccountsInv, AccountsType
  <2>3. CASE Taken(p)
    <3>1. UNCHANGED <<users, mode>>
      BY <2>3 DEF Taken
    <3>2. OwnersMayAct'
      BY <2>1, <3>1 DEF AccountsInv, OwnersMayAct, First, Members, Serving, At
    <3>. QED  BY <2>1, <2>3, <3>1, <3>2, Unregistered DEF AccountsInv, AccountsType
  <2>. QED  BY <1>9, <2>2, <2>3 DEF Registered
<1>10. ASSUME NEW p \in Servers,
              Ask(p) \/ Work(p) \/ \E doc \in documents : DeleteDocument(p, doc)
       PROVE  AccountsInv'
  BY <1>10, AccountsStutter DEF Ask, Work, DeleteDocument, accountsVars, schemaVars
<1>. QED  BY <1>1, <1>2, <1>3, <1>4, <1>5, <1>6, <1>7, <1>8, <1>9, <1>10 DEF Next

(* Once all gateways serve, and none gives it to nobody, the first account   *)
(* of every workspace may act on the outside world: for any number of        *)
(* gateways, accounts, workspaces and restarts (security.py).                *)
THEOREM OwnersAreServed == Spec => []OwnersMayAct
<1>1. AccountsInv => OwnersMayAct
  BY DEF AccountsInv
<1>2. AccountsInv /\ [Next]_vars => AccountsInv'
  BY AccountsStep
<1>. QED  BY <1>1, <1>2, AccountsInitial, PTL DEF Spec

-----------------------------------------------------------------------------
(* The schema.  What a process still has to create is all that is missing;   *)
(* then every table is there, and what it still has to look at, or to add,   *)
(* is every column that is missing.  Tables and columns only grow.           *)

Halfway(p) ==
  /\ boot[p].stage = "creating" =>
       dialect = "sqlite" /\ Tables \ tables \subseteq boot[p].todo
  /\ boot[p].stage = "inspect" =>
       /\ Tables \subseteq tables
       /\ \A c \in Safe \ columns : TableOf[c] \in boot[p].todo \/ c \in boot[p].adding
  /\ boot[p].stage \in InInitDb \cup {"off"} => ~ boot[p].lost

Past(p) ==
  boot[p].stage \notin InInitDb \cup {"off", "dead"} =>
    /\ dialect = "postgresql" \/ ~ boot[p].lost => Tables \subseteq tables
    /\ ~ boot[p].lost => Safe \subseteq columns

Prepared(p) == Halfway(p) /\ Past(p)

SchemaInv == \A p \in Servers : Prepared(p)

\* What the others create takes nothing from a process.
LEMMA SchemaOnlyGrows ==
  ASSUME NEW q \in Servers, Prepared(q), boot'[q] = boot[q], dialect' = dialect,
         tables \subseteq tables', columns \subseteq columns'
  PROVE  Prepared(q)'
BY DEF Prepared, Halfway, Past

LEMMA Continues ==
  ASSUME boot \in [Servers -> Progress], NEW p \in Servers, NEW todo, NEW adding,
         ~ boot[p].lost, Tables \subseteq tables',
         \A c \in Safe \ columns' : TableOf[c] \in todo \/ c \in adding,
         Continue(p, todo, adding)
  PROVE  Prepared(p)'
<1>1. CASE todo = {} /\ adding = {}
  <2>1. boot'[p].stage = "ready" /\ ~ boot'[p].lost
    BY <1>1 DEF Continue, Leave, Off
  <2>2. Safe \subseteq columns'
    BY <1>1
  <2>. QED  BY <2>1, <2>2 DEF Prepared, Halfway, Past, InInitDb
<1>2. CASE ~ (todo = {} /\ adding = {})
  <2>1. /\ boot'[p].stage = "inspect" /\ boot'[p].todo = todo /\ boot'[p].adding = adding
        /\ boot'[p].lost = boot[p].lost
    BY <1>2 DEF Continue, Move, Progress
  <2>. QED  BY <2>1 DEF Prepared, Halfway, Past, InInitDb
<1>. QED  BY <1>1, <1>2

LEMMA ColumnsFollow ==
  ASSUME boot \in [Servers -> Progress], NEW p \in Servers,
         ~ boot[p].lost, Tables \subseteq tables', AddColumns(p)
  PROVE  Prepared(p)'
<1>. DEFINE grown == {TableOf[c] : c \in Safe}
<1>1. \A c \in Safe \ columns' : TableOf[c] \in grown
  OBVIOUS
<1>2. Continue(p, grown, {})
  BY DEF AddColumns
<1>. HIDE DEF grown
<1>. QED  BY <1>1, <1>2, Continues

\* On PostgreSQL a race is lost over a column, when all the tables are there.
LEMMA Retries ==
  ASSUME boot \in [Servers -> Progress], NEW p \in Servers, Retry(p), dialect' = dialect,
         dialect = "postgresql" => Tables \subseteq tables'
  PROVE  Prepared(p)'
<1>1. \/ boot'[p].stage = "ready" /\ boot'[p].lost
      \/ boot'[p].stage = "create" /\ ~ boot'[p].lost
  BY DEF Retry, Off
<1>. QED  BY <1>1 DEF Prepared, Halfway, Past, InInitDb

\* One step of init_db.
LEMMA Prepares ==
  ASSUME SchemaInv, boot \in [Servers -> Progress], NEW p \in Servers, InitDb(p)
  PROVE  /\ Prepared(p)' /\ dialect' = dialect
         /\ tables \subseteq tables' /\ columns \subseteq columns'
         /\ \A q \in Servers \ {p} : boot'[q] = boot[q]
<1>. USE DEF InInitDb
<1>1. Prepared(p) /\ boot[p] \in Progress
  BY DEF SchemaInv
<1>2. CASE Boot(p)
  <2>1. boot'[p].stage = "create" /\ boot'[p].lost = boot[p].lost
    BY <1>1, <1>2 DEF Boot, Move, Progress
  <2>2. ~ boot[p].lost
    BY <1>1, <1>2 DEF Boot, Prepared, Halfway
  <2>3. Prepared(p)'
    BY <2>1, <2>2 DEF Prepared, Halfway, Past
  <2>. QED  BY <1>2, <2>3 DEF Boot, Move
<1>3. CASE CreateLocked(p)
  <2>1. ~ boot[p].lost /\ Tables \subseteq tables'
    BY <1>1, <1>3 DEF CreateLocked, Make, Prepared, Halfway
  <2>2. Prepared(p)'
    BY <1>3, <2>1, ColumnsFollow DEF CreateLocked
  <2>. QED  BY <1>3, <2>2 DEF CreateLocked, Make, AddColumns, Continue, Leave, Move
<1>4. CASE Look(p)
  <2>1. ~ boot[p].lost /\ tables' = tables /\ dialect = "sqlite"
    BY <1>1, <1>4 DEF Look, Prepared, Halfway
  <2>2. CASE Tables \subseteq tables
    BY <1>4, <2>1, <2>2, ColumnsFollow DEF Look, AddColumns, Continue, Leave, Move
  <2>3. CASE ~ (Tables \subseteq tables)
    <3>1. Move(p, "creating", Tables \ tables, {}) /\ UNCHANGED <<dialect, tables, columns>>
      BY <1>4, <2>3 DEF Look
    <3>2. /\ boot'[p].stage = "creating" /\ boot'[p].todo = Tables \ tables
          /\ boot'[p].lost = boot[p].lost
      BY <1>1, <3>1 DEF Move, Progress
    <3>3. Prepared(p)'
      BY <2>1, <3>1, <3>2 DEF Prepared, Halfway, Past
    <3>. QED  BY <3>1, <3>3 DEF Move
  <2>. QED  BY <2>2, <2>3
<1>5. ASSUME NEW t \in Tables, CreateTable(p, t)
      PROVE  /\ Prepared(p)' /\ dialect' = dialect
             /\ tables \subseteq tables' /\ columns \subseteq columns'
             /\ \A q \in Servers \ {p} : boot'[q] = boot[q]
  <2>1. /\ boot[p].stage = "creating" /\ dialect = "sqlite" /\ dialect' = dialect
        /\ Tables \ tables \subseteq boot[p].todo /\ ~ boot[p].lost
    BY <1>1, <1>5 DEF CreateTable, Prepared, Halfway
  <2>2. CASE t \in tables
    <3>1. Retry(p) /\ UNCHANGED <<tables, columns>>
      BY <1>5, <2>2 DEF CreateTable
    <3>2. Prepared(p)'
      BY <2>1, <3>1, Retries
    <3>. QED  BY <2>1, <3>1, <3>2 DEF Retry
  <2>3. CASE t \notin tables /\ boot[p].todo = {t}
    <3>1. Make({t}) /\ AddColumns(p)
      BY <1>5, <2>3 DEF CreateTable
    <3>2. Tables \subseteq tables'
      BY <2>1, <2>3, <3>1 DEF Make
    <3>3. Prepared(p)'
      BY <2>1, <3>1, <3>2, ColumnsFollow
    <3>. QED  BY <2>1, <3>1, <3>3 DEF Make, AddColumns, Continue, Leave, Move
  <2>4. CASE t \notin tables /\ boot[p].todo # {t}
    <3>1. Make({t}) /\ Move(p, "creating", boot[p].todo \ {t}, {})
      BY <1>5, <2>4 DEF CreateTable
    <3>2. /\ boot'[p].stage = "creating" /\ boot'[p].todo = boot[p].todo \ {t}
          /\ boot'[p].lost = boot[p].lost
      BY <1>1, <3>1 DEF Move, Progress
    <3>3. Tables \ tables' \subseteq boot[p].todo \ {t}
      BY <2>1, <3>1 DEF Make
    <3>4. Prepared(p)'
      BY <2>1, <3>2, <3>3 DEF Prepared, Halfway, Past
    <3>. QED  BY <2>1, <3>1, <3>4 DEF Make, Move
  <2>. QED  BY <2>2, <2>3, <2>4
<1>6. ASSUME NEW t \in Tables, Inspect(p, t)
      PROVE  /\ Prepared(p)' /\ dialect' = dialect
             /\ tables \subseteq tables' /\ columns \subseteq columns'
             /\ \A q \in Servers \ {p} : boot'[q] = boot[q]
  <2>. DEFINE rest == boot[p].todo \ {t}
  <2>1. /\ boot[p].stage = "inspect" /\ boot[p].adding = {}
        /\ Continue(p, rest, Lacking(t)) /\ UNCHANGED <<dialect, tables, columns>>
    BY <1>6 DEF Inspect
  <2>2. ~ boot[p].lost /\ Tables \subseteq tables'
        /\ \A c \in Safe \ columns' : TableOf[c] \in rest \/ c \in Lacking(t)
    BY <1>1, <2>1 DEF Prepared, Halfway, Lacking
  <2>3. Prepared(p)'
    <3>. HIDE DEF rest
    <3>. QED  BY <2>1, <2>2, Continues
  <2>. QED  BY <2>1, <2>3 DEF Continue, Leave, Move
<1>7. ASSUME NEW c \in Added, AddColumn(p, c)
      PROVE  /\ Prepared(p)' /\ dialect' = dialect
             /\ tables \subseteq tables' /\ columns \subseteq columns'
             /\ \A q \in Servers \ {p} : boot'[q] = boot[q]
  <2>1. /\ boot[p].stage = "inspect" /\ UNCHANGED <<dialect, tables>>
        /\ ~ boot[p].lost /\ Tables \subseteq tables'
    BY <1>1, <1>7 DEF AddColumn, Prepared, Halfway
  <2>2. CASE c \in columns /\ dialect = "sqlite"
    <3>1. Leave(p, "dead") /\ UNCHANGED columns
      BY <1>7, <2>2 DEF AddColumn
    <3>2. boot'[p].stage = "dead"
      BY <3>1 DEF Leave, Off
    <3>3. Prepared(p)'
      BY <3>2 DEF Prepared, Halfway, Past
    <3>. QED  BY <2>1, <3>1, <3>3 DEF Leave
  <2>3. CASE c \in columns /\ dialect # "sqlite"
    <3>1. Retry(p) /\ UNCHANGED columns
      BY <1>7, <2>3 DEF AddColumn
    <3>2. Prepared(p)'
      BY <2>1, <3>1, Retries
    <3>. QED  BY <2>1, <3>1, <3>2 DEF Retry
  <2>4. CASE c \notin columns
    <3>. DEFINE rest == boot[p].adding \ {c}
    <3>1. columns' = columns \cup {c} /\ Continue(p, boot[p].todo, rest)
      BY <1>7, <2>4 DEF AddColumn
    <3>2. \A d \in Safe \ columns' : TableOf[d] \in boot[p].todo \/ d \in rest
      BY <1>1, <2>1, <3>1 DEF Prepared, Halfway
    <3>3. Prepared(p)'
      <4>. HIDE DEF rest
      <4>. QED  BY <2>1, <3>1, <3>2, Continues
    <3>. QED  BY <2>1, <3>1, <3>3 DEF Continue, Leave, Move
  <2>. QED  BY <2>2, <2>3, <2>4
<1>. QED  BY <1>2, <1>3, <1>4, <1>5, <1>6, <1>7 DEF InitDb

LEMMA SchemaStep ==
  ASSUME SchemaInv, boot \in [Servers -> Progress], [Next]_vars
  PROVE  SchemaInv'
<1>1. CASE UNCHANGED schemaVars
  BY <1>1 DEF schemaVars, SchemaInv, Prepared, Halfway, Past
<1>2. ASSUME NEW p \in Servers, MakeSchema(p)
      PROVE  SchemaInv'
  <2>1. InitDb(p)
    BY <1>2 DEF MakeSchema
  <2>. QED  BY <2>1, Prepares, SchemaOnlyGrows DEF SchemaInv
<1>3. ASSUME NEW p \in Servers, NEW stage \in {"demo", "grant", "serving", "dead"},
             boot[p].stage \notin InInitDb \cup {"off", "dead"}, Go(p, stage)
      PROVE  SchemaInv'
  <2>1. /\ boot'[p].stage = stage /\ boot'[p].lost = boot[p].lost
        /\ UNCHANGED <<dialect, tables, columns>>
        /\ \A q \in Servers \ {p} : boot'[q] = boot[q]
    BY <1>3 DEF Go, Leave, Off
  <2>2. Prepared(p)'
    BY <1>3, <2>1 DEF SchemaInv, Prepared, Halfway, Past, InInitDb
  <2>. QED  BY <2>1, <2>2, SchemaOnlyGrows DEF SchemaInv
<1>4. ASSUME NEW p \in Servers, BeginDemo(p) \/ NoDemo(p) \/ EndDemo(p) \/ Grant(p)
      PROVE  SchemaInv'
  <2>1. /\ boot[p].stage \notin InInitDb \cup {"off", "dead"}
        /\ \E stage \in {"demo", "grant", "serving", "dead"} : Go(p, stage)
    BY <1>4 DEF BeginDemo, NoDemo, EndDemo, Grant, At, InInitDb
  <2>. QED  BY <1>3, <2>1
<1>5. ASSUME NEW p \in Servers, NEW s \in Settings, NEW e \in Spaces, Restart(p, s, e)
      PROVE  SchemaInv'
  <2>1. /\ boot'[p].stage = "off" /\ ~ boot'[p].lost
        /\ UNCHANGED <<dialect, tables, columns>>
        /\ \A q \in Servers \ {p} : boot'[q] = boot[q]
    BY <1>5 DEF Restart, Stop, Off
  <2>2. Prepared(p)'
    BY <2>1 DEF Prepared, Halfway, Past
  <2>. QED  BY <2>1, <2>2, SchemaOnlyGrows DEF SchemaInv
<1>6. ASSUME NEW p \in Servers,
             \/ \E email \in Emails : Register(p, email)
             \/ Registered(p) \/ Ask(p) \/ Work(p)
             \/ \E doc \in documents : DeleteDocument(p, doc)
      PROVE  SchemaInv'
  BY <1>1, <1>6 DEF Register, Registered, Ask, Work, DeleteDocument
<1>. QED  BY <1>1, <1>2, <1>4, <1>5, <1>6 DEF Next, vars

(* A process that completed an attempt of init_db finds every table, and     *)
(* every column that could be added; and one that lost all its races finds   *)
(* every table on PostgreSQL: for any number of processes, tables, columns,  *)
(* attempts and restarts, and whatever the database lacked (db.py, init_db). *)
THEOREM SchemaIsMade == Spec => []SchemaReady
<1>1. Init => SchemaInv
  BY DEF Init, SchemaInit, SchemaInv, Prepared, Halfway, Past, Off, InInitDb
<1>2. AccountsInv /\ SchemaInv /\ [Next]_vars => SchemaInv'
  BY SchemaStep DEF AccountsInv, AccountsType
<1>3. AccountsInv /\ [Next]_vars => AccountsInv'
  BY AccountsStep
<1>4. SchemaInv => SchemaReady
  BY DEF SchemaInv, Prepared, Past, SchemaReady
<1>. QED  BY <1>1, <1>2, <1>3, <1>4, AccountsInitial, PTL DEF Spec

=============================================================================
