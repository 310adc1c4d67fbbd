-------------------------- MODULE LogStreamProofs --------------------------
(***************************************************************************)
(* Theorems about the log of a run and those who watch it, for any number  *)
(* of browsers, of events and of lost messages.  The gateway says that the *)
(* run was accepted and ONE worker says the rest: with two workers that    *)
(* log in turn each would number from a counter of its own, and events     *)
(* would be lost.                                                          *)
(***************************************************************************)
EXTENDS LogStreamProperties, SequenceTheorems, FiniteSetTheorems, TLAPS

OneWorker == \A v, w \in Workers : v = w

\* A replay reads every row that the run can have.
ShortRuns == MaxEvents < HistoryLimit

-----------------------------------------------------------------------------
(* The inductive invariant. *)

Publishing == {"persist", "fan out", "relay"}
Emitting == [stage : {"idle", "ending"} \cup Publishing, event : Event]
Watching == {"subscribed", "tailing"}
Socket == [stage : {"away", "opened", "closed", "gone"} \cup Watching, over : BOOLEAN,
           queue : Seq(Event), last : Nat]

LogTypes ==
  /\ over \in BOOLEAN /\ rows \subseteq Event
  /\ counter \in [Processes -> Nat \cup {None}]
  /\ emitter \in [Processes -> Emitting]
  /\ channel \in Seq(Event) /\ watchers \subseteq Clients
  /\ client \in [Clients -> Socket]
  /\ shown \in [Clients -> Seq(Event)]
  /\ emitted \in Nat /\ fragments \in Nat /\ drops \in Nat
  /\ missed \subseteq Clients

Lasting(e) == e.kind # "fragment"
Written(e) == Lasting(e) => e \in rows

\* What an emitter carries has the number that was given last, until the next is given,
\* and is in the table once it has been through there.
Emits(x) ==
  /\ x.stage = "persist" => Lasting(x.event)
  /\ x.stage \in Publishing /\ Lasting(x.event) =>
       x.event.id = emitted /\ x.event.seq = emitted /\ emitted > 0
  /\ x.stage \in {"fan out", "relay"} => Written(x.event)

EmittersWell ==
  /\ \A p \in Processes : Emits(emitter[p])
  /\ emitter[Gateway].stage # "ending"
  /\ emitter[Gateway].stage # "idle" => emitted = 1 /\ Lasting(emitter[Gateway].event)
  /\ emitted = 0 \/ emitter[Gateway].stage # "idle" =>
       \A w \in Workers : emitter[w].stage = "idle" /\ counter[w] = None
  /\ emitted = 0 => rows = {} /\ counter[Gateway] = None
  /\ \A w \in Workers : counter[w] \in {None, emitted}

\* The table holds one row for each number, up to the one that is being written.
RowsWell ==
  /\ \A r \in rows : r.seq = r.id /\ Lasting(r) /\ r.id \in 1..emitted
  /\ \A r, s \in rows : r.id = s.id => r = s
  /\ \A i \in 1..emitted :
       \/ \E r \in rows : r.id = i
       \/ i = emitted /\ \E p \in Processes : emitter[p].stage = "persist"
  /\ \A p \in Processes : emitter[p].stage = "persist" => \A r \in rows : r.id < emitted

\* A run is said to have ended once, after which there is one event more.
EndsWell ==
  /\ \A w \in Workers : emitter[w].stage = "ending" => over
  /\ \/ emitted <= MaxEvents
     \/ over /\ emitted <= MaxEvents + 1 /\ \A w \in Workers : emitter[w].stage # "ending"

Numbers == LogTypes /\ EmittersWell /\ RowsWell /\ EndsWell

\* Lasting events come in the order of their numbers.
Sorted(q) ==
  \A i, j \in 1..Len(q) : i < j /\ Lasting(q[i]) /\ Lasting(q[j]) => q[i].id <= q[j].id

ChannelWell == Sorted(channel) /\ \A i \in 1..Len(channel) : Written(channel[i])

\* A socket, what waits for it and what it was shown.
Serves(c, d, s) ==
  /\ c \in watchers <=> d.stage \in Watching
  /\ d.stage \in {"away", "opened"} => d.queue = <<>>
  /\ d.stage \in {"away", "opened", "subscribed"} => s = <<>> /\ d.last = 0
  /\ Len(d.queue) <= Buffer
  /\ \A i \in 1..Len(d.queue) : Written(d.queue[i])
  /\ c \in watchers =>
       /\ Sorted(d.queue)
       /\ \A i \in 1..Len(d.queue), j \in 1..Len(channel) :
            Lasting(d.queue[i]) /\ Lasting(channel[j]) => d.queue[i].id <= channel[j].id
  /\ \A i \in 1..Len(s) : Written(s[i]) /\ (Lasting(s[i]) => s[i].id <= d.last)
  /\ \A i, j \in 1..Len(s) : i < j /\ Lasting(s[i]) /\ Lasting(s[j]) => s[i].id < s[j].id

Holds(q, k) == \E i \in 1..Len(q) : Lasting(q[i]) /\ q[i].id = k
Out == \E p \in Processes : emitter[p].stage \in Publishing /\ Lasting(emitter[p].event)

\* A socket that lost nothing was shown everything up to its mark, and what comes after
\* the mark is on its way to it.
LosesNothing(d, s) ==
  /\ \A k \in 1..d.last : Holds(s, k)
  /\ d.stage = "tailing" =>
       \A k \in 1..emitted :
         k <= d.last \/ Holds(d.queue, k) \/ Holds(channel, k) \/ (k = emitted /\ Out)

FeedInv ==
  /\ Numbers /\ ChannelWell
  /\ \A c \in Clients : Serves(c, client[c], shown[c])

WholeInv == \A c \in Clients \ missed : LosesNothing(client[c], shown[c])

-----------------------------------------------------------------------------
(* Counting the rows. *)

\* As many rows as the numbers they hold, each once.
LEMMA AsManyAsNumbers ==
  ASSUME NEW S \in SUBSET Event, NEW m \in Nat,
         \A r \in S : r.id \in 1..m,
         \A r, s \in S : r.id = s.id => r = s,
         \A i \in 1..m : \E r \in S : r.id = i
  PROVE  IsFiniteSet(S) /\ Cardinality(S) = m
<1>. DEFINE f == [i \in 1..m |-> CHOOSE r \in S : r.id = i]
<1>1. \A i \in 1..m : f[i] \in S /\ f[i].id = i
  OBVIOUS
<1>2. f \in [1..m -> S]
  BY <1>1
<1>3. f \in Bijection(1..m, S)
  <2>1. \A i, j \in 1..m : f[i] = f[j] => i = j
    BY <1>1
  <2>2. \A r \in S : \E i \in 1..m : f[i] = r
    BY <1>1
  <2>. HIDE DEF f
  <2>. QED  BY <1>2, <2>1, <2>2 DEF Bijection, Injection, Surjection, IsInjective
<1>4. ExistsBijection(1..m, S)
  BY <1>3 DEF ExistsBijection
<1>5. IsFiniteSet(1..m) /\ Cardinality(1..m) = m
  BY FS_Interval
<1>. QED  BY <1>4, <1>5, FS_Bijection

\* The number that the table has reached.
LEMMA TableReaches ==
  ASSUME Numbers
  PROVE  \E m \in Nat :
           /\ m <= emitted /\ emitted <= m + 1
           /\ m = emitted \/ \E p \in Processes : emitter[p].stage = "persist"
           /\ \A r \in rows : r.id \in 1..m
           /\ \A i \in 1..m : \E r \in rows : r.id = i
<1>1. emitted \in Nat /\ rows \subseteq Event
  BY DEF Numbers, LogTypes
<1>2. CASE \E p \in Processes : emitter[p].stage = "persist"
  <2>1. emitted > 0
    BY <1>2 DEF Numbers, EmittersWell, Emits, Publishing
  <2>2. emitted - 1 \in Nat
    BY <1>1, <2>1
  <2>3. \A r \in rows : r.id \in 1..(emitted - 1)
    BY <1>1, <1>2 DEF Numbers, RowsWell, Event
  <2>4. \A i \in 1..(emitted - 1) : \E r \in rows : r.id = i
    BY <1>1 DEF Numbers, RowsWell
  <2>. QED  BY <1>1, <1>2, <2>2, <2>3, <2>4
<1>3. CASE ~ \E p \in Processes : emitter[p].stage = "persist"
  <2>1. \A i \in 1..emitted : \E r \in rows : r.id = i
    BY <1>3 DEF Numbers, RowsWell
  <2>2. \A r \in rows : r.id \in 1..emitted
    BY DEF Numbers, RowsWell
  <2>. QED  BY <1>1, <2>1, <2>2
<1>. QED  BY <1>2, <1>3

\* A replay shows the rows in the order of their numbers, from the first.
LEMMA HistoryInOrder ==
  ASSUME Numbers
  PROVE  /\ History \in Seq(Event)
         /\ \A i \in 1..Len(History) : History[i] \in rows /\ History[i].id = i
         /\ LastOf(History) = Len(History)
         /\ ShortRuns => \A r \in rows : r.id <= Len(History)
<1>1. emitted \in Nat /\ rows \subseteq Event /\ HistoryLimit \in Nat /\ MaxEvents \in Nat
  BY BoundsAssumption DEF Numbers, LogTypes
<1>2. PICK m \in Nat :
        /\ m <= emitted
        /\ \A r \in rows : r.id \in 1..m
        /\ \A i \in 1..m : \E r \in rows : r.id = i
  BY TableReaches
<1>3. \A r, s \in rows : r.id = s.id => r = s
  BY DEF Numbers, RowsWell
<1>4. \A r \in rows : r.seq = r.id
  BY DEF Numbers, RowsWell
<1>5. Cardinality(rows) = m
  BY <1>1, <1>2, <1>3, AsManyAsNumbers
<1>6. ASSUME NEW r \in rows
      PROVE  Position(r) = r.id
  <2>. DEFINE S == {s \in rows : s.seq <= r.seq}
  <2>0. r.id \in Nat /\ r.id <= m /\ \A s \in S : s \in rows /\ s.id \in 1..r.id
    BY <1>1, <1>2, <1>4
  <2>1. \A i \in 1..r.id : \E s \in S : s.id = i
    BY <1>2, <1>4, <2>0
  <2>2. S \in SUBSET Event /\ \A s, q \in S : s.id = q.id => s = q
    BY <1>1, <1>3
  <2>3. Cardinality(S) = r.id
    <3>. HIDE DEF S
    <3>. QED  BY <2>0, <2>1, <2>2, AsManyAsNumbers
  <2>. QED  BY <2>3 DEF Position
<1>. DEFINE n == IF m < HistoryLimit THEN m ELSE HistoryLimit
<1>7. n \in Nat /\ n <= m /\ (ShortRuns /\ m < HistoryLimit => n = m)
  BY <1>1
<1>8. History = [i \in 1..n |-> CHOOSE r \in rows : Position(r) = i]
  BY <1>5 DEF History
<1>. HIDE DEF n
<1>9. ASSUME NEW i \in 1..n
      PROVE  History[i] \in rows /\ History[i].id = i
  <2>1. \E r \in rows : Position(r) = i
    BY <1>2, <1>6, <1>7
  <2>2. History[i] \in rows /\ Position(History[i]) = i
    BY <1>8, <2>1
  <2>. QED  BY <1>6, <2>2
<1>10. History \in Seq(Event)
  <2>1. History \in [1..n -> Event]
    BY <1>1, <1>8, <1>9
  <2>. QED  BY <1>7, <2>1, IsASeq
<1>11. Len(History) = n
  BY <1>7, <1>8, <1>10, LenProperties
<1>12. LastOf(History) = n
  <2>1. CASE History = <<>>
    BY <1>11, <2>1 DEF LastOf
  <2>2. CASE History # <<>>
    <3>1. n \in 1..n
      BY <1>7, <1>10, <1>11, <2>2, EmptySeq
    <3>. QED  BY <1>4, <1>9, <1>11, <2>2, <3>1 DEF LastOf
  <2>. QED  BY <2>1, <2>2
<1>13. ASSUME ShortRuns
       PROVE  m <= n
  <2>1. m <= HistoryLimit
    BY <1>1, <1>2, <1>13 DEF ShortRuns, Numbers, EndsWell
  <2>. QED  BY <1>1, <2>1 DEF n
<1>. QED  BY <1>1, <1>2, <1>7, <1>9, <1>10, <1>11, <1>12, <1>13

-----------------------------------------------------------------------------
(* Numbering. *)

\* While nobody is writing, the highest number in the table is the last that was given,
\* and a worker's own counter agrees with it.
LEMMA CountersAgree ==
  ASSUME Numbers, NEW p \in Processes,
         \A q \in Processes : emitter[q].stage \notin Publishing,
         p \in Workers \/ emitted = 0
  PROVE  CurrentSeq(p) = emitted
<1>1. emitted \in Nat /\ rows \subseteq Event
  BY DEF Numbers, LogTypes
<1>2. CASE emitted = 0
  <2>1. rows = {} /\ counter[p] \in {None, 0}
    BY <1>2 DEF Numbers, EmittersWell, Processes
  <2>. QED  BY <1>2, <2>1 DEF CurrentSeq, Highest
<1>3. CASE emitted # 0
  <2>1. counter[p] \in {None, emitted}
    BY <1>3 DEF Numbers, EmittersWell
  <2>2. /\ \A i \in 1..emitted : \E r \in rows : r.id = i
        /\ \A r \in rows : r.seq = r.id /\ r.id \in 1..emitted
    BY DEF Numbers, RowsWell, Publishing
  <2>. DEFINE S == {r.seq : r \in rows}
  <2>3. emitted \in 1..emitted
    BY <1>1, <1>3
  <2>4. PICK r \in rows : r.id = emitted
    BY <2>2, <2>3
  <2>5. emitted \in S /\ \A r1 \in rows : r1.seq <= emitted
    BY <1>1, <2>2, <2>4
  <2>6. \A s \in S : (\A r1 \in rows : r1.seq <= s) => s = emitted
    BY <1>1, <2>2, <2>4
  <2>7. (CHOOSE s \in S : \A r1 \in rows : r1.seq <= s) = emitted
    <3>. HIDE DEF S
    <3>. QED  BY <2>5, <2>6
  <2>8. Highest = emitted
    BY <2>4, <2>7 DEF Highest
  <2>. QED  BY <2>1, <2>8 DEF CurrentSeq
<1>. QED  BY <1>2, <1>3

LEMMA OneAtATime ==
  ASSUME Numbers, OneWorker, NEW p \in Processes, emitter[p].stage # "idle"
  PROVE  \A q \in Processes \ {p} : emitter[q].stage = "idle"
BY DEF Numbers, EmittersWell, OneWorker, Processes

\* The next number, given by p while nobody is busy.
LEMMA NumbersOn ==
  ASSUME Numbers, OneWorker, NEW p \in Processes, NEW kind \in Kinds \ {"fragment"},
         \A q \in Processes : emitter[q].stage \notin Publishing,
         p \in Workers \/ emitted = 0,
         p \in Workers => emitted > 0 /\ emitter[Gateway].stage = "idle",
         emitted' = emitted + 1,
         counter' = [counter EXCEPT ![p] = CurrentSeq(p) + 1],
         emitter' = [emitter EXCEPT ![p] =
           [stage |-> "persist",
            event |-> [id |-> emitted + 1, seq |-> CurrentSeq(p) + 1, kind |-> kind]]],
         UNCHANGED rows
  PROVE  /\ emitted' \in Nat /\ counter' \in [Processes -> Nat \cup {None}]
         /\ emitter' \in [Processes -> Emitting]
         /\ EmittersWell' /\ RowsWell'
         /\ \A q \in Processes \ {p} : emitter'[q] = emitter[q]
         /\ emitter'[p].stage = "persist" /\ Lasting(emitter'[p].event)
<1>. DEFINE n == emitted + 1
            e == [id |-> n, seq |-> n, kind |-> kind]
            x == [stage |-> "persist", event |-> e]
<1>1. CurrentSeq(p) = emitted /\ emitted \in Nat
  BY CountersAgree DEF Numbers, LogTypes
<1>2. n \in Nat /\ n > 0 /\ n # emitted
  BY <1>1
<1>3. emitted' = n /\ counter' = [counter EXCEPT ![p] = n] /\ emitter' = [emitter EXCEPT ![p] = x]
  BY <1>1
<1>. HIDE DEF n
<1>4. e \in Event /\ e.id = n /\ e.seq = n /\ e.kind = kind
  BY <1>2 DEF Event
<1>. HIDE DEF e
<1>5. x \in Emitting /\ x.stage = "persist" /\ x.event = e
  BY <1>4 DEF Emitting, Publishing
<1>. HIDE DEF x
<1>6. emitter \in [Processes -> Emitting] /\ counter \in [Processes -> Nat \cup {None}]
  BY DEF Numbers, LogTypes
<1>7. /\ emitter' \in [Processes -> Emitting] /\ counter' \in [Processes -> Nat \cup {None}]
      /\ \A q \in Processes \ {p} : emitter'[q] = emitter[q] /\ counter'[q] = counter[q]
      /\ emitter'[p] = x /\ counter'[p] = n
  BY <1>2, <1>3, <1>5, <1>6
<1>8. Lasting(e)
  BY <1>4 DEF Lasting
<1>9. EmittersWell'
  <2>1. \A q \in Processes : Emits(emitter[q])'
    <3>1. ASSUME NEW q \in Processes
          PROVE  Emits(emitter[q])'
      <4>1. CASE q = p
        BY <1>2, <1>3, <1>4, <1>5, <1>7, <1>8, <4>1 DEF Emits, Lasting
      <4>2. CASE q # p
        <5>1. emitter'[q] = emitter[q] /\ emitter[q].stage \notin Publishing
          BY <1>7, <4>2
        <5>. QED  BY <5>1 DEF Emits, Publishing
      <4>. QED  BY <4>1, <4>2
    <3>. QED  BY <3>1
  <2>2. CASE p = Gateway
    <3>1. emitted = 0 /\ \A w \in Workers : emitter[w].stage = "idle" /\ counter[w] = None
      BY <2>2, ProcessesAssumption DEF Numbers, EmittersWell
    <3>2. \A w \in Workers : emitter'[w].stage = "idle" /\ counter'[w] = None
      BY <1>7, <2>2, <3>1, ProcessesAssumption DEF Processes
    <3>3. emitted' = 1
      BY <3>1
    <3>. QED  BY <1>5, <1>7, <1>8, <2>1, <2>2, <3>2, <3>3 DEF EmittersWell, Lasting
  <2>3. CASE p \in Workers
    <3>1. \A w \in Workers : w = p
      BY <2>3 DEF OneWorker
    <3>2. emitter'[Gateway] = emitter[Gateway] /\ emitter[Gateway].stage = "idle"
      BY <1>7, <2>3, ProcessesAssumption DEF Processes
    <3>. QED  BY <1>2, <1>3, <1>7, <2>1, <3>1, <3>2 DEF EmittersWell
  <2>. QED  BY <2>2, <2>3 DEF Processes
<1>10. RowsWell'
  <2>1. \A r \in rows : r.seq = r.id /\ Lasting(r) /\ r.id \in 1..emitted
    BY DEF Numbers, RowsWell
  <2>2. \A i \in 1..emitted : \E r \in rows : r.id = i
    BY DEF Numbers, RowsWell, Publishing
  <2>3. \A r \in rows : r.id \in Nat /\ r.id < n /\ r.id \in 1..n
    BY <1>1, <2>1 DEF n
  <2>4. \A i \in 1..n : (\E r \in rows : r.id = i) \/ i = n
    BY <1>1, <2>2 DEF n
  <2>5. emitter'[p].stage = "persist"
    BY <1>5, <1>7
  <2>6. \A r, s \in rows : r.id = s.id => r = s
    BY DEF Numbers, RowsWell
  <2>7. emitted' = n
    BY <1>3
  <2>. QED  BY <2>1, <2>3, <2>4, <2>5, <2>6, <2>7 DEF RowsWell, Lasting
<1>. QED  BY <1>2, <1>3, <1>5, <1>7, <1>8, <1>9, <1>10

-----------------------------------------------------------------------------
(* Emitting: the feeds stay what they are. *)

LEMMA Stays ==
  ASSUME NEW c \in Clients, NEW d, NEW s, Serves(c, d, s),
         rows \subseteq rows', channel' = channel, (c \in watchers') = (c \in watchers)
  PROVE  Serves(c, d, s)'
BY DEF Serves, Written, Sorted

LEMMA FeedsStay ==
  ASSUME FeedInv, rows \subseteq rows', UNCHANGED <<channel, watchers, client, shown>>
  PROVE  /\ ChannelWell'
         /\ \A c \in Clients : Serves(c, client[c], shown[c])'
<1>. rows \subseteq rows' /\ channel' = channel /\ watchers' = watchers /\ client' = client
     /\ shown' = shown
  OBVIOUS
<1>1. ASSUME NEW c \in Clients
      PROVE  Serves(c, client[c], shown[c])'
  <2>1. PICK d : d = client[c]
    OBVIOUS
  <2>2. PICK s : s = shown[c]
    OBVIOUS
  <2>3. Serves(c, d, s)
    BY <2>1, <2>2 DEF FeedInv
  <2>4. Serves(c, d, s)'
    BY <2>3, Stays
  <2>5. client'[c] = d /\ shown'[c] = s
    BY <2>1, <2>2
  <2>. QED  BY <2>4, <2>5
<1>2. ChannelWell'
  BY DEF FeedInv, ChannelWell, Sorted, Written
<1>. QED  BY <1>1, <1>2

LEMMA NothingLostYet ==
  ASSUME WholeInv, UNCHANGED <<channel, client, shown, missed>>,
         \/ emitted' = emitted /\ (Out => Out')
         \/ emitted \in Nat /\ emitted' = emitted + 1 /\ ~ Out /\ Out'
  PROVE  WholeInv'
<1>. channel' = channel /\ client' = client /\ shown' = shown /\ missed' = missed
  OBVIOUS
<1>. SUFFICES ASSUME NEW c \in Clients \ missed'
     PROVE  LosesNothing(client[c], shown[c])'
  BY DEF WholeInv
<1>1. PICK d : d = client[c]
  OBVIOUS
<1>2. PICK s : s = shown[c]
  OBVIOUS
<1>3. LosesNothing(d, s)
  BY <1>1, <1>2 DEF WholeInv
<1>4. LosesNothing(d, s)'
  <2>1. \A k \in 1..d.last : Holds(s, k)'
    BY <1>3 DEF LosesNothing, Holds, Lasting
  <2>2. ASSUME d.stage = "tailing", NEW k \in 1..emitted'
        PROVE  k <= d.last \/ Holds(d.queue, k) \/ Holds(channel', k) \/ (k = emitted' /\ Out')
    <3>1. CASE k \in 1..emitted
      BY <1>3, <2>2, <3>1 DEF LosesNothing
    <3>2. CASE k \notin 1..emitted
      BY <2>2, <3>2
    <3>. QED  BY <3>1, <3>2
  <2>. QED  BY <2>1, <2>2 DEF LosesNothing, Holds, Lasting
<1>5. client'[c] = d /\ shown'[c] = s
  BY <1>1, <1>2
<1>. QED  BY <1>4, <1>5

LEMMA Says ==
  ASSUME FeedInv, OneWorker, NEW p \in Processes, NEW kind \in Kinds \ {"fragment"},
         \A q \in Processes : emitter[q].stage \notin Publishing,
         p \in Workers \/ emitted = 0,
         p \in Workers => emitted > 0 /\ emitter[Gateway].stage = "idle",
         emitted' = emitted + 1,
         counter' = [counter EXCEPT ![p] = CurrentSeq(p) + 1],
         emitter' = [emitter EXCEPT ![p] =
           [stage |-> "persist",
            event |-> [id |-> emitted + 1, seq |-> CurrentSeq(p) + 1, kind |-> kind]]],
         EndsWell',
         UNCHANGED <<over, rows, channel, watchers, client, shown, fragments, drops, missed>>
  PROVE  FeedInv' /\ (WholeInv => WholeInv')
<1>0. Numbers
  BY DEF FeedInv
<1>1. /\ emitted' \in Nat /\ counter' \in [Processes -> Nat \cup {None}]
      /\ emitter' \in [Processes -> Emitting]
      /\ EmittersWell' /\ RowsWell'
      /\ emitter'[p].stage = "persist" /\ Lasting(emitter'[p].event)
  BY <1>0, NumbersOn
<1>2. Numbers'
  BY <1>0, <1>1 DEF Numbers, LogTypes
<1>3. ~ Out /\ Out'
  BY <1>1 DEF Out, Publishing, Lasting
<1>4. emitted \in Nat
  BY <1>0 DEF Numbers, LogTypes
<1>. QED  BY <1>2, <1>3, <1>4, FeedsStay, NothingLostYet DEF FeedInv

LEMMA Accepts ==
  ASSUME FeedInv, OneWorker, Accept
  PROVE  FeedInv' /\ (WholeInv => WholeInv')
<1>1. emitted = 0 /\ Gateway \in Processes
  BY DEF Accept, Processes
<1>2. \A q \in Processes : emitter[q].stage \notin Publishing
  <2>1. emitter[Gateway].stage = "idle" /\ \A w \in Workers : emitter[w].stage = "idle"
    BY <1>1 DEF FeedInv, Numbers, EmittersWell
  <2>. QED  BY <2>1 DEF Publishing, Processes
<1>3. \A w \in Workers : emitter'[w].stage = emitter[w].stage
  <2>1. \A w \in Workers : w # Gateway /\ w \in Processes
    BY ProcessesAssumption DEF Processes
  <2>. QED  BY <2>1 DEF Accept, Number, FeedInv, Numbers, LogTypes
<1>4. EndsWell'
  BY <1>1, <1>3, BoundsAssumption DEF FeedInv, Numbers, EndsWell, Accept, Number
<1>5. "step" \in Kinds \ {"fragment"} /\ Gateway \notin Workers
  BY ProcessesAssumption DEF Kinds
<1>6. /\ emitted' = emitted + 1
      /\ counter' = [counter EXCEPT ![Gateway] = CurrentSeq(Gateway) + 1]
      /\ emitter' = [emitter EXCEPT ![Gateway] =
           [stage |-> "persist",
            event |-> [id |-> emitted + 1, seq |-> CurrentSeq(Gateway) + 1, kind |-> "step"]]]
      /\ UNCHANGED <<over, rows, channel, watchers, client, shown, fragments, drops, missed>>
  BY DEF Accept, Number
<1>. QED  BY <1>1, <1>2, <1>4, <1>5, <1>6, Says

LEMMA Logs ==
  ASSUME FeedInv, OneWorker, NEW w \in Workers, Log(w)
  PROVE  FeedInv' /\ (WholeInv => WholeInv')
<1>1. w \in Processes /\ emitter[w].stage = "idle" /\ emitter[Gateway].stage = "idle"
      /\ emitted > 0 /\ emitted < MaxEvents
  BY DEF Log, Number, Accepted, Processes
<1>2. \A q \in Processes : emitter[q].stage \notin Publishing
  BY <1>1 DEF OneWorker, Publishing, Processes
<1>3. \A v \in Workers : emitter'[v].stage = "persist"
  BY <1>1 DEF Log, Number, FeedInv, Numbers, LogTypes, OneWorker
<1>4. EndsWell'
  <2>1. emitted \in Nat /\ MaxEvents \in Nat
    BY BoundsAssumption DEF FeedInv, Numbers, LogTypes
  <2>. QED  BY <1>1, <1>3, <2>1 DEF FeedInv, Numbers, EndsWell, Log, Number
<1>5. "step" \in Kinds \ {"fragment"}
  BY DEF Kinds
<1>6. /\ emitted' = emitted + 1
      /\ counter' = [counter EXCEPT ![w] = CurrentSeq(w) + 1]
      /\ emitter' = [emitter EXCEPT ![w] =
           [stage |-> "persist",
            event |-> [id |-> emitted + 1, seq |-> CurrentSeq(w) + 1, kind |-> "step"]]]
      /\ UNCHANGED <<over, rows, channel, watchers, client, shown, fragments, drops, missed>>
  BY DEF Log, Number
<1>. QED  BY <1>1, <1>2, <1>4, <1>5, <1>6, Says

LEMMA SaysEnded ==
  ASSUME FeedInv, OneWorker, NEW w \in Workers, SayEnded(w)
  PROVE  FeedInv' /\ (WholeInv => WholeInv')
<1>1. w \in Processes /\ emitter[w].stage = "ending"
  BY DEF SayEnded, Processes
<1>2. emitter[Gateway].stage = "idle" /\ emitted > 0
  BY <1>1 DEF FeedInv, Numbers, EmittersWell, LogTypes
<1>3. \A q \in Processes : emitter[q].stage \notin Publishing
  BY <1>1, <1>2 DEF OneWorker, Publishing, Processes
<1>4. PICK kind \in {"succeeded", "failed"} :
        emitter' = [emitter EXCEPT ![w] =
         [stage |-> "persist",
          event |-> [id |-> emitted + 1, seq |-> CurrentSeq(w) + 1, kind |-> kind]]]
  BY DEF SayEnded
<1>5. \A v \in Workers : emitter'[v].stage = "persist"
  BY <1>1, <1>4 DEF FeedInv, Numbers, LogTypes, OneWorker
<1>6. EndsWell'
  <2>1. emitted \in Nat /\ MaxEvents \in Nat
    BY BoundsAssumption DEF FeedInv, Numbers, LogTypes
  <2>2. over /\ emitted <= MaxEvents
    BY <1>1 DEF FeedInv, Numbers, EndsWell
  <2>. QED  BY <1>5, <2>1, <2>2 DEF EndsWell, SayEnded
<1>7. kind \in Kinds \ {"fragment"}
  BY DEF Kinds
<1>. QED  BY <1>1, <1>2, <1>3, <1>4, <1>6, <1>7, Says DEF SayEnded

LEMMA GoesOn ==
  ASSUME NEW y \in Emitting, NEW t \in {"idle", "ending"} \cup Publishing
  PROVE  LET x == [y EXCEPT !.stage = t]
         IN  x \in Emitting /\ x.stage = t /\ x.event = y.event
BY DEF Emitting

LEMMA TakesUp ==
  ASSUME NEW e \in Event, NEW t \in {"idle", "ending"} \cup Publishing
  PROVE  LET x == [stage |-> t, event |-> e]
         IN  x \in Emitting /\ x.stage = t /\ x.event = e
BY DEF Emitting

\* One emitter goes on with what it carries, or takes up something that is not numbered.
LEMMA EmitterMoves ==
  ASSUME Numbers, emitted > 0, NEW p \in Processes, NEW x \in Emitting,
         emitter' = [emitter EXCEPT ![p] = x], Emits(x)',
         p = Gateway => x.stage # "ending" /\ (x.stage # "idle" =>
                          emitter[p].stage # "idle" /\ Lasting(x.event)),
         p \in Workers => emitter[Gateway].stage = "idle",
         counter' = counter \/ counter' = [counter EXCEPT ![p] = emitted]
           \/ counter' = [counter EXCEPT ![p] = None],
         emitted' = emitted, rows \subseteq rows'
  PROVE  /\ counter' \in [Processes -> Nat \cup {None}]
         /\ emitter' \in [Processes -> Emitting] /\ emitter'[p] = x
         /\ \A q \in Processes \ {p} : emitter'[q] = emitter[q]
         /\ EmittersWell'
<1>0. emitter \in [Processes -> Emitting] /\ counter \in [Processes -> Nat \cup {None}]
      /\ emitted \in Nat /\ Gateway \in Processes /\ Gateway \notin Workers
      /\ Workers \subseteq Processes
  BY ProcessesAssumption DEF Numbers, LogTypes, Processes
<1>1. /\ emitter' \in [Processes -> Emitting] /\ emitter'[p] = x
      /\ \A q \in Processes \ {p} : emitter'[q] = emitter[q]
  BY <1>0
<1>2. /\ counter' \in [Processes -> Nat \cup {None}]
      /\ \A q \in Processes \ {p} : counter'[q] = counter[q]
      /\ counter'[p] \in {counter[p], emitted, None}
  BY <1>0
<1>3. \A q \in Processes : Emits(emitter[q])'
  <2>1. ASSUME NEW q \in Processes \ {p}
        PROVE  Emits(emitter[q])'
    <3>1. PICK y : y = emitter[q]
      OBVIOUS
    <3>2. Emits(y)
      BY <3>1 DEF Numbers, EmittersWell
    <3>3. Emits(y)'
      BY <3>2 DEF Emits, Written
    <3>. QED  BY <1>1, <3>1, <3>3
  <2>. QED  BY <1>1, <2>1
<1>4. /\ emitter'[Gateway].stage # "ending"
      /\ emitter'[Gateway].stage # "idle" => emitted' = 1 /\ Lasting(emitter'[Gateway].event)
  BY <1>0, <1>1 DEF Numbers, EmittersWell, Processes
<1>5. \A w \in Workers : counter'[w] \in {None, emitted'}
  <2>1. \A w \in Workers : counter[w] \in {None, emitted}
    BY DEF Numbers, EmittersWell
  <2>. QED  BY <1>0, <1>2, <2>1
<1>6. emitter'[Gateway].stage # "idle" =>
        \A w \in Workers : emitter'[w].stage = "idle" /\ counter'[w] = None
  <2>1. CASE p = Gateway
    <3>1. \A w \in Workers : emitter'[w] = emitter[w] /\ counter'[w] = counter[w]
      BY <1>0, <1>1, <1>2, <2>1
    <3>. QED  BY <1>1, <2>1, <3>1 DEF Numbers, EmittersWell
  <2>2. CASE p # Gateway
    BY <1>0, <1>1, <2>2 DEF Processes
  <2>. QED  BY <2>1, <2>2
<1>7. emitted' # 0
  BY <1>0
<1>. QED  BY <1>1, <1>2, <1>3, <1>4, <1>5, <1>6, <1>7 DEF EmittersWell, Lasting

\* An emitter that is not writing, before or after, leaves the table as it is.
LEMMA RowsStay ==
  ASSUME Numbers, NEW p \in Processes,
         \A q \in Processes \ {p} : emitter'[q] = emitter[q],
         emitter[p].stage # "persist", emitter'[p].stage # "persist",
         emitted' = emitted, rows' = rows
  PROVE  RowsWell'
<1>1. \A q \in Processes : (emitter'[q].stage = "persist") = (emitter[q].stage = "persist")
  OBVIOUS
<1>. QED  BY <1>1 DEF Numbers, RowsWell, Lasting

LEMMA EndsStay ==
  ASSUME Numbers, over' = over, emitted' = emitted,
         \A w \in Workers : emitter'[w].stage = "ending" => emitter[w].stage = "ending"
  PROVE  EndsWell'
BY DEF Numbers, EndsWell

LEMMA EndsTheRun ==
  ASSUME FeedInv, NEW w \in Workers, EndRun(w)
  PROVE  FeedInv' /\ (WholeInv => WholeInv')
<1>0. Numbers /\ w \in Processes /\ w # Gateway
  BY ProcessesAssumption DEF FeedInv, Processes
<1>1. emitted > 0 /\ emitter[Gateway].stage = "idle" /\ ~ over /\ emitter[w].stage = "idle"
  BY DEF EndRun, Accepted
<1>2. emitter[w] \in Emitting
  BY <1>0 DEF Numbers, LogTypes
<1>3. PICK x \in Emitting : x = [emitter[w] EXCEPT !.stage = "ending"] /\ x.stage = "ending"
  BY <1>2, GoesOn
<1>4. emitter' = [emitter EXCEPT ![w] = x] /\ counter' = counter /\ emitted' = emitted
      /\ rows' = rows /\ over' = TRUE
  BY <1>3 DEF EndRun
<1>5. Emits(x)'
  BY <1>3 DEF Emits, Publishing
<1>6. /\ emitter' \in [Processes -> Emitting] /\ emitter'[w] = x
      /\ \A q \in Processes \ {w} : emitter'[q] = emitter[q]
      /\ EmittersWell'
  BY <1>0, <1>1, <1>3, <1>4, <1>5, EmitterMoves
<1>7. RowsWell'
  BY <1>0, <1>1, <1>3, <1>4, <1>6, RowsStay
<1>8. EndsWell'
  <2>1. emitted <= MaxEvents
    BY <1>0, <1>1 DEF Numbers, EndsWell
  <2>. QED  BY <1>4, <2>1 DEF EndsWell
<1>9. Numbers'
  BY <1>0, <1>4, <1>6, <1>7, <1>8 DEF Numbers, LogTypes, EndRun
<1>10. Out => Out'
  BY <1>1, <1>6 DEF Out, Publishing, Lasting
<1>. QED  BY <1>4, <1>9, <1>10, FeedsStay, NothingLostYet DEF FeedInv, EndRun

LEMMA Streams ==
  ASSUME FeedInv, OneWorker, NEW w \in Workers, Stream(w)
  PROVE  FeedInv' /\ (WholeInv => WholeInv')
<1>0. Numbers /\ w \in Processes /\ w # Gateway /\ emitted \in Nat /\ fragments \in Nat
  BY ProcessesAssumption DEF FeedInv, Numbers, LogTypes, Processes
<1>1. emitted > 0 /\ emitter[Gateway].stage = "idle" /\ emitter[w].stage = "idle"
  BY DEF Stream, Accepted
<1>2. \A q \in Processes : emitter[q].stage \notin Publishing
  BY <1>1 DEF OneWorker, Publishing, Processes
<1>3. CurrentSeq(w) = emitted
  BY <1>0, <1>2, CountersAgree
<1>. DEFINE n == fragments + 1
            e == [id |-> n, seq |-> emitted, kind |-> "fragment"]
            z == [stage |-> "fan out", event |-> e]
<1>4. emitter' = [emitter EXCEPT ![w] = z] /\ counter' = [counter EXCEPT ![w] = emitted]
  BY <1>3 DEF Stream, FragmentSeq
<1>5. n \in Nat
  BY <1>0
<1>. HIDE DEF n
<1>6. e \in Event /\ e.kind = "fragment"
  BY <1>0, <1>5 DEF Event, Kinds
<1>. HIDE DEF e
<1>7. PICK x \in Emitting : x = z /\ x.stage = "fan out" /\ x.event.kind = "fragment"
  BY <1>6, TakesUp DEF Publishing
<1>. HIDE DEF z
<1>8. Emits(x)'
  BY <1>7 DEF Emits, Written, Lasting
<1>9. emitted' = emitted /\ rows' = rows /\ over' = over
  BY DEF Stream
<1>10. /\ counter' \in [Processes -> Nat \cup {None}]
       /\ emitter' \in [Processes -> Emitting] /\ emitter'[w] = x
       /\ \A q \in Processes \ {w} : emitter'[q] = emitter[q]
       /\ EmittersWell'
  BY <1>0, <1>1, <1>4, <1>7, <1>8, <1>9, EmitterMoves
<1>11. RowsWell'
  BY <1>0, <1>1, <1>7, <1>9, <1>10, RowsStay
<1>12. EndsWell'
  BY <1>0, <1>7, <1>9, <1>10, EndsStay DEF Processes
<1>13. fragments' = n
  BY DEF Stream, n
<1>14. Numbers'
  BY <1>0, <1>5, <1>9, <1>10, <1>11, <1>12, <1>13 DEF Numbers, LogTypes, Stream
<1>15. ~ Out
  BY <1>2 DEF Out
<1>. QED  BY <1>9, <1>14, <1>15, FeedsStay, NothingLostYet DEF FeedInv, Stream

LEMMA Persists ==
  ASSUME FeedInv, OneWorker, NEW p \in Processes, Persist(p)
  PROVE  FeedInv' /\ (WholeInv => WholeInv')
<1>0. PICK y \in Emitting :
        y = emitter[p] /\ Numbers /\ y.stage = "persist" /\ Emits(y)
  BY DEF FeedInv, Numbers, LogTypes, EmittersWell, Persist
<1>. DEFINE e == y.event
<1>1. e \in Event /\ Lasting(e) /\ e.id = emitted /\ e.seq = emitted /\ emitted > 0
  BY <1>0 DEF Emits, Emitting, Publishing
<1>2. \A r \in rows : r.id < emitted /\ r.seq = r.id
  BY <1>0 DEF Numbers, RowsWell
<1>3. emitted \in Nat /\ rows \subseteq Event
  BY <1>0 DEF Numbers, LogTypes
<1>4. rows' = rows \cup {e}
  <2>1. ~ \E r \in rows : r.seq = e.seq
    BY <1>1, <1>2, <1>3 DEF Event
  <2>. QED  BY <1>0, <2>1 DEF Persist
<1>5. PICK x \in Emitting :
        x = [y EXCEPT !.stage = "fan out"] /\ x.stage = "fan out" /\ x.event = e
  <2>. DEFINE z == [y EXCEPT !.stage = "fan out"]
  <2>1. z \in Emitting /\ z.stage = "fan out" /\ z.event = y.event
    BY <1>0, GoesOn DEF Publishing
  <2>. QED  BY <2>1
<1>6. emitter' = [emitter EXCEPT ![p] = x] /\ counter' = counter /\ emitted' = emitted
      /\ over' = over
  BY <1>0, <1>5 DEF Persist
<1>. HIDE DEF e
<1>7. Emits(x)'
  <2>1. Written(e)'
    BY <1>4 DEF Written
  <2>. QED  BY <1>1, <1>5, <1>6, <2>1 DEF Emits, Lasting
<1>8. p \in Workers => emitter[Gateway].stage = "idle"
  BY <1>0 DEF Numbers, EmittersWell
<1>9. /\ emitter' \in [Processes -> Emitting] /\ emitter'[p] = x
      /\ \A q \in Processes \ {p} : emitter'[q] = emitter[q]
      /\ EmittersWell'
  <2>1. rows \subseteq rows' /\ emitter[p].stage = "persist"
    BY <1>0, <1>4
  <2>. QED  BY <1>0, <1>1, <1>5, <1>6, <1>7, <1>8, <2>1, EmitterMoves
<1>10. \A q \in Processes : emitter'[q].stage # "persist"
  BY <1>0, <1>5, <1>9, OneAtATime
<1>11. RowsWell'
  <2>1. \A r \in rows' : r.seq = r.id /\ Lasting(r) /\ r.id \in 1..emitted
    BY <1>0, <1>1, <1>2, <1>3, <1>4 DEF Numbers, RowsWell
  <2>2. \A r, s \in rows' : r.id = s.id => r = s
    BY <1>0, <1>1, <1>2, <1>3, <1>4 DEF Numbers, RowsWell, Event
  <2>3. \A i \in 1..emitted : \E r \in rows' : r.id = i
    BY <1>0, <1>1, <1>4 DEF Numbers, RowsWell
  <2>. QED  BY <1>6, <1>10, <2>1, <2>2, <2>3 DEF RowsWell, Lasting
<1>12. EndsWell'
  BY <1>0, <1>5, <1>6, <1>9, EndsStay DEF Processes
<1>13. Numbers'
  BY <1>0, <1>1, <1>3, <1>4, <1>6, <1>9, <1>11, <1>12 DEF Numbers, LogTypes, Persist
<1>14. Out'
  <2>1. emitter'[p].stage \in Publishing /\ Lasting(emitter'[p].event)
    BY <1>1, <1>5, <1>9 DEF Publishing
  <2>. QED  BY <2>1 DEF Out, Lasting
<1>15. rows \subseteq rows'
  BY <1>4
<1>. QED  BY <1>6, <1>13, <1>14, <1>15, FeedsStay, NothingLostYet DEF FeedInv, Persist

-----------------------------------------------------------------------------
(* Delivering. *)

\* A queue takes one event more, and gives up its oldest only when it is full.
LEMMA Offers ==
  ASSUME NEW q \in Seq(Event), Len(q) <= Buffer, NEW e \in Event
  PROVE  LET o == Offer(q, e)
         IN  /\ o \in Seq(Event) /\ Len(o) <= Buffer
             /\ \E lost \in {0, 1} :
                  /\ lost = 1 => Len(q) = Buffer
                  /\ Len(o) = Len(q) + 1 - lost
                  /\ o[Len(o)] = e
                  /\ \A i \in 1..Len(o) : i # Len(o) =>
                       i + lost \in 1..Len(q) /\ o[i] = q[i + lost]
<1>0. Len(q) \in Nat /\ Buffer \in Nat /\ Buffer > 0
  BY LenProperties, BoundsAssumption
<1>1. CASE Len(q) < Buffer
  <2>1. Offer(q, e) = Append(q, e)
    BY <1>0, <1>1 DEF Offer, Full
  <2>. DEFINE o == Append(q, e)
  <2>2. o \in Seq(Event) /\ Len(o) = Len(q) + 1 /\ o[Len(q) + 1] = e
        /\ \A i \in 1..Len(q) : o[i] = q[i]
    BY AppendProperties
  <2>. HIDE DEF o
  <2>3. \A i \in 1..Len(o) : i # Len(o) => i + 0 \in 1..Len(q) /\ o[i] = q[i + 0]
    BY <1>0, <2>2
  <2>4. o[Len(o)] = e /\ Len(o) <= Buffer
    BY <1>0, <1>1, <2>2
  <2>5. o \in Seq(Event) /\ Len(o) = Len(q) + 1 - 0
    BY <1>0, <2>2
  <2>6. Offer(q, e) = o
    BY <2>1 DEF o
  <2>. QED  BY <2>3, <2>4, <2>5, <2>6
<1>2. CASE Len(q) = Buffer
  <2>1. Offer(q, e) = Append(Tail(q), e)
    BY <1>0, <1>2 DEF Offer, Full
  <2>. DEFINE r == Tail(q)
              o == Append(r, e)
  <2>2. q # <<>>
    BY <1>0, <1>2, EmptySeq
  <2>3. r \in Seq(Event) /\ Len(r) = Len(q) - 1 /\ \A i \in 1..Len(r) : r[i] = q[i + 1]
    BY <2>2, HeadTailProperties
  <2>. HIDE DEF r
  <2>4. o \in Seq(Event) /\ Len(o) = Len(r) + 1 /\ o[Len(r) + 1] = e
        /\ \A i \in 1..Len(r) : o[i] = r[i]
    BY <2>3, AppendProperties
  <2>. HIDE DEF o
  <2>5. Len(o) = Len(q) /\ Len(q) = Len(q) + 1 - 1
    BY <1>0, <2>3, <2>4
  <2>6. \A i \in 1..Len(o) : i # Len(o) => i + 1 \in 1..Len(q) /\ o[i] = q[i + 1]
    BY <1>0, <2>3, <2>4
  <2>7. o[Len(o)] = e /\ Len(o) <= Buffer
    BY <1>0, <1>2, <2>3, <2>4
  <2>8. Offer(q, e) = o
    BY <2>1 DEF o, r
  <2>. QED  BY <1>2, <2>4, <2>5, <2>6, <2>7, <2>8
<1>. QED  BY <1>0, <1>1, <1>2

\* A queue of lasting events in order stays one when a later event is put at its end.
LEMMA OffersInOrder ==
  ASSUME NEW q \in Seq(Event), Len(q) <= Buffer, NEW e \in Event, Sorted(q), Written(e),
         \A i \in 1..Len(q) : Written(q[i]),
         \A i \in 1..Len(q) : Lasting(q[i]) /\ Lasting(e) => q[i].id <= e.id
  PROVE  LET o == Offer(q, e)
         IN  /\ o \in Seq(Event) /\ Len(o) <= Buffer /\ Sorted(o)
             /\ \A i \in 1..Len(o) : Written(o[i])
             /\ \A i \in 1..Len(o) : o[i] = e \/ \E j \in 1..Len(q) : o[i] = q[j]
             /\ Len(q) # Buffer => /\ \A j \in 1..Len(q) : \E i \in 1..Len(o) : o[i] = q[j]
                                   /\ \E i \in 1..Len(o) : o[i] = e
<1>. DEFINE o == Offer(q, e)
<1>1. /\ o \in Seq(Event) /\ Len(o) <= Buffer
      /\ \E lost \in {0, 1} :
           /\ lost = 1 => Len(q) = Buffer
           /\ Len(o) = Len(q) + 1 - lost
           /\ o[Len(o)] = e
           /\ \A i \in 1..Len(o) : i # Len(o) =>
                i + lost \in 1..Len(q) /\ o[i] = q[i + lost]
  BY Offers
<1>. HIDE DEF o
<1>2. PICK lost \in {0, 1} :
        /\ lost = 1 => Len(q) = Buffer
        /\ Len(o) = Len(q) + 1 - lost
        /\ o[Len(o)] = e
        /\ \A i \in 1..Len(o) : i # Len(o) => i + lost \in 1..Len(q) /\ o[i] = q[i + lost]
  BY <1>1
<1>3. Len(q) \in Nat /\ Len(o) \in Nat /\ Buffer > 0 /\ Buffer \in Nat
  BY <1>1, LenProperties, BoundsAssumption
<1>4. \A i \in 1..Len(o) : o[i] = e \/ \E j \in 1..Len(q) : o[i] = q[j]
  BY <1>2, <1>3
<1>5. \A i \in 1..Len(o) : Written(o[i])
  BY <1>4
<1>6. Sorted(o)
  <2>. SUFFICES ASSUME NEW i \in 1..Len(o), NEW j \in 1..Len(o), i < j,
                       Lasting(o[i]), Lasting(o[j])
                PROVE  o[i].id <= o[j].id
    BY DEF Sorted
  <2>1. i # Len(o) /\ i + lost \in 1..Len(q) /\ o[i] = q[i + lost]
    BY <1>2, <1>3
  <2>2. CASE j = Len(o)
    BY <1>2, <2>1, <2>2
  <2>3. CASE j # Len(o)
    <3>1. j + lost \in 1..Len(q) /\ o[j] = q[j + lost]
      BY <1>2, <2>3
    <3>2. i + lost < j + lost
      BY <1>3
    <3>. QED  BY <2>1, <3>1, <3>2 DEF Sorted
  <2>. QED  BY <2>2, <2>3
<1>7. ASSUME Len(q) # Buffer
      PROVE  /\ \A j \in 1..Len(q) : \E i \in 1..Len(o) : o[i] = q[j]
             /\ \E i \in 1..Len(o) : o[i] = e
  <2>1. lost = 0 /\ Len(o) = Len(q) + 1
    BY <1>2, <1>3, <1>7
  <2>2. \A j \in 1..Len(q) : j \in 1..Len(o) /\ j # Len(o) /\ j + 0 = j
    BY <1>3, <2>1
  <2>3. \A j \in 1..Len(q) : o[j] = q[j]
    BY <1>2, <2>1, <2>2
  <2>4. Len(o) \in 1..Len(o)
    BY <1>3, <2>1
  <2>. QED  BY <1>2, <2>2, <2>3, <2>4
<1>. QED  BY <1>1, <1>4, <1>5, <1>6, <1>7 DEF o

\* What a delivery makes of one watching socket, and of one that does not watch.
LEMMA Receives ==
  ASSUME FeedInv, NEW e \in Event, Deliver(e), NEW c \in Clients
  PROVE  /\ client'[c] \in Socket
         /\ client'[c].stage = client[c].stage /\ client'[c].last = client[c].last
         /\ c \in watchers => client'[c].queue = Offer(client[c].queue, e)
         /\ c \notin watchers => client'[c].queue = client[c].queue
         /\ c \in watchers /\ c \notin missed' => Len(client[c].queue) # Buffer
<1>. PICK d \in Socket : d = client[c]
  BY DEF FeedInv, Numbers, LogTypes
<1>1. d.queue \in Seq(Event) /\ Len(d.queue) <= Buffer
  BY DEF Socket, FeedInv, Serves
<1>2. CASE c \in watchers
  <2>. DEFINE q == Offer(d.queue, e)
  <2>1. q \in Seq(Event)
    BY <1>1, Offers
  <2>2. client'[c] = [d EXCEPT !.queue = q]
    BY <1>2 DEF Deliver
  <2>. HIDE DEF q
  <2>3. [d EXCEPT !.queue = q] \in Socket
    BY <2>1 DEF Socket
  <2>4. client'[c].queue = q /\ client'[c].stage = d.stage /\ client'[c].last = d.last
    BY <2>2 DEF Socket
  <2>5. c \notin missed' => Len(d.queue) # Buffer
    BY <1>2 DEF Deliver
  <2>. QED  BY <1>2, <2>2, <2>3, <2>4, <2>5 DEF q
<1>3. CASE c \notin watchers
  BY <1>3 DEF Deliver
<1>. QED  BY <1>2, <1>3

LEMMA Delivers ==
  ASSUME FeedInv, NEW e \in Event, Deliver(e), Written(e), UNCHANGED <<rows, watchers, shown>>,
         channel' \in Seq(Event),
         \A j \in 1..Len(channel') : \E m \in 1..Len(channel) : channel'[j] = channel[m],
         \A j \in 1..Len(channel') :
           Lasting(e) /\ Lasting(channel'[j]) => e.id <= channel'[j].id,
         \A c \in watchers : \A i \in 1..Len(client[c].queue) :
           Lasting(client[c].queue[i]) /\ Lasting(e) => client[c].queue[i].id <= e.id
  PROVE  /\ client' \in [Clients -> Socket] /\ missed' \subseteq Clients
         /\ \A c \in Clients : Serves(c, client[c], shown[c])'
<1>0. rows' = rows /\ watchers' = watchers /\ shown' = shown /\ watchers \subseteq Clients
      /\ missed \subseteq Clients
  BY DEF FeedInv, Numbers, LogTypes
<1>1. client' \in [Clients -> Socket]
  <2>1. \A c \in Clients : client'[c] \in Socket
    BY Receives
  <2>2. client' = [c \in Clients |-> client'[c]]
    BY DEF Deliver
  <2>. QED  BY <2>1, <2>2
<1>2. missed' \subseteq Clients
  BY <1>0 DEF Deliver
<1>3. ASSUME NEW c \in Clients
      PROVE  Serves(c, client[c], shown[c])'
  <2>1. PICK d \in Socket : d = client[c]
    BY DEF FeedInv, Numbers, LogTypes
  <2>2. PICK n \in Socket : n = client'[c]
    BY <1>1
  <2>3. PICK s : s = shown[c]
    OBVIOUS
  <2>4. Serves(c, d, s)
    BY <2>1, <2>3 DEF FeedInv
  <2>5. n.stage = d.stage /\ n.last = d.last
        /\ (c \notin watchers => n.queue = d.queue)
        /\ (c \in watchers => n.queue = Offer(d.queue, e))
    BY <2>1, <2>2, Receives
  <2>6. /\ \A i \in 1..Len(s) : Written(s[i])' /\ (Lasting(s[i]) => s[i].id <= n.last)
        /\ \A i, j \in 1..Len(s) : i < j /\ Lasting(s[i]) /\ Lasting(s[j]) => s[i].id < s[j].id
    BY <1>0, <2>4, <2>5 DEF Serves, Written, Lasting
  <2>7. Serves(c, n, s)'
    <3>1. CASE c \in watchers
      <4>. DEFINE q == Offer(d.queue, e)
      <4>1. d.queue \in Seq(Event) /\ Len(d.queue) <= Buffer /\ Sorted(d.queue)
            /\ (\A i \in 1..Len(d.queue) : Written(d.queue[i]))
            /\ (\A i \in 1..Len(d.queue) : Lasting(d.queue[i]) /\ Lasting(e) => d.queue[i].id <= e.id)
        BY <2>1, <2>4, <3>1 DEF Serves, Socket
      <4>2. /\ q \in Seq(Event) /\ Len(q) <= Buffer /\ Sorted(q)
            /\ \A i \in 1..Len(q) : Written(q[i])
            /\ \A i \in 1..Len(q) : q[i] = e \/ \E j \in 1..Len(d.queue) : q[i] = d.queue[j]
        BY <4>1, OffersInOrder
      <4>3. n.queue = q
        BY <2>5, <3>1
      <4>. HIDE DEF q
      <4>4. ASSUME NEW i \in 1..Len(q), NEW j \in 1..Len(channel'),
                   Lasting(q[i]), Lasting(channel'[j])
            PROVE  q[i].id <= channel'[j].id
        <5>1. CASE q[i] = e
          BY <4>4, <5>1
        <5>2. ASSUME NEW k \in 1..Len(d.queue), q[i] = d.queue[k]
              PROVE  q[i].id <= channel'[j].id
          <6>1. PICK m \in 1..Len(channel) : channel'[j] = channel[m]
            OBVIOUS
          <6>. QED  BY <2>4, <3>1, <4>4, <5>2, <6>1 DEF Serves
        <5>. QED  BY <4>2, <5>1, <5>2
      <4>5. \A i \in 1..Len(q) : Written(q[i])'
        BY <1>0, <4>2 DEF Written, Lasting
      <4>6. d.stage \in Watching
        BY <2>4, <3>1 DEF Serves
      <4>7. d.stage = "subscribed" => s = <<>> /\ d.last = 0
        BY <2>4 DEF Serves
      <4>. QED  BY <1>0, <2>5, <2>6, <3>1, <4>2, <4>3, <4>4, <4>5, <4>6, <4>7
                DEF Serves, Sorted, Lasting, Watching
    <3>2. CASE c \notin watchers
      <4>1. n.queue = d.queue
        BY <2>5, <3>2
      <4>. QED  BY <1>0, <2>4, <2>5, <2>6, <3>2, <4>1 DEF Serves, Written, Lasting
    <3>. QED  BY <3>1, <3>2
  <2>8. client'[c] = n /\ shown'[c] = s
    BY <1>0, <2>2, <2>3
  <2>. QED  BY <2>7, <2>8
<1>. QED  BY <1>1, <1>2, <1>3

LEMMA DeliversWhole ==
  ASSUME FeedInv, WholeInv, NEW e \in Event, Deliver(e), Written(e),
         UNCHANGED <<watchers, shown, emitted>>, Out => Out',
         \A c \in watchers : \A i \in 1..Len(client[c].queue) :
           Lasting(client[c].queue[i]) /\ Lasting(e) => client[c].queue[i].id <= e.id,
         \A k : Holds(channel, k) => Holds(channel, k)' \/ (Lasting(e) /\ k = e.id)
  PROVE  WholeInv'
<1>. shown' = shown /\ emitted' = emitted
  OBVIOUS
<1>. SUFFICES ASSUME NEW c \in Clients \ missed'
     PROVE  LosesNothing(client[c], shown[c])'
  BY DEF WholeInv
<1>0. c \notin missed
  BY DEF Deliver
<1>1. PICK d \in Socket : d = client[c]
  BY DEF FeedInv, Numbers, LogTypes
<1>2. PICK n \in Socket : n = client'[c]
  BY Receives
<1>3. PICK s : s = shown[c]
  OBVIOUS
<1>4. LosesNothing(d, s)
  BY <1>0, <1>1, <1>3 DEF WholeInv
<1>5. n.stage = d.stage /\ n.last = d.last
      /\ (c \in watchers => n.queue = Offer(d.queue, e) /\ Len(d.queue) # Buffer)
  BY <1>1, <1>2, Receives
<1>6. \A k \in 1..n.last : Holds(s, k)'
  BY <1>4, <1>5 DEF LosesNothing, Holds, Lasting
<1>7. ASSUME d.stage = "tailing", NEW k \in 1..emitted
      PROVE  k <= n.last \/ Holds(n.queue, k) \/ Holds(channel, k)' \/ (k = emitted /\ Out')
  <2>. DEFINE q == Offer(d.queue, e)
  <2>0. Serves(c, d, s)
    BY <1>1, <1>3 DEF FeedInv
  <2>1. c \in watchers
    BY <1>7, <2>0 DEF Serves, Watching
  <2>2. d.queue \in Seq(Event) /\ Len(d.queue) <= Buffer /\ Sorted(d.queue)
        /\ (\A i \in 1..Len(d.queue) : Written(d.queue[i]))
        /\ (\A i \in 1..Len(d.queue) : Lasting(d.queue[i]) /\ Lasting(e) => d.queue[i].id <= e.id)
    BY <1>1, <2>0, <2>1 DEF Serves, Socket
  <2>3. Len(d.queue) # Buffer
    BY <1>5, <2>1
  <2>4. /\ \A j \in 1..Len(d.queue) : \E i \in 1..Len(q) : q[i] = d.queue[j]
        /\ \E i \in 1..Len(q) : q[i] = e
    BY <2>2, <2>3, OffersInOrder
  <2>5. n.queue = q
    BY <1>5, <2>1
  <2>. HIDE DEF q
  <2>6. Holds(d.queue, k) => Holds(q, k)
    BY <2>4 DEF Holds
  <2>7. Lasting(e) => Holds(q, e.id)
    BY <2>4 DEF Holds
  <2>8. k <= d.last \/ Holds(d.queue, k) \/ Holds(channel, k) \/ (k = emitted /\ Out)
    BY <1>4, <1>7 DEF LosesNothing
  <2>9. Holds(channel, k) => Holds(channel, k)' \/ (Lasting(e) /\ k = e.id)
    OBVIOUS
  <2>. QED  BY <1>5, <2>5, <2>6, <2>7, <2>8, <2>9
<1>8. LosesNothing(n, s)'
  BY <1>5, <1>6, <1>7 DEF LosesNothing, Holds, Lasting
<1>9. client'[c] = n /\ shown'[c] = s
  BY <1>2, <1>3
<1>. QED  BY <1>8, <1>9

LEMMA FansOut ==
  ASSUME FeedInv, OneWorker, NEW p \in Processes, FanOut(p)
  PROVE  FeedInv' /\ (WholeInv => WholeInv')
<1>0. PICK y \in Emitting : y = emitter[p] /\ Numbers /\ y.stage = "fan out" /\ Emits(y)
  BY DEF FeedInv, Numbers, LogTypes, EmittersWell, FanOut
<1>1. PICK x \in Emitting : x = [y EXCEPT !.stage = "relay"] /\ x.stage = "relay" /\ x.event = y.event
  <2>. DEFINE z == [y EXCEPT !.stage = "relay"]
  <2>1. z \in Emitting /\ z.stage = "relay" /\ z.event = y.event
    BY <1>0, GoesOn DEF Publishing
  <2>. QED  BY <2>1
<1>2. emitter' = [emitter EXCEPT ![p] = x] /\ counter' = counter /\ emitted' = emitted
      /\ over' = over /\ rows' = rows /\ channel' = channel /\ watchers' = watchers
      /\ shown' = shown /\ fragments' = fragments /\ drops' = drops
  BY <1>0, <1>1 DEF FanOut
<1>3. Emits(x)'
  <2>1. Written(x.event) /\ (Lasting(x.event) =>
          x.event.id = emitted /\ x.event.seq = emitted /\ emitted > 0)
    BY <1>0, <1>1 DEF Emits, Publishing
  <2>2. Written(x.event)'
    BY <1>2, <2>1 DEF Written, Lasting
  <2>. QED  BY <1>1, <1>2, <2>1, <2>2 DEF Emits, Lasting
<1>4. emitted > 0 /\ emitted \in Nat
  <2>1. emitted \in Nat
    BY <1>0 DEF Numbers, LogTypes
  <2>2. emitted # 0
    <3>. SUFFICES ASSUME emitted = 0 PROVE FALSE
      OBVIOUS
    <3>0. /\ emitter[Gateway].stage # "idle" => emitted = 1
          /\ \A w \in Workers : emitter[w].stage = "idle"
      BY <1>0 DEF Numbers, EmittersWell
    <3>1. emitter[Gateway].stage = "idle" /\ \A w \in Workers : emitter[w].stage = "idle"
      BY <3>0
    <3>2. p \in Workers \/ p = Gateway
      BY DEF Processes
    <3>. QED  BY <1>0, <3>1, <3>2
  <2>. QED  BY <2>1, <2>2
<1>5. (p \in Workers => emitter[Gateway].stage = "idle") /\ (p = Gateway => Lasting(x.event))
  BY <1>0, <1>1 DEF Numbers, EmittersWell
<1>6. /\ emitter' \in [Processes -> Emitting] /\ emitter'[p] = x
      /\ \A q \in Processes \ {p} : emitter'[q] = emitter[q]
      /\ EmittersWell'
  <2>1. x.stage # "ending" /\ emitter[p].stage # "idle"
    BY <1>0, <1>1
  <2>. QED  BY <1>0, <1>2, <1>3, <1>4, <1>5, <2>1, EmitterMoves
<1>7. RowsWell' /\ EndsWell'
  BY <1>0, <1>1, <1>2, <1>6, RowsStay, EndsStay DEF Processes
<1>8. Out => Out'
  <2>1. \A q \in Processes : emitter[q].stage \in Publishing /\ Lasting(emitter[q].event) =>
          emitter'[q].stage \in Publishing /\ Lasting(emitter'[q].event)
    BY <1>0, <1>1, <1>6 DEF Publishing
  <2>. QED  BY <2>1 DEF Out, Lasting
<1>9. CASE p # Gateway
  <2>1. client' = client /\ missed' = missed
    BY <1>9 DEF FanOut
  <2>2. Numbers'
    BY <1>0, <1>2, <1>6, <1>7, <2>1 DEF Numbers, LogTypes
  <2>. QED  BY <1>2, <1>8, <2>1, <2>2, FeedsStay, NothingLostYet DEF FeedInv
<1>10. CASE p = Gateway
  <2>. DEFINE e == y.event
  <2>1. Deliver(e) /\ e \in Event /\ Written(e)
    BY <1>0, <1>10 DEF FanOut, Emitting, Emits
  <2>2. e.id = 1 /\ emitted = 1
    BY <1>0, <1>10 DEF Numbers, EmittersWell, Emits, Publishing
  <2>. HIDE DEF e
  <2>3. \A r \in rows : r.id = 1
    <3>1. \A r \in rows : r.id \in 1..1
      BY <1>0, <2>2 DEF Numbers, RowsWell
    <3>. QED  BY <3>1
  <2>4. ASSUME NEW c \in watchers, NEW i \in 1..Len(client[c].queue),
               Lasting(client[c].queue[i]), Lasting(e)
        PROVE  client[c].queue[i].id <= e.id
    <3>1. c \in Clients /\ Serves(c, client[c], shown[c])
      BY <1>0 DEF FeedInv, Numbers, LogTypes
    <3>2. client[c].queue[i] \in rows
      BY <2>4, <3>1 DEF Serves, Written
    <3>. QED  BY <2>2, <2>3, <3>2
  <2>5. \A j \in 1..Len(channel) : Lasting(channel[j]) => channel[j].id = 1
    BY <2>3 DEF FeedInv, ChannelWell, Written
  <2>6. /\ channel' \in Seq(Event)
        /\ \A j \in 1..Len(channel') : \E m \in 1..Len(channel) : channel'[j] = channel[m]
        /\ \A j \in 1..Len(channel') :
             Lasting(e) /\ Lasting(channel'[j]) => e.id <= channel'[j].id
    <3>1. channel' = channel /\ channel \in Seq(Event)
      BY <1>0, <1>2 DEF Numbers, LogTypes
    <3>2. \A j \in 1..Len(channel) : Lasting(channel[j]) => e.id <= channel[j].id
      BY <2>2, <2>5
    <3>. QED  BY <3>1, <3>2
  <2>7. /\ client' \in [Clients -> Socket] /\ missed' \subseteq Clients
        /\ \A c \in Clients : Serves(c, client[c], shown[c])'
    BY <1>2, <2>1, <2>4, <2>6, Delivers
  <2>8. ChannelWell'
    BY <1>2 DEF FeedInv, ChannelWell, Sorted, Written, Lasting
  <2>9. Numbers'
    BY <1>0, <1>2, <1>6, <1>7, <2>7 DEF Numbers, LogTypes
  <2>10. ASSUME WholeInv PROVE WholeInv'
    <3>1. \A k : Holds(channel, k) => Holds(channel, k)'
      BY <1>2 DEF Holds, Lasting
    <3>2. watchers' = watchers /\ shown' = shown /\ emitted' = emitted
      BY <1>2
    <3>. QED  BY <1>8, <2>1, <2>4, <2>10, <3>1, <3>2, DeliversWhole
  <2>. QED  BY <2>7, <2>8, <2>9, <2>10 DEF FeedInv
<1>. QED  BY <1>9, <1>10

LEMMA Listens ==
  ASSUME FeedInv, Listen
  PROVE  FeedInv' /\ (WholeInv => WholeInv')
<1>. DEFINE e == Head(channel)
<1>0. Numbers /\ channel \in Seq(Event) /\ channel # <<>>
  BY DEF FeedInv, Numbers, LogTypes, Listen
<1>1. over' = over /\ rows' = rows /\ counter' = counter /\ emitter' = emitter
      /\ watchers' = watchers /\ shown' = shown /\ emitted' = emitted
      /\ fragments' = fragments /\ drops' = drops /\ channel' = Tail(channel) /\ Deliver(e)
  BY DEF Listen
<1>2. /\ e \in Event /\ channel' \in Seq(Event) /\ Len(channel') = Len(channel) - 1
      /\ \A i \in 1..Len(channel') : channel'[i] = channel[i + 1]
      /\ Len(channel) \in Nat /\ Len(channel) > 0 /\ e = channel[1]
  BY <1>0, <1>1, HeadTailProperties, EmptySeq, LenProperties
<1>. HIDE DEF e
<1>3. 1 \in 1..Len(channel) /\ Len(channel') \in Nat
      /\ \A i \in 1..Len(channel') : i + 1 \in 1..Len(channel) /\ 1 < i + 1
  BY <1>2
<1>4. Written(e)
  BY <1>2, <1>3 DEF FeedInv, ChannelWell
<1>5. \A j \in 1..Len(channel') : \E m \in 1..Len(channel) : channel'[j] = channel[m]
  BY <1>2, <1>3
<1>6. \A j \in 1..Len(channel') : Lasting(e) /\ Lasting(channel'[j]) => e.id <= channel'[j].id
  BY <1>2, <1>3 DEF FeedInv, ChannelWell, Sorted
<1>7. \A c \in watchers : \A i \in 1..Len(client[c].queue) :
        Lasting(client[c].queue[i]) /\ Lasting(e) => client[c].queue[i].id <= e.id
  <2>1. \A c \in watchers : Serves(c, client[c], shown[c])
    BY <1>0 DEF FeedInv, Numbers, LogTypes
  <2>. QED  BY <1>2, <1>3, <2>1 DEF Serves
<1>8. /\ client' \in [Clients -> Socket] /\ missed' \subseteq Clients
      /\ \A c \in Clients : Serves(c, client[c], shown[c])'
  BY <1>1, <1>2, <1>4, <1>5, <1>6, <1>7, Delivers
<1>9. ChannelWell'
  <2>1. (\A i \in 1..Len(channel) : Written(channel[i]))'
    <3>1. \A i \in 1..Len(channel') : Written(channel[i + 1])
      BY <1>3 DEF FeedInv, ChannelWell
    <3>. QED  BY <1>1, <1>2, <3>1 DEF Written, Lasting
  <2>. SUFFICES ASSUME NEW i \in 1..Len(channel'), NEW j \in 1..Len(channel'), i < j,
                       Lasting(channel'[i]), Lasting(channel'[j])
                PROVE  channel'[i].id <= channel'[j].id
    BY <2>1 DEF ChannelWell, Sorted, Lasting
  <2>2. channel'[i].id <= channel'[j].id
    <3>1. i + 1 < j + 1
      BY <1>3
    <3>. QED  BY <1>2, <1>3, <3>1 DEF FeedInv, ChannelWell, Sorted
  <2>. QED  BY <2>2
<1>10. Numbers'
  BY <1>0, <1>1, <1>2, <1>8
     DEF Numbers, LogTypes, EmittersWell, Emits, RowsWell, EndsWell, Written, Lasting
<1>11. ASSUME WholeInv PROVE WholeInv'
  <2>1. ASSUME NEW k, Holds(channel, k)
        PROVE  Holds(channel, k)' \/ (Lasting(e) /\ k = e.id)
    <3>1. PICK i \in 1..Len(channel) : Lasting(channel[i]) /\ channel[i].id = k
      BY <2>1 DEF Holds
    <3>2. CASE i = 1
      BY <1>2, <3>1, <3>2
    <3>3. CASE i # 1
      <4>1. i - 1 \in 1..Len(channel') /\ channel'[i - 1] = channel[i]
        BY <1>2, <1>3, <3>3
      <4>. QED  BY <3>1, <4>1 DEF Holds, Lasting
    <3>. QED  BY <3>2, <3>3
  <2>2. Out => Out'
    BY <1>1 DEF Out, Lasting
  <2>. QED  BY <1>1, <1>2, <1>4, <1>7, <1>11, <2>1, <2>2, DeliversWhole
<1>. QED  BY <1>8, <1>9, <1>10, <1>11 DEF FeedInv

\* A message that is taken by the relay comes after those that it has.
LEMMA GoesIntoTheChannel ==
  ASSUME FeedInv, NEW e \in Event, Written(e), Lasting(e) => e.id = emitted,
         channel' = Append(channel, e), UNCHANGED <<rows, watchers, client, shown>>
  PROVE  /\ channel' \in Seq(Event) /\ ChannelWell'
         /\ \A c \in Clients : Serves(c, client[c], shown[c])'
         /\ \A k : Holds(channel, k) => Holds(channel, k)'
         /\ Lasting(e) => Holds(channel, e.id)'
<1>0. rows' = rows /\ watchers' = watchers /\ client' = client /\ shown' = shown
      /\ channel \in Seq(Event) /\ Len(channel) \in Nat
      /\ emitted \in Nat /\ rows \subseteq Event
  BY LenProperties DEF FeedInv, Numbers, LogTypes
<1>1. /\ channel' \in Seq(Event) /\ Len(channel') = Len(channel) + 1
      /\ \A i \in 1..Len(channel) : channel'[i] = channel[i]
      /\ channel'[Len(channel) + 1] = e
  BY <1>0, AppendProperties
<1>2. \A i \in 1..Len(channel') : channel'[i] = e \/ (i \in 1..Len(channel) /\ channel'[i] = channel[i])
  BY <1>0, <1>1
<1>3. \A r \in rows : r.id \in Nat /\ r.id <= emitted
  BY <1>0 DEF FeedInv, Numbers, RowsWell, Event
<1>4. \A i \in 1..Len(channel) : Lasting(channel[i]) /\ Lasting(e) => channel[i].id <= e.id
  BY <1>3 DEF FeedInv, ChannelWell, Written
<1>5. ChannelWell'
  <2>1. (\A i \in 1..Len(channel) : Written(channel[i]))'
    <3>1. \A i \in 1..Len(channel) : Written(channel[i])
      BY DEF FeedInv, ChannelWell
    <3>. QED  BY <1>0, <1>2, <3>1 DEF Written, Lasting
  <2>. SUFFICES ASSUME NEW i \in 1..Len(channel'), NEW j \in 1..Len(channel'), i < j,
                       Lasting(channel'[i]), Lasting(channel'[j])
                PROVE  channel'[i].id <= channel'[j].id
    BY <2>1 DEF ChannelWell, Sorted, Lasting
  <2>2. i \in 1..Len(channel) /\ channel'[i] = channel[i]
    BY <1>0, <1>1
  <2>3. CASE j \in 1..Len(channel)
    <3>1. channel'[j] = channel[j]
      BY <1>1, <2>3
    <3>. QED  BY <2>2, <2>3, <3>1 DEF FeedInv, ChannelWell, Sorted
  <2>4. CASE j \notin 1..Len(channel)
    <3>1. channel'[j] = e
      BY <1>2, <2>4
    <3>. QED  BY <1>4, <2>2, <3>1
  <2>. QED  BY <2>3, <2>4
<1>6. ASSUME NEW c \in Clients
      PROVE  Serves(c, client[c], shown[c])'
  <2>1. PICK d : d = client[c]
    OBVIOUS
  <2>2. PICK s : s = shown[c]
    OBVIOUS
  <2>3. Serves(c, d, s)
    BY <2>1, <2>2 DEF FeedInv
  <2>4. ASSUME NEW i \in 1..Len(d.queue), NEW j \in 1..Len(channel'), c \in watchers,
               Lasting(d.queue[i]), Lasting(channel'[j])
        PROVE  d.queue[i].id <= channel'[j].id
    <3>1. CASE channel'[j] = e
      <4>1. d.queue[i] \in rows
        BY <2>3, <2>4 DEF Serves, Written
      <4>. QED  BY <1>3, <2>4, <3>1, <4>1
    <3>2. CASE j \in 1..Len(channel) /\ channel'[j] = channel[j]
      BY <2>3, <2>4, <3>2 DEF Serves
    <3>. QED  BY <1>2, <3>1, <3>2
  <2>5. /\ c \in watchers <=> d.stage \in Watching
        /\ d.stage \in {"away", "opened"} => d.queue = <<>>
        /\ d.stage \in {"away", "opened", "subscribed"} => s = <<>> /\ d.last = 0
        /\ Len(d.queue) <= Buffer
        /\ c \in watchers => Sorted(d.queue)
        /\ \A i, j \in 1..Len(s) : i < j /\ Lasting(s[i]) /\ Lasting(s[j]) => s[i].id < s[j].id
    BY <2>3 DEF Serves
  <2>6. /\ \A i \in 1..Len(d.queue) : Written(d.queue[i])'
        /\ \A i \in 1..Len(s) : Written(s[i])' /\ (Lasting(s[i]) => s[i].id <= d.last)
    BY <1>0, <2>3 DEF Serves, Written, Lasting
  <2>7. Serves(c, d, s)'
    BY <1>0, <2>4, <2>5, <2>6 DEF Serves, Sorted, Lasting
  <2>. QED  BY <1>0, <2>1, <2>2, <2>7
<1>7. \A k : Holds(channel, k) => Holds(channel, k)'
  <2>1. \A i \in 1..Len(channel) : i \in 1..Len(channel')
    BY <1>0, <1>1
  <2>. QED  BY <1>1, <2>1 DEF Holds, Lasting
<1>8. Lasting(e) => Holds(channel, e.id)'
  <2>1. Len(channel) + 1 \in 1..Len(channel')
    BY <1>0, <1>1
  <2>. QED  BY <1>1, <2>1 DEF Holds, Lasting
<1>. QED  BY <1>1, <1>5, <1>6, <1>7, <1>8

LEMMA Relays ==
  ASSUME FeedInv, OneWorker, NEW p \in Processes, Relay(p)
  PROVE  FeedInv' /\ (WholeInv => WholeInv')
<1>0. PICK y \in Emitting : y = emitter[p] /\ Numbers /\ y.stage = "relay" /\ Emits(y)
  BY DEF FeedInv, Numbers, LogTypes, EmittersWell, Relay
<1>. DEFINE e == y.event
<1>1. e \in Event /\ Written(e) /\ (Lasting(e) => e.id = emitted)
  BY <1>0 DEF Emitting, Emits, Publishing
<1>. HIDE DEF e
<1>2. over' = over /\ rows' = rows /\ watchers' = watchers /\ client' = client
      /\ shown' = shown /\ emitted' = emitted /\ fragments' = fragments
      /\ emitter' = [emitter EXCEPT ![p] = Silent]
      /\ (counter' = counter \/ counter' = [counter EXCEPT ![p] = None])
  BY DEF Relay
<1>3. Silent \in Emitting /\ Silent.stage = "idle"
  BY DEF Silent, Emitting, Event, Kinds
<1>4. Emits(Silent)'
  BY <1>3 DEF Emits, Publishing
<1>5. emitted # 0
  <2>. SUFFICES ASSUME emitted = 0 PROVE FALSE
    OBVIOUS
  <2>1. /\ emitter[Gateway].stage # "idle" => emitted = 1
        /\ \A w \in Workers : emitter[w].stage = "idle"
    BY <1>0 DEF Numbers, EmittersWell
  <2>2. p \in Workers \/ p = Gateway
    BY DEF Processes
  <2>. QED  BY <1>0, <2>1, <2>2
<1>6. emitted \in Nat /\ emitted > 0
  BY <1>0, <1>5 DEF Numbers, LogTypes
<1>7. p \in Workers => emitter[Gateway].stage = "idle"
  BY <1>0 DEF Numbers, EmittersWell
<1>8. /\ counter' \in [Processes -> Nat \cup {None}]
      /\ emitter' \in [Processes -> Emitting] /\ emitter'[p] = Silent
      /\ \A q \in Processes \ {p} : emitter'[q] = emitter[q]
      /\ EmittersWell'
  BY <1>0, <1>2, <1>3, <1>4, <1>6, <1>7, EmitterMoves
<1>9. RowsWell' /\ EndsWell'
  <2>1. emitter[p].stage # "persist" /\ emitter'[p].stage # "persist"
        /\ emitter'[p].stage # "ending"
    BY <1>0, <1>3, <1>8
  <2>. QED  BY <1>0, <1>2, <1>8, <2>1, RowsStay, EndsStay DEF Processes
<1>10. ASSUME Out
       PROVE  Out' \/ (Lasting(e) /\ e.id = emitted)
  <2>1. PICK q \in Processes : emitter[q].stage \in Publishing /\ Lasting(emitter[q].event)
    BY <1>10 DEF Out
  <2>2. CASE q = p
    BY <1>0, <1>1, <2>1, <2>2 DEF e
  <2>3. CASE q # p
    BY <1>8, <2>1, <2>3 DEF Out, Lasting
  <2>. QED  BY <2>2, <2>3
<1>11. CASE channel' = Append(channel, e) /\ drops' = drops /\ missed' = missed
  <2>1. /\ channel' \in Seq(Event) /\ ChannelWell'
        /\ \A c \in Clients : Serves(c, client[c], shown[c])'
        /\ \A k : Holds(channel, k) => Holds(channel, k)'
        /\ Lasting(e) => Holds(channel, e.id)'
    BY <1>1, <1>2, <1>11, GoesIntoTheChannel
  <2>2. Numbers'
    BY <1>0, <1>2, <1>8, <1>9, <1>11, <2>1 DEF Numbers, LogTypes
  <2>3. ASSUME WholeInv PROVE WholeInv'
    <3>. SUFFICES ASSUME NEW c \in Clients \ missed'
         PROVE  LosesNothing(client[c], shown[c])'
      BY DEF WholeInv
    <3>1. PICK d : d = client[c]
      OBVIOUS
    <3>2. PICK s : s = shown[c]
      OBVIOUS
    <3>3. LosesNothing(d, s)
      BY <1>11, <2>3, <3>1, <3>2 DEF WholeInv
    <3>4. \A k \in 1..d.last : Holds(s, k)'
      BY <3>3 DEF LosesNothing, Holds, Lasting
    <3>5. ASSUME d.stage = "tailing", NEW k \in 1..emitted
          PROVE  k <= d.last \/ Holds(d.queue, k) \/ Holds(channel, k)' \/ (k = emitted /\ Out')
      BY <1>10, <2>1, <3>3, <3>5 DEF LosesNothing
    <3>6. LosesNothing(d, s)'
      BY <1>2, <3>4, <3>5 DEF LosesNothing, Holds, Lasting
    <3>. QED  BY <1>2, <3>1, <3>2, <3>6
  <2>. QED  BY <2>1, <2>2, <2>3 DEF FeedInv
<1>12. CASE drops' = drops + 1 /\ missed' = missed \cup watchers /\ channel' = channel
  <2>1. rows \subseteq rows'
    BY <1>2
  <2>2. ChannelWell' /\ \A c \in Clients : Serves(c, client[c], shown[c])'
    BY <1>2, <1>12, <2>1, FeedsStay
  <2>3. Numbers'
    BY <1>0, <1>2, <1>8, <1>9, <1>12 DEF Numbers, LogTypes
  <2>4. ASSUME WholeInv PROVE WholeInv'
    <3>. SUFFICES ASSUME NEW c \in Clients \ missed'
         PROVE  LosesNothing(client[c], shown[c])'
      BY DEF WholeInv
    <3>1. PICK d : d = client[c]
      OBVIOUS
    <3>2. PICK s : s = shown[c]
      OBVIOUS
    <3>3. LosesNothing(d, s) /\ c \notin watchers
      BY <1>12, <2>4, <3>1, <3>2 DEF WholeInv
    <3>4. d.stage # "tailing"
      BY <3>1, <3>3 DEF FeedInv, Serves, Watching
    <3>5. LosesNothing(d, s)'
      BY <3>3, <3>4 DEF LosesNothing, Holds, Lasting
    <3>. QED  BY <1>2, <3>1, <3>2, <3>5
  <2>. QED  BY <2>2, <2>3, <2>4 DEF FeedInv
<1>. QED
  <2>1. \/ channel' = Append(channel, e) /\ drops' = drops /\ missed' = missed
        \/ drops' = drops + 1 /\ missed' = missed \cup watchers /\ channel' = channel
    BY <1>0 DEF Relay, e
  <2>. QED  BY <1>11, <1>12, <2>1

-----------------------------------------------------------------------------
(* A browser's socket. *)

LEMMA OneSocket ==
  ASSUME FeedInv, NEW c \in Clients, NEW d \in Socket, NEW s \in Seq(Event),
         client' = [client EXCEPT ![c] = d], shown' = [shown EXCEPT ![c] = s],
         watchers' \in {watchers, watchers \cup {c}, watchers \ {c}},
         UNCHANGED <<over, rows, counter, emitter, channel, emitted, fragments, drops, missed>>,
         Serves(c, d, s)'
  PROVE  /\ FeedInv'
         /\ WholeInv /\ (c \notin missed => LosesNothing(d, s)) => WholeInv'
<1>0. over' = over /\ rows' = rows /\ counter' = counter /\ emitter' = emitter
      /\ channel' = channel /\ emitted' = emitted /\ fragments' = fragments
      /\ drops' = drops /\ missed' = missed
  OBVIOUS
<1>1. Numbers /\ client \in [Clients -> Socket] /\ shown \in [Clients -> Seq(Event)]
      /\ watchers \subseteq Clients
  BY DEF FeedInv, Numbers, LogTypes
<1>2. /\ client' \in [Clients -> Socket] /\ shown' \in [Clients -> Seq(Event)]
      /\ watchers' \subseteq Clients
      /\ client'[c] = d /\ shown'[c] = s
      /\ \A u \in Clients \ {c} :
           client'[u] = client[u] /\ shown'[u] = shown[u] /\ (u \in watchers') = (u \in watchers)
  BY <1>1
<1>3. Numbers'
  <2>1. LogTypes'
    BY <1>0, <1>1, <1>2 DEF Numbers, LogTypes
  <2>2. EmittersWell'
    BY <1>0, <1>1 DEF Numbers, EmittersWell, Emits, Written, Lasting
  <2>3. RowsWell' /\ EndsWell'
    BY <1>0, <1>1 DEF Numbers, RowsWell, EndsWell, Lasting
  <2>. QED  BY <2>1, <2>2, <2>3 DEF Numbers
<1>4. ChannelWell'
  BY <1>0 DEF FeedInv, ChannelWell, Sorted, Written, Lasting
<1>5. ASSUME NEW u \in Clients \ {c}
      PROVE  Serves(u, client[u], shown[u])'
  <2>1. PICK x : x = client[u]
    OBVIOUS
  <2>2. PICK z : z = shown[u]
    OBVIOUS
  <2>3. Serves(u, x, z)
    BY <2>1, <2>2 DEF FeedInv
  <2>4. Serves(u, x, z)'
    BY <1>0, <1>2, <2>3, Stays
  <2>. QED  BY <1>2, <2>1, <2>2, <2>4
<1>6. FeedInv'
  BY <1>2, <1>3, <1>4, <1>5 DEF FeedInv
<1>7. ASSUME WholeInv, c \notin missed => LosesNothing(d, s)
      PROVE  WholeInv'
  <2>0. Out' = Out /\ \A k : Holds(channel, k)' = Holds(channel, k)
    BY <1>0 DEF Out, Holds, Lasting
  <2>. SUFFICES ASSUME NEW u \in Clients \ missed'
       PROVE  LosesNothing(client[u], shown[u])'
    BY DEF WholeInv
  <2>1. PICK x : x = client'[u]
    OBVIOUS
  <2>2. PICK z : z = shown'[u]
    OBVIOUS
  <2>3. LosesNothing(x, z)
    BY <1>0, <1>2, <1>7, <2>1, <2>2 DEF WholeInv
  <2>4. LosesNothing(x, z)'
    BY <1>0, <2>0, <2>3 DEF LosesNothing, Holds, Lasting
  <2>. QED  BY <2>1, <2>2, <2>4
<1>. QED  BY <1>6, <1>7

\* What is shown of a socket: its record, its feed, and what they satisfy.
LEMMA SocketOf ==
  ASSUME FeedInv, NEW c \in Clients
  PROVE  /\ client[c] \in Socket /\ shown[c] \in Seq(Event)
         /\ Serves(c, client[c], shown[c])
         /\ WholeInv /\ c \notin missed => LosesNothing(client[c], shown[c])
BY DEF FeedInv, WholeInv, Numbers, LogTypes

LEMMA Opens ==
  ASSUME FeedInv, NEW c \in Clients, Open(c)
  PROVE  FeedInv' /\ (WholeInv => WholeInv')
<1>1. PICK o \in Socket : o = client[c]
  BY SocketOf
<1>2. PICK s \in Seq(Event) : s = shown[c]
  BY SocketOf
<1>3. o.stage = "away" /\ Serves(c, o, s) /\ over \in BOOLEAN
  BY <1>1, <1>2, SocketOf DEF Open, FeedInv, Numbers, LogTypes
<1>. DEFINE r == [o EXCEPT !.stage = "opened", !.over = over]
<1>4. r \in Socket /\ r.stage = "opened" /\ r.queue = o.queue /\ r.last = o.last
  BY <1>3 DEF Socket
<1>5. client' = [client EXCEPT ![c] = r]
  BY <1>1 DEF Open
<1>6. PICK d \in Socket : d = r
  BY <1>4
<1>7. d.stage = "opened" /\ d.queue = o.queue /\ d.last = o.last
  BY <1>4, <1>6
<1>8. client' = [client EXCEPT ![c] = d]
  BY <1>5, <1>6
<1>. HIDE DEF r
<1>9. watchers' = watchers /\ rows' = rows /\ channel' = channel /\ shown' = shown
  BY DEF Open
<1>10. Serves(c, d, s)'
  BY <1>3, <1>7, <1>9 DEF Serves, Written, Sorted, Lasting, Watching
<1>11. WholeInv /\ c \notin missed => LosesNothing(d, s)
  BY <1>1, <1>2, <1>7, SocketOf DEF LosesNothing
<1>12. shown' = [shown EXCEPT ![c] = s]
  BY <1>2, <1>9 DEF FeedInv, Numbers, LogTypes
<1>13. UNCHANGED <<over, rows, counter, emitter, channel, emitted, fragments, drops, missed>>
  BY DEF Open
<1>. QED  BY <1>8, <1>9, <1>10, <1>11, <1>12, <1>13, OneSocket

LEMMA Subscribes ==
  ASSUME FeedInv, NEW c \in Clients, Subscribe(c)
  PROVE  FeedInv' /\ (WholeInv => WholeInv')
<1>1. PICK o \in Socket : o = client[c]
  BY SocketOf
<1>2. PICK s \in Seq(Event) : s = shown[c]
  BY SocketOf
<1>3. o.stage = "opened" /\ Serves(c, o, s)
  BY <1>1, <1>2, SocketOf DEF Subscribe
<1>4. PICK d \in Socket : d = [o EXCEPT !.stage = "subscribed"] /\ d.stage = "subscribed"
                          /\ d.queue = o.queue /\ d.last = o.last
  <2>. DEFINE r == [o EXCEPT !.stage = "subscribed"]
  <2>1. r \in Socket /\ r.stage = "subscribed" /\ r.queue = o.queue /\ r.last = o.last
    BY DEF Socket, Watching
  <2>. QED  BY <2>1
<1>5. client' = [client EXCEPT ![c] = d]
  BY <1>1, <1>4 DEF Subscribe
<1>6. watchers' = watchers \cup {c} /\ rows' = rows /\ channel' = channel /\ shown' = shown
  BY DEF Subscribe
<1>7. d.queue = <<>> /\ Len(d.queue) = 0 /\ s = <<>> /\ Len(s) = 0 /\ d.last = 0
  BY <1>3, <1>4, EmptySeq DEF Serves
<1>8. Serves(c, d, s)'
  <2>1. c \in watchers' /\ 0 <= Buffer
    BY <1>6, BoundsAssumption
  <2>. QED  BY <1>4, <1>7, <2>1 DEF Serves, Sorted, Watching
<1>9. WholeInv /\ c \notin missed => LosesNothing(d, s)
  BY <1>1, <1>2, <1>4, SocketOf DEF LosesNothing
<1>10. shown' = [shown EXCEPT ![c] = s]
  BY <1>2, <1>6 DEF FeedInv, Numbers, LogTypes
<1>11. UNCHANGED <<over, rows, counter, emitter, channel, emitted, fragments, drops, missed>>
  BY DEF Subscribe
<1>. QED  BY <1>5, <1>6, <1>8, <1>9, <1>10, <1>11, OneSocket

LEMMA Leaves ==
  ASSUME FeedInv, NEW c \in Clients, Leave(c)
  PROVE  FeedInv' /\ (WholeInv => WholeInv')
<1>1. PICK o \in Socket : o = client[c]
  BY SocketOf
<1>2. PICK s \in Seq(Event) : s = shown[c]
  BY SocketOf
<1>3. Serves(c, o, s)
  BY <1>1, <1>2, SocketOf
<1>4. PICK d \in Socket : d = [o EXCEPT !.stage = "gone"] /\ d.stage = "gone"
                          /\ d.queue = o.queue /\ d.last = o.last
  <2>. DEFINE r == [o EXCEPT !.stage = "gone"]
  <2>1. r \in Socket /\ r.stage = "gone" /\ r.queue = o.queue /\ r.last = o.last
    BY DEF Socket
  <2>. QED  BY <2>1
<1>5. client' = [client EXCEPT ![c] = d]
  BY <1>1, <1>4 DEF Leave
<1>6. watchers' = watchers \ {c} /\ rows' = rows /\ channel' = channel /\ shown' = shown
  BY DEF Leave
<1>7. c \notin watchers'
  BY <1>6
<1>8. Serves(c, d, s)'
  BY <1>3, <1>4, <1>6, <1>7 DEF Serves, Written, Lasting, Watching
<1>9. WholeInv /\ c \notin missed => LosesNothing(d, s)
  BY <1>1, <1>2, <1>4, SocketOf DEF LosesNothing
<1>10. shown' = [shown EXCEPT ![c] = s]
  BY <1>2, <1>6 DEF FeedInv, Numbers, LogTypes
<1>11. UNCHANGED <<over, rows, counter, emitter, channel, emitted, fragments, drops, missed>>
  BY DEF Leave
<1>. QED  BY <1>5, <1>6, <1>8, <1>9, <1>10, <1>11, OneSocket

LEMMA Replays ==
  ASSUME FeedInv, NEW c \in Clients, Replay(c)
  PROVE  FeedInv' /\ (WholeInv /\ ShortRuns => WholeInv')
<1>1. PICK o \in Socket : o = client[c]
  BY SocketOf
<1>2. PICK s \in Seq(Event) : s = History
  BY HistoryInOrder DEF FeedInv
<1>3. /\ \A i \in 1..Len(s) : s[i] \in rows /\ s[i].id = i
      /\ LastOf(s) = Len(s)
      /\ ShortRuns => \A r \in rows : r.id <= Len(s)
  BY <1>2, HistoryInOrder DEF FeedInv
<1>4. o.stage = "subscribed" /\ Serves(c, o, shown[c]) /\ Len(s) \in Nat
  BY <1>1, SocketOf, LenProperties DEF Replay
<1>. DEFINE stage == IF client[c].over THEN "closed" ELSE "tailing"
            m == Len(s)
            x == [o EXCEPT !.last = m, !.stage = stage]
<1>5. client' = [client EXCEPT ![c] = x]
  <2>1. client' = [client EXCEPT ![c].last = m, ![c].stage = stage]
    BY <1>2, <1>3 DEF Replay
  <2>2. client \in [Clients -> Socket]
    BY DEF FeedInv, Numbers, LogTypes
  <2>. HIDE DEF m, stage
  <2>. QED  BY <1>1, <2>1, <2>2
<1>6. stage \in {"closed", "tailing"} /\ m \in Nat
      /\ watchers' = IF stage = "closed" THEN watchers \ {c} ELSE watchers
  BY <1>4 DEF Replay
<1>. HIDE DEF stage, m
<1>7. x \in Socket /\ x.stage = stage /\ x.last = m /\ x.queue = o.queue
  BY <1>6 DEF Socket, Watching
<1>8. PICK d \in Socket : d = x
  BY <1>7
<1>9. d.stage = stage /\ d.last = m /\ d.queue = o.queue
  BY <1>7, <1>8
<1>. HIDE DEF x
<1>10. rows' = rows /\ channel' = channel /\ shown' = [shown EXCEPT ![c] = s]
  BY <1>2 DEF Replay
<1>11. c \in watchers /\ (c \in watchers' <=> stage = "tailing")
  BY <1>4, <1>6 DEF Serves, Watching
<1>12. /\ \A i \in 1..Len(s) : Written(s[i])' /\ (Lasting(s[i]) => s[i].id <= d.last)
       /\ \A i, j \in 1..Len(s) : i < j /\ Lasting(s[i]) /\ Lasting(s[j]) => s[i].id < s[j].id
  <2>1. \A i \in 1..Len(s) : i \in 1..m /\ i <= m
    BY <1>6 DEF m
  <2>. QED  BY <1>3, <1>9, <1>10, <2>1 DEF Written, Lasting
<1>13. Serves(c, d, s)'
  BY <1>4, <1>6, <1>9, <1>10, <1>11, <1>12 DEF Serves, Written, Sorted, Lasting, Watching
<1>14. ASSUME ShortRuns
       PROVE  LosesNothing(d, s)
  <2>1. \A k \in 1..d.last : Holds(s, k)
    <3>1. \A k \in 1..m : k \in 1..Len(s) /\ Lasting(s[k]) /\ s[k].id = k
      BY <1>3 DEF FeedInv, Numbers, RowsWell, m
    <3>. QED  BY <1>9, <3>1 DEF Holds, m
  <2>2. ASSUME NEW k \in 1..emitted
        PROVE  k <= d.last \/ (k = emitted /\ Out)
    <3>1. CASE \E r \in rows : r.id = k
      BY <1>3, <1>9, <1>14, <3>1 DEF m
    <3>2. CASE k = emitted /\ \E p \in Processes : emitter[p].stage = "persist"
      BY <3>2 DEF FeedInv, Numbers, EmittersWell, Emits, Out, Publishing
    <3>. QED  BY <3>1, <3>2 DEF FeedInv, Numbers, RowsWell
  <2>. QED  BY <2>1, <2>2 DEF LosesNothing
<1>15. UNCHANGED <<over, rows, counter, emitter, channel, emitted, fragments, drops, missed>>
  BY DEF Replay
<1>16. client' = [client EXCEPT ![c] = d] /\ watchers' \in {watchers, watchers \cup {c}, watchers \ {c}}
  BY <1>5, <1>6, <1>8
<1>. QED  BY <1>10, <1>13, <1>14, <1>15, <1>16, OneSocket

\* What taking the oldest message off a queue leaves.
LEMMA TakesTheOldest ==
  ASSUME FeedInv, NEW c \in Clients, client[c].queue # <<>>
  PROVE  LET q == client[c].queue
             r == Tail(q)
         IN  /\ Head(q) \in Event /\ Written(Head(q)) /\ r \in Seq(Event) /\ Len(r) <= Buffer
             /\ \A i \in 1..Len(r) : \E j \in 1..Len(q) : r[i] = q[j]
             /\ c \in watchers =>
                  /\ Sorted(r)
                  /\ \A i \in 1..Len(r) :
                       Lasting(Head(q)) /\ Lasting(r[i]) => Head(q).id <= r[i].id
                  /\ \A j \in 1..Len(channel) :
                       Lasting(Head(q)) /\ Lasting(channel[j]) => Head(q).id <= channel[j].id
             /\ \A k : Holds(q, k) => Holds(r, k) \/ (Lasting(Head(q)) /\ Head(q).id = k)
<1>1. PICK q \in Seq(Event) : q = client[c].queue
  BY SocketOf DEF Socket
<1>2. PICK r \in Seq(Event) : r = Tail(q)
  BY <1>1, HeadTailProperties
<1>3. /\ Head(q) \in Event /\ Len(r) = Len(q) - 1 /\ \A i \in 1..Len(r) : r[i] = q[i + 1]
      /\ Len(q) \in Nat /\ Len(q) > 0 /\ Head(q) = q[1]
  BY <1>1, <1>2, HeadTailProperties, EmptySeq, LenProperties
<1>4. 1 \in 1..Len(q) /\ \A i \in 1..Len(r) : i + 1 \in 1..Len(q) /\ 1 < i + 1
  BY <1>3
<1>5. /\ Len(q) <= Buffer
      /\ \A i \in 1..Len(q) : Written(q[i])
      /\ c \in watchers =>
           /\ Sorted(q)
           /\ \A i \in 1..Len(q), j \in 1..Len(channel) :
                Lasting(q[i]) /\ Lasting(channel[j]) => q[i].id <= channel[j].id
  BY <1>1, SocketOf DEF Serves
<1>6. Len(r) <= Buffer
  BY <1>3, <1>5, BoundsAssumption
<1>7. c \in watchers => Sorted(r)
  <2>1. \A i, j \in 1..Len(r) : i < j => i + 1 < j + 1
    BY <1>3
  <2>. QED  BY <1>3, <1>4, <1>5, <2>1 DEF Sorted
<1>8. c \in watchers => \A i \in 1..Len(r) :
        Lasting(Head(q)) /\ Lasting(r[i]) => Head(q).id <= r[i].id
  BY <1>3, <1>4, <1>5 DEF Sorted
<1>9. ASSUME NEW k, Holds(q, k)
      PROVE  Holds(r, k) \/ (Lasting(Head(q)) /\ Head(q).id = k)
  <2>1. PICK i \in 1..Len(q) : Lasting(q[i]) /\ q[i].id = k
    BY <1>9 DEF Holds
  <2>2. CASE i = 1
    BY <1>3, <2>1, <2>2
  <2>3. CASE i # 1
    <3>1. i - 1 \in 1..Len(r) /\ r[i - 1] = q[i]
      BY <1>3, <2>3
    <3>. QED  BY <2>1, <3>1 DEF Holds
  <2>. QED  BY <2>2, <2>3
<1>10. c \in watchers => \A j \in 1..Len(channel) :
        Lasting(Head(q)) /\ Lasting(channel[j]) => Head(q).id <= channel[j].id
  BY <1>3, <1>4, <1>5
<1>. QED  BY <1>1, <1>2, <1>3, <1>4, <1>5, <1>6, <1>7, <1>8, <1>9, <1>10

LEMMA Skips ==
  ASSUME FeedInv, NEW c \in Clients, Skip(c)
  PROVE  FeedInv' /\ (WholeInv => WholeInv')
<1>1. PICK o \in Socket : o = client[c]
  BY SocketOf
<1>2. PICK s \in Seq(Event) : s = shown[c]
  BY SocketOf
<1>3. o.stage = "tailing" /\ o.queue # <<>> /\ Serves(c, o, s) /\ ~ Fresh(c, Head(o.queue))
  BY <1>1, <1>2, SocketOf DEF Skip
<1>4. PICK e \in Event : e = Head(o.queue)
  BY <1>1, <1>3, TakesTheOldest
<1>5. PICK r \in Seq(Event) : r = Tail(o.queue)
  BY <1>1, <1>3, TakesTheOldest
<1>6. c \in watchers
  BY <1>3 DEF Serves, Watching
<1>7. /\ Len(r) <= Buffer /\ Sorted(r)
      /\ \A i \in 1..Len(r) : \E j \in 1..Len(o.queue) : r[i] = o.queue[j]
      /\ \A k : Holds(o.queue, k) => Holds(r, k) \/ (Lasting(e) /\ e.id = k)
      /\ Written(e)
  BY <1>1, <1>3, <1>4, <1>5, <1>6, TakesTheOldest
<1>8. PICK d \in Socket : d = [o EXCEPT !.queue = r] /\ d.stage = o.stage
                          /\ d.queue = r /\ d.last = o.last
  <2>. DEFINE x == [o EXCEPT !.queue = r]
  <2>1. x \in Socket /\ x.stage = o.stage /\ x.queue = r /\ x.last = o.last
    BY DEF Socket
  <2>. QED  BY <2>1
<1>9. client' = [client EXCEPT ![c] = d]
  BY <1>1, <1>5, <1>8 DEF Skip, Rest
<1>10. watchers' = watchers /\ rows' = rows /\ channel' = channel /\ shown' = shown
  BY DEF Skip
<1>11. Serves(c, d, s)'
  <2>1. \A i \in 1..Len(r) : Written(r[i])'
    BY <1>3, <1>7, <1>10 DEF Serves, Written, Lasting
  <2>2. \A i \in 1..Len(r), j \in 1..Len(channel) :
          Lasting(r[i]) /\ Lasting(channel[j]) => r[i].id <= channel[j].id
    BY <1>3, <1>6, <1>7 DEF Serves
  <2>3. (\A i \in 1..Len(s) : Written(s[i]))'
    BY <1>3, <1>10 DEF Serves, Written, Lasting
  <2>. QED  BY <1>3, <1>6, <1>7, <1>8, <1>10, <2>1, <2>2, <2>3 DEF Serves, Sorted, Lasting, Watching
<1>12. ASSUME WholeInv, c \notin missed
       PROVE  LosesNothing(d, s)
  <2>1. LosesNothing(o, s)
    BY <1>1, <1>2, <1>12, SocketOf
  <2>2. Lasting(e) => e.id <= o.last
    <3>1. Lasting(e) => e.seq = e.id /\ e.id \in Nat
      BY <1>7 DEF Written, FeedInv, Numbers, RowsWell, LogTypes
    <3>2. Lasting(e) => ~ (e.seq > o.last)
      BY <1>1, <1>3, <1>4 DEF Fresh, Lasting
    <3>. QED  BY <3>1, <3>2 DEF Socket
  <2>. QED  BY <1>3, <1>7, <1>8, <2>1, <2>2 DEF LosesNothing
<1>13. shown' = [shown EXCEPT ![c] = s]
  BY <1>2, <1>10 DEF FeedInv, Numbers, LogTypes
<1>14. UNCHANGED <<over, rows, counter, emitter, channel, emitted, fragments, drops, missed>>
  BY DEF Skip
<1>. QED  BY <1>9, <1>10, <1>11, <1>12, <1>13, <1>14, OneSocket

LEMMA Sends ==
  ASSUME FeedInv, NEW c \in Clients, Send(c)
  PROVE  FeedInv' /\ (WholeInv => WholeInv')
<1>1. PICK o \in Socket : o = client[c]
  BY SocketOf
<1>2. PICK s \in Seq(Event) : s = shown[c]
  BY SocketOf
<1>3. o.stage = "tailing" /\ o.queue # <<>> /\ Serves(c, o, s) /\ Fresh(c, Head(o.queue))
      /\ o.last \in Nat
  BY <1>1, <1>2, SocketOf DEF Send, Socket
<1>4. PICK e \in Event : e = Head(o.queue)
  BY <1>1, <1>3, TakesTheOldest
<1>5. PICK r \in Seq(Event) : r = Tail(o.queue)
  BY <1>1, <1>3, TakesTheOldest
<1>6. c \in watchers
  BY <1>3 DEF Serves, Watching
<1>7. /\ Len(r) <= Buffer /\ Sorted(r)
      /\ \A i \in 1..Len(r) : \E j \in 1..Len(o.queue) : r[i] = o.queue[j]
      /\ \A i \in 1..Len(r) : Lasting(e) /\ Lasting(r[i]) => e.id <= r[i].id
      /\ \A j \in 1..Len(channel) : Lasting(e) /\ Lasting(channel[j]) => e.id <= channel[j].id
      /\ \A k : Holds(o.queue, k) => Holds(r, k) \/ (Lasting(e) /\ e.id = k)
      /\ Written(e)
  <2>1. /\ Len(r) <= Buffer /\ Sorted(r) /\ Written(e)
        /\ \A i \in 1..Len(r) : \E j \in 1..Len(o.queue) : r[i] = o.queue[j]
    BY <1>1, <1>3, <1>4, <1>5, <1>6, TakesTheOldest
  <2>2. \A i \in 1..Len(r) : Lasting(e) /\ Lasting(r[i]) => e.id <= r[i].id
    BY <1>1, <1>3, <1>4, <1>5, <1>6, TakesTheOldest
  <2>3. \A j \in 1..Len(channel) : Lasting(e) /\ Lasting(channel[j]) => e.id <= channel[j].id
    BY <1>1, <1>3, <1>4, <1>5, <1>6, TakesTheOldest
  <2>4. \A k : Holds(o.queue, k) => Holds(r, k) \/ (Lasting(e) /\ e.id = k)
    BY <1>1, <1>3, <1>4, <1>5, <1>6, TakesTheOldest
  <2>. QED  BY <2>1, <2>2, <2>3, <2>4
<1>8. Lasting(e) => e \in rows /\ e.seq = e.id /\ e.id \in 1..emitted /\ e.seq > o.last
  BY <1>1, <1>3, <1>4, <1>7 DEF Written, FeedInv, Numbers, RowsWell, Fresh, Lasting
<1>. DEFINE mark == IF e.kind = "fragment" THEN o.last ELSE e.seq
            stage == IF Ends(e) THEN "closed" ELSE o.stage
            x == [[o EXCEPT !.queue = r] EXCEPT !.last = mark, !.stage = stage]
<1>9. client' = [client EXCEPT ![c] = x] /\ shown' = [shown EXCEPT ![c] = Append(s, e)]
  <2>1. Rest(c) = [o EXCEPT !.queue = r]
    BY <1>1, <1>5 DEF Rest
  <2>2. Head(client[c].queue) = e
    BY <1>1, <1>4
  <2>3. Rest(c).last = o.last /\ Rest(c).stage = o.stage
    BY <2>1 DEF Socket
  <2>. QED  BY <1>2, <2>1, <2>2, <2>3 DEF Send
<1>10. mark \in Nat /\ stage \in {"closed", "tailing"}
       /\ watchers' = (IF stage = "closed" THEN watchers \ {c} ELSE watchers)
       /\ (Lasting(e) => mark = e.id) /\ (~ Lasting(e) => mark = o.last) /\ o.last <= mark
  <2>1. mark \in Nat /\ (Lasting(e) => mark = e.id) /\ (~ Lasting(e) => mark = o.last)
        /\ o.last <= mark
    BY <1>3, <1>8 DEF Lasting, Event
  <2>2. stage \in {"closed", "tailing"}
        /\ watchers' = (IF stage = "closed" THEN watchers \ {c} ELSE watchers)
    BY <1>1, <1>3, <1>4 DEF Send
  <2>. QED  BY <2>1, <2>2
<1>. HIDE DEF mark, stage
<1>11. PICK d \in Socket : d = x /\ d.stage = stage /\ d.queue = r /\ d.last = mark
  <2>1. x \in Socket /\ x.stage = stage /\ x.queue = r /\ x.last = mark
    BY <1>10 DEF Socket, Watching
  <2>. HIDE DEF x
  <2>. QED  BY <2>1
<1>12. client' = [client EXCEPT ![c] = d]
  BY <1>9, <1>11
<1>. HIDE DEF x
<1>13. PICK z \in Seq(Event) : /\ z = Append(s, e) /\ Len(z) = Len(s) + 1 /\ z[Len(s) + 1] = e
                               /\ \A i \in 1..Len(s) : z[i] = s[i]
  <2>. DEFINE y == Append(s, e)
  <2>1. y \in Seq(Event) /\ Len(y) = Len(s) + 1 /\ y[Len(s) + 1] = e
        /\ \A i \in 1..Len(s) : y[i] = s[i]
    BY AppendProperties
  <2>. QED  BY <2>1
<1>14. shown' = [shown EXCEPT ![c] = z]
  BY <1>9, <1>13
<1>15. Len(s) \in Nat /\ (\A i \in 1..Len(z) : i \in 1..Len(s) \/ i = Len(s) + 1)
       /\ (\A i \in 1..Len(s) : i \in 1..Len(z)) /\ Len(s) + 1 \in 1..Len(z)
  BY <1>13, LenProperties
<1>16. rows' = rows /\ channel' = channel
  BY DEF Send
<1>17. \A i \in 1..Len(s) : Lasting(s[i]) => s[i].id \in Nat /\ s[i].id <= o.last
  BY <1>3 DEF Serves, Written, FeedInv, Numbers, LogTypes, Event
<1>18. /\ \A i \in 1..Len(z) : Written(z[i]) /\ (Lasting(z[i]) => z[i].id <= mark)
       /\ \A i, j \in 1..Len(z) : i < j /\ Lasting(z[i]) /\ Lasting(z[j]) => z[i].id < z[j].id
  <2>1. ASSUME NEW i \in 1..Len(z)
        PROVE  Written(z[i]) /\ (Lasting(z[i]) => z[i].id <= mark)
    <3>1. CASE i \in 1..Len(s)
      BY <1>3, <1>10, <1>13, <1>17, <3>1 DEF Serves
    <3>2. CASE i = Len(s) + 1
      BY <1>7, <1>8, <1>10, <1>13, <3>2
    <3>. QED  BY <1>15, <3>1, <3>2
  <2>2. ASSUME NEW i \in 1..Len(z), NEW j \in 1..Len(z), i < j, Lasting(z[i]), Lasting(z[j])
        PROVE  z[i].id < z[j].id
    <3>1. i \in 1..Len(s) /\ z[i] = s[i]
      BY <1>13, <1>15, <2>2
    <3>2. CASE j \in 1..Len(s)
      BY <1>3, <1>13, <2>2, <3>1, <3>2 DEF Serves
    <3>3. CASE j = Len(s) + 1
      BY <1>3, <1>8, <1>13, <1>17, <2>2, <3>1, <3>3
    <3>. QED  BY <1>15, <3>2, <3>3
  <2>. QED  BY <2>1, <2>2
<1>19. Serves(c, d, z)'
  <2>1. \A i \in 1..Len(r) : Written(r[i])'
    BY <1>3, <1>7, <1>16 DEF Serves, Written, Lasting
  <2>2. \A i \in 1..Len(r), j \in 1..Len(channel) :
          Lasting(r[i]) /\ Lasting(channel[j]) => r[i].id <= channel[j].id
    BY <1>3, <1>6, <1>7 DEF Serves
  <2>3. (\A i \in 1..Len(z) : Written(z[i]))'
    BY <1>16, <1>18 DEF Written, Lasting
  <2>4. c \in watchers' <=> stage \in Watching
    BY <1>6, <1>10 DEF Watching
  <2>. QED  BY <1>7, <1>10, <1>11, <1>16, <1>18, <2>1, <2>2, <2>3, <2>4
            DEF Serves, Sorted, Lasting
<1>20. ASSUME WholeInv, c \notin missed
       PROVE  LosesNothing(d, z)
  <2>1. LosesNothing(o, s)
    BY <1>1, <1>2, <1>20, SocketOf
  <2>2. \A k : Holds(s, k) => Holds(z, k)
    BY <1>13, <1>15 DEF Holds
  <2>3. Lasting(e) => Holds(z, e.id)
    BY <1>13, <1>15 DEF Holds
  <2>4. ASSUME Lasting(e), NEW k \in 1..emitted, k < e.id, k > o.last
        PROVE  FALSE
    <3>0. e.id \in Nat /\ e.id <= emitted /\ emitted \in Nat
      BY <1>8, <2>4 DEF FeedInv, Numbers, LogTypes, Event
    <3>1. Holds(r, k) \/ Holds(channel, k)
      BY <1>3, <1>7, <2>1, <2>4, <3>0 DEF LosesNothing
    <3>2. CASE Holds(r, k)
      <4>1. PICK i \in 1..Len(r) : Lasting(r[i]) /\ r[i].id = k
        BY <3>2 DEF Holds
      <4>. QED  BY <1>7, <2>4, <3>0, <4>1
    <3>3. CASE Holds(channel, k)
      <4>1. PICK i \in 1..Len(channel) : Lasting(channel[i]) /\ channel[i].id = k
        BY <3>3 DEF Holds
      <4>. QED  BY <1>7, <2>4, <3>0, <4>1
    <3>. QED  BY <3>1, <3>2, <3>3
  <2>5. ASSUME NEW k \in 1..mark
        PROVE  Holds(z, k)
    <3>1. CASE k <= o.last
      BY <1>3, <2>1, <2>2, <3>1 DEF LosesNothing
    <3>2. CASE k > o.last
      <4>1. Lasting(e) /\ mark = e.id
        BY <1>3, <1>10, <3>2
      <4>2. k \in 1..emitted /\ e.id \in Nat
        BY <1>8, <4>1 DEF FeedInv, Numbers, LogTypes, Event
      <4>3. ~ (k < e.id)
        BY <2>4, <3>2, <4>1, <4>2
      <4>. QED  BY <2>3, <4>1, <4>2, <4>3
    <3>. QED  BY <1>3, <3>1, <3>2
  <2>6. ASSUME NEW k \in 1..emitted
        PROVE  k <= mark \/ Holds(r, k) \/ Holds(channel, k) \/ (k = emitted /\ Out)
    <3>1. k <= o.last \/ Holds(o.queue, k) \/ Holds(channel, k) \/ (k = emitted /\ Out)
      BY <1>3, <2>1 DEF LosesNothing
    <3>2. k <= o.last => k <= mark
      BY <1>3, <1>10
    <3>3. Lasting(e) /\ e.id = k => k <= mark
      BY <1>10
    <3>. QED  BY <1>7, <3>1, <3>2, <3>3
  <2>. QED  BY <1>11, <2>5, <2>6 DEF LosesNothing
<1>21. UNCHANGED <<over, rows, counter, emitter, channel, emitted, fragments, drops, missed>>
  BY DEF Send
<1>22. watchers' \in {watchers, watchers \cup {c}, watchers \ {c}}
  BY <1>10
<1>. QED  BY <1>12, <1>14, <1>19, <1>20, <1>21, <1>22, OneSocket

-----------------------------------------------------------------------------
(* The theorems. *)

LEMMA FeedInvInit == Init => FeedInv /\ WholeInv
<1>. SUFFICES ASSUME Init PROVE FeedInv /\ WholeInv
  OBVIOUS
<1>1. /\ over = FALSE /\ rows = {} /\ channel = <<>> /\ watchers = {} /\ emitted = 0
      /\ fragments = 0 /\ drops = 0 /\ missed = {}
      /\ \A p \in Processes : emitter[p] = Silent /\ counter[p] = None
  BY DEF Init
<1>2. Silent \in Emitting /\ Silent.stage = "idle"
  BY DEF Silent, Emitting, Event, Kinds
<1>3. <<>> \in Seq(Event) /\ Len(<<>>) = 0
  BY EmptySeq
<1>4. PICK d \in Socket : /\ d = [stage |-> "away", over |-> FALSE, queue |-> <<>>, last |-> 0]
                          /\ d.stage = "away" /\ d.queue = <<>> /\ d.last = 0
  <2>. DEFINE q == <<>>
  <2>. HIDE DEF q
  <2>1. [stage |-> "away", over |-> FALSE, queue |-> q, last |-> 0] \in Socket
    BY <1>3 DEF Socket, q
  <2>. QED  BY <2>1 DEF q
<1>5. \A c \in Clients : client[c] = d /\ shown[c] = <<>>
  BY <1>4 DEF Init
<1>6. LogTypes
  <2>1. client = [c \in Clients |-> d] /\ shown = [c \in Clients |-> <<>>]
    BY <1>4 DEF Init
  <2>2. client \in [Clients -> Socket] /\ shown \in [Clients -> Seq(Event)]
    BY <1>3, <2>1
  <2>3. counter \in [Processes -> Nat \cup {None}] /\ emitter \in [Processes -> Emitting]
    BY <1>2 DEF Init
  <2>4. channel \in Seq(Event)
    BY <1>1, <1>3
  <2>. QED  BY <1>1, <2>2, <2>3, <2>4 DEF LogTypes
<1>7. EmittersWell
  <2>1. Emits(Silent)
    BY <1>2 DEF Emits, Publishing
  <2>2. Gateway \in Processes /\ Workers \subseteq Processes
    BY DEF Processes
  <2>. QED  BY <1>1, <1>2, <2>1, <2>2 DEF EmittersWell
<1>8. RowsWell
  BY <1>1, <1>2 DEF RowsWell
<1>9. EndsWell
  BY <1>1, <1>2, BoundsAssumption DEF EndsWell, Processes
<1>10. ChannelWell
  BY <1>1, <1>3 DEF ChannelWell, Sorted
<1>11. \A c \in Clients : Serves(c, d, <<>>)
  BY <1>1, <1>3, <1>4, BoundsAssumption DEF Serves, Watching
<1>12. LosesNothing(d, <<>>)
  BY <1>4 DEF LosesNothing
<1>. QED  BY <1>5, <1>6, <1>7, <1>8, <1>9, <1>10, <1>11, <1>12 DEF FeedInv, WholeInv, Numbers

LEMMA FeedInvStep ==
  ASSUME OneWorker, FeedInv, [Next]_vars
  PROVE  FeedInv' /\ (WholeInv /\ ShortRuns => WholeInv')
<1>1. CASE UNCHANGED vars
  <2>0. /\ over' = over /\ rows' = rows /\ counter' = counter /\ emitter' = emitter
        /\ channel' = channel /\ watchers' = watchers /\ client' = client /\ shown' = shown
        /\ emitted' = emitted /\ fragments' = fragments /\ drops' = drops /\ missed' = missed
    BY <1>1 DEF vars
  <2>1. LogTypes' /\ EmittersWell' /\ RowsWell' /\ EndsWell'
    BY <2>0 DEF FeedInv, Numbers, LogTypes, EmittersWell, Emits, RowsWell, EndsWell, Written, Lasting
  <2>2. ChannelWell' /\ \A c \in Clients : Serves(c, client[c], shown[c])'
    <3>1. rows \subseteq rows'
      BY <2>0
    <3>. QED  BY <2>0, <3>1, FeedsStay
  <2>3. Out => Out'
    BY <2>0 DEF Out, Lasting
  <2>. QED  BY <2>0, <2>1, <2>2, <2>3, NothingLostYet DEF FeedInv, Numbers
<1>2. ASSUME NEW w \in Workers, Log(w) \/ EndRun(w) \/ SayEnded(w) \/ Stream(w)
      PROVE  FeedInv' /\ (WholeInv => WholeInv')
  BY <1>2, Logs, EndsTheRun, SaysEnded, Streams
<1>3. ASSUME NEW p \in Processes, Emit(p)
      PROVE  FeedInv' /\ (WholeInv => WholeInv')
  BY <1>3, Persists, FansOut, Relays DEF Emit
<1>4. ASSUME NEW c \in Clients, Watch(c) \/ Leave(c)
      PROVE  FeedInv' /\ (WholeInv /\ ShortRuns => WholeInv')
  BY <1>4, Opens, Subscribes, Replays, Skips, Sends, Leaves DEF Watch
<1>. QED  BY <1>1, <1>2, <1>3, <1>4, Accepts, Listens DEF Next

\* The state of the log keeps its types; one worker and the gateway number a run without
\* a gap, whatever is lost on the way to the browsers.
THEOREM LogTypeCorrect ==
  ASSUME OneWorker
  PROVE  Spec => []FeedInv
<1>1. Init => FeedInv
  BY FeedInvInit
<1>2. FeedInv /\ [Next]_vars => FeedInv'
  BY FeedInvStep
<1>. QED  BY <1>1, <1>2, PTL DEF Spec

\* No event of a run is left out of the table by a number that is taken, however often
\* the worker forgets its counter and takes it up again.
THEOREM EveryEventIsKept ==
  ASSUME OneWorker
  PROVE  Spec => []EveryEventKept
<1>1. FeedInv => EveryEventKept
  <2>. SUFFICES ASSUME FeedInv, NEW i \in (1..emitted) \ Unwritten
       PROVE  \E r \in rows : r.id = i
    BY DEF EveryEventKept
  <2>1. ASSUME NEW p \in Processes, emitter[p].stage = "persist", i = emitted
        PROVE  FALSE
    <3>1. Emits(emitter[p])
      BY DEF FeedInv, Numbers, EmittersWell
    <3>2. emitter[p].event.id = emitted
      BY <2>1, <3>1 DEF Emits, Publishing
    <3>. QED  BY <2>1, <3>2 DEF Unwritten
  <2>. QED  BY <2>1 DEF FeedInv, Numbers, RowsWell
<1>. QED  BY <1>1, LogTypeCorrect, PTL

\* No browser is shown a lasting event twice, or after a later one, however the replay
\* and the tail overlap and whatever is dropped or said again by the relay.
THEOREM FeedsAreInOrder ==
  ASSUME OneWorker
  PROVE  Spec => []FeedInOrder
<1>1. FeedInv => FeedInOrder
  BY DEF FeedInv, Serves, FeedInOrder, DurableAt, Lasting
<1>. QED  BY <1>1, LogTypeCorrect, PTL

\* A browser for which nothing was dropped has been shown every row up to the last it was
\* shown, in a run that is shorter than what a replay reads.
THEOREM FeedsHaveNoGaps ==
  ASSUME OneWorker, ShortRuns
  PROVE  Spec => []FeedHasNoGaps
<1>. DEFINE I == FeedInv /\ WholeInv
<1>1. Init => I
  BY FeedInvInit
<1>2. I /\ [Next]_vars => I'
  BY FeedInvStep
<1>3. I => FeedHasNoGaps
  <2>. SUFFICES ASSUME I, NEW c \in Clients \ missed, NEW i \in DurableAt(c), NEW r \in rows,
                       r.seq <= shown[c][i].seq
       PROVE  \E j \in 1..i : shown[c][j] = r
    BY DEF FeedHasNoGaps
  <2>. DEFINE s == shown[c]
              d == client[c]
  <2>1. Serves(c, d, s) /\ LosesNothing(d, s) /\ i \in 1..Len(s) /\ Lasting(s[i])
        /\ Len(s) \in Nat /\ d.last \in Nat
    BY SocketOf, LenProperties DEF DurableAt, Lasting, Socket
  <2>. HIDE DEF s, d
  <2>2. \A q \in rows : q.seq = q.id /\ q.id \in Nat /\ q.id > 0 /\ Lasting(q)
    BY DEF FeedInv, Numbers, RowsWell, LogTypes, Event
  <2>3. \A j \in 1..Len(s) : Lasting(s[j]) => s[j] \in rows /\ s[j].id <= d.last
    BY <2>1 DEF Serves, Written
  <2>4. r.id <= s[i].id /\ r.id \in 1..d.last
    BY <2>1, <2>2, <2>3 DEF s
  <2>5. PICK j \in 1..Len(s) : Lasting(s[j]) /\ s[j].id = r.id
    BY <2>1, <2>4 DEF LosesNothing, Holds
  <2>6. s[j] = r
    BY <2>3, <2>5 DEF FeedInv, Numbers, RowsWell
  <2>7. ~ (i < j)
    BY <2>1, <2>2, <2>3, <2>4, <2>5 DEF Serves
  <2>8. j \in 1..i
    BY <2>1, <2>7
  <2>. QED  BY <2>6, <2>8 DEF s
<1>. QED  BY <1>1, <1>2, <1>3, PTL DEF Spec

=============================================================================
