------------------------ MODULE StateStreams_proofs ------------------------
(***************************************************************************)
(* The safety of a device's durable streams, for any number of clients,    *)
(* retry tasks, spawned passes and connections, when a removed device is   *)
(* added again only after the passes of its former life (ReaddEarly is     *)
(* FALSE: with it two passes arm the same streams).                        *)
(*                                                                         *)
(* The argument is mutual exclusion: a task that opens a session heads the *)
(* lock's queue (Queued), so the streams it is still to arm are not armed  *)
(* by another one (Clear), so a stream is fed once and refers once to the  *)
(* session (Fed, Counted).  The former lock has tasks in it only while no  *)
(* stream is open (Homed).  That no stream is forgotten is a second        *)
(* argument on top of that one (Attended).                                 *)
(***************************************************************************)
EXTENDS StateStreams, FiniteSetTheorems, SequenceTheorems, TLAPS

Link == [conn : Conns \cup {None}, up : BOOLEAN, refs : Nat, closing : BOOLEAN]
Line == [st : {"out", "open", "shut"}, conn : Conns \cup {None},
         told : {"nothing", "on", "off"}, closed : BOOLEAN]
Walk == [pc : {"idle", "asleep", "waiting", "opening"}, at : Streams \cup {None},
         todo : SUBSET Streams, cancelled : BOOLEAN]

States == [live : BOOLEAN, session : Link, feeds : [Conns -> [Streams -> Nat]],
           stream : [Streams -> Line], left : SUBSET Streams, count : Nat,
           slot : Retries \cup {None}, pass : [Tasks -> Walk], lock : Seq(Tasks), old : Seq(Tasks)]

Queue == {q \in Seq(Tasks) : \A i, j \in DOMAIN q : q[i] = q[j] => i = j}
InQ(q, t) == \E i \in DOMAIN q : q[i] = t
Heads(q, t) == q # <<>> /\ Head(q) = t
InPass == {"waiting", "opening"}

\* Session k and the callbacks fed agree with the streams: those of the streams
\* that are armed, on the connection of the session.
Fed(k, fed, line) ==
    /\ \A c \in Conns, s \in Streams : fed[c][s] = IF line[s].conn = c THEN 1 ELSE 0
    /\ \A s \in Streams : line[s].conn # None => line[s].st = "open" /\ line[s].conn = k.conn /\ k.up

Honest(line) ==
    \A s \in Streams : /\ line[s].st = "open" => (line[s].conn # None <=> line[s].told = "on")
                       /\ line[s].closed => line[s].st = "shut" /\ line[s].told = "off"

\* The streams that are armed, and those that are open.
On(line) == {s \in Streams : line[s].conn # None}
Opens(line) == {s \in Streams : line[s].st = "open"}

Counted(k, line, n) ==
    Running => /\ k.conn # None => k.refs = Cardinality(On(line))
               /\ n = Cardinality(Opens(line))

\* Open streams belong to a managed device, whose former lock is forgotten.
Homed(line, former) ==
    /\ Opens(line) # {} => managed /\ former = <<>>
    /\ Running /\ managed => former = <<>>

\* But for the tasks X, the tasks in a pass are those in a queue, and who opens
\* a session heads it.
Queued(walk, q, former, X) ==
    /\ q \in Queue /\ former \in Queue
    /\ q = <<>> \/ former = <<>>
    /\ \A t \in Tasks \ X :
          /\ walk[t].pc \in InPass <=> InQ(q, t) \/ InQ(former, t)
          /\ walk[t].pc = "opening" => Heads(q, t) \/ Heads(former, t)

\* The streams a pass is still to arm are not armed.
Ahead(w, line) ==
    w.at \in Streams \ w.todo /\ \A s \in w.todo \cup {w.at} : line[s].st = "open" => line[s].conn = None
Clear(walk, line, X) == \A t \in Tasks \ X : walk[t].pc = "opening" => Ahead(walk[t], line)

\* A cancelled task is in the middle of an opening and gives the slot back.
Marked(walk, taken) == \A t \in Tasks : walk[t].cancelled => walk[t].pc = "opening" /\ taken # t

Good(S, X) ==
    /\ S \in States
    /\ Fed(S.session, S.feeds, S.stream) /\ Honest(S.stream)
    /\ Counted(S.session, S.stream, S.count) /\ Homed(S.stream, S.old)
    /\ Queued(S.pass, S.lock, S.old, X) /\ Clear(S.pass, S.stream, X) /\ Marked(S.pass, S.slot)

\* A stream that is off the air on a live device has a retry, a pass that runs or
\* was spawned for it, or else its own client's pass still ahead of it.
Attended(S) ==
    Running /\ S.live /\ Unarmed(S) # {} =>
        \/ S.slot # None
        \/ \E t \in Tasks : S.pass[t].pc = "opening"
        \/ \E t \in Spawns : S.pass[t].pc = "waiting"
        \/ \A s \in Unarmed(S) : S.pass[s].pc = "waiting"

IInv ==
    /\ available \in BOOLEAN /\ managed \in BOOLEAN
    /\ phase \in {"running", "draining", "stopped"}
    /\ Good(Now, {}) /\ Attended(Now)

-----------------------------------------------------------------------------
(* Queues                                                                  *)

\* The empty queue.
LEMMA EmptyQueue == <<>> \in Queue /\ (\A u : ~InQ(<<>>, u)) /\ (\A u : ~Heads(<<>>, u))
BY EmptySeq DEF Queue, InQ, Heads

\* Whoever leaves a queue leaves the others in it, in their order.
LEMMA LeaveQueue ==
    ASSUME NEW q \in Queue, NEW t
    PROVE  /\ Leave(q, t) \in Queue
           /\ \A u : InQ(Leave(q, t), u) <=> InQ(q, u) /\ u # t
           /\ \A u : Heads(q, u) /\ u # t => Heads(Leave(q, t), u)
<1>1. /\ q \in Seq(Tasks) /\ Len(q) \in Nat /\ DOMAIN q = 1..Len(q)
      /\ \A i \in 1..Len(q) : q[i] \in Tasks
      /\ \A i, j \in DOMAIN q : q[i] = q[j] => i = j
    BY LenProperties, ElementOfSeq DEF Queue
<1>2. CASE \A i \in DOMAIN q : q[i] # t
    BY <1>2 DEF Leave, InQ, Heads
<1>3. CASE ~ \A i \in DOMAIN q : q[i] # t
  <2>1. PICK p \in 1..Len(q) : q[p] = t BY <1>1, <1>3
  <2> DEFINE n == Len(q) - 1
             r == [i \in 1..n |-> IF i < p THEN q[i] ELSE q[i + 1]]
  <2>2. \A i \in 1..n : (\E j \in 1..i : q[j] = t) <=> ~(i < p)
      BY <1>1, <2>1
  <2>3. Leave(q, t) = r
      BY <1>3, <2>2 DEF Leave
  <2>4. n \in Nat /\ \A i \in 1..n : r[i] \in Tasks BY <1>1, <2>1
  <2>5. r \in Seq(Tasks) /\ DOMAIN r = 1..n
      BY <2>4, IsASeq
  <2>6. ASSUME NEW i \in DOMAIN r, NEW j \in DOMAIN r, r[i] = r[j] PROVE i = j
    <3> DEFINE from(k) == IF k < p THEN k ELSE k + 1
    <3>1. i \in 1..n /\ j \in 1..n BY <2>5
    <3>2. \A k \in 1..n : from(k) \in 1..Len(q) /\ r[k] = q[from(k)] BY <1>1, <2>1
    <3> HIDE DEF r
    <3>3. from(i) = from(j) BY <1>1, <2>6, <3>1, <3>2
    <3> QED BY <1>1, <2>1, <3>1, <3>3
  <2>7. \A u : InQ(r, u) => InQ(q, u) /\ u # t
      BY <1>1, <2>1, <2>4, <2>5 DEF InQ
  <2>8. ASSUME NEW u, InQ(q, u), u # t PROVE InQ(r, u) /\ (Heads(q, u) => Heads(r, u))
    <3>1. PICK i \in 1..Len(q) : q[i] = u BY <1>1, <2>8 DEF InQ
    <3>2. i # p BY <2>1, <2>8, <3>1
    <3>3. IF i < p THEN i \in 1..n /\ r[i] = u ELSE i - 1 \in 1..n /\ r[i - 1] = u
        BY <1>1, <2>1, <3>1, <3>2
    <3>4. ASSUME Heads(q, u) PROVE Heads(r, u)
      <4>1. q[1] = u BY <1>1, <2>1, <3>4, HeadTailProperties DEF Heads
      <4>2. i = 1 BY <1>1, <3>1, <4>1
      <4>3. r[1] = u /\ 1 \in DOMAIN r BY <1>1, <2>1, <2>5, <3>2, <3>3, <4>2
      <4>4. r # <<>> BY <2>5, <4>3, EmptyQueue DEF InQ
      <4>5. Head(r) = u BY <1>1, <2>1, <2>5, <3>2, <3>3, <4>2
      <4> QED BY <4>4, <4>5 DEF Heads
    <3> QED BY <2>5, <3>3, <3>4 DEF InQ
  <2>9. r \in Queue
    <3>1. \A i, j \in DOMAIN r : r[i] = r[j] => i = j BY <2>6
    <3> QED BY <2>5, <3>1 DEF Queue
  <2> HIDE DEF r
  <2>10. \A u : Heads(q, u) => InQ(q, u)
      BY <1>1, <2>1, HeadTailProperties DEF Heads, InQ
  <2> QED BY <2>3, <2>7, <2>8, <2>9, <2>10
<1> QED BY <1>2, <1>3

\* A queue has one head, and its head is in it.
LEMMA HeadIn == ASSUME NEW q \in Queue, NEW t, Heads(q, t) PROVE InQ(q, t)
BY HeadTailProperties, LenProperties, EmptySeq DEF Queue, Heads, InQ

\* A task that is in no queue leaves none, and the empty queue has none to leave it.
LEMMA LeaveNone == ASSUME NEW t PROVE Leave(<<>>, t) = <<>>
<1>1. <<>> \in Queue /\ ~InQ(<<>>, t) BY EmptyQueue
<1> QED BY <1>1 DEF Leave, InQ

\* Task t leaves its pass.
LEMMA LeaveQueued ==
    ASSUME NEW walk \in [Tasks -> Walk], NEW q, NEW former, NEW X, Queued(walk, q, former, X),
           NEW t \in Tasks, NEW w \in Walk, w.pc \notin InPass,
           NEW v, v = [walk EXCEPT ![t] = w]
    PROVE  Queued(v, Leave(q, t), Leave(former, t), X \ {t})
<1>1. q \in Queue /\ former \in Queue BY DEF Queued
<1>2. v[t] = w /\ \A u \in Tasks \ {t} : v[u] = walk[u] OBVIOUS
<1>3. Leave(q, t) = <<>> \/ Leave(former, t) = <<>> BY LeaveNone DEF Queued
<1>4. /\ Leave(q, t) \in Queue /\ Leave(former, t) \in Queue
      /\ ~InQ(Leave(q, t), t) /\ ~InQ(Leave(former, t), t)
    BY <1>1, LeaveQueue
<1>5. ASSUME NEW u \in Tasks \ (X \ {t})
      PROVE  /\ v[u].pc \in InPass <=> InQ(Leave(q, t), u) \/ InQ(Leave(former, t), u)
             /\ v[u].pc = "opening" => Heads(Leave(q, t), u) \/ Heads(Leave(former, t), u)
  <2>1. CASE u = t BY <1>2, <1>4, <2>1 DEF InPass
  <2>2. CASE u # t
    <3>1. /\ walk[u].pc \in InPass <=> InQ(q, u) \/ InQ(former, u)
          /\ walk[u].pc = "opening" => Heads(q, u) \/ Heads(former, u)
        BY <1>5, <2>2 DEF Queued
    <3>2. /\ InQ(Leave(q, t), u) <=> InQ(q, u)
          /\ InQ(Leave(former, t), u) <=> InQ(former, u)
          /\ Heads(q, u) => Heads(Leave(q, t), u)
          /\ Heads(former, u) => Heads(Leave(former, t), u)
        BY <1>1, <2>2, LeaveQueue
    <3> QED BY <1>2, <1>5, <2>2, <3>1, <3>2
  <2> QED BY <2>1, <2>2
<1> QED BY <1>3, <1>4, <1>5 DEF Queued

\* Only the head of a queue is in an opening.
LEMMA OneOpens ==
    ASSUME NEW walk, NEW q, NEW former, NEW X, Queued(walk, q, former, X),
           NEW t \in Tasks, Heads(q, t) \/ Heads(former, t),
           NEW u \in Tasks \ X, walk[u].pc = "opening"
    PROVE  u = t
BY DEF Queued, Heads

\* A task that is in no queue joins one, behind those in it.
LEMMA JoinQueue ==
    ASSUME NEW q \in Queue, NEW t \in Tasks, ~InQ(q, t)
    PROVE  /\ Append(q, t) \in Queue
           /\ \A u : InQ(Append(q, t), u) <=> InQ(q, u) \/ u = t
           /\ \A u : Heads(q, u) => Heads(Append(q, t), u)
           /\ q = <<>> => Heads(Append(q, t), t)
<1> DEFINE r == Append(q, t)
<1>1. /\ q \in Seq(Tasks) /\ Len(q) \in Nat /\ DOMAIN q = 1..Len(q)
      /\ \A i, j \in DOMAIN q : q[i] = q[j] => i = j
    BY LenProperties DEF Queue
<1>2. /\ r \in Seq(Tasks) /\ Len(r) = Len(q) + 1
      /\ \A i \in 1..Len(q) : r[i] = q[i]
      /\ r[Len(q) + 1] = t
    BY <1>1, AppendProperties
<1>3. DOMAIN r = 1..(Len(q) + 1) BY <1>2, LenProperties
<1>4. \A i, j \in DOMAIN r : r[i] = r[j] => i = j
    BY <1>1, <1>2, <1>3 DEF InQ
<1>5. \A u : InQ(r, u) <=> InQ(q, u) \/ u = t
    BY <1>1, <1>2, <1>3 DEF InQ
<1>6. r # <<>> /\ Head(r) = r[1]
    BY <1>1, <1>2, HeadTailProperties, EmptySeq, AppendProperties
<1>7. ASSUME NEW u, Heads(q, u) PROVE Heads(r, u)
  <2>1. Len(q) \in Nat \ {0} /\ q[1] = u
      BY <1>1, <1>7, HeadTailProperties, EmptySeq DEF Heads
  <2> QED BY <1>2, <1>6, <2>1 DEF Heads
<1>8. ASSUME q = <<>> PROVE Heads(r, t)
  <2>1. Len(q) = 0 BY <1>8, EmptySeq
  <2> QED BY <1>2, <1>6, <2>1 DEF Heads
<1>9. r \in Queue BY <1>2, <1>4 DEF Queue
<1> QED BY <1>5, <1>7, <1>8, <1>9

\* The queue of one task.
LEMMA AloneQueue ==
    ASSUME NEW t \in Tasks
    PROVE  <<t>> \in Queue /\ (\A u : InQ(<<t>>, u) <=> u = t) /\ Heads(<<t>>, t)
BY DEF Queue, InQ, Heads

-----------------------------------------------------------------------------
(* Streams, callbacks and references                                       *)

\* A set of streams counts one less without one of them, and one more with another.
LEMMA Counting ==
    ASSUME NEW A \in SUBSET Streams
    PROVE  /\ IsFiniteSet(A) /\ Cardinality(A) \in Nat
           /\ Cardinality(A) = 0 <=> A = {}
           /\ \A s \in A : Cardinality(A \ {s}) = Cardinality(A) - 1
           /\ \A s \in Streams \ A : Cardinality(A \cup {s}) = Cardinality(A) + 1
<1>1. IsFiniteSet(A) BY FS_Subset, StreamsAssumption
<1> QED BY <1>1, FS_CardinalityType, FS_RemoveElement, FS_AddElement, FS_EmptySet

\* Passes have no less to do when fewer streams are armed.
LEMMA ClearLess ==
    ASSUME NEW walk, NEW line, NEW X, Clear(walk, line, X), NEW more,
           \A u \in Streams : more[u].st = "open" /\ more[u].conn # None
                                 => line[u].st = "open" /\ line[u].conn # None,
           walk \in [Tasks -> Walk]
    PROVE  Clear(walk, more, X)
<1>1. ASSUME NEW t \in Tasks \ X, walk[t].pc = "opening" PROVE Ahead(walk[t], more)
  <2>1. Ahead(walk[t], line) BY <1>1 DEF Clear
  <2>2. walk[t].todo \in SUBSET Streams BY <1>1 DEF Walk
  <2> QED BY <2>1, <2>2 DEF Ahead
<1> QED BY <1>1 DEF Clear

\* What stream s leaves behind when its client closes it.
Shut(line, s) == [line EXCEPT ![s] = [line[s] EXCEPT !.conn = None, !.st = "shut"]]

\* The device counts one stream less.
LEMMA ShutCount ==
    ASSUME NEW n \in Nat, NEW A \in SUBSET Streams, n = Cardinality(A), NEW s \in A
    PROVE  (IF n = 0 THEN 0 ELSE n - 1) = Cardinality(A \ {s})
BY Counting

\* Nothing that was said of it is wrong.
LEMMA ShutHonest ==
    ASSUME NEW line \in [Streams -> Line], Honest(line), NEW s \in Streams, line[s].st = "open",
           NEW l, l = Shut(line, s)
    PROVE  /\ l \in [Streams -> Line] /\ Honest(l)
           /\ l[s].st = "shut" /\ l[s].conn = None /\ \A u \in Streams \ {s} : l[u] = line[u]
           /\ s \in Opens(line) /\ Opens(l) = Opens(line) \ {s} /\ On(l) = On(line) \ {s}
<1> DEFINE q == [line[s] EXCEPT !.conn = None, !.st = "shut"]
<1>1. line[s] \in Line OBVIOUS
<1>2. q \in Line /\ q.conn = None /\ q.st = "shut" /\ q.told = line[s].told /\ q.closed = line[s].closed
    BY <1>1 DEF Line
<1>3. l = [line EXCEPT ![s] = q] BY DEF Shut
<1> HIDE DEF q
<1>4. /\ l \in [Streams -> Line] /\ l[s] = q /\ \A u \in Streams \ {s} : l[u] = line[u]
    BY <1>2, <1>3
<1>5. q.closed = FALSE BY <1>1, <1>2 DEF Honest, Line
<1>6. Honest(l)
  <2>1. ASSUME NEW u \in Streams
        PROVE  /\ l[u].st = "open" => (l[u].conn # None <=> l[u].told = "on")
               /\ l[u].closed => l[u].st = "shut" /\ l[u].told = "off"
    <3>1. CASE u = s BY <1>2, <1>4, <1>5, <3>1
    <3>2. CASE u # s
      <4>1. l[u] = line[u] BY <1>4, <3>2
      <4> QED BY <4>1 DEF Honest
    <3> QED BY <3>1, <3>2
  <2> QED BY <2>1 DEF Honest
<1>7. Opens(l) = Opens(line) \ {s} /\ s \in Opens(line)
    BY <1>2, <1>4 DEF Opens
<1>8. On(l) = On(line) \ {s} BY <1>2, <1>4 DEF On
<1> QED BY <1>2, <1>4, <1>6, <1>7, <1>8

\* A release takes references away, and nothing else of the session.
LEMMA ReleasedLink ==
    ASSUME NEW k \in Link, NEW c, NEW n \in Nat
    PROVE  /\ Released(k, c, n) \in Link
           /\ Released(k, c, n).conn = k.conn /\ Released(k, c, n).up = k.up
           /\ Running /\ k.conn = c => Released(k, c, n).refs = IF k.refs > n THEN k.refs - n
                                                              ELSE IF n = 0 THEN k.refs ELSE 0
<1>1. CASE ~Running \/ k.conn # c \/ n = 0
  <2>1. Released(k, c, n) = k BY <1>1 DEF Released
  <2>2. k.refs \in Nat BY DEF Link
  <2> QED BY <1>1, <2>1, <2>2
<1>2. CASE ~(~Running \/ k.conn # c \/ n = 0) /\ k.refs > n
  <2>1. k.refs \in Nat BY DEF Link
  <2>2. PICK r \in Nat : r = k.refs - n BY <1>2, <2>1
  <2>3. PICK j : j = [k EXCEPT !.refs = r] OBVIOUS
  <2>4. Released(k, c, n) = j BY <1>2, <2>2, <2>3 DEF Released
  <2>5. j \in Link /\ j.conn = k.conn /\ j.up = k.up /\ j.refs = r
      BY <2>3 DEF Link
  <2> QED BY <1>2, <2>2, <2>4, <2>5
<1>3. CASE ~(~Running \/ k.conn # c \/ n = 0) /\ ~(k.refs > n)
  <2>1. PICK j : j = [k EXCEPT !.refs = 0, !.closing = TRUE] OBVIOUS
  <2>2. Released(k, c, n) = j BY <1>3, <2>1 DEF Released
  <2>3. j \in Link /\ j.conn = k.conn /\ j.up = k.up /\ j.refs = 0
      BY <2>1 DEF Link
  <2> QED BY <1>3, <2>2, <2>3
<1> QED BY <1>1, <1>2, <1>3

\* What is left of session k once stream s has given its reference back.
Returned(j, k, s, line) ==
    IF s \in On(line) THEN k.conn # None /\ j = Released(k, k.conn, 1) ELSE j = k

\* The session keeps count.
LEMMA ShutCounted ==
    ASSUME NEW k \in Link, NEW line, NEW n \in Nat, Counted(k, line, n),
           NEW s \in Streams, s \in Opens(line), NEW l, Opens(l) = Opens(line) \ {s}, On(l) = On(line) \ {s},
           NEW j, Returned(j, k, s, line),
           NEW m, m = (IF n = 0 THEN 0 ELSE n - 1)
    PROVE  Counted(j, l, m) /\ j \in Link /\ j.conn = k.conn /\ j.up = k.up
<1>1. /\ j \in Link /\ j.conn = k.conn /\ j.up = k.up
      /\ Running => j.refs = (IF s \notin On(line) THEN k.refs ELSE IF k.refs > 1 THEN k.refs - 1 ELSE 0)
    BY ReleasedLink DEF Returned
<1>2. Opens(line) \in SUBSET Streams /\ On(line) \in SUBSET Streams BY DEF Opens, On
<1>3. ASSUME Running PROVE m = Cardinality(Opens(l))
  <2>1. n = Cardinality(Opens(line)) BY <1>3 DEF Counted
  <2> QED BY <1>2, <2>1, ShutCount
<1>4. ASSUME Running, k.conn # None PROVE j.refs = Cardinality(On(l))
  <2>1. k.refs = Cardinality(On(line)) BY <1>4 DEF Counted
  <2>2. CASE s \notin On(line)
    <3>1. On(l) = On(line) BY <2>2
    <3> QED BY <1>1, <1>4, <2>1, <2>2, <3>1
  <2>3. CASE s \in On(line)
    <3>1. Cardinality(On(l)) = Cardinality(On(line)) - 1 /\ Cardinality(On(line)) \in Nat \ {0}
        BY <1>2, <2>3, Counting
    <3> QED BY <1>1, <1>4, <2>1, <2>3, <3>1
  <2> QED BY <2>2, <2>3
<1> QED BY <1>1, <1>3, <1>4 DEF Counted

\* What is fed once stream s, armed on c or on none, has dropped its callback.
Dropped(f, fed, s, c) ==
    IF c = None THEN f = fed ELSE c \in Conns /\ f = [fed EXCEPT ![c] = Unfed(fed[c], {s})]

\* Its callback goes, and no other.
LEMMA ShutFed ==
    ASSUME NEW k, NEW fed \in [Conns -> [Streams -> Nat]], NEW line, Fed(k, fed, line),
           NEW s \in Streams, NEW j, j.conn = k.conn, j.up = k.up,
           NEW l, l[s].conn = None, \A u \in Streams \ {s} : l[u] = line[u],
           NEW f, Dropped(f, fed, s, line[s].conn)
    PROVE  f \in [Conns -> [Streams -> Nat]] /\ Fed(j, f, l)
<1> DEFINE c == line[s].conn
<1>1. /\ f \in [Conns -> [Streams -> Nat]]
      /\ \A d \in Conns, u \in Streams : f[d][u] = IF d = c /\ u = s /\ fed[d][u] > 0
                                                    THEN fed[d][u] - 1 ELSE fed[d][u]
    BY StreamsAssumption DEF Unfed, Dropped
<1>2. ASSUME NEW d \in Conns, NEW u \in Streams PROVE f[d][u] = IF l[u].conn = d THEN 1 ELSE 0
  <2>1. fed[d][u] = IF line[u].conn = d THEN 1 ELSE 0 BY DEF Fed
  <2>2. d # None BY StreamsAssumption
  <2>3. CASE u = s BY <1>1, <2>1, <2>2, <2>3
  <2>4. CASE u # s
    <3>1. l[u] = line[u] BY <2>4
    <3> QED BY <1>1, <2>1, <2>4, <3>1
  <2> QED BY <2>3, <2>4
<1>3. ASSUME NEW u \in Streams, l[u].conn # None
      PROVE l[u].st = "open" /\ l[u].conn = j.conn /\ j.up
  <2>1. l[u] = line[u] BY <1>3
  <2> QED BY <1>3, <2>1 DEF Fed
<1> QED BY <1>1, <1>2, <1>3 DEF Fed

-----------------------------------------------------------------------------
(* The steps of a pass                                                     *)

\* T is S but for the tasks, their slot and their queues; or but for the streams.
SameAir(S, T) ==
    /\ T.live = S.live /\ T.session = S.session /\ T.feeds = S.feeds /\ T.stream = S.stream
    /\ T.count = S.count
SameCrew(S, T) == T.slot = S.slot /\ T.pass = S.pass /\ T.lock = S.lock /\ T.old = S.old

LEMMA GoodAir ==
    ASSUME NEW S, NEW X, Good(S, X), NEW T \in States, SameAir(S, T), NEW Y,
           Opens(S.stream) = {} \/ T.old = <<>>, T.old = <<>> \/ S.old # <<>>,
           Queued(T.pass, T.lock, T.old, Y), Clear(T.pass, T.stream, Y), Marked(T.pass, T.slot)
    PROVE  Good(T, Y)
BY DEF Good, SameAir, Homed

\* The former lock does not fill while tasks leave it.
LEMMA LeftOld ==
    ASSUME NEW S, NEW X, Good(S, X), NEW t
    PROVE  /\ Opens(S.stream) = {} \/ Leave(S.old, t) = <<>>
           /\ Leave(S.old, t) = <<>> \/ S.old # <<>>
BY LeaveNone DEF Good, Homed

\* The retry task in the slot is cancelled: the slot is free, the streams are as they were.
LEMMA CancelGood ==
    ASSUME NEW S, NEW X, Good(S, X), NEW T, T = CancelRetry(S, S.slot)
    PROVE  /\ Good(T, X) /\ SameAir(S, T) /\ T.left = S.left /\ T.slot = None
           /\ \A u \in Tasks : u # S.slot => T.pass[u] = S.pass[u]
<1> DEFINE r == S.slot
<1>0. S \in States /\ r \in Retries \cup {None} /\ S.pass \in [Tasks -> Walk] BY DEF Good, States
<1>1. CASE r = None
  <2>1. T = S BY <1>1 DEF CancelRetry
  <2> QED BY <1>1, <2>1 DEF SameAir
<1>2. CASE r # None /\ S.pass[r].pc = "opening"
  <2>1. r \in Tasks /\ S.pass[r] \in Walk BY <1>0, <1>2 DEF Tasks
  <2>2. PICK w : w = [S.pass[r] EXCEPT !.cancelled = TRUE] OBVIOUS
  <2>3. w \in Walk /\ w.pc = "opening" /\ w.at = S.pass[r].at /\ w.todo = S.pass[r].todo
      BY <1>2, <2>1, <2>2 DEF Walk
  <2>4. T = [S EXCEPT !.slot = None, !.pass[r].cancelled = TRUE] BY <1>2 DEF CancelRetry
  <2>5. /\ T.live = S.live /\ T.session = S.session /\ T.feeds = S.feeds /\ T.stream = S.stream
        /\ T.left = S.left /\ T.count = S.count /\ T.slot = None
        /\ T.pass = [S.pass EXCEPT ![r] = w] /\ T.lock = S.lock /\ T.old = S.old
      BY <1>0, <2>1, <2>2, <2>4 DEF States
  <2>13. T \in States
    <3>1. PICK p : p = [S.pass EXCEPT ![r] = w] OBVIOUS
    <3>2. p \in [Tasks -> Walk] BY <1>0, <2>1, <2>3, <3>1
    <3>3. T = [S EXCEPT !.slot = None, !.pass = p] BY <1>0, <2>1, <2>2, <2>4, <3>1 DEF States
    <3> QED BY <1>0, <3>2, <3>3 DEF States
  <2>6. T.pass[r] = w /\ \A u \in Tasks \ {r} : T.pass[u] = S.pass[u]
      BY <1>0, <2>1, <2>5
  <2>7. \A u \in Tasks : /\ T.pass[u].pc = S.pass[u].pc
                         /\ Ahead(S.pass[u], S.stream) => Ahead(T.pass[u], T.stream)
      BY <1>2, <2>3, <2>5, <2>6 DEF Ahead
  <2>8. Queued(T.pass, T.lock, T.old, X) BY <2>5, <2>7 DEF Good, Queued
  <2>9. Clear(T.pass, T.stream, X) BY <2>7 DEF Good, Clear
  <2>10. Marked(T.pass, T.slot)
      BY <2>1, <2>3, <2>5, <2>6, StreamsAssumption DEF Good, Marked
  <2>11. SameAir(S, T) BY <2>5 DEF SameAir
  <2>12. Good(T, X)
    <3>1. Opens(S.stream) = {} \/ T.old = <<>> BY <2>5 DEF Good, Homed
    <3>2. T.old = <<>> \/ S.old # <<>> BY <2>5
    <3> QED BY <2>13, <2>8, <2>9, <2>10, <2>11, <3>1, <3>2, GoodAir
  <2> QED BY <2>5, <2>6, <2>11, <2>12
<1>3. CASE r # None /\ S.pass[r].pc # "opening"
  <2>1. r \in Tasks BY <1>0, <1>3 DEF Tasks
  <2>2. IdleTask \in Walk /\ IdleTask.pc = "idle" /\ IdleTask.cancelled = FALSE BY DEF IdleTask, Walk
  <2>3. Leave(S.lock, r) \in Seq(Tasks) /\ Leave(S.old, r) \in Seq(Tasks)
      BY LeaveQueue DEF Good, Queued, Queue
  <2>4. T = [S EXCEPT !.slot = None, !.pass[r] = IdleTask, !.lock = Leave(@, r), !.old = Leave(@, r)]
      BY <1>3 DEF CancelRetry
  <2>5. /\ T.live = S.live /\ T.session = S.session /\ T.feeds = S.feeds /\ T.stream = S.stream
        /\ T.left = S.left /\ T.count = S.count /\ T.slot = None
        /\ T.pass = [S.pass EXCEPT ![r] = IdleTask]
        /\ T.lock = Leave(S.lock, r) /\ T.old = Leave(S.old, r)
      BY <1>0, <2>1, <2>2, <2>4 DEF States
  <2>13. T \in States
    <3>1. PICK p : p = [S.pass EXCEPT ![r] = IdleTask] OBVIOUS
    <3>2. p \in [Tasks -> Walk] BY <1>0, <2>1, <2>2, <3>1
    <3>3. T = [S EXCEPT !.slot = None, !.pass = p, !.lock = Leave(S.lock, r), !.old = Leave(S.old, r)]
        BY <1>0, <2>1, <2>4, <3>1 DEF States
    <3> QED BY <1>0, <2>3, <3>2, <3>3 DEF States
  <2>14. T.old = Leave(S.old, r) BY <2>5
  <2>6. T.pass[r] = IdleTask /\ \A u \in Tasks \ {r} : T.pass[u] = S.pass[u]
      BY <1>0, <2>1, <2>5
  <2>7. Queued(T.pass, T.lock, T.old, X \ {r})
      BY <1>0, <2>1, <2>2, <2>5, LeaveQueued DEF Good, InPass
  <2>8. Queued(T.pass, T.lock, T.old, X) BY <2>7 DEF Queued
  <2>9. Clear(T.pass, T.stream, X) BY <2>2, <2>5, <2>6 DEF Good, Clear
  <2>10. Marked(T.pass, T.slot)
      BY <2>2, <2>5, <2>6, StreamsAssumption DEF Good, Marked
  <2>11. SameAir(S, T) BY <2>5 DEF SameAir
  <2>12. Good(T, X)
    <3>1. Opens(S.stream) = {} \/ T.old = <<>> BY <2>14, LeftOld
    <3>2. T.old = <<>> \/ S.old # <<>> BY <2>14, LeftOld
    <3> QED BY <2>13, <2>8, <2>9, <2>10, <2>11, <3>1, <3>2, GoodAir
  <2> QED BY <2>5, <2>6, <2>11, <2>12
<1> QED BY <1>1, <1>2, <1>3

\* T is a record of a state's fields, whatever is in them.
Shaped(T) ==
    T = [live |-> T.live, session |-> T.session, feeds |-> T.feeds, stream |-> T.stream,
         left |-> T.left, count |-> T.count, slot |-> T.slot, pass |-> T.pass,
         lock |-> T.lock, old |-> T.old]

\* A state is such a record.
LEMMA ShapedStates == \A S \in States : Shaped(S)
BY DEF States, Shaped

\* A record of such fields is a state.
LEMMA StatesShaped ==
    ASSUME NEW T, Shaped(T), T.live \in BOOLEAN, T.session \in Link,
           T.feeds \in [Conns -> [Streams -> Nat]], T.stream \in [Streams -> Line],
           T.left \in SUBSET Streams, T.count \in Nat, T.slot \in Retries \cup {None},
           T.pass \in [Tasks -> Walk], T.lock \in Seq(Tasks), T.old \in Seq(Tasks)
    PROVE  T \in States
BY DEF States, Shaped

\* Stream s closes in the manager's books.
LEMMA ForgetGood ==
    ASSUME NEW S, Good(S, {}), NEW s \in Streams, S.stream[s].st = "open",
           NEW T, T = Forget(S, s)
    PROVE  /\ Good(T, {}) /\ SameCrew(S, T) /\ T.live = S.live /\ T.left = S.left
           /\ T.stream[s].st = "shut" /\ \A u \in Streams \ {s} : T.stream[u] = S.stream[u]
<1>a. PICK c : c = S.stream[s].conn OBVIOUS
<1>b. T = [(IF c = None THEN S ELSE Disarm(S, {s}, c)) EXCEPT
              !.stream[s].st = "shut", !.count = IF @ = 0 THEN 0 ELSE @ - 1]
    BY <1>a DEF Forget
<1> DEFINE l == Shut(S.stream, s)
           j == IF c = None THEN S.session ELSE Released(S.session, c, 1)
           f == IF c = None THEN S.feeds ELSE [S.feeds EXCEPT ![c] = Unfed(S.feeds[c], {s})]
           m == IF S.count = 0 THEN 0 ELSE S.count - 1
<1>1. /\ S \in States /\ S.stream \in [Streams -> Line] /\ S.feeds \in [Conns -> [Streams -> Nat]]
      /\ S.session \in Link /\ S.count \in Nat /\ S.pass \in [Tasks -> Walk]
    BY DEF Good, States
<1>2. c # None => c \in Conns /\ c = S.session.conn BY <1>1, <1>a DEF Good, Fed, Line
<1>3. Cardinality({s}) = 1 BY FS_Singleton
<1>4. /\ T.live = S.live /\ T.session = j /\ T.feeds = f /\ T.stream = l
      /\ T.left = S.left /\ T.count = m /\ SameCrew(S, T) /\ Shaped(T)
  <2>1. CASE c = None
    <3>1. T = [S EXCEPT !.stream[s].st = "shut", !.count = IF @ = 0 THEN 0 ELSE @ - 1] BY <1>b, <2>1
    <3>2. l = [S.stream EXCEPT ![s] = [S.stream[s] EXCEPT !.st = "shut"]]
      <4>1. [S.stream[s] EXCEPT !.conn = None, !.st = "shut"] = [S.stream[s] EXCEPT !.st = "shut"]
          BY <1>1, <1>a, <2>1 DEF Line
      <4> QED BY <4>1 DEF Shut
    <3>3. /\ T.live = S.live /\ T.session = S.session /\ T.feeds = S.feeds
          /\ T.stream = [S.stream EXCEPT ![s] = [S.stream[s] EXCEPT !.st = "shut"]]
          /\ T.left = S.left /\ T.count = m /\ T.slot = S.slot /\ T.pass = S.pass
          /\ T.lock = S.lock /\ T.old = S.old
        BY <1>1, <3>1 DEF States
    <3>4. Shaped(T) BY <1>1, <3>1 DEF States, Shaped
    <3> QED BY <2>1, <3>2, <3>3, <3>4 DEF SameCrew
  <2>2. CASE c # None
    <3>1. PICK D : D = Disarm(S, {s}, c) OBVIOUS
    <3>2. /\ D.live = S.live /\ D.session = j /\ D.feeds = f /\ D.stream = Silenced(S.stream, {s})
          /\ D.left = S.left /\ D.count = S.count /\ D.slot = S.slot /\ D.pass = S.pass
          /\ D.lock = S.lock /\ D.old = S.old
        BY <1>1, <1>2, <1>3, <2>2, <3>1 DEF States, Disarm
    <3>3. T = [D EXCEPT !.stream[s].st = "shut", !.count = IF @ = 0 THEN 0 ELSE @ - 1] BY <1>b, <2>2, <3>1
    <3>4. Shaped(D) BY <1>1, <3>1 DEF States, Disarm, Shaped
    <3>5. /\ T.live = D.live /\ T.session = D.session /\ T.feeds = D.feeds
          /\ T.stream = [D.stream EXCEPT ![s] = [D.stream[s] EXCEPT !.st = "shut"]]
          /\ T.left = D.left /\ T.count = (IF D.count = 0 THEN 0 ELSE D.count - 1)
          /\ T.slot = D.slot /\ T.pass = D.pass /\ T.lock = D.lock /\ T.old = D.old
        BY <3>3, <3>4 DEF Shaped
    <3>6. l = [D.stream EXCEPT ![s] = [D.stream[s] EXCEPT !.st = "shut"]]
        BY <1>1, <3>2 DEF Shut, Silenced
    <3>7. Shaped(T) BY <3>3, <3>4 DEF Shaped
    <3> QED BY <3>2, <3>5, <3>6, <3>7 DEF SameCrew
  <2> QED BY <2>1, <2>2
<1>5. /\ l \in [Streams -> Line] /\ Honest(l)
      /\ l[s].st = "shut" /\ l[s].conn = None /\ \A u \in Streams \ {s} : l[u] = S.stream[u]
      /\ s \in Opens(S.stream) /\ Opens(l) = Opens(S.stream) \ {s} /\ On(l) = On(S.stream) \ {s}
    BY <1>1, ShutHonest DEF Good
<1>6. s \in On(S.stream) <=> c # None BY <1>a DEF On
<1> HIDE DEF l, j, f, m
<1>7. Counted(j, l, m) /\ j \in Link /\ j.conn = S.session.conn /\ j.up = S.session.up
  <2>1. Counted(S.session, S.stream, S.count) BY DEF Good
  <2>2. Returned(j, S.session, s, S.stream) BY <1>2, <1>6 DEF j, Returned
  <2>3. m = (IF S.count = 0 THEN 0 ELSE S.count - 1) BY DEF m
  <2>4. s \in Opens(S.stream) /\ Opens(l) = Opens(S.stream) \ {s} /\ On(l) = On(S.stream) \ {s}
      BY <1>5
  <2>5. S.session \in Link /\ S.count \in Nat BY <1>1
  <2> QED BY <2>1, <2>2, <2>3, <2>4, <2>5, ShutCounted
<1>8. f \in [Conns -> [Streams -> Nat]] /\ Fed(j, f, l)
  <2>1. Dropped(f, S.feeds, s, S.stream[s].conn) BY <1>2, <1>a DEF f, Dropped
  <2>2. Fed(S.session, S.feeds, S.stream) BY DEF Good
  <2>3. S.feeds \in [Conns -> [Streams -> Nat]] BY <1>1
  <2>4. j.conn = S.session.conn /\ j.up = S.session.up BY <1>7
  <2>5. l[s].conn = None /\ \A u \in Streams \ {s} : l[u] = S.stream[u] BY <1>5
  <2> QED BY <2>1, <2>2, <2>3, <2>4, <2>5, ShutFed
<1>9. m \in Nat BY <1>1 DEF m
<1>10. T \in States
  <2>1. /\ T.live \in BOOLEAN /\ T.left \in SUBSET Streams /\ T.slot \in Retries \cup {None}
        /\ T.pass \in [Tasks -> Walk] /\ T.lock \in Seq(Tasks) /\ T.old \in Seq(Tasks)
      BY <1>1, <1>4 DEF States, SameCrew
  <2>2. Shaped(T) BY <1>4
  <2>3. T.session \in Link /\ T.feeds \in [Conns -> [Streams -> Nat]] /\ T.stream \in [Streams -> Line]
        /\ T.count \in Nat
      BY <1>4, <1>5, <1>7, <1>8, <1>9
  <2> QED BY <2>1, <2>2, <2>3, StatesShaped
<1>11. \A u \in Streams : l[u].st = "open" /\ l[u].conn # None
                             => S.stream[u].st = "open" /\ S.stream[u].conn # None
    BY <1>5
<1>12. Clear(S.pass, l, {}) BY <1>1, <1>11, ClearLess DEF Good
<1>13. Homed(l, S.old) BY <1>5 DEF Good, Homed
<1> QED BY <1>4, <1>5, <1>7, <1>8, <1>10, <1>12, <1>13 DEF Good, SameCrew

\* Which streams are off the air.
LEMMA UnarmedAre ==
    ASSUME NEW S
    PROVE  /\ Unarmed(S) = {u \in Streams : S.stream[u].st = "open" /\ S.stream[u].conn = None}
           /\ Held(S) = Opens(S.stream)
BY DEF Unarmed, Held, Opens

LEMMA SameUnarmed ==
    ASSUME NEW S, NEW T, SameAir(S, T) PROVE Unarmed(T) = Unarmed(S) /\ T.live = S.live
BY UnarmedAre DEF SameAir

\* A client closes its stream: only the last one to go takes the retry with it.
LEMMA CloseGood ==
    ASSUME NEW S, Good(S, {}), NEW s \in Streams, NEW T, T = CloseStream(S, s)
    PROVE  /\ Good(T, {}) /\ T.live = S.live /\ T.left = S.left
           /\ Unarmed(T) \subseteq Unarmed(S) \ {s}
           /\ Unarmed(T) = {} \/ SameCrew(S, T)
<1>1. CASE S.stream[s].st # "open"
  <2>1. T = S BY <1>1 DEF CloseStream
  <2>2. s \notin Unarmed(S) BY <1>1, UnarmedAre
  <2> QED BY <2>1, <2>2 DEF SameCrew
<1>2. CASE S.stream[s].st = "open"
  <2>2. PICK B : B = Forget(S, s) OBVIOUS
  <2>3. T = IF Held(B) = {} THEN CancelRetry(B, B.slot) ELSE B
      BY <1>2, <2>2 DEF CloseStream
  <2>4. /\ Good(B, {}) /\ SameCrew(S, B) /\ B.live = S.live /\ B.left = S.left
        /\ B.stream[s].st = "shut" /\ \A u \in Streams \ {s} : B.stream[u] = S.stream[u]
      BY <1>2, <2>2, ForgetGood
  <2>5. Unarmed(B) \subseteq Unarmed(S) \ {s}
      BY <2>4, UnarmedAre
  <2>6. CASE Held(B) # {}
    <3>1. T = B BY <2>3, <2>6
    <3> QED BY <2>4, <2>5, <3>1
  <2>7. CASE Held(B) = {}
    <3>1. T = CancelRetry(B, B.slot) BY <2>3, <2>7
    <3>2. Good(T, {}) /\ SameAir(B, T) /\ T.left = B.left BY <2>4, <3>1, CancelGood
    <3>3. Unarmed(T) = {} BY <2>7, <3>2, UnarmedAre DEF SameAir, Held
    <3> QED BY <2>4, <3>2, <3>3 DEF SameAir
  <2> QED BY <2>6, <2>7
<1> QED BY <1>1, <1>2

\* Task t is idle, or asleep, and out of the queues.
LEMMA RestGood ==
    ASSUME NEW S, NEW t \in Tasks, Good(S, {t}),
           NEW T, T = [S EXCEPT !.pass[t] = IdleTask, !.lock = Leave(@, t), !.old = Leave(@, t)]
    PROVE  /\ Good(T, {}) /\ SameAir(S, T) /\ T.slot = S.slot /\ T.left = S.left
           /\ T.pass = [S.pass EXCEPT ![t] = IdleTask]
<1>0. S \in States /\ S.pass \in [Tasks -> Walk] BY DEF Good, States
<1>1. IdleTask \in Walk /\ IdleTask.pc = "idle" /\ IdleTask.cancelled = FALSE BY DEF IdleTask, Walk
<1>2. Leave(S.lock, t) \in Seq(Tasks) /\ Leave(S.old, t) \in Seq(Tasks)
    BY LeaveQueue DEF Good, Queued, Queue
<1>3. /\ T.live = S.live /\ T.session = S.session /\ T.feeds = S.feeds /\ T.stream = S.stream
      /\ T.left = S.left /\ T.count = S.count /\ T.slot = S.slot
      /\ T.pass = [S.pass EXCEPT ![t] = IdleTask]
      /\ T.lock = Leave(S.lock, t) /\ T.old = Leave(S.old, t)
    BY <1>0 DEF States
<1>4. T \in States
  <2>1. PICK p : p = [S.pass EXCEPT ![t] = IdleTask] OBVIOUS
  <2>2. p \in [Tasks -> Walk] BY <1>0, <1>1, <2>1
  <2>3. T = [S EXCEPT !.pass = p, !.lock = Leave(S.lock, t), !.old = Leave(S.old, t)]
      BY <1>0, <2>1 DEF States
  <2> QED BY <1>0, <1>2, <2>2, <2>3 DEF States
<1>5. T.pass[t] = IdleTask /\ \A u \in Tasks \ {t} : T.pass[u] = S.pass[u] BY <1>0, <1>3
<1>6. Queued(T.pass, T.lock, T.old, {t} \ {t})
    BY <1>0, <1>1, <1>3, LeaveQueued DEF Good, InPass
<1>7. Queued(T.pass, T.lock, T.old, {}) BY <1>6 DEF Queued
<1>8. Clear(T.pass, T.stream, {}) BY <1>1, <1>3, <1>5 DEF Good, Clear
<1>9. Marked(T.pass, T.slot) BY <1>1, <1>3, <1>5 DEF Good, Marked
<1>10. SameAir(S, T) BY <1>3 DEF SameAir
<1>11. T.old = Leave(S.old, t) BY <1>3
<1>12. Opens(S.stream) = {} \/ T.old = <<>> BY <1>11, LeftOld
<1>13. T.old = <<>> \/ S.old # <<>> BY <1>11, LeftOld
<1>14. Good(T, {}) BY <1>4, <1>7, <1>8, <1>9, <1>10, <1>12, <1>13, GoodAir
<1> QED BY <1>3, <1>10, <1>14

\* S with another slot; S with task t asleep.
Slotted(S, r) == [S EXCEPT !.slot = r]
Asleep(S, t, r) == [S EXCEPT !.slot = r, !.pass[t] = [IdleTask EXCEPT !.pc = "asleep"]]

\* Task t's slot, or its sleep, after its pass.
LEMMA SlotGood ==
    ASSUME NEW S, Good(S, {}), NEW r \in Retries \cup {None}, r = None \/ r = S.slot,
           NEW T, T = Slotted(S, r)
    PROVE  Good(T, {}) /\ SameAir(S, T) /\ T.pass = S.pass /\ T.left = S.left /\ T.slot = r
<1>1. S \in States BY DEF Good
<1>2. /\ T \in States /\ T.slot = r /\ SameAir(S, T) /\ T.pass = S.pass /\ T.left = S.left
      /\ T.lock = S.lock /\ T.old = S.old
    BY <1>1 DEF States, SameAir, Slotted
<1>3. Marked(T.pass, T.slot) BY <1>2, StreamsAssumption DEF Good, Marked
<1>4. Queued(T.pass, T.lock, T.old, {}) /\ Clear(T.pass, T.stream, {})
    BY <1>2 DEF Good, SameAir
<1>5. Opens(S.stream) = {} \/ T.old = <<>> BY <1>2 DEF Good, Homed
<1>6. T.old = <<>> \/ S.old # <<>> BY <1>2
<1> QED BY <1>2, <1>3, <1>4, <1>5, <1>6, GoodAir

\* An idle task falls asleep.
LEMMA SleepGood ==
    ASSUME NEW S, NEW X, Good(S, X), NEW t \in Tasks, S.pass[t].pc = "idle",
           NEW r \in Retries \cup {None}, r = S.slot \/ r = t, NEW T, T = Asleep(S, t, r)
    PROVE  /\ Good(T, X) /\ SameAir(S, T) /\ T.slot = r /\ T.left = S.left
           /\ \A u \in Tasks \ {t} : T.pass[u] = S.pass[u]
<1>0. S \in States /\ S.pass \in [Tasks -> Walk] BY DEF Good, States
<1>a. PICK w : w = [IdleTask EXCEPT !.pc = "asleep"] OBVIOUS
<1>b. T = [S EXCEPT !.slot = r, !.pass[t] = w] BY <1>a DEF Asleep
<1>1. w \in Walk /\ w.pc = "asleep" /\ w.cancelled = FALSE BY <1>a DEF IdleTask, Walk
<1>2. /\ T.slot = r /\ SameAir(S, T) /\ T.left = S.left
      /\ T.pass = [S.pass EXCEPT ![t] = w] /\ T.lock = S.lock /\ T.old = S.old
    BY <1>0, <1>b DEF States, SameAir
<1>3. T \in States
  <2>1. PICK p : p = [S.pass EXCEPT ![t] = w] OBVIOUS
  <2>2. p \in [Tasks -> Walk] BY <1>0, <1>1, <2>1
  <2>3. T = [S EXCEPT !.slot = r, !.pass = p] BY <1>0, <1>b, <2>1 DEF States
  <2> QED BY <1>0, <2>2, <2>3 DEF States
<1>4. T.pass[t] = w /\ \A u \in Tasks \ {t} : T.pass[u] = S.pass[u] BY <1>0, <1>2
<1>5. \A u \in Tasks : T.pass[u].pc \in InPass <=> S.pass[u].pc \in InPass
    BY <1>1, <1>4 DEF InPass
<1>6. \A u \in Tasks : T.pass[u].pc = "opening" => T.pass[u] = S.pass[u]
    BY <1>1, <1>4
<1>7. Queued(T.pass, T.lock, T.old, X)
  <2>1. T.lock = S.lock /\ T.old = S.old /\ Queued(S.pass, S.lock, S.old, X) BY <1>2 DEF Good
  <2> QED BY <1>5, <1>6, <2>1 DEF Queued
<1>8. Clear(T.pass, T.stream, X) BY <1>2, <1>6 DEF Good, Clear, SameAir
<1>9. Marked(T.pass, T.slot) BY <1>1, <1>2, <1>4 DEF Good, Marked
<1>10. Opens(S.stream) = {} \/ T.old = <<>> BY <1>2 DEF Good, Homed
<1>11. T.old = <<>> \/ S.old # <<>> BY <1>2
<1>12. Good(T, X) BY <1>2, <1>3, <1>7, <1>8, <1>9, <1>10, <1>11, GoodAir
<1> QED BY <1>2, <1>4, <1>12

\* T is S after task t's pass: unless every stream is armed, the other tasks and
\* the slot are as they were.
Ended(S, T, t) ==
    /\ T.live = S.live /\ Unarmed(T) \subseteq Unarmed(S)
    /\ \/ Unarmed(T) = {}
       \/ T.slot = S.slot /\ \A u \in Tasks \ {t} : T.pass[u] = S.pass[u]

\* A task ends its pass.
LEMMA EndGood ==
    ASSUME NEW S, NEW t \in Tasks, Good(S, {t}), NEW c \in BOOLEAN, c /\ t \in Retries => S.slot # t,
           NEW T, T = EndPass(S, t, c)
    PROVE  Good(T, {}) /\ Ended(S, T, t) /\ (c /\ t \in Streams => t \notin Unarmed(T))
<1>1. PICK B : B = [S EXCEPT !.pass[t] = IdleTask, !.lock = Leave(@, t), !.old = Leave(@, t)] OBVIOUS
<1>2. /\ Good(B, {}) /\ SameAir(S, B) /\ B.slot = S.slot /\ B.left = S.left
      /\ B.pass = [S.pass EXCEPT ![t] = IdleTask]
    BY <1>1, RestGood
<1>3. /\ B.pass[t] = IdleTask /\ \A u \in Tasks \ {t} : B.pass[u] = S.pass[u]
      /\ B \in States /\ B.slot \in Retries \cup {None}
    BY <1>2 DEF Good, States
<1>4. Unarmed(B) = Unarmed(S) /\ B.live = S.live BY <1>2, SameUnarmed
<1>5. CASE t \in Streams
  <2>1. T = IF c \/ t \in B.left THEN [CloseStream(B, t) EXCEPT !.left = @ \ {t}] ELSE B
      BY <1>1, <1>5 DEF EndPass
  <2>2. CASE ~(c \/ t \in B.left)
    <3>1. T = B BY <2>1, <2>2
    <3> QED BY <1>2, <1>3, <1>4, <2>2, <3>1 DEF Ended
  <2>3. CASE c \/ t \in B.left
    <3>1. PICK D : D = CloseStream(B, t) OBVIOUS
    <3>2. /\ Good(D, {}) /\ D.live = B.live /\ Unarmed(D) \subseteq Unarmed(B) \ {t}
          /\ Unarmed(D) = {} \/ SameCrew(B, D)
        BY <1>2, <1>5, <3>1, CloseGood
    <3>3. T = [D EXCEPT !.left = @ \ {t}] BY <2>1, <2>3, <3>1
    <3>4. D \in States BY <3>2 DEF Good
    <3>5. T \in States /\ SameAir(D, T) /\ SameCrew(D, T)
        BY <3>3, <3>4 DEF States, SameAir, SameCrew
    <3>6. Good(T, {}) BY <3>2, <3>5 DEF Good, SameAir, SameCrew
    <3>7. Unarmed(T) = Unarmed(D) /\ T.live = D.live BY <3>5, SameUnarmed
    <3>8. Unarmed(T) = {} \/ SameCrew(B, T) BY <3>2, <3>5, <3>7 DEF SameCrew
    <3>9. T.live = S.live /\ Unarmed(T) \subseteq Unarmed(S) /\ t \notin Unarmed(T)
        BY <1>4, <3>2, <3>7
    <3>10. ASSUME Unarmed(T) # {} PROVE T.slot = S.slot /\ \A u \in Tasks \ {t} : T.pass[u] = S.pass[u]
      <4>1. T.slot = B.slot /\ T.pass = B.pass BY <3>8, <3>10 DEF SameCrew
      <4> QED BY <1>2, <1>3, <4>1
    <3>11. Ended(S, T, t) BY <3>9, <3>10 DEF Ended
    <3> QED BY <3>6, <3>9, <3>11
  <2> QED BY <2>2, <2>3
<1>6. CASE t \notin Streams /\ t \in Retries /\ ~c /\ Unarmed(B) # {}
  <2>1. T = [B EXCEPT !.pass[t].pc = "asleep"] BY <1>1, <1>6 DEF EndPass
  <2>3. T = Asleep(B, t, B.slot)
      BY <1>3, <2>1 DEF States, Asleep
  <2>4. B.pass[t].pc = "idle" BY <1>3 DEF IdleTask
  <2>5. /\ Good(T, {}) /\ SameAir(B, T) /\ T.slot = B.slot
        /\ \A u \in Tasks \ {t} : T.pass[u] = B.pass[u]
    <3>1. PICK r : r = B.slot OBVIOUS
    <3>2. Good(B, {}) /\ r \in Retries \cup {None} /\ T = Asleep(B, t, r) BY <1>2, <1>3, <2>3, <3>1
    <3> QED BY <2>4, <3>1, <3>2, SleepGood
  <2>6. Unarmed(T) = Unarmed(B) /\ T.live = B.live BY <2>5, SameUnarmed
  <2>7. T.slot = S.slot /\ \A u \in Tasks \ {t} : T.pass[u] = S.pass[u] BY <1>2, <1>3, <2>5
  <2>8. Ended(S, T, t) BY <1>4, <2>6, <2>7 DEF Ended
  <2>9. Good(T, {}) BY <2>5
  <2> QED BY <1>6, <2>8, <2>9
<1>7. CASE t \notin Streams /\ ~(t \in Retries /\ ~c /\ Unarmed(B) # {})
  <2>1. T = IF B.slot = t THEN [B EXCEPT !.slot = None] ELSE B BY <1>1, <1>7 DEF EndPass
  <2>2. CASE B.slot # t
    <3>1. T = B BY <2>1, <2>2
    <3> QED BY <1>2, <1>3, <1>4, <1>7, <3>1 DEF Ended
  <2>3. CASE B.slot = t
    <3>1. T = [B EXCEPT !.slot = None] BY <2>1, <2>3
    <3>2. t \in Retries BY <1>3, <2>3, StreamsAssumption DEF Tasks
    <3>3. Unarmed(B) = {} BY <1>2, <1>7, <2>3, <3>2
    <3>6. T = Slotted(B, None) BY <3>1 DEF Slotted
    <3>4. Good(T, {}) /\ SameAir(B, T) BY <1>2, <3>6, SlotGood
    <3>5. Unarmed(T) = Unarmed(B) /\ T.live = B.live BY <3>4, SameUnarmed
    <3>7. Ended(S, T, t) BY <1>4, <3>3, <3>5 DEF Ended
    <3> QED BY <1>7, <3>4, <3>7
  <2> QED BY <2>2, <2>3
<1> QED BY <1>5, <1>6, <1>7

\* There is a retry task to be had.
Spare(S) == S.slot # None \/ \E r \in Retries : S.pass[r].pc = "idle"

\* A retry is scheduled, unless there is one.
LEMMA ScheduleGood ==
    ASSUME NEW S, NEW X, Good(S, X), Spare(S), NEW T, T = Schedule(S)
    PROVE  /\ Good(T, X) /\ SameAir(S, T) /\ (Running => T.slot # None)
           /\ \A u \in Tasks : S.pass[u].pc # "idle" => T.pass[u] = S.pass[u] /\ (T.slot = u => S.slot = u)
<1>1. CASE ~Running \/ S.slot # None
  <2>1. T = S BY <1>1 DEF Schedule
  <2> QED BY <1>1, <2>1 DEF SameAir
<1>2. CASE Running /\ S.slot = None
  <2>1. PICK r : r = CHOOSE q \in Retries : S.pass[q].pc = "idle" OBVIOUS
  <2>2. r \in Retries /\ S.pass[r].pc = "idle" BY <1>2, <2>1 DEF Spare
  <2>4. T = Asleep(S, r, r) BY <1>2, <2>1 DEF Schedule, Asleep
  <2>5. r \in Tasks /\ r # None BY <2>2, StreamsAssumption DEF Tasks
  <2>6. /\ Good(T, X) /\ SameAir(S, T) /\ T.slot = r
        /\ \A u \in Tasks \ {r} : T.pass[u] = S.pass[u]
      BY <2>2, <2>4, <2>5, SleepGood
  <2> QED BY <2>2, <2>5, <2>6
<1> QED BY <1>1, <1>2

\* The end of a pass leaves a retry for the streams that are still off the air.
LEMMA FinishGood ==
    ASSUME NEW S, NEW t \in Tasks, Good(S, {t}), S.pass[t].pc = "opening", Spare(S),
           NEW c \in BOOLEAN, c /\ t \in Retries => S.slot # t,
           NEW T, T = Finish(S, t, c)
    PROVE  Good(T, {}) /\ Attended(T) /\ T.live = S.live
<1>1. CASE Unarmed(S) # {}
  <2>1. PICK B : B = Schedule(S) OBVIOUS
  <2>2. T = EndPass(B, t, c) BY <1>1, <2>1 DEF Finish
  <2>3. /\ Good(B, {t}) /\ SameAir(S, B) /\ (Running => B.slot # None)
        /\ B.slot = t => S.slot = t
      BY <2>1, ScheduleGood
  <2>4. Good(T, {}) /\ Ended(B, T, t) BY <2>2, <2>3, EndGood
  <2>5. Attended(T) BY <2>3, <2>4 DEF Attended, Ended
  <2> QED BY <2>3, <2>4, <2>5 DEF Ended, SameAir
<1>2. CASE Unarmed(S) = {}
  <2>1. PICK B : B = IF S.slot # t THEN CancelRetry(S, S.slot) ELSE S OBVIOUS
  <2>2. T = EndPass(B, t, c) BY <1>2, <2>1 DEF Finish
  <2>3. Good(B, {t}) /\ SameAir(S, B) /\ (B.slot = t => S.slot = t)
    <3>1. CASE S.slot # t
      <4>1. B = CancelRetry(S, S.slot) BY <2>1, <3>1
      <4>2. Good(B, {t}) /\ SameAir(S, B) /\ B.slot = None BY <4>1, CancelGood
      <4> QED BY <4>2, StreamsAssumption
    <3>2. CASE S.slot = t BY <2>1, <3>2 DEF SameAir
    <3> QED BY <3>1, <3>2
  <2>4. Good(T, {}) /\ Ended(B, T, t) BY <2>2, <2>3, EndGood
  <2>5. Unarmed(B) = {} BY <1>2, <2>3, UnarmedAre DEF SameAir
  <2>6. Attended(T) BY <2>4, <2>5 DEF Attended, Ended
  <2> QED BY <2>3, <2>4, <2>6 DEF Ended, SameAir
<1> QED BY <1>1, <1>2

\* A state that is good for every task is good for the others.
LEMMA PartGood == ASSUME NEW S, Good(S, {}), NEW X PROVE Good(S, X)
BY DEF Good, Queued, Clear

\* A state that is good for the other tasks, and for t, is good.
LEMMA WholeGood ==
    ASSUME NEW S, NEW t \in Tasks, Good(S, {t}),
           S.pass[t].pc \in InPass <=> InQ(S.lock, t) \/ InQ(S.old, t),
           S.pass[t].pc = "opening" => /\ Heads(S.lock, t) \/ Heads(S.old, t)
                                       /\ Ahead(S.pass[t], S.stream)
    PROVE  Good(S, {})
<1>1. Queued(S.pass, S.lock, S.old, {t}) /\ Clear(S.pass, S.stream, {t}) BY DEF Good
<1>2. Queued(S.pass, S.lock, S.old, {})
  <2>1. ASSUME NEW u \in Tasks \ {}
        PROVE  /\ S.pass[u].pc \in InPass <=> InQ(S.lock, u) \/ InQ(S.old, u)
               /\ S.pass[u].pc = "opening" => Heads(S.lock, u) \/ Heads(S.old, u)
    <3>1. CASE u = t BY <3>1
    <3>2. CASE u # t BY <1>1, <3>2 DEF Queued
    <3> QED BY <3>1, <3>2
  <2> QED BY <1>1, <2>1 DEF Queued
<1>3. Clear(S.pass, S.stream, {})
  <2>1. ASSUME NEW u \in Tasks \ {}, S.pass[u].pc = "opening" PROVE Ahead(S.pass[u], S.stream)
    <3>1. CASE u = t BY <2>1, <3>1
    <3>2. CASE u # t BY <1>1, <2>1, <3>2 DEF Clear
    <3> QED BY <3>1, <3>2
  <2> QED BY <2>1 DEF Clear
<1> QED BY <1>2, <1>3 DEF Good

\* S with task t at w.
Walked(S, t, w) == [S EXCEPT !.pass[t] = w]

\* A task that nobody cancels.
Steady(w) == w \in Walk /\ w.cancelled = FALSE

\* From S to T only task t has moved, to w.
Walks(S, T, t, w) == /\ T.left = S.left /\ T.slot = S.slot
                     /\ T.lock = S.lock /\ T.old = S.old /\ T.pass[t] = w
                     /\ \A u \in Tasks \ {t} : T.pass[u] = S.pass[u]

\* Where a task is matters to the others through the queues only.
LEMMA WalkGood ==
    ASSUME NEW S, NEW t \in Tasks, Good(S, {t}), NEW w, Steady(w),
           NEW T, T = Walked(S, t, w)
    PROVE  Good(T, {t}) /\ SameAir(S, T) /\ Walks(S, T, t, w)
<1>0. S \in States /\ S.pass \in [Tasks -> Walk] BY DEF Good, States
<1>a. w \in Walk /\ w.cancelled = FALSE BY DEF Steady
<1>1. PICK p : p = [S.pass EXCEPT ![t] = w] OBVIOUS
<1>2. p \in [Tasks -> Walk] /\ p[t] = w /\ \A u \in Tasks \ {t} : p[u] = S.pass[u]
    BY <1>0, <1>a, <1>1
<1>3. T = [S EXCEPT !.pass = p] BY <1>0, <1>1 DEF States, Walked
<1>4. /\ T \in States /\ SameAir(S, T) /\ T.left = S.left /\ T.slot = S.slot
      /\ T.lock = S.lock /\ T.old = S.old /\ T.pass = p
    BY <1>0, <1>2, <1>3 DEF States, SameAir
<1>5. Queued(T.pass, T.lock, T.old, {t})
  <2>1. Queued(S.pass, S.lock, S.old, {t}) BY DEF Good
  <2> QED BY <1>2, <1>4, <2>1 DEF Queued
<1>6. Clear(T.pass, T.stream, {t}) BY <1>2, <1>4 DEF Good, Clear, SameAir
<1>7. Marked(T.pass, T.slot) BY <1>a, <1>2, <1>4 DEF Good, Marked
<1>8. Opens(S.stream) = {} \/ T.old = <<>> BY <1>4 DEF Good, Homed
<1>9. T.old = <<>> \/ S.old # <<>> BY <1>4
<1>10. Good(T, {t}) BY <1>4, <1>5, <1>6, <1>7, <1>8, <1>9, GoodAir
<1> QED BY <1>2, <1>4, <1>10 DEF Walks

\* The streams of todo that are open are off the air.
Free(todo, line) == \A s \in todo : line[s].st = "open" => line[s].conn = None

\* The next stream of the pass, or its end.
LEMMA GoOnGood ==
    ASSUME NEW S, NEW t \in Tasks, Good(S, {t}),
           S.pass[t].pc = "opening", S.pass[t].cancelled = FALSE,
           Heads(S.lock, t) \/ Heads(S.old, t),
           Free(S.pass[t].todo, S.stream), S.pass[t].todo = {} => Spare(S),
           NEW T \in GoOn(S, t)
    PROVE  Good(T, {}) /\ Attended(T) /\ T.live = S.live
<1>0. S \in States /\ S.pass \in [Tasks -> Walk] /\ S.lock \in Queue /\ S.old \in Queue
    BY DEF Good, States, Queued
<1>1. CASE S.pass[t].todo = {}
  <2>1. T = Finish(S, t, FALSE) BY <1>1 DEF GoOn
  <2>2. Spare(S) BY <1>1
  <2> QED BY <2>1, <2>2, FinishGood
<1>2. CASE S.pass[t].todo # {}
  <2>1. PICK s \in S.pass[t].todo : T = [S EXCEPT !.pass[t].at = s, !.pass[t].todo = @ \ {s}]
      BY <1>2 DEF GoOn
  <2>2. PICK w : w = [S.pass[t] EXCEPT !.at = s, !.todo = @ \ {s}] OBVIOUS
  <2>3. S.pass[t] \in Walk BY <1>0
  <2>4. /\ w \in Walk /\ w.pc = "opening" /\ w.cancelled = FALSE
        /\ w.at = s /\ s \in Streams /\ w.todo = S.pass[t].todo \ {s}
      BY <2>1, <2>2, <2>3 DEF Walk
  <2>5. T = Walked(S, t, w) BY <1>0, <2>1, <2>2 DEF Walked, States
  <2>6. /\ Good(T, {t}) /\ SameAir(S, T)
        /\ T.lock = S.lock /\ T.old = S.old /\ T.pass[t] = w
    <3>1. Steady(w) BY <2>4 DEF Steady
    <3>2. Good(T, {t}) /\ SameAir(S, T) /\ Walks(S, T, t, w) BY <2>5, <3>1, WalkGood
    <3> QED BY <3>2 DEF Walks
  <2>7. Ahead(w, S.stream) BY <2>1, <2>4 DEF Ahead, Free
  <2>8. T.stream = S.stream /\ T.live = S.live BY <2>6 DEF SameAir
  <2>9. InQ(T.lock, t) \/ InQ(T.old, t) BY <1>0, <2>6, HeadIn
  <2>10. T.pass[t].pc = "opening" /\ T.pass[t].pc \in InPass BY <2>4, <2>6 DEF InPass
  <2>11. Ahead(T.pass[t], T.stream) BY <2>6, <2>7, <2>8
  <2>12. Good(T, {}) BY <2>6, <2>9, <2>10, <2>11, WholeGood
  <2> QED BY <2>8, <2>10, <2>12 DEF Attended
<1> QED BY <1>1, <1>2

\* The streams U hear that they are off the air.
Hushed(line, U) == [s \in Streams |-> IF s \in U THEN [line[s] EXCEPT !.told = "off"] ELSE line[s]]

\* Streams that are off the air are told so.
LEMMA NotifyGood ==
    ASSUME NEW S, NEW X, Good(S, X), NEW U \in SUBSET Streams,
           \A s \in U : S.stream[s].st = "open" /\ S.stream[s].conn = None,
           NEW T, T = Notify(S, U, "off")
    PROVE  /\ Good(T, X) /\ SameCrew(S, T) /\ T.live = S.live /\ T.left = S.left
           /\ Unarmed(T) = Unarmed(S)
           /\ \A s \in Streams : T.stream[s].st = S.stream[s].st /\ T.stream[s].conn = S.stream[s].conn
<1>0. S \in States /\ S.stream \in [Streams -> Line] /\ S.pass \in [Tasks -> Walk] BY DEF Good, States
<1>1. PICK l : l = Hushed(S.stream, U) OBVIOUS
<1>2. T = [S EXCEPT !.stream = l] BY <1>0, <1>1 DEF Notify, Hushed, States
<1>3. ASSUME NEW s \in Streams
      PROVE  /\ l[s] \in Line /\ l[s].st = S.stream[s].st /\ l[s].conn = S.stream[s].conn
             /\ l[s].closed = S.stream[s].closed
             /\ l[s].told = IF s \in U THEN "off" ELSE S.stream[s].told
  <2>1. S.stream[s] \in Line BY <1>0
  <2>2. CASE s \in U
    <3>1. l[s] = [S.stream[s] EXCEPT !.told = "off"] BY <1>1, <2>2 DEF Hushed
    <3> QED BY <2>1, <2>2, <3>1 DEF Line
  <2>3. CASE s \notin U
    <3>1. l[s] = S.stream[s] BY <1>1, <2>3 DEF Hushed
    <3> QED BY <2>1, <2>3, <3>1
  <2> QED BY <2>2, <2>3
<1>4. l \in [Streams -> Line]
  <2>1. DOMAIN l = Streams /\ l = [s \in Streams |-> l[s]] BY <1>1 DEF Hushed
  <2> QED BY <1>3, <2>1
<1>5. /\ T \in States /\ T.stream = l /\ SameCrew(S, T) /\ T.live = S.live /\ T.left = S.left
      /\ T.session = S.session /\ T.feeds = S.feeds /\ T.count = S.count
    BY <1>0, <1>2, <1>4 DEF States, SameCrew
<1>6. Opens(l) = Opens(S.stream) /\ On(l) = On(S.stream) BY <1>3 DEF Opens, On
<1>7. Fed(S.session, S.feeds, l)
  <2>1. Fed(S.session, S.feeds, S.stream) BY DEF Good
  <2> QED BY <1>3, <2>1 DEF Fed
<1>8. Honest(l)
  <2>1. Honest(S.stream) BY DEF Good
  <2>2. ASSUME NEW s \in Streams
        PROVE  /\ l[s].st = "open" => (l[s].conn # None <=> l[s].told = "on")
               /\ l[s].closed => l[s].st = "shut" /\ l[s].told = "off"
    <3>1. CASE s \in U
      <4>1. S.stream[s].st = "open" /\ S.stream[s].conn = None BY <3>1
      <4> QED BY <1>3, <2>1, <3>1, <4>1 DEF Honest
    <3>2. CASE s \notin U BY <1>3, <2>1, <3>2 DEF Honest
    <3> QED BY <3>1, <3>2
  <2> QED BY <2>2 DEF Honest
<1>9. Counted(S.session, l, S.count) BY <1>6 DEF Good, Counted
<1>10. Homed(l, S.old) BY <1>6 DEF Good, Homed
<1>11. Clear(S.pass, l, X)
  <2>1. Clear(S.pass, S.stream, X) BY DEF Good
  <2> QED BY <1>0, <1>3, <2>1, ClearLess
<1>12. Good(T, X)
  <2>1. Queued(S.pass, S.lock, S.old, X) /\ Marked(S.pass, S.slot) BY DEF Good
  <2>2. T.pass = S.pass /\ T.lock = S.lock /\ T.old = S.old /\ T.slot = S.slot BY <1>5 DEF SameCrew
  <2> QED BY <1>5, <1>7, <1>8, <1>9, <1>10, <1>11, <2>1, <2>2 DEF Good
<1>13. Unarmed(T) = Unarmed(S)
  <2>1. Unarmed(T) = {u \in Streams : l[u].st = "open" /\ l[u].conn = None} BY <1>5, UnarmedAre
  <2>2. Unarmed(S) = {u \in Streams : S.stream[u].st = "open" /\ S.stream[u].conn = None}
      BY UnarmedAre
  <2> QED BY <1>3, <2>1, <2>2
<1> QED BY <1>3, <1>5, <1>12, <1>13

\* Task t holds the lock.
LEMMA EnterGood ==
    ASSUME NEW S, NEW t \in Tasks, Good(S, {t}), Heads(S.lock, t) \/ Heads(S.old, t),
           NEW T \in Enter(S, t)
    PROVE  Good(T, {}) /\ Attended(T) /\ T.live = S.live
<1>1. CASE ~Running \/ Unarmed(S) = {}
  <2>1. T = EndPass(S, t, FALSE) BY <1>1 DEF Enter
  <2>2. Good(T, {}) /\ Ended(S, T, t) BY <2>1, EndGood
  <2> QED BY <1>1, <2>2 DEF Ended, Attended
<1>2. CASE Running /\ Unarmed(S) # {} /\ ~S.live
  <2>1. PICK B : B = Notify(S, Unarmed(S), "off") OBVIOUS
  <2>2. T = EndPass(B, t, FALSE) BY <1>2, <2>1 DEF Enter
  <2>3. /\ Unarmed(S) \in SUBSET Streams
        /\ \A s \in Unarmed(S) : S.stream[s].st = "open" /\ S.stream[s].conn = None
      BY UnarmedAre
  <2>4. Good(B, {t}) /\ B.live = S.live BY <2>1, <2>3, NotifyGood
  <2>5. Good(T, {}) /\ Ended(B, T, t) BY <2>2, <2>4, EndGood
  <2> QED BY <1>2, <2>4, <2>5 DEF Ended, Attended
<1>3. CASE Running /\ Unarmed(S) # {} /\ S.live
  <2>1. PICK w : w = [IdleTask EXCEPT !.pc = "opening", !.todo = Unarmed(S)] OBVIOUS
  <2>2. PICK B : B = Walked(S, t, w) OBVIOUS
  <2>3. T \in GoOn(B, t) BY <1>3, <2>1, <2>2 DEF Enter, Walked
  <2>4. Unarmed(S) \in SUBSET Streams /\ Free(Unarmed(S), S.stream) BY UnarmedAre DEF Free
  <2>5. w \in Walk /\ w.pc = "opening" /\ w.todo = Unarmed(S) /\ w.cancelled = FALSE
      BY <2>1, <2>4 DEF IdleTask, Walk
  <2>6. Good(B, {t}) /\ SameAir(S, B) /\ B.lock = S.lock /\ B.old = S.old /\ B.pass[t] = w
    <3>1. Steady(w) BY <2>5 DEF Steady
    <3>2. Good(B, {t}) /\ SameAir(S, B) /\ Walks(S, B, t, w) BY <2>2, <3>1, WalkGood
    <3> QED BY <3>2 DEF Walks
  <2>7. B.stream = S.stream /\ B.live = S.live BY <2>6 DEF SameAir
  <2>8. /\ B.pass[t].pc = "opening" /\ B.pass[t].cancelled = FALSE
        /\ Free(B.pass[t].todo, B.stream) /\ B.pass[t].todo # {}
      BY <1>3, <2>4, <2>5, <2>6, <2>7
  <2>9. Good(T, {}) /\ Attended(T) /\ T.live = B.live BY <2>3, <2>6, <2>8, GoOnGood
  <2> QED BY <2>7, <2>9
<1> QED BY <1>1, <1>2, <1>3

\* Task t waits at the end of the lock's queue, and S is T otherwise.
Lined(S, T, t) ==
    /\ T.live = S.live /\ T.slot = S.slot /\ T.stream = S.stream
    /\ T.pass[t].pc = "waiting" /\ \A u \in Tasks \ {t} : T.pass[u] = S.pass[u]

\* A task asks for the lock.
LEMMA EnsureGood ==
    ASSUME NEW S, NEW t \in Tasks, Good(S, {}), S.pass[t].pc \notin InPass, NEW T \in EnsureStreams(S, t)
    PROVE  Good(T, {}) /\ T.live = S.live /\ (Attended(T) \/ Lined(S, T, t))
<1>0. S \in States /\ S.pass \in [Tasks -> Walk] /\ S.lock \in Queue /\ S.old \in Queue
    BY DEF Good, States, Queued
<1>a. Good(S, {t}) BY PartGood
<1>b. ~InQ(S.lock, t) /\ ~InQ(S.old, t) BY DEF Good, Queued
<1>1. CASE ~Running \/ Held(S) = {}
  <2>1. T = EndPass(S, t, FALSE) BY <1>1 DEF EnsureStreams
  <2>2. Good(T, {}) /\ Ended(S, T, t) BY <1>a, <2>1, EndGood
  <2>3. Unarmed(S) \subseteq Held(S) BY DEF Unarmed
  <2> QED BY <1>1, <2>2, <2>3 DEF Ended, Attended
<1>2. CASE Running /\ Held(S) # {} /\ S.lock = <<>>
  <2>1. PICK B : B = [S EXCEPT !.lock = <<t>>] OBVIOUS
  <2>2. T \in Enter(B, t) BY <1>2, <2>1 DEF EnsureStreams
  <2>3. /\ B.live = S.live /\ B.session = S.session /\ B.feeds = S.feeds /\ B.stream = S.stream
        /\ B.count = S.count /\ B.slot = S.slot /\ B.pass = S.pass /\ B.lock = <<t>> /\ B.old = S.old
        /\ B \in States
    <3>1. PICK q : q = <<t>> OBVIOUS
    <3>2. q \in Seq(Tasks) BY <3>1
    <3>3. B = [S EXCEPT !.lock = q] BY <2>1, <3>1
    <3>4. /\ B.live = S.live /\ B.session = S.session /\ B.feeds = S.feeds /\ B.stream = S.stream
          /\ B.count = S.count /\ B.slot = S.slot /\ B.pass = S.pass /\ B.lock = q /\ B.old = S.old
          /\ B \in States
        BY <1>0, <3>2, <3>3 DEF States
    <3> QED BY <3>1, <3>4
  <2>4. S.old = <<>> BY <1>2, UnarmedAre DEF Good, Homed
  <2>5. <<t>> \in Queue /\ (\A u : InQ(<<t>>, u) <=> u = t) /\ Heads(<<t>>, t) BY AloneQueue
  <2>6. Queued(B.pass, B.lock, B.old, {t})
    <3>1. Queued(S.pass, S.lock, S.old, {t}) BY <1>a DEF Good
    <3>2. \A u : ~InQ(S.lock, u) /\ ~Heads(S.lock, u) BY <1>2, EmptyQueue
    <3> QED BY <2>3, <2>4, <2>5, <3>1, <3>2 DEF Queued
  <2>7. Clear(B.pass, B.stream, {t}) /\ Marked(B.pass, B.slot) BY <1>a, <2>3 DEF Good
  <2>8. SameAir(S, B) BY <2>3 DEF SameAir
  <2>9. Opens(S.stream) = {} \/ B.old = <<>> BY <2>3, <2>4
  <2>10. B.old = <<>> \/ S.old # <<>> BY <2>3, <2>4
  <2>11. Good(B, {t}) BY <1>a, <2>3, <2>6, <2>7, <2>8, <2>9, <2>10, GoodAir
  <2>12. Heads(B.lock, t) BY <2>3, <2>5
  <2>13. Good(T, {}) /\ Attended(T) /\ T.live = B.live BY <2>2, <2>11, <2>12, EnterGood
  <2> QED BY <2>3, <2>13
<1>3. CASE Running /\ Held(S) # {} /\ S.lock # <<>>
  <2>1. PICK w : w = [IdleTask EXCEPT !.pc = "waiting"] OBVIOUS
  <2>2. w \in Walk /\ w.pc = "waiting" /\ w.cancelled = FALSE BY <2>1 DEF IdleTask, Walk
  <2>3. T = [S EXCEPT !.lock = Append(S.lock, t), !.pass[t] = w]
      BY <1>0, <1>3, <2>1 DEF EnsureStreams, States
  <2>4. S.old = <<>> BY <1>3, UnarmedAre DEF Good, Homed
  <2>5. /\ Append(S.lock, t) \in Queue /\ \A u : InQ(Append(S.lock, t), u) <=> InQ(S.lock, u) \/ u = t
        /\ \A u : Heads(S.lock, u) => Heads(Append(S.lock, t), u)
      BY <1>0, <1>b, JoinQueue
  <2>6. PICK p : p = [S.pass EXCEPT ![t] = w] OBVIOUS
  <2>7. p \in [Tasks -> Walk] /\ p[t] = w /\ \A u \in Tasks \ {t} : p[u] = S.pass[u]
      BY <1>0, <2>2, <2>6
  <2>8. PICK q : q = Append(S.lock, t) OBVIOUS
  <2>9. T = [S EXCEPT !.lock = q, !.pass = p] BY <1>0, <2>3, <2>6, <2>8 DEF States
  <2>10. q \in Seq(Tasks) BY <2>5, <2>8 DEF Queue
  <2>11. /\ T.live = S.live /\ T.session = S.session /\ T.feeds = S.feeds /\ T.stream = S.stream
         /\ T.count = S.count /\ T.slot = S.slot /\ T.pass = p /\ T.lock = q /\ T.old = S.old
         /\ T \in States
      BY <1>0, <2>7, <2>9, <2>10 DEF States
  <2>12. Queued(T.pass, T.lock, T.old, {})
    <3>1. Queued(S.pass, S.lock, S.old, {}) BY DEF Good
    <3>2. q \in Queue /\ (\A u : InQ(q, u) <=> InQ(S.lock, u) \/ u = t)
          /\ \A u : Heads(S.lock, u) => Heads(q, u)
        BY <2>5, <2>8
    <3>3. ASSUME NEW u \in Tasks \ {}
          PROVE  /\ p[u].pc \in InPass <=> InQ(q, u) \/ InQ(S.old, u)
                 /\ p[u].pc = "opening" => Heads(q, u) \/ Heads(S.old, u)
      <4>1. CASE u = t BY <2>2, <2>7, <3>2, <4>1 DEF InPass
      <4>2. CASE u # t
        <5>1. p[u] = S.pass[u] BY <2>7, <4>2
        <5> QED BY <3>1, <3>2, <4>2, <5>1 DEF Queued
      <4> QED BY <4>1, <4>2
    <3> QED BY <2>4, <2>11, <3>1, <3>2, <3>3 DEF Queued
  <2>13. Clear(T.pass, T.stream, {}) BY <2>2, <2>7, <2>11 DEF Good, Clear
  <2>14. Marked(T.pass, T.slot) BY <2>2, <2>7, <2>11 DEF Good, Marked
  <2>15. SameAir(S, T) BY <2>11 DEF SameAir
  <2>16. Opens(S.stream) = {} \/ T.old = <<>> BY <2>4, <2>11
  <2>17. T.old = <<>> \/ S.old # <<>> BY <2>4, <2>11
  <2>18. Good(T, {}) BY <2>11, <2>12, <2>13, <2>14, <2>15, <2>16, <2>17, GoodAir
  <2>19. Lined(S, T, t) BY <2>2, <2>7, <2>11 DEF Lined
  <2> QED BY <2>11, <2>18, <2>19
<1> QED BY <1>1, <1>2, <1>3

\* A pass is spawned for whatever is off the air.
LEMMA SpawnGood ==
    ASSUME NEW S, Good(S, {}), \E t \in Spawns : S.pass[t].pc = "idle", NEW T \in SpawnPass(S)
    PROVE  Good(T, {}) /\ Attended(T) /\ T.live = S.live
<1>1. CASE ~Running \/ Held(S) = {}
  <2>1. T = S BY <1>1 DEF SpawnPass
  <2>2. Unarmed(S) \subseteq Held(S) BY DEF Unarmed
  <2> QED BY <1>1, <2>1, <2>2 DEF Attended
<1>2. CASE Running /\ Held(S) # {}
  <2>1. PICK t : t = CHOOSE u \in Spawns : S.pass[u].pc = "idle" OBVIOUS
  <2>2. t \in Spawns /\ S.pass[t].pc = "idle" BY <2>1
  <2>3. T \in EnsureStreams(S, t) BY <1>2, <2>1 DEF SpawnPass
  <2>4. t \in Tasks /\ S.pass[t].pc \notin InPass BY <2>2 DEF Tasks, InPass
  <2>5. Good(T, {}) /\ T.live = S.live /\ (Attended(T) \/ Lined(S, T, t)) BY <2>3, <2>4, EnsureGood
  <2>6. Lined(S, T, t) => Attended(T) BY <2>2 DEF Lined, Attended
  <2> QED BY <2>5, <2>6
<1> QED BY <1>1, <1>2

\* Streams U as they are once their session is lost.
Lost(line, U) ==
    [s \in Streams |-> IF s \in U THEN [line[s] EXCEPT !.conn = None, !.told = "off"] ELSE line[s]]

\* The session of state S is lost, and k is what is left of it: its streams are off
\* the air, and are told so.
Cut(S, k, c) == [S EXCEPT !.session = k, !.feeds[c] = NoFeeds]
Shed(S, c) == LET U == {s \in Held(S) : S.stream[s].conn = c} IN Notify(Disarm(S, U, c), U, "off")

LEMMA LostGood ==
    ASSUME NEW S, Good(S, {}), NEW c \in Conns, S.session.conn = c, NEW k \in Link,
           k.conn # None => k.conn = c /\ k.refs = S.session.refs,
           NEW T, T = Shed(Cut(S, k, c), c)
    PROVE  Good(T, {}) /\ SameCrew(S, T) /\ T.live = S.live /\ T.left = S.left
<1>0. /\ S \in States /\ S.stream \in [Streams -> Line] /\ S.feeds \in [Conns -> [Streams -> Nat]]
      /\ S.session \in Link /\ S.pass \in [Tasks -> Walk]
    BY DEF Good, States
<1>1. PICK B : B = Cut(S, k, c) OBVIOUS
<1>2. NoFeeds \in [Streams -> Nat] /\ \A s \in Streams : NoFeeds[s] = 0 BY DEF NoFeeds
<1>3. PICK f : f = [S.feeds EXCEPT ![c] = NoFeeds] OBVIOUS
<1>4. f \in [Conns -> [Streams -> Nat]] BY <1>0, <1>2, <1>3
<1>5. B = [S EXCEPT !.session = k, !.feeds = f] BY <1>0, <1>1, <1>3 DEF Cut, States
<1>6. /\ B.live = S.live /\ B.session = k /\ B.feeds = f /\ B.stream = S.stream /\ B.count = S.count
      /\ B.left = S.left /\ SameCrew(S, B) /\ B \in States
    BY <1>0, <1>4, <1>5 DEF States, SameCrew
<1>7. PICK U : U = {s \in Held(B) : B.stream[s].conn = c} OBVIOUS
<1>8. U = On(S.stream) /\ U \in SUBSET Streams
  <2>1. Fed(S.session, S.feeds, S.stream) BY DEF Good
  <2>2. U = {s \in Streams : S.stream[s].st = "open" /\ S.stream[s].conn = c}
      BY <1>6, <1>7, UnarmedAre DEF Opens
  <2>3. c # None BY StreamsAssumption
  <2> QED BY <2>1, <2>2, <2>3 DEF Fed, On
<1>9. IsFiniteSet(U) /\ Cardinality(U) \in Nat BY <1>8, Counting
<1>10. PICK j : j = Released(k, c, Cardinality(U)) OBVIOUS
<1>11. /\ j \in Link /\ j.conn = k.conn
       /\ Running /\ k.conn = c
             => j.refs = IF k.refs > Cardinality(U) THEN k.refs - Cardinality(U)
                         ELSE IF Cardinality(U) = 0 THEN k.refs ELSE 0
    BY <1>9, <1>10, ReleasedLink
<1>12. PICK l : l = Lost(S.stream, U) OBVIOUS
<1>13. PICK g : g = [f EXCEPT ![c] = Unfed(f[c], U)] OBVIOUS
<1>14. PICK D : D = Disarm(B, U, c) OBVIOUS
<1>15. /\ D.live = S.live /\ D.session = j /\ D.feeds = g /\ D.stream = Silenced(S.stream, U)
       /\ D.count = S.count /\ D.left = S.left /\ SameCrew(S, D) /\ Shaped(D)
  <2>1. PICK m : m = Silenced(S.stream, U) OBVIOUS
  <2>2. D = [B EXCEPT !.stream = m, !.feeds = g, !.session = j]
      BY <1>4, <1>6, <1>10, <1>13, <1>14, <2>1 DEF Disarm, States
  <2>3. /\ D.live = B.live /\ D.session = j /\ D.feeds = g /\ D.stream = m
        /\ D.count = B.count /\ D.left = B.left /\ SameCrew(B, D) /\ Shaped(D)
      BY <1>6, <2>2 DEF States, SameCrew, Shaped
  <2> QED BY <1>6, <2>1, <2>3 DEF SameCrew
<1>16. T = Notify(D, U, "off") BY <1>1, <1>7, <1>14 DEF Shed
<1>17. T.stream = l
  <2>1. T.stream = Hushed(D.stream, U) BY <1>15, <1>16 DEF Notify, Hushed, Shaped
  <2>2. Hushed(Silenced(S.stream, U), U) = l
    <3>1. ASSUME NEW s \in Streams PROVE Hushed(Silenced(S.stream, U), U)[s] = l[s]
      <4>1. S.stream[s] \in Line BY <1>0
      <4> QED BY <1>12, <4>1 DEF Hushed, Silenced, Lost, Line
    <3> QED BY <1>12, <3>1 DEF Hushed, Lost
  <2> QED BY <1>15, <2>1, <2>2
<1>18. /\ T.live = S.live /\ T.session = j /\ T.feeds = g /\ T.count = S.count /\ T.left = S.left
       /\ SameCrew(S, T) /\ Shaped(T)
  <2>1. /\ T.live = D.live /\ T.session = D.session /\ T.feeds = D.feeds /\ T.count = D.count
        /\ T.left = D.left /\ SameCrew(D, T) /\ Shaped(T)
      BY <1>15, <1>16 DEF Notify, Shaped, SameCrew
  <2> QED BY <1>15, <2>1 DEF SameCrew
<1>19. ASSUME NEW s \in Streams
       PROVE  /\ l[s] \in Line /\ l[s].conn = None /\ l[s].st = S.stream[s].st
              /\ l[s].closed = S.stream[s].closed
              /\ l[s].told = IF s \in U THEN "off" ELSE S.stream[s].told
  <2>1. S.stream[s] \in Line BY <1>0
  <2>2. CASE s \in U
    <3>1. l[s] = [S.stream[s] EXCEPT !.conn = None, !.told = "off"] BY <1>12, <2>2 DEF Lost
    <3> QED BY <2>1, <2>2, <3>1 DEF Line
  <2>3. CASE s \notin U
    <3>1. l[s] = S.stream[s] /\ S.stream[s].conn = None BY <1>8, <1>12, <2>3 DEF Lost, On
    <3> QED BY <2>1, <2>3, <3>1
  <2> QED BY <2>2, <2>3
<1>20. l \in [Streams -> Line]
  <2>1. l = [s \in Streams |-> l[s]] BY <1>12 DEF Lost
  <2> QED BY <1>19, <2>1
<1>21. On(l) = {} /\ Opens(l) = Opens(S.stream) BY <1>19 DEF On, Opens
<1>22. g \in [Conns -> [Streams -> Nat]] /\ Fed(j, g, l)
  <2>1. Unfed(NoFeeds, U) = NoFeeds BY <1>2 DEF Unfed, NoFeeds
  <2>2. g = f BY <1>0, <1>2, <1>3, <1>4, <1>13, <2>1
  <2>3. ASSUME NEW d \in Conns, NEW s \in Streams PROVE g[d][s] = IF l[s].conn = d THEN 1 ELSE 0
    <3>1. S.feeds[d][s] = IF S.stream[s].conn = d THEN 1 ELSE 0 BY DEF Good, Fed
    <3>2. S.stream[s].conn # None => S.stream[s].conn = c BY DEF Good, Fed
    <3>3. d # None BY StreamsAssumption
    <3>4. d = c => g[d][s] = 0 BY <1>0, <1>2, <1>3, <2>2
    <3>5. d # c => g[d][s] = S.feeds[d][s] BY <1>0, <1>3, <2>2
    <3> QED BY <1>19, <3>1, <3>2, <3>3, <3>4, <3>5
  <2> QED BY <1>4, <1>19, <2>2, <2>3 DEF Fed
<1>23. Honest(l)
  <2>1. Honest(S.stream) BY DEF Good
  <2>2. ASSUME NEW s \in Streams
        PROVE  /\ l[s].st = "open" => (l[s].conn # None <=> l[s].told = "on")
               /\ l[s].closed => l[s].st = "shut" /\ l[s].told = "off"
    <3>1. CASE s \in U BY <1>19, <2>1, <3>1 DEF Honest
    <3>2. CASE s \notin U
      <4>1. S.stream[s].conn = None BY <1>8, <3>2 DEF On
      <4> QED BY <1>19, <2>1, <3>2, <4>1 DEF Honest
    <3> QED BY <3>1, <3>2
  <2> QED BY <2>2 DEF Honest
<1>24. Counted(j, l, S.count)
  <2>1. Counted(S.session, S.stream, S.count) BY DEF Good
  <2>2. ASSUME Running, j.conn # None PROVE j.refs = 0
    <3>1. k.conn = c /\ k.refs = S.session.refs BY <1>11, <2>2
    <3>2. S.session.refs = Cardinality(U) BY <1>8, <2>1, <2>2, StreamsAssumption DEF Counted
    <3> QED BY <1>9, <1>11, <2>2, <3>1, <3>2
  <2>3. Cardinality(On(l)) = 0 BY <1>21, FS_EmptySet
  <2> QED BY <1>21, <2>1, <2>2, <2>3 DEF Counted
<1>25. T \in States
  <2>1. /\ T.live \in BOOLEAN /\ T.left \in SUBSET Streams /\ T.slot \in Retries \cup {None}
        /\ T.pass \in [Tasks -> Walk] /\ T.lock \in Seq(Tasks) /\ T.old \in Seq(Tasks)
        /\ T.count \in Nat
      BY <1>0, <1>18 DEF States, SameCrew
  <2>2. Shaped(T) BY <1>18
  <2>3. T.session \in Link /\ T.feeds \in [Conns -> [Streams -> Nat]] /\ T.stream \in [Streams -> Line]
      BY <1>11, <1>17, <1>18, <1>20, <1>22
  <2> QED BY <2>1, <2>2, <2>3, StatesShaped
<1>26. Clear(S.pass, l, {})
  <2>1. Clear(S.pass, S.stream, {}) BY DEF Good
  <2> QED BY <1>0, <1>19, <2>1, ClearLess
<1>27. Homed(l, S.old) BY <1>21 DEF Good, Homed
<1> QED BY <1>17, <1>18, <1>22, <1>23, <1>24, <1>25, <1>26, <1>27 DEF Good, SameCrew

\* T is S with a session for the stream that is about to be armed.
Ready(S, T) ==
    /\ Shaped(T) /\ SameCrew(S, T) /\ T.live = S.live /\ T.left = S.left
    /\ T.stream = S.stream /\ T.feeds = S.feeds /\ T.count = S.count
    /\ T.session \in Link /\ T.session.conn \in Conns /\ T.session.up = TRUE
    /\ \A s \in Streams : S.stream[s].conn # None => S.stream[s].conn = T.session.conn
    /\ Running => T.session.refs = Cardinality(On(S.stream)) + 1

\* A connection is opened, or referred to once more.
LEMMA OpenedReady == ASSUME NEW S, Good(S, {}), NEW T \in Opened(S) PROVE Ready(S, T)
<1>0. /\ S \in States /\ S.stream \in [Streams -> Line] /\ S.feeds \in [Conns -> [Streams -> Nat]]
      /\ S.session \in Link
    BY DEF Good, States
<1>1. /\ \A c \in Conns, s \in Streams : S.feeds[c][s] = IF S.stream[s].conn = c THEN 1 ELSE 0
      /\ \A s \in Streams : S.stream[s].conn # None
             => S.stream[s].st = "open" /\ S.stream[s].conn = S.session.conn /\ S.session.up
    BY DEF Good, Fed
<1>2. CASE S.session.conn # None /\ S.session.up
  <2>1. T = [S EXCEPT !.session.refs = @ + 1] BY <1>2 DEF Opened
  <2>2. PICK j : j = [S.session EXCEPT !.refs = @ + 1] OBVIOUS
  <2>3. j \in Link /\ j.conn = S.session.conn /\ j.up = S.session.up /\ j.refs = S.session.refs + 1
      BY <1>0, <2>2 DEF Link
  <2>4. T = [S EXCEPT !.session = j] BY <1>0, <2>1, <2>2 DEF States
  <2>5. /\ Shaped(T) /\ SameCrew(S, T) /\ T.live = S.live /\ T.left = S.left
        /\ T.stream = S.stream /\ T.feeds = S.feeds /\ T.count = S.count /\ T.session = j
      BY <1>0, <2>4 DEF States, Shaped, SameCrew
  <2>6. j.conn \in Conns /\ j.up = TRUE BY <1>0, <1>2, <2>3 DEF Link
  <2>7. Running => S.session.refs = Cardinality(On(S.stream)) BY <1>2 DEF Good, Counted
  <2>8. \A s \in Streams : S.stream[s].conn # None => S.stream[s].conn = T.session.conn
      BY <1>1, <2>3, <2>5
  <2>9. Running => T.session.refs = Cardinality(On(S.stream)) + 1 BY <2>3, <2>5, <2>7
  <2> QED BY <2>3, <2>5, <2>6, <2>8, <2>9 DEF Ready
<1>3. CASE ~(S.session.conn # None /\ S.session.up)
  <2>1. PICK c \in Conns : T = [S EXCEPT !.session = [conn |-> c, up |-> TRUE, refs |-> 1, closing |-> @.closing],
                                         !.feeds[c] = NoFeeds]
      BY <1>3 DEF Opened
  <2>2. PICK j : j = [conn |-> c, up |-> TRUE, refs |-> 1, closing |-> S.session.closing] OBVIOUS
  <2>3. j \in Link /\ j.conn = c /\ j.up = TRUE /\ j.refs = 1 BY <1>0, <2>2 DEF Link
  <2>4. PICK f : f = [S.feeds EXCEPT ![c] = NoFeeds] OBVIOUS
  <2>5. T = [S EXCEPT !.session = j, !.feeds = f] BY <1>0, <2>1, <2>2, <2>4 DEF States
  <2>6. \A s \in Streams : S.stream[s].conn = None BY <1>1, <1>3
  <2>7. f = S.feeds
    <3>1. c # None BY StreamsAssumption
    <3>2. S.feeds[c] \in [Streams -> Nat] /\ \A s \in Streams : S.feeds[c][s] = 0 BY <1>0, <1>1, <2>6, <3>1
    <3>3. S.feeds[c] = NoFeeds BY <3>2 DEF NoFeeds
    <3> QED BY <1>0, <2>4, <3>3
  <2>8. /\ Shaped(T) /\ SameCrew(S, T) /\ T.live = S.live /\ T.left = S.left
        /\ T.stream = S.stream /\ T.feeds = f /\ T.count = S.count /\ T.session = j
      BY <1>0, <2>5 DEF States, Shaped, SameCrew
  <2>9. Cardinality(On(S.stream)) = 0
    <3>1. On(S.stream) = {} BY <2>6 DEF On
    <3> QED BY <3>1, FS_EmptySet
  <2> QED BY <2>3, <2>6, <2>7, <2>8, <2>9 DEF Ready
<1> QED BY <1>2, <1>3

\* What an opening task t is up to, and what the others are not.
LEMMA OpeningIs ==
    ASSUME NEW S, Good(S, {}), NEW t \in Tasks, S.pass[t].pc = "opening"
    PROVE  /\ S.pass[t].at \in Streams \ S.pass[t].todo /\ S.pass[t].todo \in SUBSET Streams
           /\ Heads(S.lock, t) \/ Heads(S.old, t)
           /\ S.stream[S.pass[t].at].st = "open" => S.stream[S.pass[t].at].conn = None
           /\ Free(S.pass[t].todo, S.stream)
           /\ \A u \in Tasks \ {t} : S.pass[u].pc # "opening"
<1>1. S.pass[t] \in Walk BY DEF Good, States
<1>2. Queued(S.pass, S.lock, S.old, {}) /\ Clear(S.pass, S.stream, {}) BY DEF Good
<1>3. Heads(S.lock, t) \/ Heads(S.old, t) BY <1>2 DEF Queued
<1>4. Ahead(S.pass[t], S.stream) BY <1>2 DEF Clear
<1>5. \A u \in Tasks : S.pass[u].pc = "opening" => u = t
  <2>1. ASSUME NEW u \in Tasks \ {}, S.pass[u].pc = "opening" PROVE u = t BY <1>2, <1>3, <2>1, OneOpens
  <2> QED BY <2>1
<1> QED BY <1>1, <1>3, <1>4, <1>5 DEF Ahead, Free, Walk

\* Stream s is fed by the session of S.
Arm(S, s, c) == [S EXCEPT !.stream[s] = [@ EXCEPT !.conn = c, !.told = "on"], !.feeds[c][s] = @ + 1]

\* One more callback for stream s on connection c.
LEMMA FeedsPlus ==
    ASSUME NEW F \in [Conns -> [Streams -> Nat]], NEW c \in Conns, NEW s \in Streams
    PROVE  LET f == [F EXCEPT ![c][s] = @ + 1]
           IN  /\ f \in [Conns -> [Streams -> Nat]] /\ f[c][s] = F[c][s] + 1
               /\ \A u \in Streams \ {s} : f[c][u] = F[c][u]
               /\ \A d \in Conns \ {c} : f[d] = F[d]
<1> DEFINE h == [F[c] EXCEPT ![s] = @ + 1]
<1>1. F[c] \in [Streams -> Nat] /\ F[c][s] \in Nat OBVIOUS
<1>2. h \in [Streams -> Nat] /\ h[s] = F[c][s] + 1 /\ \A u \in Streams \ {s} : h[u] = F[c][u]
    BY <1>1
<1>3. [F EXCEPT ![c][s] = @ + 1] = [F EXCEPT ![c] = h] OBVIOUS
<1> HIDE DEF h
<1> QED BY <1>2, <1>3

\* Task t's pass is about to arm stream s on connection c.
Arming(S, R, t, s, c) == /\ S.pass[t].pc = "opening" /\ s = S.pass[t].at
                         /\ S.stream[s].st = "open" /\ c = R.session.conn

LEMMA ArmGood ==
    ASSUME NEW S, Good(S, {}), Running, NEW t \in Tasks, NEW s \in Streams,
           NEW R, Ready(S, R), NEW c, Arming(S, R, t, s, c), NEW T, T = Arm(R, s, c)
    PROVE  Good(T, {t}) /\ SameCrew(S, T) /\ T.live = S.live /\ Free(S.pass[t].todo, T.stream)
<1>0. /\ S \in States /\ S.stream \in [Streams -> Line] /\ S.feeds \in [Conns -> [Streams -> Nat]]
      /\ S.session \in Link /\ S.count \in Nat
    BY DEF Good, States
<1>1. /\ Shaped(R) /\ SameCrew(S, R) /\ R.live = S.live /\ R.left = S.left
      /\ R.stream = S.stream /\ R.feeds = S.feeds /\ R.count = S.count
      /\ R.session \in Link /\ c \in Conns /\ R.session.up = TRUE
      /\ \A u \in Streams : S.stream[u].conn # None => S.stream[u].conn = c
      /\ R.session.refs = Cardinality(On(S.stream)) + 1 /\ c = R.session.conn
    BY DEF Ready, Arming
<1>2. PICK q : q = [S.stream[s] EXCEPT !.conn = c, !.told = "on"] OBVIOUS
<1>3. S.stream[s] \in Line /\ S.stream[s].conn = None /\ S.stream[s].st = "open" /\ c # None
  <2>1. S.stream[s].conn = None BY OpeningIs DEF Arming
  <2>2. S.stream[s].st = "open" BY DEF Arming
  <2> QED BY <1>0, <1>1, <2>1, <2>2, StreamsAssumption
<1>4. /\ q \in Line /\ q.conn = c /\ q.told = "on" /\ q.st = "open"
      /\ q.closed = S.stream[s].closed
    BY <1>1, <1>2, <1>3 DEF Line
<1>5. PICK l : l = [S.stream EXCEPT ![s] = q] OBVIOUS
<1>6. l \in [Streams -> Line] /\ l[s] = q /\ \A u \in Streams \ {s} : l[u] = S.stream[u]
    BY <1>0, <1>4, <1>5
<1>7. PICK F : F = S.feeds /\ F \in [Conns -> [Streams -> Nat]] BY <1>0
<1>8. PICK f : f = [F EXCEPT ![c][s] = @ + 1] OBVIOUS
<1>9. /\ f \in [Conns -> [Streams -> Nat]] /\ f[c][s] = F[c][s] + 1
      /\ \A u \in Streams \ {s} : f[c][u] = F[c][u]
      /\ \A d \in Conns \ {c} : f[d] = F[d]
    BY <1>1, <1>7, <1>8, FeedsPlus
<1>12. T = [R EXCEPT !.stream = l, !.feeds = f]
    BY <1>1, <1>2, <1>5, <1>7, <1>8 DEF Arm, Shaped
<1>13. /\ T.live = S.live /\ T.session = R.session /\ T.feeds = f /\ T.stream = l
       /\ T.count = S.count /\ T.left = S.left /\ SameCrew(S, T) /\ Shaped(T)
    BY <1>1, <1>12 DEF Shaped, SameCrew
<1>14. On(l) = On(S.stream) \cup {s} /\ s \notin On(S.stream) /\ Opens(l) = Opens(S.stream)
    BY <1>3, <1>4, <1>6 DEF On, Opens
<1>15. Fed(R.session, f, l)
  <2>1. Fed(S.session, S.feeds, S.stream) BY DEF Good
  <2>2. ASSUME NEW d \in Conns, NEW u \in Streams PROVE f[d][u] = IF l[u].conn = d THEN 1 ELSE 0
    <3>1. S.feeds[d][u] = IF S.stream[u].conn = d THEN 1 ELSE 0 BY <2>1 DEF Fed
    <3>2. d # None BY StreamsAssumption
    <3>3. CASE u = s /\ d = c BY <1>3, <1>4, <1>6, <1>7, <1>9, <3>1, <3>2, <3>3
    <3>4. CASE u = s /\ d # c BY <1>3, <1>4, <1>6, <1>7, <1>9, <3>1, <3>2, <3>4
    <3>5. CASE u # s /\ d = c BY <1>6, <1>7, <1>9, <3>1, <3>5
    <3>6. CASE u # s /\ d # c BY <1>6, <1>7, <1>9, <3>1, <3>6
    <3> QED BY <3>3, <3>4, <3>5, <3>6
  <2>3. ASSUME NEW u \in Streams, l[u].conn # None
        PROVE  l[u].st = "open" /\ l[u].conn = R.session.conn /\ R.session.up
    <3>1. CASE u = s BY <1>1, <1>4, <1>6, <3>1
    <3>2. CASE u # s
      <4>1. l[u] = S.stream[u] BY <1>6, <3>2
      <4>2. S.stream[u].st = "open" BY <2>1, <2>3, <4>1 DEF Fed
      <4> QED BY <1>1, <2>3, <4>1, <4>2
    <3> QED BY <3>1, <3>2
  <2> QED BY <2>2, <2>3 DEF Fed
<1>16. Honest(l)
  <2>1. Honest(S.stream) BY DEF Good
  <2>2. ASSUME NEW u \in Streams
        PROVE  /\ l[u].st = "open" => (l[u].conn # None <=> l[u].told = "on")
               /\ l[u].closed => l[u].st = "shut" /\ l[u].told = "off"
    <3>1. CASE u = s
      <4>1. S.stream[s].closed = FALSE BY <1>3, <2>1 DEF Honest, Line
      <4> QED BY <1>3, <1>4, <1>6, <3>1, <4>1
    <3>2. CASE u # s
      <4>1. l[u] = S.stream[u] BY <1>6, <3>2
      <4> QED BY <2>1, <4>1 DEF Honest
    <3> QED BY <3>1, <3>2
  <2> QED BY <2>2 DEF Honest
<1>17. Counted(R.session, l, S.count)
  <2>1. Cardinality(On(l)) = Cardinality(On(S.stream)) + 1
    <3>1. On(S.stream) \in SUBSET Streams /\ s \in Streams \ On(S.stream) BY <1>14 DEF On
    <3> QED BY <1>14, <3>1, Counting
  <2>2. Counted(S.session, S.stream, S.count) BY DEF Good
  <2> QED BY <1>1, <1>14, <2>1, <2>2 DEF Counted
<1>18. Homed(l, S.old) BY <1>14 DEF Good, Homed
<1>19. Queued(S.pass, S.lock, S.old, {t}) /\ Marked(S.pass, S.slot)
  <2>1. Good(S, {t}) BY PartGood
  <2> QED BY <2>1 DEF Good
<1>20. Clear(S.pass, l, {t}) BY OpeningIs DEF Clear, Arming
<1>21. T \in States
  <2>1. /\ T.live \in BOOLEAN /\ T.left \in SUBSET Streams /\ T.slot \in Retries \cup {None}
        /\ T.pass \in [Tasks -> Walk] /\ T.lock \in Seq(Tasks) /\ T.old \in Seq(Tasks)
        /\ T.count \in Nat
      BY <1>0, <1>13 DEF States, SameCrew
  <2>2. Shaped(T) BY <1>13
  <2>3. T.session \in Link /\ T.feeds \in [Conns -> [Streams -> Nat]] /\ T.stream \in [Streams -> Line]
      BY <1>1, <1>6, <1>9, <1>13
  <2> QED BY <2>1, <2>2, <2>3, StatesShaped
<1>22. T.pass = S.pass /\ T.lock = S.lock /\ T.old = S.old /\ T.slot = S.slot BY <1>13 DEF SameCrew
<1>23. Good(T, {t})
    BY <1>13, <1>15, <1>16, <1>17, <1>18, <1>19, <1>20, <1>21, <1>22 DEF Good
<1>24. Free(S.pass[t].todo, l)
  <2>1. s \notin S.pass[t].todo /\ S.pass[t].todo \in SUBSET Streams /\ Free(S.pass[t].todo, S.stream)
      BY OpeningIs DEF Arming
  <2> QED BY <1>6, <2>1 DEF Free
<1> QED BY <1>13, <1>23, <1>24

\* Task t's pass may go on.
Goes(S, t) == S.pass[t].pc = "opening" /\ S.pass[t].cancelled = FALSE /\ Spare(S)

\* Task t's pass goes on in state C, where the air is another than in S.
LEMMA OnwardGood ==
    ASSUME NEW S, Good(S, {}), NEW t \in Tasks, Goes(S, t),
           NEW C, Good(C, {t}), SameCrew(S, C), C.live = S.live,
           Free(S.pass[t].todo, C.stream), NEW T \in GoOn(C, t)
    PROVE  Good(T, {}) /\ Attended(T) /\ T.live = S.live
<1>1. C.pass = S.pass /\ C.lock = S.lock /\ C.old = S.old /\ C.slot = S.slot BY DEF SameCrew
<1>a. S.pass[t].pc = "opening" /\ S.pass[t].cancelled = FALSE /\ Spare(S) BY DEF Goes
<1>2. Heads(C.lock, t) \/ Heads(C.old, t) BY <1>1, <1>a, OpeningIs
<1>3. Spare(C) BY <1>1, <1>a DEF Spare
<1>4. C.pass[t].pc = "opening" /\ C.pass[t].cancelled = FALSE /\ Free(C.pass[t].todo, C.stream)
    BY <1>1, <1>a
<1> QED BY <1>2, <1>3, <1>4, GoOnGood

\* The stream of an opening task hears that it is off the air, if it is still open.
Told(S, s) == IF S.stream[s].st = "open" THEN Notify(S, {s}, "off") ELSE S

LEMMA ToldGood ==
    ASSUME NEW S, Good(S, {}), NEW t \in Tasks, Goes(S, t),
           NEW B, Good(B, {}), SameCrew(S, B), B.live = S.live, B.stream = S.stream,
           NEW s, s = S.pass[t].at, NEW T \in GoOn(Told(B, s), t)
    PROVE  Good(T, {}) /\ Attended(T) /\ T.live = S.live
<1>1. PICK C : C = Told(B, s) OBVIOUS
<1>2. Free(S.pass[t].todo, S.stream) /\ S.pass[t].todo \in SUBSET Streams /\ s \in Streams
      /\ (S.stream[s].st = "open" => S.stream[s].conn = None)
    BY OpeningIs DEF Goes
<1>3. Good(C, {}) /\ SameCrew(B, C) /\ C.live = B.live
      /\ \A u \in Streams : C.stream[u].st = B.stream[u].st /\ C.stream[u].conn = B.stream[u].conn
  <2>1. CASE B.stream[s].st = "open"
    <3>1. C = Notify(B, {s}, "off") BY <1>1, <2>1 DEF Told
    <3>2. {s} \in SUBSET Streams /\ \A u \in {s} : B.stream[u].st = "open" /\ B.stream[u].conn = None
        BY <1>2, <2>1
    <3> QED BY <3>1, <3>2, NotifyGood
  <2>2. CASE B.stream[s].st # "open"
    <3>1. C = B BY <1>1, <2>2 DEF Told
    <3> QED BY <3>1 DEF SameCrew
  <2> QED BY <2>1, <2>2
<1>4. Good(C, {t}) BY <1>3, PartGood
<1>5. SameCrew(S, C) /\ C.live = S.live BY <1>3 DEF SameCrew
<1>6. Free(S.pass[t].todo, C.stream) BY <1>2, <1>3 DEF Free
<1>7. T \in GoOn(C, t) BY <1>1
<1> QED BY <1>4, <1>5, <1>6, <1>7, OnwardGood

\* The connection that was opened for a stream is released again.
GivenBack(R) == [R EXCEPT !.session = Released(@, @.conn, 1)]

LEMMA GivenBackGood ==
    ASSUME NEW S, Good(S, {}), Running, NEW R, Ready(S, R), NEW T, T = GivenBack(R)
    PROVE  Good(T, {}) /\ SameCrew(S, T) /\ T.live = S.live /\ T.stream = S.stream
<1>0. /\ S \in States /\ S.stream \in [Streams -> Line] /\ S.feeds \in [Conns -> [Streams -> Nat]]
      /\ S.session \in Link /\ S.count \in Nat
    BY DEF Good, States
<1>1. /\ Shaped(R) /\ SameCrew(S, R) /\ R.live = S.live /\ R.left = S.left
      /\ R.stream = S.stream /\ R.feeds = S.feeds /\ R.count = S.count
      /\ R.session \in Link /\ R.session.conn \in Conns /\ R.session.up = TRUE
      /\ \A u \in Streams : S.stream[u].conn # None => S.stream[u].conn = R.session.conn
      /\ R.session.refs = Cardinality(On(S.stream)) + 1
    BY DEF Ready
<1>2. PICK j : j = Released(R.session, R.session.conn, 1) OBVIOUS
<1>3. T = [R EXCEPT !.session = j] BY <1>1, <1>2 DEF GivenBack, Shaped
<1>4. /\ T.live = S.live /\ T.session = j /\ T.feeds = S.feeds /\ T.stream = S.stream
      /\ T.count = S.count /\ T.left = S.left /\ SameCrew(S, T) /\ Shaped(T)
    BY <1>1, <1>3 DEF Shaped, SameCrew
<1>5. /\ j \in Link /\ j.conn = R.session.conn /\ j.up = TRUE
      /\ j.refs = IF R.session.refs > 1 THEN R.session.refs - 1 ELSE 0
    BY <1>1, <1>2, ReleasedLink
<1>6. Cardinality(On(S.stream)) \in Nat
  <2>1. On(S.stream) \in SUBSET Streams BY DEF On
  <2> QED BY <2>1, Counting
<1>7. j.refs = Cardinality(On(S.stream)) BY <1>1, <1>5, <1>6
<1>8. Fed(j, S.feeds, S.stream)
  <2>1. Fed(S.session, S.feeds, S.stream) BY DEF Good
  <2> QED BY <1>1, <1>5, <2>1 DEF Fed
<1>9. Counted(j, S.stream, S.count)
  <2>1. Counted(S.session, S.stream, S.count) BY DEF Good
  <2> QED BY <1>7, <2>1 DEF Counted
<1>10. T \in States
  <2>1. /\ T.live \in BOOLEAN /\ T.left \in SUBSET Streams /\ T.slot \in Retries \cup {None}
        /\ T.pass \in [Tasks -> Walk] /\ T.lock \in Seq(Tasks) /\ T.old \in Seq(Tasks)
        /\ T.count \in Nat
      BY <1>0, <1>4 DEF States, SameCrew
  <2>2. Shaped(T) BY <1>4
  <2>3. T.session \in Link /\ T.feeds \in [Conns -> [Streams -> Nat]] /\ T.stream \in [Streams -> Line]
      BY <1>0, <1>4, <1>5
  <2> QED BY <2>1, <2>2, <2>3, StatesShaped
<1>11. T.pass = S.pass /\ T.lock = S.lock /\ T.old = S.old /\ T.slot = S.slot BY <1>4 DEF SameCrew
<1>12. /\ Queued(S.pass, S.lock, S.old, {}) /\ Marked(S.pass, S.slot) /\ Clear(S.pass, S.stream, {})
       /\ Honest(S.stream) /\ Homed(S.stream, S.old)
    BY DEF Good
<1>13. Good(T, {}) BY <1>4, <1>8, <1>9, <1>10, <1>11, <1>12 DEF Good
<1> QED BY <1>4, <1>13

\* A session that holds no stream may be forgotten.
LEMMA NoSessionGood ==
    ASSUME NEW S, Good(S, {}), S.session.conn = None \/ ~S.session.up,
           NEW T, T = [S EXCEPT !.session = NoSession]
    PROVE  Good(T, {}) /\ SameCrew(S, T) /\ T.live = S.live /\ T.stream = S.stream
<1>1. S \in States /\ NoSession \in Link /\ NoSession.conn = None BY DEF Good, States, NoSession, Link
<1>2. /\ T \in States /\ T.live = S.live /\ T.session = NoSession /\ T.feeds = S.feeds
      /\ T.stream = S.stream /\ T.count = S.count /\ SameCrew(S, T)
    BY <1>1 DEF States, SameCrew
<1>3. T.pass = S.pass /\ T.lock = S.lock /\ T.old = S.old /\ T.slot = S.slot BY <1>2 DEF SameCrew
<1>4. /\ Queued(S.pass, S.lock, S.old, {}) /\ Marked(S.pass, S.slot) /\ Clear(S.pass, S.stream, {})
      /\ Honest(S.stream) /\ Homed(S.stream, S.old)
      /\ Fed(S.session, S.feeds, S.stream) /\ Counted(S.session, S.stream, S.count)
    BY DEF Good
<1>5. Fed(NoSession, S.feeds, S.stream) BY <1>4 DEF Fed
<1>6. Counted(NoSession, S.stream, S.count) BY <1>1, <1>4 DEF Counted
<1>7. Good(T, {}) BY <1>2, <1>3, <1>4, <1>5, <1>6 DEF Good
<1> QED BY <1>2, <1>7

\* A session may close.
LEMMA ClosingGood ==
    ASSUME NEW S, Good(S, {}), NEW T, T = [S EXCEPT !.session = [@ EXCEPT !.closing = TRUE]]
    PROVE  Good(T, {})
<1>0. S \in States /\ S.session \in Link BY DEF Good, States
<1>1. PICK j : j = [S.session EXCEPT !.closing = TRUE] OBVIOUS
<1>2. j \in Link /\ j.conn = S.session.conn /\ j.up = S.session.up /\ j.refs = S.session.refs
    BY <1>0, <1>1 DEF Link
<1>3. T = [S EXCEPT !.session = j] BY <1>0, <1>1 DEF States
<1>4. /\ T \in States /\ T.live = S.live /\ T.session = j /\ T.feeds = S.feeds
      /\ T.stream = S.stream /\ T.count = S.count
      /\ T.pass = S.pass /\ T.lock = S.lock /\ T.old = S.old /\ T.slot = S.slot
    BY <1>0, <1>2, <1>3 DEF States
<1>5. /\ Queued(S.pass, S.lock, S.old, {}) /\ Marked(S.pass, S.slot) /\ Clear(S.pass, S.stream, {})
      /\ Honest(S.stream) /\ Homed(S.stream, S.old)
      /\ Fed(S.session, S.feeds, S.stream) /\ Counted(S.session, S.stream, S.count)
    BY DEF Good
<1>6. Fed(j, S.feeds, S.stream) /\ Counted(j, S.stream, S.count) BY <1>2, <1>5 DEF Fed, Counted
<1> QED BY <1>4, <1>5, <1>6 DEF Good

\* A client subscribes: nothing opens stream s, nor is about to.
Subscribed(S, s) == [S EXCEPT !.stream[s] = [NewStream EXCEPT !.st = "open"], !.count = @ + 1]

LEMMA SubscribedGood ==
    ASSUME NEW S, Good(S, {}), Running, managed, NEW s \in Streams, S.stream[s].st # "open",
           \A t \in Tasks : s # S.pass[t].at /\ s \notin S.pass[t].todo,
           NEW T, T = Subscribed(S, s)
    PROVE  Good(T, {}) /\ SameCrew(S, T) /\ T.live = S.live /\ Unarmed(T) = Unarmed(S) \cup {s}
<1>0. /\ S \in States /\ S.stream \in [Streams -> Line] /\ S.feeds \in [Conns -> [Streams -> Nat]]
      /\ S.count \in Nat /\ S.pass \in [Tasks -> Walk]
    BY DEF Good, States
<1>1. PICK q : q = [NewStream EXCEPT !.st = "open"] OBVIOUS
<1>2. q \in Line /\ q.st = "open" /\ q.conn = None /\ q.told = "nothing" /\ q.closed = FALSE
    BY <1>1 DEF NewStream, Line
<1>3. PICK l : l = [S.stream EXCEPT ![s] = q] OBVIOUS
<1>4. l \in [Streams -> Line] /\ l[s] = q /\ \A u \in Streams \ {s} : l[u] = S.stream[u]
    BY <1>0, <1>2, <1>3
<1>5. PICK n : n = S.count + 1 OBVIOUS
<1>a. n \in Nat BY <1>0, <1>5
<1>b. T = [S EXCEPT !.stream = l, !.count = n] BY <1>0, <1>1, <1>3, <1>5 DEF Subscribed, States
<1>6. /\ T \in States /\ T.live = S.live /\ T.session = S.session /\ T.feeds = S.feeds
      /\ T.stream = l /\ T.count = n /\ SameCrew(S, T)
    BY <1>0, <1>4, <1>a, <1>b DEF States, SameCrew
<1>7. /\ Queued(S.pass, S.lock, S.old, {}) /\ Marked(S.pass, S.slot) /\ Clear(S.pass, S.stream, {})
      /\ Honest(S.stream) /\ Homed(S.stream, S.old)
      /\ Fed(S.session, S.feeds, S.stream) /\ Counted(S.session, S.stream, S.count)
    BY DEF Good
<1>8. S.stream[s].conn = None BY <1>7 DEF Fed
<1>9. /\ Opens(l) = Opens(S.stream) \cup {s} /\ s \in Streams \ Opens(S.stream)
      /\ Opens(S.stream) \in SUBSET Streams /\ On(l) = On(S.stream)
    BY <1>2, <1>4, <1>8 DEF Opens, On
<1>10. \A u \in Streams : l[u].conn = S.stream[u].conn BY <1>2, <1>4, <1>8
<1>11. Fed(S.session, S.feeds, l)
  <2>1. \A u \in Streams : l[u].conn # None => u # s BY <1>8, <1>10
  <2> QED BY <1>4, <1>7, <1>10, <2>1 DEF Fed
<1>12. Honest(l)
  <2>1. ASSUME NEW u \in Streams
        PROVE  /\ l[u].st = "open" => (l[u].conn # None <=> l[u].told = "on")
               /\ l[u].closed => l[u].st = "shut" /\ l[u].told = "off"
    <3>1. CASE u = s BY <1>2, <1>4, <3>1
    <3>2. CASE u # s BY <1>4, <1>7, <3>2 DEF Honest
    <3> QED BY <3>1, <3>2
  <2> QED BY <2>1 DEF Honest
<1>13. Counted(S.session, l, n)
  <2>1. Cardinality(Opens(l)) = Cardinality(Opens(S.stream)) + 1 BY <1>9, Counting
  <2> QED BY <1>5, <1>7, <1>9, <2>1 DEF Counted
<1>14. Homed(l, S.old) BY <1>7 DEF Homed
<1>15. Clear(S.pass, l, {})
  <2>1. ASSUME NEW t \in Tasks \ {}, S.pass[t].pc = "opening" PROVE Ahead(S.pass[t], l)
    <3>1. Ahead(S.pass[t], S.stream) BY <1>7, <2>1 DEF Clear
    <3>2. S.pass[t].todo \in SUBSET Streams /\ S.pass[t] \in Walk BY <1>0 DEF Walk
    <3> QED BY <1>4, <3>1, <3>2 DEF Ahead
  <2> QED BY <2>1 DEF Clear
<1>16. T.pass = S.pass /\ T.lock = S.lock /\ T.old = S.old /\ T.slot = S.slot BY <1>6 DEF SameCrew
<1>17. Good(T, {}) BY <1>6, <1>7, <1>11, <1>12, <1>13, <1>14, <1>15, <1>16 DEF Good
<1>18. Unarmed(T) = Unarmed(S) \cup {s}
  <2>1. Unarmed(T) = {u \in Streams : l[u].st = "open" /\ l[u].conn = None} BY <1>6, UnarmedAre
  <2>2. Unarmed(S) = {u \in Streams : S.stream[u].st = "open" /\ S.stream[u].conn = None}
      BY UnarmedAre
  <2> QED BY <1>2, <1>4, <1>8, <2>1, <2>2
<1> QED BY <1>6, <1>17, <1>18

\* The streams of a device, once it has dropped those it held.
Parted(line) ==
    [s \in Streams |-> IF line[s].st = "open"
                       THEN [st |-> "shut", conn |-> None, told |-> "off", closed |-> TRUE] ELSE line[s]]

LEMMA PartedGood ==
    ASSUME NEW k, NEW fed, NEW line \in [Streams -> Line], Fed(k, fed, line), Honest(line),
           NEW l, l = Parted(line)
    PROVE  /\ l \in [Streams -> Line] /\ Honest(l)
           /\ \A s \in Streams : l[s].st # "open" /\ l[s].conn = None
           /\ Opens(l) = {} /\ On(l) = {}
<1>1. ASSUME NEW s \in Streams
      PROVE  /\ l[s] \in Line /\ l[s].st # "open" /\ l[s].conn = None
             /\ l[s].closed => l[s].st = "shut" /\ l[s].told = "off"
  <2>1. CASE line[s].st = "open" BY <2>1 DEF Parted, Line
  <2>2. CASE line[s].st # "open"
    <3>1. l[s] = line[s] BY <2>2 DEF Parted
    <3>2. line[s].conn = None BY <2>2 DEF Fed
    <3> QED BY <2>2, <3>1, <3>2 DEF Honest
  <2> QED BY <2>1, <2>2
<1>2. l \in [Streams -> Line]
  <2>1. l = [s \in Streams |-> l[s]] BY DEF Parted
  <2> QED BY <1>1, <2>1
<1>3. Honest(l) BY <1>1 DEF Honest
<1> QED BY <1>1, <1>2, <1>3 DEF Opens, On

-----------------------------------------------------------------------------
(* The steps                                                               *)

\* What a step leaves is good if its parts are.
LEMMA Settled ==
    ASSUME NEW S \in States, Becomes(S), S.live = (managed' /\ available'),
           available' \in BOOLEAN, managed' \in BOOLEAN, phase' \in {"running", "draining", "stopped"},
           Fed(S.session, S.feeds, S.stream), Honest(S.stream),
           Queued(S.pass, S.lock, S.old, {}), Clear(S.pass, S.stream, {}), Marked(S.pass, S.slot),
           Counted(S.session, S.stream, S.count)', Homed(S.stream, S.old)', Attended(S)'
    PROVE  IInv'
<1>1. Now' = S
  <2>1. Now' = [live |-> S.live, session |-> S.session, feeds |-> S.feeds, stream |-> S.stream,
                left |-> S.left, count |-> S.count, slot |-> S.slot, pass |-> S.pass,
                lock |-> S.lock, old |-> S.old]
      BY DEF Now, Becomes
  <2>2. Shaped(S) BY ShapedStates
  <2> QED BY <2>1, <2>2 DEF Shaped
<1>2. Good(S, {})' BY DEF Good
<1> QED BY <1>1, <1>2 DEF IInv

LEMMA Stepped ==
    ASSUME IInv, NEW S, Good(S, {}), Attended(S), Becomes(S), S.live = Now.live,
           UNCHANGED <<available, managed, phase>>
    PROVE  IInv'
<1>1. /\ S \in States /\ Fed(S.session, S.feeds, S.stream) /\ Honest(S.stream)
      /\ Queued(S.pass, S.lock, S.old, {}) /\ Clear(S.pass, S.stream, {}) /\ Marked(S.pass, S.slot)
      /\ Counted(S.session, S.stream, S.count) /\ Homed(S.stream, S.old)
    BY DEF Good
<1>2. Counted(S.session, S.stream, S.count)' BY <1>1 DEF Counted, Running
<1>3. Homed(S.stream, S.old)' BY <1>1 DEF Homed, Running
<1>4. Attended(S)' BY DEF Attended, Running
<1>5. S.live = (managed' /\ available') BY DEF Now
<1>6. available' \in BOOLEAN /\ managed' \in BOOLEAN /\ phase' \in {"running", "draining", "stopped"}
    BY DEF IInv
<1> QED BY <1>1, <1>2, <1>3, <1>4, <1>5, <1>6, Settled

\* What IInv says of the state, by name.
LEMMA NowIs ==
    ASSUME IInv
    PROVE  /\ Good(Now, {}) /\ Attended(Now) /\ Now \in States
           /\ Now.live = (managed /\ available) /\ Now.session = session /\ Now.feeds = feeds
           /\ Now.stream = stream /\ Now.left = left /\ Now.count = count /\ Now.slot = slot
           /\ Now.pass = pass /\ Now.lock = lock /\ Now.old = old
           /\ MayRetry => Spare(Now)
BY DEF IInv, Good, Now, MayRetry, Spare

LEMMA InitIInv == ASSUME Init PROVE IInv
<1>1. /\ NoSession \in Link /\ NoSession.conn = None /\ NewStream \in Line /\ NewStream.st = "out"
      /\ NewStream.conn = None /\ NewStream.closed = FALSE /\ IdleTask \in Walk /\ IdleTask.pc = "idle"
      /\ IdleTask.cancelled = FALSE
    BY DEF NoSession, Link, NewStream, Line, IdleTask, Walk
<1>2. NoFeeds \in [Streams -> Nat] /\ \A s \in Streams : NoFeeds[s] = 0 BY DEF NoFeeds
<1>3. PICK S : S = Now OBVIOUS
<1>4. /\ S.live = available /\ S.session = NoSession /\ S.feeds = [c \in Conns |-> NoFeeds]
      /\ S.stream = [s \in Streams |-> NewStream] /\ S.left = {} /\ S.count = 0 /\ S.slot = None
      /\ S.pass = [t \in Tasks |-> IdleTask] /\ S.lock = <<>> /\ S.old = <<>> /\ Shaped(S)
    BY <1>3 DEF Init, Now, Shaped
<1>5. /\ S.feeds \in [Conns -> [Streams -> Nat]] /\ S.stream \in [Streams -> Line]
      /\ S.pass \in [Tasks -> Walk]
    BY <1>1, <1>2, <1>4
<1>6. <<>> \in Queue /\ (\A u : ~InQ(<<>>, u)) BY EmptyQueue
<1>7. S.lock \in Seq(Tasks) /\ S.old \in Seq(Tasks) BY <1>4
<1>8. S \in States
  <2>1. S.live \in BOOLEAN /\ S.left \in SUBSET Streams /\ S.count \in Nat /\ S.slot \in Retries \cup {None}
        /\ S.session \in Link
      BY <1>1, <1>4 DEF Init
  <2> QED BY <1>4, <1>5, <1>7, <2>1, StatesShaped
<1>9. Opens(S.stream) = {} /\ On(S.stream) = {} BY <1>1, <1>4 DEF Opens, On
<1>10. Fed(S.session, S.feeds, S.stream) BY <1>1, <1>2, <1>4, StreamsAssumption DEF Fed
<1>11. Honest(S.stream) BY <1>1, <1>4 DEF Honest
<1>12. Counted(S.session, S.stream, S.count) BY <1>1, <1>4, <1>9, FS_EmptySet DEF Counted
<1>13. Homed(S.stream, S.old) BY <1>4, <1>9 DEF Homed
<1>14. Queued(S.pass, S.lock, S.old, {}) BY <1>1, <1>4, <1>6 DEF Queued, InPass
<1>15. Clear(S.pass, S.stream, {}) /\ Marked(S.pass, S.slot) BY <1>1, <1>4 DEF Clear, Marked
<1>16. Good(S, {}) BY <1>8, <1>10, <1>11, <1>12, <1>13, <1>14, <1>15 DEF Good
<1>17. Attended(S)
  <2>1. Unarmed(S) = {} BY <1>9, UnarmedAre DEF Opens
  <2> QED BY <2>1 DEF Attended
<1> QED BY <1>3, <1>16, <1>17 DEF IInv, Init

\* Streams stay attended when a task that is in no pass joins the queue.
LEMMA LinedAttended ==
    ASSUME NEW S, Attended(S), NEW t \in Tasks, S.pass[t].pc \notin InPass, NEW T, Lined(S, T, t)
    PROVE  Attended(T)
<1>1. /\ T.live = S.live /\ T.slot = S.slot /\ T.pass[t].pc = "waiting"
      /\ \A u \in Tasks \ {t} : T.pass[u] = S.pass[u]
      /\ S.pass[t].pc # "opening" /\ S.pass[t].pc # "waiting"
    BY DEF Lined, InPass
<1>2. Unarmed(T) = Unarmed(S) /\ Unarmed(S) \subseteq Tasks BY UnarmedAre DEF Lined, Tasks
<1>3. Spawns \subseteq Tasks BY DEF Tasks
<1> QED BY <1>1, <1>2, <1>3 DEF Attended

LEMMA GrantedStep == ASSUME IInv, NEW t \in Tasks, Granted(t) PROVE IInv'
<1>1. PICK S : S \in Enter(Now, t) /\ Becomes(S) BY DEF Granted
<1>2. Heads(Now.lock, t) \/ Heads(Now.old, t) BY NowIs DEF Granted, Heads
<1>3. Good(Now, {t}) BY NowIs, PartGood
<1>4. Good(S, {}) /\ Attended(S) /\ S.live = Now.live BY <1>1, <1>2, <1>3, EnterGood
<1> QED BY <1>1, <1>4, Stepped DEF Granted

LEMMA ArmOkStep == ASSUME IInv, NEW t \in Tasks, ArmOk(t) PROVE IInv'
<1> DEFINE s == pass[t].at
<1>1. s = pass[t].at OBVIOUS
<1> HIDE DEF s
<1>2. PICK R : /\ R \in Opened(Now)
               /\ \E T \in GoOn(Arm(R, s, R.session.conn), t) : Becomes(T)
    BY <1>1 DEF ArmOk, Arm
<1>3. PICK C : C = Arm(R, s, R.session.conn) OBVIOUS
<1>4. PICK T : T \in GoOn(C, t) /\ Becomes(T) BY <1>2, <1>3
<1>5. /\ Good(Now, {}) /\ Now.pass[t].pc = "opening" /\ s = Now.pass[t].at /\ Now.stream[s].st = "open"
      /\ Running /\ Spare(Now) /\ Now.pass[t].cancelled = FALSE
  <2>1. Now.pass[t] \in Walk BY NowIs DEF States
  <2> QED BY <1>1, <2>1, NowIs DEF ArmOk, CanOpen, Walk
<1>6. Ready(Now, R) BY <1>2, <1>5, OpenedReady
<1>7. s \in Streams BY <1>5, OpeningIs
<1>8. Good(C, {t}) /\ SameCrew(Now, C) /\ C.live = Now.live /\ Free(Now.pass[t].todo, C.stream)
  <2>1. PICK c : c = R.session.conn OBVIOUS
  <2>2. C = Arm(R, s, c) /\ Arming(Now, R, t, s, c) BY <1>3, <1>5, <2>1 DEF Arming
  <2> QED BY <1>5, <1>6, <1>7, <2>2, ArmGood
<1>a. Goes(Now, t) BY <1>5 DEF Goes
<1>9. Good(T, {}) /\ Attended(T) /\ T.live = Now.live BY <1>4, <1>5, <1>8, <1>a, OnwardGood
<1> QED BY <1>4, <1>9, Stepped DEF ArmOk

LEMMA AbandonStep == ASSUME IInv, NEW t \in Tasks, Abandon(t) PROVE IInv'
<1>1. PICK s : s = pass[t].at OBVIOUS
<1>2. PICK R : /\ R \in Opened(Now)
               /\ \E T \in GoOn(IF stream[s].st = "open" THEN Notify(GivenBack(R), {s}, "off")
                                ELSE GivenBack(R), t) : Becomes(T)
    BY <1>1 DEF Abandon, GivenBack
<1>3. PICK B : B = GivenBack(R) OBVIOUS
<1>5. /\ Good(Now, {}) /\ Now.pass[t].pc = "opening" /\ s = Now.pass[t].at
      /\ Running /\ Spare(Now) /\ Now.pass[t].cancelled = FALSE
  <2>1. Now.pass[t] \in Walk BY NowIs DEF States
  <2> QED BY <1>1, <2>1, NowIs DEF Abandon, CanOpen, Walk
<1>6. Ready(Now, R) BY <1>2, <1>5, OpenedReady
<1>7. Good(B, {}) /\ SameCrew(Now, B) /\ B.live = Now.live /\ B.stream = Now.stream
    BY <1>3, <1>5, <1>6, GivenBackGood
<1>8. PICK T : T \in GoOn(Told(B, s), t) /\ Becomes(T)
    BY <1>2, <1>3, <1>7, NowIs DEF Told
<1>a. Goes(Now, t) BY <1>5 DEF Goes
<1>9. Good(T, {}) /\ Attended(T) /\ T.live = Now.live BY <1>5, <1>7, <1>8, <1>a, ToldGood
<1> QED BY <1>8, <1>9, Stepped DEF Abandon

LEMMA OpenFailedStep == ASSUME IInv, NEW t \in Tasks, OpenFailed(t) PROVE IInv'
<1>1. PICK s : s = pass[t].at OBVIOUS
<1>5. /\ Good(Now, {}) /\ Now.pass[t].pc = "opening" /\ s = Now.pass[t].at
      /\ Spare(Now) /\ Now.pass[t].cancelled = FALSE
  <2>1. Now.pass[t] \in Walk BY NowIs DEF States
  <2> QED BY <1>1, <2>1, NowIs DEF OpenFailed, Walk
<1>8. PICK T : T \in GoOn(Told(Now, s), t) /\ Becomes(T)
    BY <1>1, NowIs DEF Told, OpenFailed
<1>9. SameCrew(Now, Now) BY DEF SameCrew
<1>a. Goes(Now, t) BY <1>5 DEF Goes
<1>10. Good(T, {}) /\ Attended(T) /\ T.live = Now.live BY <1>5, <1>8, <1>9, <1>a, ToldGood
<1> QED BY <1>8, <1>10, Stepped DEF OpenFailed

LEMMA UnwindStep == ASSUME IInv, NEW r \in Retries, Unwind(r) PROVE IInv'
<1>1. PICK T : T = Finish(Now, r, TRUE) OBVIOUS
<1>2. r \in Tasks BY DEF Tasks
<1>3. Now.pass[r].pc = "opening" /\ Now.slot # r /\ Spare(Now)
    BY <1>2, NowIs DEF Good, Marked, Unwind
<1>4. Good(Now, {r}) BY NowIs, PartGood
<1>5. Good(T, {}) /\ Attended(T) /\ T.live = Now.live BY <1>1, <1>2, <1>3, <1>4, FinishGood
<1>6. Becomes(T) BY <1>1 DEF Unwind
<1> QED BY <1>5, <1>6, Stepped DEF Unwind

LEMMA RetryTickStep == ASSUME IInv, NEW r \in Retries, RetryTick(r) PROVE IInv'
<1>0. r \in Tasks /\ Good(Now, {}) /\ Now.pass[r].pc = "asleep" /\ Now.pass[r].pc \notin InPass
    BY NowIs DEF Tasks, RetryTick, InPass
<1>1. CASE Unarmed(Now) = {} \/ ~Running \/ ~managed \/ ~available
  <2>1. PICK T : T = [Now EXCEPT !.pass[r] = IdleTask, !.slot = IF @ = r THEN None ELSE @] OBVIOUS
  <2>2. Becomes(T) BY <1>1, <2>1 DEF RetryTick
  <2>3. PICK B : B = Walked(Now, r, IdleTask) OBVIOUS
  <2>4. Steady(IdleTask) /\ IdleTask.pc = "idle" BY DEF Steady, IdleTask, Walk
  <2>5. Good(Now, {r}) BY <1>0, PartGood
  <2>6. Good(B, {r}) /\ SameAir(Now, B) /\ B.left = Now.left /\ B.slot = Now.slot
        /\ B.lock = Now.lock /\ B.old = Now.old /\ B.pass[r] = IdleTask
    <3>1. PICK w : w = IdleTask OBVIOUS
    <3>2. Steady(w) /\ B = Walked(Now, r, w) BY <2>3, <2>4, <3>1
    <3>3. Good(B, {r}) /\ SameAir(Now, B) /\ B.left = Now.left /\ B.slot = Now.slot
          /\ B.lock = Now.lock /\ B.old = Now.old /\ B.pass[r] = w
      <4>1. PICK N : N = Now OBVIOUS
      <4>2. Good(N, {r}) /\ r \in Tasks /\ B = Walked(N, r, w) /\ Steady(w) BY <1>0, <2>5, <3>2, <4>1
      <4>3. Good(B, {r}) /\ SameAir(N, B) /\ Walks(N, B, r, w) BY <4>2, WalkGood
      <4> QED BY <4>1, <4>3 DEF Walks
    <3> QED BY <3>1, <3>3
  <2>7. ~InQ(Now.lock, r) /\ ~InQ(Now.old, r) BY <1>0 DEF Good, Queued
  <2>8. Good(B, {})
    <3>1. B.pass[r].pc \notin InPass /\ B.pass[r].pc # "opening" BY <2>4, <2>6 DEF InPass
    <3>2. ~InQ(B.lock, r) /\ ~InQ(B.old, r) BY <2>6, <2>7
    <3> QED BY <1>0, <2>6, <3>1, <3>2, WholeGood
  <2>9. PICK q : q = (IF Now.slot = r THEN None ELSE Now.slot) OBVIOUS
  <2>10. T = Slotted(B, q)
      BY <2>1, <2>3, <2>9, NowIs DEF Slotted, Walked, States
  <2>11. q \in Retries \cup {None} /\ (q = None \/ q = B.slot) BY <2>6, <2>9, NowIs DEF States
  <2>12. Good(T, {}) /\ SameAir(B, T) BY <2>8, <2>10, <2>11, SlotGood
  <2>a. T.stream = Now.stream /\ T.live = Now.live BY <2>6, <2>12 DEF SameAir
  <2>13. Unarmed(T) = Unarmed(Now) /\ T.live = Now.live BY <2>a, UnarmedAre
  <2>14. Attended(T) BY <1>1, <2>13, NowIs DEF Attended
  <2> QED BY <2>2, <2>12, <2>13, <2>14, Stepped DEF RetryTick
<1>2. CASE ~(Unarmed(Now) = {} \/ ~Running \/ ~managed \/ ~available)
  <2>1. PICK T : T \in EnsureStreams(Now, r) /\ Becomes(T) BY <1>2 DEF RetryTick
  <2>2. Good(T, {}) /\ T.live = Now.live /\ (Attended(T) \/ Lined(Now, T, r))
      BY <1>0, <2>1, EnsureGood
  <2>3. Attended(T) BY <1>0, <2>2, NowIs, LinedAttended
  <2> QED BY <2>1, <2>2, <2>3, Stepped DEF RetryTick
<1> QED BY <1>1, <1>2

LEMMA AddStreamStep == ASSUME IInv, NEW s \in Streams, AddStream(s) PROVE IInv'
<1>1. PICK B : B = Subscribed(Now, s) OBVIOUS
<1>2. PICK T : T \in EnsureStreams(B, s) /\ Becomes(T) BY <1>1 DEF AddStream, Subscribed
<1>3. /\ Running /\ managed /\ Good(Now, {}) /\ Now.stream[s].st # "open" /\ Now.pass[s].pc = "idle"
      /\ \A t \in Tasks : s # Now.pass[t].at /\ s \notin Now.pass[t].todo
      /\ s \in Tasks
    BY NowIs DEF AddStream, Tasks
<1>4. Good(B, {}) /\ SameCrew(Now, B) /\ B.live = Now.live /\ Unarmed(B) = Unarmed(Now) \cup {s}
    BY <1>1, <1>3, SubscribedGood
<1>5. B.pass = Now.pass /\ B.slot = Now.slot BY <1>4 DEF SameCrew
<1>6. B.pass[s].pc \notin InPass BY <1>3, <1>5 DEF InPass
<1>7. Good(T, {}) /\ T.live = B.live /\ (Attended(T) \/ Lined(B, T, s))
    BY <1>2, <1>3, <1>4, <1>6, EnsureGood
<1>8. ASSUME Lined(B, T, s) PROVE Attended(T)
  <2>1. /\ T.live = Now.live /\ T.slot = Now.slot /\ T.pass[s].pc = "waiting"
        /\ \A u \in Tasks \ {s} : T.pass[u] = Now.pass[u]
      BY <1>4, <1>5, <1>8 DEF Lined
  <2>2. Unarmed(T) = Unarmed(Now) \cup {s} /\ Unarmed(Now) \subseteq Tasks
      BY <1>4, <1>8, UnarmedAre DEF Lined, Tasks
  <2>3. Spawns \subseteq Tasks BY DEF Tasks
  <2>4. Attended(Now) BY NowIs
  <2> QED BY <1>3, <2>1, <2>2, <2>3, <2>4 DEF Attended
<1> QED BY <1>2, <1>4, <1>7, <1>8, Stepped DEF AddStream

LEMMA UnsubscribeStep == ASSUME IInv, NEW s \in Streams, Unsubscribe(s) PROVE IInv'
<1>1. CASE pass[s].pc = "idle"
  <2>1. PICK T : T = CloseStream(Now, s) OBVIOUS
  <2>2. Becomes(T) BY <1>1, <2>1 DEF Unsubscribe
  <2>3. /\ Good(T, {}) /\ T.live = Now.live /\ Unarmed(T) \subseteq Unarmed(Now) \ {s}
        /\ Unarmed(T) = {} \/ SameCrew(Now, T)
      BY <2>1, NowIs, CloseGood
  <2>4. Attended(T)
    <3>1. CASE Unarmed(T) = {} BY <3>1 DEF Attended
    <3>2. CASE SameCrew(Now, T)
      <4>1. T.pass = Now.pass /\ T.slot = Now.slot BY <3>2 DEF SameCrew
      <4> QED BY <2>3, <4>1, NowIs DEF Attended
    <3> QED BY <2>3, <3>1, <3>2
  <2> QED BY <2>2, <2>3, <2>4, Stepped DEF Unsubscribe
<1>2. CASE pass[s].pc # "idle"
  <2>1. PICK L : L = left \cup {s} OBVIOUS
  <2>2. PICK T : T = [Now EXCEPT !.left = L] OBVIOUS
  <2>3. Becomes(T) BY <1>2, <2>1, <2>2, NowIs DEF Unsubscribe, States, Now
  <2>4. L \in SUBSET Streams BY <2>1, NowIs DEF States
  <2>5. T \in States /\ SameAir(Now, T) /\ SameCrew(Now, T)
      BY <2>2, <2>4, NowIs DEF States, SameAir, SameCrew
  <2>6. /\ T.live = Now.live /\ T.session = Now.session /\ T.feeds = Now.feeds /\ T.stream = Now.stream
        /\ T.count = Now.count /\ T.slot = Now.slot /\ T.pass = Now.pass /\ T.lock = Now.lock
        /\ T.old = Now.old
      BY <2>5 DEF SameAir, SameCrew
  <2>7. Good(T, {}) BY <2>5, <2>6, NowIs DEF Good
  <2>8. Attended(T)
    <3>1. Unarmed(T) = Unarmed(Now) BY <2>6, UnarmedAre
    <3> QED BY <2>6, <3>1, NowIs DEF Attended
  <2> QED BY <2>3, <2>6, <2>7, <2>8, Stepped DEF Unsubscribe
<1> QED BY <1>1, <1>2

LEMMA CancelAddStep == ASSUME IInv, NEW s \in Streams, CancelAdd(s) PROVE IInv'
<1>1. s \in Tasks /\ s \notin Retries /\ Good(Now, {}) BY NowIs, StreamsAssumption DEF Tasks
<1>2. Good(Now, {s}) BY <1>1, PartGood
<1>3. CASE pass[s].pc = "opening"
  <2>1. PICK T : T = Finish(Now, s, TRUE) OBVIOUS
  <2>2. Becomes(T) BY <1>3, <2>1 DEF CancelAdd
  <2>3. Now.pass[s].pc = "opening" /\ Spare(Now) BY <1>3, NowIs DEF CancelAdd
  <2>4. Good(T, {}) /\ Attended(T) /\ T.live = Now.live BY <1>1, <1>2, <2>1, <2>3, FinishGood
  <2> QED BY <2>2, <2>4, Stepped DEF CancelAdd
<1>4. CASE pass[s].pc # "opening"
  <2>1. PICK T : T = EndPass(Now, s, TRUE) OBVIOUS
  <2>2. Becomes(T) /\ Now.pass[s].pc = "waiting" BY <1>4, <2>1, NowIs DEF CancelAdd
  <2>3. Good(T, {}) /\ Ended(Now, T, s) /\ s \notin Unarmed(T) BY <1>1, <1>2, <2>1, EndGood
  <2>4. Attended(T)
    <3>1. CASE Unarmed(T) = {} BY <3>1 DEF Attended
    <3>2. CASE T.slot = Now.slot /\ \A u \in Tasks \ {s} : T.pass[u] = Now.pass[u]
      <4>1. Unarmed(T) \subseteq Unarmed(Now) /\ T.live = Now.live BY <2>3 DEF Ended
      <4>2. Unarmed(Now) \subseteq Tasks /\ Spawns \subseteq Tasks \ {s}
          BY UnarmedAre, StreamsAssumption DEF Tasks
      <4> QED BY <2>2, <2>3, <3>2, <4>1, <4>2, NowIs DEF Attended
    <3> QED BY <2>3, <3>1, <3>2 DEF Ended
  <2> QED BY <2>2, <2>3, <2>4, Stepped DEF CancelAdd, Ended
<1> QED BY <1>3, <1>4

\* The session of connection c is lost, and a pass is spawned for its streams.
LEMMA LostStep ==
    ASSUME IInv, MaySpawn, NEW c, c = session.conn, c # None, NEW k \in Link,
           k.conn # None => k.conn = c /\ k.refs = session.refs,
           NEW T \in SpawnPass(Shed(Cut(Now, k, c), c))
    PROVE  Good(T, {}) /\ Attended(T) /\ T.live = Now.live
<1>1. PICK B : B = Shed(Cut(Now, k, c), c) OBVIOUS
<1>2. c \in Conns /\ Now.session.conn = c /\ Good(Now, {})
  <2>1. Now.session \in Link BY NowIs DEF States
  <2> QED BY <2>1, NowIs DEF Link
<1>3. k.conn # None => k.conn = c /\ k.refs = Now.session.refs BY NowIs
<1>4. Good(B, {}) /\ SameCrew(Now, B) /\ B.live = Now.live BY <1>1, <1>2, <1>3, LostGood
<1>5. \E t \in Spawns : B.pass[t].pc = "idle" BY <1>4, NowIs DEF SameCrew, MaySpawn
<1> QED BY <1>1, <1>4, <1>5, SpawnGood

LEMMA CloseSessionStep == ASSUME IInv, CloseSession PROVE IInv'
<1>1. CASE session.conn # None /\ session.up
  <2>1. PICK c : c = session.conn OBVIOUS
  <2>2. PICK T : T \in SessionLost([[Now EXCEPT !.session = NoSession] EXCEPT !.feeds[c] = NoFeeds], c) /\ Becomes(T)
      BY <1>1, <2>1 DEF CloseSession
  <2>3. [[Now EXCEPT !.session = NoSession] EXCEPT !.feeds[c] = NoFeeds] = Cut(Now, NoSession, c)
      BY NowIs DEF Cut, States
  <2>4. T \in SpawnPass(Shed(Cut(Now, NoSession, c), c)) BY <2>2, <2>3 DEF SessionLost, Shed
  <2>5. NoSession \in Link /\ NoSession.conn = None BY DEF NoSession, Link
  <2>6. Good(T, {}) /\ Attended(T) /\ T.live = Now.live
      BY <1>1, <2>1, <2>4, <2>5, LostStep DEF CloseSession
  <2> QED BY <2>2, <2>6, Stepped DEF CloseSession
<1>2. CASE ~(session.conn # None /\ session.up)
  <2>1. PICK T : T = [Now EXCEPT !.session = NoSession] OBVIOUS
  <2>2. Becomes(T) BY <1>2, <2>1 DEF CloseSession
  <2>3. Now.session.conn = None \/ ~Now.session.up BY <1>2, NowIs
  <2>4. Good(T, {}) /\ SameCrew(Now, T) /\ T.live = Now.live /\ T.stream = Now.stream
      BY <2>1, <2>3, NowIs, NoSessionGood
  <2>5. Attended(T)
    <3>1. Unarmed(T) = Unarmed(Now) BY <2>4, UnarmedAre
    <3> QED BY <2>4, <3>1, NowIs DEF Attended, SameCrew
  <2> QED BY <2>2, <2>4, <2>5, Stepped DEF CloseSession
<1> QED BY <1>1, <1>2

LEMMA DropStep == ASSUME IInv, Drop PROVE IInv'
<1>1. PICK c : c = session.conn OBVIOUS
<1>2. PICK k : k = [session EXCEPT !.up = FALSE] OBVIOUS
<1>3. session \in Link BY NowIs DEF States
<1>4. k \in Link /\ k.conn = c /\ k.refs = session.refs BY <1>1, <1>2, <1>3 DEF Link
<1>5. PICK T : T \in SessionLost([Now EXCEPT !.session.up = FALSE, !.feeds[c] = NoFeeds], c) /\ Becomes(T)
    BY <1>1 DEF Drop
<1>6. [Now EXCEPT !.session.up = FALSE, !.feeds[c] = NoFeeds] = Cut(Now, k, c)
    BY <1>2, NowIs DEF Cut, States
<1>7. T \in SpawnPass(Shed(Cut(Now, k, c), c)) BY <1>5, <1>6 DEF SessionLost, Shed
<1>8. Good(T, {}) /\ Attended(T) /\ T.live = Now.live BY <1>1, <1>4, <1>7, LostStep DEF Drop
<1> QED BY <1>5, <1>8, Stepped DEF Drop

LEMMA EntityOfflineStep == ASSUME IInv, EntityOffline PROVE IInv'
<1>1. PICK B : B = IF session.conn = None THEN Now ELSE [Now EXCEPT !.session = [@ EXCEPT !.closing = TRUE]]
    OBVIOUS
<1>2. /\ Good(B, {}) /\ B.session = session' /\ B.feeds = feeds /\ B.stream = stream /\ B.left = left
      /\ B.count = count /\ B.slot = slot /\ B.pass = pass /\ B.lock = lock /\ B.old = old
  <2>1. CASE session.conn = None BY <1>1, <2>1, NowIs DEF EntityOffline
  <2>2. CASE session.conn # None
    <3>1. B = [Now EXCEPT !.session = [@ EXCEPT !.closing = TRUE]] BY <1>1, <2>2
    <3>2. Good(B, {}) BY <3>1, NowIs, ClosingGood
    <3>3. session' = [session EXCEPT !.closing = TRUE] BY <2>2 DEF EntityOffline
    <3> QED BY <3>1, <3>2, <3>3, NowIs DEF States
  <2> QED BY <2>1, <2>2
<1>3. PICK b : b = (managed' /\ available') OBVIOUS
<1>4. PICK S : S = [B EXCEPT !.live = b] OBVIOUS
<1>5. b \in BOOLEAN /\ B \in States BY <1>2, <1>3 DEF Good
<1>6. /\ S \in States /\ S.live = b /\ S.session = session' /\ S.feeds = feeds /\ S.stream = stream
      /\ S.left = left /\ S.count = count /\ S.slot = slot /\ S.pass = pass /\ S.lock = lock /\ S.old = old
    BY <1>2, <1>4, <1>5 DEF States
<1>7. Becomes(S) BY <1>6 DEF Becomes, EntityOffline
<1>8. /\ Fed(S.session, S.feeds, S.stream) /\ Honest(S.stream) /\ Queued(S.pass, S.lock, S.old, {})
      /\ Clear(S.pass, S.stream, {}) /\ Marked(S.pass, S.slot)
      /\ Counted(S.session, S.stream, S.count) /\ Homed(S.stream, S.old)
    BY <1>2, <1>6 DEF Good
<1>9. Counted(S.session, S.stream, S.count)' BY <1>8 DEF Counted, Running, EntityOffline
<1>10. Homed(S.stream, S.old)' BY <1>8 DEF Homed, Running, EntityOffline
<1>11. Attended(S)'
  <2>1. Unarmed(S) = Unarmed(Now) BY <1>6, NowIs, UnarmedAre
  <2>2. Now.live BY NowIs DEF EntityOffline
  <2> QED BY <1>6, <2>1, <2>2, NowIs DEF Attended, Running, EntityOffline
<1>12. available' \in BOOLEAN /\ managed' \in BOOLEAN /\ phase' \in {"running", "draining", "stopped"}
    BY DEF IInv, EntityOffline
<1> QED BY <1>3, <1>6, <1>7, <1>8, <1>9, <1>10, <1>11, <1>12, Settled

LEMMA GoOnlineStep == ASSUME IInv, GoOnline PROVE IInv'
<1>1. PICK B : B = [Now EXCEPT !.live = TRUE] OBVIOUS
<1>2. PICK S : S \in SpawnPass(B) /\ Becomes(S) BY <1>1 DEF GoOnline
<1>3. /\ B \in States /\ B.live = TRUE /\ B.session = session /\ B.feeds = feeds /\ B.stream = stream
      /\ B.count = count /\ B.slot = slot /\ B.pass = pass /\ B.lock = lock /\ B.old = old
    BY <1>1, NowIs DEF States
<1>4. Good(B, {}) BY <1>3, NowIs DEF Good
<1>5. \E t \in Spawns : B.pass[t].pc = "idle" BY <1>3 DEF GoOnline, MaySpawn
<1>6. Good(S, {}) /\ Attended(S) /\ S.live = TRUE BY <1>2, <1>3, <1>4, <1>5, SpawnGood
<1>7. /\ S \in States /\ Fed(S.session, S.feeds, S.stream) /\ Honest(S.stream)
      /\ Queued(S.pass, S.lock, S.old, {}) /\ Clear(S.pass, S.stream, {}) /\ Marked(S.pass, S.slot)
      /\ Counted(S.session, S.stream, S.count) /\ Homed(S.stream, S.old)
    BY <1>6 DEF Good
<1>8. Counted(S.session, S.stream, S.count)' BY <1>7 DEF Counted, Running, GoOnline
<1>9. Homed(S.stream, S.old)' BY <1>7 DEF Homed, Running, GoOnline
<1>10. Attended(S)' BY <1>6 DEF Attended, Running, GoOnline
<1>11. available' = TRUE /\ managed' = TRUE /\ phase' \in {"running", "draining", "stopped"}
    BY DEF IInv, GoOnline
<1> QED BY <1>2, <1>6, <1>7, <1>8, <1>9, <1>10, <1>11, Settled

LEMMA RemoveStep == ASSUME IInv, Remove PROVE IInv'
<1>1. PICK B : B = CancelRetry(Now, slot) OBVIOUS
<1>2. Good(B, {}) /\ SameAir(Now, B) BY <1>1, NowIs, CancelGood
<1>3. /\ B \in States /\ B.stream \in [Streams -> Line] /\ B.stream = stream /\ B.feeds = feeds
      /\ B.session = session /\ Fed(B.session, B.feeds, B.stream) /\ Honest(B.stream)
      /\ Queued(B.pass, B.lock, B.old, {}) /\ Clear(B.pass, B.stream, {}) /\ Marked(B.pass, B.slot)
    BY <1>2, NowIs DEF Good, States, SameAir
<1>4. PICK l : l = Parted(B.stream) OBVIOUS
<1>5. /\ l \in [Streams -> Line] /\ Honest(l) /\ Opens(l) = {} /\ On(l) = {}
      /\ \A s \in Streams : l[s].st # "open" /\ l[s].conn = None
    BY <1>3, <1>4, PartedGood
<1>6. PICK C : C = MarkClosed(B) OBVIOUS
<1>7. C = [B EXCEPT !.stream = l] BY <1>3, <1>4, <1>6 DEF MarkClosed, Parted, States
<1>8. PICK S : S = [C EXCEPT !.live = FALSE, !.count = 0, !.old = C.lock, !.lock = <<>>] OBVIOUS
<1>9. /\ C.session = B.session /\ C.feeds = B.feeds /\ C.stream = l /\ C.left = B.left /\ C.slot = B.slot
      /\ C.pass = B.pass /\ C.lock = B.lock /\ C.old = B.old /\ C \in States
    BY <1>3, <1>5, <1>7 DEF States
<1>10. PICK q : q = <<>> OBVIOUS
<1>11. q \in Seq(Tasks) /\ q \in Queue /\ \A u : ~InQ(q, u) BY <1>10, EmptyQueue
<1>12. S = [C EXCEPT !.live = FALSE, !.count = 0, !.old = C.lock, !.lock = q] BY <1>8, <1>10
<1>13. /\ S \in States /\ S.live = FALSE /\ S.session = session /\ S.feeds = feeds /\ S.stream = l
       /\ S.left = C.left /\ S.count = 0 /\ S.slot = B.slot /\ S.pass = B.pass /\ S.lock = q
       /\ S.old = B.lock
  <2>1. C.lock \in Seq(Tasks) BY <1>9 DEF States
  <2>2. /\ S \in States /\ S.live = FALSE /\ S.session = C.session /\ S.feeds = C.feeds /\ S.stream = C.stream
        /\ S.left = C.left /\ S.count = 0 /\ S.slot = C.slot /\ S.pass = C.pass /\ S.lock = q
        /\ S.old = C.lock
      BY <1>9, <1>11, <1>12, <2>1 DEF States
  <2> QED BY <1>3, <1>9, <2>2
<1>14. Becomes(S)
  <2>1. Becomes([C EXCEPT !.count = 0, !.old = C.lock, !.lock = <<>>]) BY <1>1, <1>6 DEF Remove
  <2> QED BY <1>8, <1>9, <2>1 DEF Becomes, States
<1>15. Fed(S.session, S.feeds, S.stream)
  <2>1. \A s \in Streams : B.stream[s].conn = None BY <1>3 DEF Fed, Remove
  <2> QED BY <1>3, <1>5, <1>13, <2>1 DEF Fed
<1>16. Queued(S.pass, S.lock, S.old, {})
  <2>1. B.old = <<>>
    <3>1. CASE slot = None BY <1>1, <3>1, NowIs DEF CancelRetry, Remove
    <3>2. CASE slot # None
      <4>1. B.old = Now.old \/ B.old = Leave(Now.old, slot) BY <1>1, <3>2, NowIs DEF CancelRetry, States
      <4> QED BY <4>1, NowIs, LeaveNone DEF Remove
    <3> QED BY <3>1, <3>2
  <2>2. \A u : InQ(B.old, u) <=> InQ(q, u) BY <1>10, <2>1
  <2>3. \A u : Heads(B.old, u) <=> Heads(q, u) BY <1>10, <2>1
  <2> QED BY <1>3, <1>10, <1>11, <1>13, <2>2, <2>3 DEF Queued
<1>17. Clear(S.pass, S.stream, {}) /\ Marked(S.pass, S.slot)
  <2>1. S.pass \in [Tasks -> Walk] BY <1>13 DEF States
  <2>2. Clear(S.pass, B.stream, {}) /\ Marked(S.pass, S.slot) BY <1>3, <1>13
  <2>3. S.stream = l BY <1>13
  <2> QED BY <1>5, <2>1, <2>2, <2>3, ClearLess
<1>18. Counted(S.session, S.stream, S.count)'
  <2>1. S.session.conn = None BY <1>13 DEF Remove
  <2>2. S.count = Cardinality(Opens(S.stream)) BY <1>5, <1>13, FS_EmptySet
  <2> QED BY <2>1, <2>2 DEF Counted
<1>19. Homed(S.stream, S.old)' BY <1>5, <1>13 DEF Homed, Remove
<1>20. Attended(S)' BY <1>13 DEF Attended
<1>21. available' \in BOOLEAN /\ managed' = FALSE /\ phase' \in {"running", "draining", "stopped"}
    BY DEF IInv, Remove
<1>22. Honest(S.stream) BY <1>5, <1>13
<1> QED BY <1>13, <1>14, <1>15, <1>16, <1>17, <1>18, <1>19, <1>20, <1>21, <1>22, Settled

\* With no pass left of its former life, nothing is in the device's queue.
LEMMA ReaddStep == ASSUME ReaddEarly = FALSE, IInv, Readd PROVE IInv'
<1>1. PICK b : b = (managed' /\ available') OBVIOUS
<1>2. PICK S : S = [Now EXCEPT !.live = b] OBVIOUS
<1>3. b \in BOOLEAN BY <1>1 DEF Readd
<1>4. /\ S \in States /\ S.live = b /\ S.session = session /\ S.feeds = feeds /\ S.stream = stream
      /\ S.left = left /\ S.count = count /\ S.slot = slot /\ S.pass = pass /\ S.lock = lock /\ S.old = old
    BY <1>2, <1>3, NowIs DEF States
<1>5. Becomes(S) BY <1>4 DEF Becomes, Readd
<1>6. /\ Fed(S.session, S.feeds, S.stream) /\ Honest(S.stream) /\ Queued(S.pass, S.lock, S.old, {})
      /\ Clear(S.pass, S.stream, {}) /\ Marked(S.pass, S.slot)
      /\ Counted(S.session, S.stream, S.count) /\ Homed(S.stream, S.old)
    BY <1>4, NowIs DEF Good
<1>7. Counted(S.session, S.stream, S.count)' BY <1>6 DEF Counted, Running, Readd
<1>8. Opens(S.stream) = {} BY <1>6 DEF Homed, Readd
<1>9. S.old = <<>>
  <2>1. \A t \in Tasks : S.pass[t].pc \notin InPass BY <1>4 DEF Readd, InPass
  <2>2. S.old \in Queue BY <1>6 DEF Queued
  <2>3. S.old \in Seq(Tasks) BY <2>2 DEF Queue
  <2>4. ASSUME S.old # <<>> PROVE FALSE
    <3>1. Head(S.old) \in Tasks BY <2>3, <2>4, HeadTailProperties
    <3>2. Heads(S.old, Head(S.old)) BY <2>4 DEF Heads
    <3>3. InQ(S.old, Head(S.old)) BY <2>2, <3>2, HeadIn
    <3> QED BY <1>6, <2>1, <3>1, <3>3 DEF Queued
  <2> QED BY <2>4
<1>10. Homed(S.stream, S.old)' BY <1>8, <1>9 DEF Homed
<1>11. Attended(S)'
  <2>1. Unarmed(S) = {} BY <1>8, UnarmedAre DEF Opens
  <2> QED BY <2>1 DEF Attended
<1>12. available' \in BOOLEAN /\ managed' = TRUE /\ phase' \in {"running", "draining", "stopped"}
    BY DEF IInv, Readd
<1> QED BY <1>1, <1>4, <1>5, <1>6, <1>7, <1>10, <1>11, <1>12, Settled

LEMMA StopBeginStep == ASSUME IInv, StopBegin PROVE IInv'
<1>1. PICK S : S = CancelRetry(Now, slot) OBVIOUS
<1>2. Good(S, {}) /\ SameAir(Now, S) BY <1>1, NowIs, CancelGood
<1>3. Becomes(S) BY <1>1 DEF StopBegin
<1>4. /\ S \in States /\ Fed(S.session, S.feeds, S.stream) /\ Honest(S.stream)
      /\ Queued(S.pass, S.lock, S.old, {}) /\ Clear(S.pass, S.stream, {}) /\ Marked(S.pass, S.slot)
      /\ Homed(S.stream, S.old)
    BY <1>2 DEF Good
<1>5. ~Running' BY DEF StopBegin, Running
<1>6. Counted(S.session, S.stream, S.count)' BY <1>5 DEF Counted
<1>7. Homed(S.stream, S.old)' BY <1>4, <1>5 DEF Homed, StopBegin
<1>8. Attended(S)' BY <1>5 DEF Attended
<1>9. available' = available /\ managed' = managed /\ phase' = "draining" BY DEF StopBegin
<1>10. S.live = (managed' /\ available') BY <1>2, <1>9, NowIs DEF SameAir
<1>11. available \in BOOLEAN /\ managed \in BOOLEAN BY DEF IInv
<1> QED BY <1>3, <1>4, <1>6, <1>7, <1>8, <1>9, <1>10, <1>11, Settled

LEMMA StopDropStep == ASSUME IInv, StopDrop PROVE IInv'
<1>1. PICK l : l = Parted(stream) OBVIOUS
<1>2. /\ Now \in States /\ stream \in [Streams -> Line] /\ Fed(session, feeds, stream) /\ Honest(stream)
      /\ Queued(pass, lock, old, {}) /\ Clear(pass, stream, {}) /\ Marked(pass, slot)
      /\ left \in SUBSET Streams /\ slot \in Retries \cup {None} /\ pass \in [Tasks -> Walk]
      /\ lock \in Seq(Tasks) /\ old \in Seq(Tasks)
  <2>1. /\ Fed(Now.session, Now.feeds, Now.stream) /\ Honest(Now.stream)
        /\ Queued(Now.pass, Now.lock, Now.old, {}) /\ Clear(Now.pass, Now.stream, {})
        /\ Marked(Now.pass, Now.slot) /\ Now \in States
      BY NowIs DEF Good
  <2> QED BY <2>1, NowIs DEF States
<1>3. /\ l \in [Streams -> Line] /\ Honest(l) /\ Opens(l) = {} /\ On(l) = {}
      /\ \A s \in Streams : l[s].st # "open" /\ l[s].conn = None
    BY <1>1, <1>2, PartedGood
<1>4. PICK f : f = [c \in Conns |-> NoFeeds] OBVIOUS
<1>5. f \in [Conns -> [Streams -> Nat]] /\ \A c \in Conns, s \in Streams : f[c][s] = 0
    BY <1>4 DEF NoFeeds
<1>6. PICK b : b = (managed' /\ available') OBVIOUS
<1>7. PICK C : C = MarkClosed(Now) OBVIOUS
<1>8. C = [Now EXCEPT !.stream = l] BY <1>1, <1>2, <1>7, NowIs DEF MarkClosed, Parted, States
<1>9. PICK q : q = old \o lock OBVIOUS
<1>10. PICK S : S = [live |-> b, session |-> NoSession, feeds |-> f, stream |-> l, left |-> left,
                     count |-> 0, slot |-> slot, pass |-> pass, lock |-> <<>>, old |-> q]
    OBVIOUS
<1>11. Becomes(S)
  <2>1. /\ C.left = left /\ C.slot = slot /\ C.pass = pass /\ C.stream = l
        /\ Shaped(C)
      BY <1>2, <1>8, NowIs DEF States, Shaped
  <2>2. Becomes([C EXCEPT !.session = NoSession, !.feeds = f, !.count = 0, !.old = q, !.lock = <<>>])
      BY <1>4, <1>7, <1>9 DEF StopDrop
  <2> QED BY <1>10, <2>1, <2>2 DEF Becomes, Shaped
<1>12. q = old \/ q = lock
  <2>1. old = <<>> \/ lock = <<>> BY <1>2 DEF Queued
  <2> QED BY <1>2, <1>9, <2>1, ConcatEmptySeq
<1>13. S \in States
  <2>1. NoSession \in Link BY DEF NoSession, Link
  <2>2. b \in BOOLEAN /\ q \in Seq(Tasks) /\ <<>> \in Seq(Tasks) BY <1>2, <1>6, <1>12 DEF IInv
  <2> QED BY <1>2, <1>3, <1>5, <1>10, <2>1, <2>2 DEF States
<1>14. Fed(S.session, S.feeds, S.stream)
  <2>1. None \notin Conns BY StreamsAssumption
  <2> QED BY <1>3, <1>5, <1>10, <2>1 DEF Fed
<1>15. Queued(pass, <<>>, q, {})
  <2>1. <<>> \in Queue /\ (\A u : ~InQ(<<>>, u)) /\ \A u : ~Heads(<<>>, u) BY EmptyQueue
  <2>2. old = <<>> \/ lock = <<>> BY <1>2 DEF Queued
  <2>3. \A u : InQ(q, u) <=> InQ(old, u) \/ InQ(lock, u)
    <3>1. CASE old = <<>>
      <4>1. q = lock BY <1>2, <1>9, <3>1, ConcatEmptySeq
      <4> QED BY <2>1, <3>1, <4>1
    <3>2. CASE lock = <<>>
      <4>1. q = old BY <1>2, <1>9, <3>2, ConcatEmptySeq
      <4> QED BY <2>1, <3>2, <4>1
    <3> QED BY <2>2, <3>1, <3>2
  <2>4. \A u : Heads(old, u) \/ Heads(lock, u) => Heads(q, u)
    <3>1. CASE old = <<>>
      <4>1. q = lock BY <1>2, <1>9, <3>1, ConcatEmptySeq
      <4> QED BY <2>1, <3>1, <4>1
    <3>2. CASE lock = <<>>
      <4>1. q = old BY <1>2, <1>9, <3>2, ConcatEmptySeq
      <4> QED BY <2>1, <3>2, <4>1
    <3> QED BY <2>2, <3>1, <3>2
  <2>5. q \in Queue BY <1>2, <1>12 DEF Queued
  <2> QED BY <1>2, <2>1, <2>3, <2>4, <2>5 DEF Queued
<1>16. Clear(pass, l, {}) BY <1>2, <1>3, ClearLess
<1>17. ~Running' BY DEF StopDrop, Running
<1>18. Counted(S.session, S.stream, S.count)' BY <1>17 DEF Counted
<1>19. Homed(S.stream, S.old)' BY <1>3, <1>10, <1>17 DEF Homed
<1>20. Attended(S)' BY <1>17 DEF Attended
<1>21. available' = available /\ managed' = managed /\ phase' = "stopped" BY DEF StopDrop
<1>22. available \in BOOLEAN /\ managed \in BOOLEAN BY DEF IInv
<1>23. /\ Honest(S.stream) /\ Queued(S.pass, S.lock, S.old, {}) /\ Clear(S.pass, S.stream, {})
       /\ Marked(S.pass, S.slot) /\ S.live = b
    BY <1>2, <1>3, <1>10, <1>15, <1>16
<1> QED BY <1>6, <1>11, <1>13, <1>14, <1>18, <1>19, <1>20, <1>21, <1>22, <1>23, Settled

LEMMA NextIInv == ASSUME ReaddEarly = FALSE, IInv, Next PROVE IInv'
<1>1. ASSUME NEW s \in Streams, AddStream(s) \/ Unsubscribe(s) \/ CancelAdd(s) PROVE IInv'
    BY <1>1, AddStreamStep, UnsubscribeStep, CancelAddStep
<1>2. ASSUME NEW t \in Tasks, Work(t) PROVE IInv'
    BY <1>2, GrantedStep, ArmOkStep, AbandonStep, OpenFailedStep, UnwindStep, RetryTickStep DEF Work
<1>3. ASSUME CloseSession \/ Drop \/ EntityOffline \/ GoOnline PROVE IInv'
    BY <1>3, CloseSessionStep, DropStep, EntityOfflineStep, GoOnlineStep
<1>4. ASSUME Remove \/ Readd \/ StopBegin \/ StopDrop PROVE IInv'
    BY <1>4, RemoveStep, ReaddStep, StopBeginStep, StopDropStep
<1> QED BY <1>1, <1>2, <1>3, <1>4 DEF Next

LEMMA StuttersIInv == ASSUME IInv, UNCHANGED vars PROVE IInv'
<1>1. Becomes(Now) /\ UNCHANGED <<available, managed, phase>> BY DEF vars, Becomes, Now
<1> QED BY <1>1, NowIs, Stepped

\* IInv is an invariant: whoever opens a session heads the lock's queue, and what
\* it is still to arm is not armed.
THEOREM Invariance == ASSUME ReaddEarly = FALSE PROVE Spec => []IInv
<1>1. IInv /\ [Next]_vars => IInv' BY NextIInv, StuttersIInv
<1> QED BY <1>1, InitIInv, PTL DEF Spec

-----------------------------------------------------------------------------
(* The properties                                                          *)

\* A stream is fed by one callback, on the connection it is armed on, and nowhere
\* else, whatever passes, losses and departures come together.
THEOREM FeedsOnce == ASSUME ReaddEarly = FALSE PROVE Spec => []ArmedOnce
<1>1. ASSUME IInv PROVE ArmedOnce
  <2>1. Fed(session, feeds, stream) BY <1>1, NowIs DEF Good
  <2> QED BY <2>1 DEF ArmedOnce, Fed
<1> QED BY <1>1, Invariance, PTL

\* The session's references and the device's subscribers are those of its streams.
THEOREM LeaksNothing == ASSUME ReaddEarly = FALSE PROVE Spec => []NothingLeaks
<1>1. ASSUME IInv PROVE NothingLeaks
  <2>1. Counted(session, stream, count) /\ Fed(session, feeds, stream) BY <1>1, NowIs DEF Good
  <2>2. Held(Now) = Opens(stream) BY <1>1, NowIs, UnarmedAre
  <2>3. ASSUME session.conn # None PROVE {s \in Streams : stream[s].conn = session.conn} = On(stream)
      BY <2>1, <2>3 DEF Fed, On
  <2> QED BY <2>1, <2>2, <2>3 DEF NothingLeaks, Counted
<1> QED BY <1>1, Invariance, PTL

\* A stream that is off the air on a live device has somebody at work on it.
THEOREM ForgetsNobody == ASSUME ReaddEarly = FALSE PROVE Spec => []NeverForgotten
<1>1. ASSUME IInv PROVE NeverForgotten
  <2>1. ASSUME Running, Now.live, Unarmed(Now) # {}
        PROVE  slot # None \/ \E t \in Tasks : pass[t].pc \in {"waiting", "opening"}
    <3>1. \/ slot # None
          \/ \E t \in Tasks : pass[t].pc = "opening"
          \/ \E t \in Spawns : pass[t].pc = "waiting"
          \/ \A s \in Unarmed(Now) : pass[s].pc = "waiting"
        BY <1>1, <2>1, NowIs DEF Attended
    <3>2. Unarmed(Now) \subseteq Tasks /\ Spawns \subseteq Tasks BY UnarmedAre DEF Tasks
    <3> QED BY <2>1, <3>1, <3>2
  <2> QED BY <2>1 DEF NeverForgotten
<1> QED BY <1>1, Invariance, PTL

\* What a client was told last is so, and who was dropped was told so.
THEOREM TellsTheTruth == ASSUME ReaddEarly = FALSE PROVE Spec => []ToldTruth
<1>1. ASSUME IInv PROVE ToldTruth
  <2>1. Fed(session, feeds, stream) /\ Honest(stream) /\ Homed(stream, old)
      BY <1>1, NowIs DEF Good
  <2> QED BY <2>1 DEF ToldTruth, Armed, Fed, Honest, Homed, Opens
<1> QED BY <1>1, Invariance, PTL
=============================================================================
