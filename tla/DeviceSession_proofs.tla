------------------------ MODULE DeviceSession_proofs ------------------------
(***************************************************************************)
(* The safety of a device session, for any number of openers, streams and  *)
(* connections, whatever may be cancelled, removed or stopped.             *)
(*                                                                         *)
(* The count is right because nobody else moves while a task holds the     *)
(* lock, so the inductive invariant says who holds it (QueueOK), whom each *)
(* connection belongs to (ConnsOK, Accounted) and when the active slot is  *)
(* empty (ActiveOK).  Those four and the types, Shape, do not mention the  *)
(* count: a close proves Shape first and the count from it.                *)
(***************************************************************************)
EXTENDS DeviceSession, FiniteSetTheorems, SequenceTheorems, TLAPS

\* Task t is in queue q.
InQ(q, t) == \E i \in DOMAIN q : q[i] = t

Tasks == Openers \cup Closers
Queue == {q \in Seq(Tasks) : \A i, j \in DOMAIN q : q[i] = q[j] => i = j}

\* The types of everything but the lock.
Typed ==
    /\ available \in BOOLEAN /\ managed \in BOOLEAN
    /\ phase \in {"running", "draining", "closing", "stopped"}
    /\ active \in Conns \cup {None}
    /\ refs \in 0..Cardinality(Openers)
    /\ link \in [Conns -> {"down", "connecting", "up"}]
    /\ opener \in [Openers -> [pc : InFlight \cup {"idle", "has"}, conn : Conns \cup {None}]]
    /\ closer \in [Closers -> [pc : {"idle", "queued", "disconnecting", "closed"},
                               conn : Conns \cup {None}, last : BOOLEAN]]
    /\ cut \in BOOLEAN /\ left \subseteq Conns

\* Who waits for the lock is in its queue, and who holds it is the head.  Only a
\* close of a removed device runs without it: the device has a fresh lock by then.
QueueOK ==
    /\ lock \in Queue
    /\ \A o \in Openers :
          /\ opener[o].pc \in Holding \cup {"queued"} <=> InQ(lock, o)
          /\ opener[o].pc \in Holding => Head(lock) = o
    /\ \A k \in Closers :
          /\ InQ(lock, k) => closer[k].pc \in {"queued", "disconnecting"}
          /\ closer[k].pc = "queued" => InQ(lock, k)
          /\ closer[k].pc = "disconnecting" => IF InQ(lock, k) THEN Head(lock) = k ELSE ~managed
          /\ closer[k].pc = "closed" => k = "removal"
    /\ ~managed => closer["removal"].pc = "idle"

\* Who refers to which connection: one that is being made belongs to its opener
\* alone, and one that is being closed is not the active one.
ConnsOK ==
    /\ \A o \in Openers : opener[o].conn # None <=> opener[o].pc \in Holding \cup {"has"}
    /\ \A k \in Closers : closer[k].conn # None <=> closer[k].pc = "disconnecting"
    /\ \A o \in Openers : opener[o].pc \in Holding =>
          /\ \A p \in Openers \ {o} : opener[p].conn # opener[o].conn
          /\ \A k \in Closers : closer[k].conn # opener[o].conn
    /\ \A k \in Closers : closer[k].conn = active => active = None

\* The active slot is empty while an open or a close holds the lock, while a
\* removal finishes, and for good once the manager has stopped.
ActiveOK ==
    /\ \A o \in Openers : opener[o].pc \in Holding => active = None
    /\ \A k \in Closers : closer[k].pc = "disconnecting" /\ InQ(lock, k) => active = None
    /\ closer["removal"].pc = "closed" => active = None
    /\ phase = "stopped" => active = None
    /\ active # None => link[active] # "connecting"

\* A link that is not down is the active one, belongs to an open or a close under
\* way, or was left behind by a disconnect that was cut short.
Accounted ==
    \A c \in Conns \ left : link[c] # "down" =>
        \/ c = active
        \/ \E o \in Openers : opener[o].pc \in Holding /\ opener[o].conn = c
        \/ \E k \in Closers : closer[k].conn = c

\* The part of the inductive invariant that does not count references.
Shape == Typed /\ QueueOK /\ ConnsOK /\ ActiveOK /\ Accounted

IInv == Shape /\ RefsMatchHolders /\ NoForgottenSession

-----------------------------------------------------------------------------
(* The queue of the lock                                                   *)

\* A task that joins the queue waits behind everybody else.
LEMMA AppendQueue ==
    ASSUME NEW q \in Queue, NEW t \in Tasks, ~InQ(q, t)
    PROVE  /\ Append(q, t) \in Queue
           /\ \A u : InQ(Append(q, t), u) <=> InQ(q, u) \/ u = t
           /\ q # <<>> => Head(Append(q, t)) = Head(q)
<1> DEFINE r == Append(q, t)
<1>1. /\ q \in Seq(Tasks) /\ r \in Seq(Tasks)
      /\ DOMAIN q = 1..Len(q) /\ Len(q) \in Nat
      /\ DOMAIN r = 1..(Len(q) + 1)
      /\ \A i \in 1..Len(q) : r[i] = q[i]
      /\ r[Len(q) + 1] = t
    BY AppendProperties, LenProperties DEF Queue
<1>2. \A i, j \in DOMAIN r : r[i] = r[j] => i = j
    BY <1>1 DEF Queue, InQ
<1>3. \A u : InQ(r, u) <=> InQ(q, u) \/ u = t
    BY <1>1 DEF InQ
<1>4. q # <<>> => Head(r) = Head(q)
    BY <1>1, HeadTailAppend
<1> QED BY <1>1, <1>2, <1>3, <1>4 DEF Queue

\* The head is in the queue, and when it leaves, only it leaves.
LEMMA TailQueue ==
    ASSUME NEW q \in Queue, q # <<>>
    PROVE  /\ Head(q) \in Tasks /\ InQ(q, Head(q))
           /\ Tail(q) \in Queue
           /\ \A u : InQ(Tail(q), u) <=> InQ(q, u) /\ u # Head(q)
<1>1. /\ q \in Seq(Tasks) /\ Len(q) \in Nat \ {0} /\ DOMAIN q = 1..Len(q)
      /\ \A i, j \in DOMAIN q : q[i] = q[j] => i = j
    BY LenProperties, EmptySeq DEF Queue
<1>2. /\ Head(q) = q[1] /\ Head(q) \in Tasks
      /\ Tail(q) \in Seq(Tasks) /\ Len(Tail(q)) = Len(q) - 1
      /\ \A i \in 1..(Len(q) - 1) : Tail(q)[i] = q[i + 1]
    BY <1>1, HeadTailProperties
<1>3. DOMAIN Tail(q) = 1..(Len(q) - 1)
    BY <1>2, LenProperties
<1>4. \A i, j \in DOMAIN Tail(q) : Tail(q)[i] = Tail(q)[j] => i = j
    BY <1>1, <1>2, <1>3
<1>5. ASSUME NEW u, InQ(q, u), u # Head(q) PROVE InQ(Tail(q), u)
  <2>1. PICK i \in 1..Len(q) : q[i] = u BY <1>1, <1>5 DEF InQ
  <2>2. i - 1 \in DOMAIN Tail(q) /\ Tail(q)[i - 1] = u BY <1>1, <1>2, <1>3, <1>5, <2>1
  <2> QED BY <2>2 DEF InQ
<1>6. \A u : InQ(Tail(q), u) => InQ(q, u) /\ u # Head(q)
    BY <1>1, <1>2, <1>3 DEF InQ
<1>7. InQ(q, Head(q)) BY <1>1, <1>2 DEF InQ
<1> QED BY <1>2, <1>4, <1>5, <1>6, <1>7 DEF Queue

\* A task that comes first in front of a queue it is not in.
LEMMA ConsQueue ==
    ASSUME NEW q \in Queue, NEW t \in Tasks, ~InQ(q, t)
    PROVE  /\ <<t>> \o q \in Queue
           /\ \A u : InQ(<<t>> \o q, u) <=> InQ(q, u) \/ u = t
           /\ Head(<<t>> \o q) = t
<1> DEFINE r == <<t>> \o q
<1>1. /\ q \in Seq(Tasks) /\ <<t>> \in Seq(Tasks) /\ Len(<<t>>) = 1
      /\ Len(q) \in Nat /\ DOMAIN q = 1..Len(q)
      /\ \A i, j \in DOMAIN q : q[i] = q[j] => i = j
    BY LenProperties DEF Queue
<1>2. /\ r \in Seq(Tasks) /\ Len(r) = 1 + Len(q)
      /\ \A i \in 1..(1 + Len(q)) : r[i] = IF i <= 1 THEN <<t>>[i] ELSE q[i - 1]
    BY <1>1, ConcatProperties
<1>3. DOMAIN r = 1..(1 + Len(q)) BY <1>2, LenProperties
<1>4. r[1] = t /\ \A i \in 2..(1 + Len(q)) : r[i] = q[i - 1] BY <1>1, <1>2
<1>5. \A i, j \in DOMAIN r : r[i] = r[j] => i = j
    BY <1>1, <1>3, <1>4 DEF InQ
<1>6. ASSUME NEW u, InQ(q, u) PROVE InQ(r, u)
  <2>1. PICK i \in 1..Len(q) : q[i] = u BY <1>1, <1>6 DEF InQ
  <2>2. i + 1 \in DOMAIN r /\ r[i + 1] = u BY <1>1, <1>3, <1>4, <2>1
  <2> QED BY <2>2 DEF InQ
<1>7. \A u : InQ(r, u) => InQ(q, u) \/ u = t BY <1>1, <1>3, <1>4 DEF InQ
<1>8. InQ(r, t) BY <1>1, <1>3, <1>4 DEF InQ
<1>9. Head(r) = t BY <1>2, <1>4
<1> QED BY <1>2, <1>5, <1>6, <1>7, <1>8, <1>9 DEF Queue

\* A cancelled task leaves the queue, wherever it stands, and nobody else moves.
LEMMA LeaveQueue ==
    ASSUME lock \in Queue, NEW t
    PROVE  /\ Leave(t) \in Queue
           /\ \A u : InQ(Leave(t), u) <=> InQ(lock, u) /\ u # t
           /\ \A u : InQ(lock, u) /\ u # t /\ Head(lock) = u => Head(Leave(t)) = u
<1>1. /\ lock \in Seq(Tasks) /\ Len(lock) \in Nat /\ DOMAIN lock = 1..Len(lock)
      /\ \A i \in 1..Len(lock) : lock[i] \in Tasks
      /\ \A i, j \in DOMAIN lock : lock[i] = lock[j] => i = j
    BY LenProperties, ElementOfSeq DEF Queue
<1>2. CASE \A i \in DOMAIN lock : lock[i] # t
    BY <1>2 DEF Leave, InQ
<1>3. CASE ~ \A i \in DOMAIN lock : lock[i] # t
  <2>1. PICK p \in 1..Len(lock) : lock[p] = t BY <1>1, <1>3
  <2> DEFINE n == Len(lock) - 1
             r == [i \in 1..n |-> IF i < p THEN lock[i] ELSE lock[i + 1]]
  <2>2. \A i \in 1..n : (\E j \in 1..i : lock[j] = t) <=> ~(i < p)
      BY <1>1, <2>1
  <2>3. Leave(t) = r
      BY <1>3, <2>2 DEF Leave
  <2>4. n \in Nat /\ \A i \in 1..n : r[i] \in Tasks BY <1>1, <2>1
  <2>5. r \in Seq(Tasks) /\ DOMAIN r = 1..n
      BY <2>4, IsASeq
  <2>6. \A i, j \in DOMAIN r : r[i] = r[j] => i = j
      BY <1>1, <2>1, <2>4, <2>5
  <2>7. \A u : InQ(r, u) => InQ(lock, u) /\ u # t
      BY <1>1, <2>1, <2>4, <2>5 DEF InQ
  <2>8. ASSUME NEW u, InQ(lock, u), u # t PROVE InQ(r, u) /\ (Head(lock) = u => Head(r) = u)
    <3>1. PICK i \in 1..Len(lock) : lock[i] = u BY <1>1, <2>8 DEF InQ
    <3>2. i # p BY <2>1, <2>8, <3>1
    <3>3. IF i < p THEN i \in 1..n /\ r[i] = u ELSE i - 1 \in 1..n /\ r[i - 1] = u
        BY <1>1, <2>1, <3>1, <3>2
    <3>4. ASSUME Head(lock) = u PROVE Head(r) = u
      <4>1. lock[1] = u BY <1>1, <2>1, <3>4, HeadTailProperties
      <4>2. i = 1 BY <1>1, <3>1, <4>1
      <4> QED BY <1>1, <2>1, <2>5, <3>2, <3>3, <4>2
    <3> QED BY <2>5, <3>3, <3>4 DEF InQ
  <2>9. r \in Queue BY <2>5, <2>6 DEF Queue
  <2> HIDE DEF r
  <2> QED BY <2>3, <2>7, <2>8, <2>9
<1> QED BY <1>2, <1>3

-----------------------------------------------------------------------------
(* Opening                                                                 *)

\* A connection that is made takes an identity nobody refers to.
LEMMA FreshIsFree ==
    ASSUME \E c \in Conns : Free(c)
    PROVE  FreshConn \in Conns /\ Free(FreshConn)
<1> DEFINE F == {c \in Conns : Free(c)}
<1>1. F \subseteq Nat /\ F # {} BY ConnsAssumption
<1>2. PICK c \in F : \A d \in F : ~(<<d, c>> \in OpToRel(<, Nat))
    BY <1>1, NatLessThanWellFounded, WFMin
<1>3. \A d \in Conns : Free(d) => c <= d
  <2> SUFFICES ASSUME NEW d \in Conns, Free(d), ~(c <= d) PROVE FALSE OBVIOUS
  <2>1. c \in Nat /\ d \in Nat /\ d < c BY <1>1
  <2>2. <<d, c>> \in OpToRel(<, Nat) BY <2>1 DEF OpToRel
  <2> QED BY <1>2, <2>2
<1> QED BY <1>2, <1>3 DEF FreshConn

\* Opener o is at the lock: either nobody has it or o is the head of its queue.
AtLock(o, rest) ==
    /\ opener[o].pc \in {"idle", "draining", "queued"}
    /\ \/ lock = <<>> /\ rest = <<>>
       \/ lock # <<>> /\ Head(lock) = o /\ rest = Tail(lock)

\* Then nobody else holds the lock, and only closes of a removed device run.
LEMMA AtLockFacts ==
    ASSUME Typed, QueueOK, NEW o \in Openers, NEW rest, AtLock(o, rest)
    PROVE  /\ rest \in Queue /\ ~InQ(rest, o)
           /\ \A u : u # o => (InQ(rest, u) <=> InQ(lock, u))
           /\ \A p \in Openers : opener[p].pc \notin Holding
           /\ \A k \in Closers : closer[k].pc = "disconnecting" => ~InQ(lock, k) /\ ~managed
<1>1. CASE lock = <<>> /\ rest = <<>>
  <2>1. \A u : ~InQ(lock, u) BY <1>1 DEF InQ
  <2> QED BY <1>1, <2>1 DEF QueueOK, Holding
<1>2. CASE lock # <<>> /\ Head(lock) = o /\ rest = Tail(lock)
  <2>1. /\ rest \in Queue
        /\ \A u : InQ(rest, u) <=> InQ(lock, u) /\ u # o
      BY <1>2, TailQueue DEF QueueOK
  <2>2. o \notin Closers BY OpenersAssumption
  <2> QED BY <1>2, <2>1, <2>2 DEF QueueOK, Holding, AtLock
<1> QED BY <1>1, <1>2 DEF AtLock

\* Any group of openers is finite, so its members can be counted.
LEMMA OpenersFinite ==
    ASSUME NEW S \in SUBSET Openers
    PROVE  IsFiniteSet(S) /\ Cardinality(S) \in 0..Cardinality(Openers)
  BY ConnsAssumption, FS_Subset, FS_CardinalityType

\* Opener o takes one more reference to the live connection.
LEMMA ReuseStep ==
    ASSUME IInv, NEW o \in Openers, NEW rest, AtLock(o, rest), Reuse(o, rest),
           UNCHANGED <<available, managed, phase, closer, cut, left>>
    PROVE  IInv'
<1> USE DEF IInv, Shape
<1>1. /\ rest \in Queue /\ ~InQ(rest, o)
      /\ \A u : u # o => (InQ(rest, u) <=> InQ(lock, u))
      /\ \A p \in Openers : opener[p].pc \notin Holding
      /\ \A k \in Closers : closer[k].pc = "disconnecting" => ~InQ(lock, k) /\ ~managed
    BY AtLockFacts
<1>2. /\ ~Stopping /\ active # None /\ active \in Conns
      /\ lock' = rest /\ refs' = refs + 1
      /\ UNCHANGED <<available, managed, phase, active, link, closer, cut, left>>
      /\ opener' = [opener EXCEPT ![o] = [pc |-> "has", conn |-> active]]
    BY DEF Reuse, Live, Typed
<1>3. opener[o].pc # "has" BY DEF AtLock
<1>4. o \notin Closers BY OpenersAssumption
<1>5. /\ opener'[o] = [pc |-> "has", conn |-> active]
      /\ \A p \in Openers \ {o} : opener'[p] = opener[p]
    BY <1>2 DEF Typed
<1>6. Holders(active)' = Holders(active) \cup {o} /\ o \notin Holders(active)
    BY <1>2, <1>3, <1>5 DEF Holders
<1>7. refs' = Cardinality(Holders(active)') /\ refs' \in 0..Cardinality(Openers)
  <2>1. Holders(active) \subseteq Openers /\ Holders(active)' \subseteq Openers BY DEF Holders
  <2>2. refs = Cardinality(Holders(active)) BY <1>2 DEF RefsMatchHolders
  <2> QED BY <1>2, <1>6, <2>1, <2>2, OpenersFinite, FS_AddElement
<1>8. Typed' BY <1>2, <1>7 DEF Typed
<1>9. QueueOK' BY <1>1, <1>2, <1>4, <1>5 DEF QueueOK, Holding
<1>10. ConnsOK' BY <1>1, <1>2, <1>5 DEF ConnsOK, Holding
<1>11. ActiveOK' BY <1>1, <1>2, <1>4, <1>5 DEF ActiveOK, Holding
<1>12. Accounted' BY <1>1, <1>2, <1>5 DEF Accounted, Holding
<1>13. RefsMatchHolders' BY <1>2, <1>7 DEF RefsMatchHolders
<1>14. NoForgottenSession' BY <1>2, <1>7 DEF NoForgottenSession, Typed
<1> QED BY <1>8, <1>9, <1>10, <1>11, <1>12, <1>13, <1>14

\* Opener o begins a connection of its own; a dead one in the active slot goes.
LEMMA ConnectStep ==
    ASSUME IInv, NEW o \in Openers, NEW rest, AtLock(o, rest), Connect(o, rest),
           UNCHANGED <<available, managed, phase, closer, cut, left>>
    PROVE  IInv'
<1> USE DEF IInv, Shape
<1> DEFINE f == FreshConn
<1>1. /\ rest \in Queue /\ ~InQ(rest, o)
      /\ \A u : u # o => (InQ(rest, u) <=> InQ(lock, u))
      /\ \A p \in Openers : opener[p].pc \notin Holding
      /\ \A k \in Closers : closer[k].pc = "disconnecting" => ~InQ(lock, k) /\ ~managed
    BY AtLockFacts
<1>2. /\ f \in Conns /\ f # None /\ link[f] = "down" /\ f # active
      /\ \A p \in Openers : opener[p].conn # f
      /\ \A k \in Closers : closer[k].conn # f
    BY FreshIsFree, ConnsAssumption DEF Connect, Free
<1>3. /\ active' = None /\ refs' = 0 /\ lock' = <<o>> \o rest
      /\ opener' = [opener EXCEPT ![o] = [pc |-> "connecting", conn |-> f]]
      /\ link' = [link EXCEPT ![f] = "connecting"]
      /\ ~Stopping /\ ~Live(link)
    BY DEF Connect
<1> HIDE DEF f
<1>4. /\ opener'[o] = [pc |-> "connecting", conn |-> f]
      /\ \A p \in Openers \ {o} : opener'[p] = opener[p]
      /\ link'[f] = "connecting"
      /\ \A c \in Conns \ {f} : link'[c] = link[c]
    BY <1>2, <1>3 DEF Typed
<1>5. /\ lock' \in Queue /\ Head(lock') = o
      /\ \A u : InQ(lock', u) <=> InQ(rest, u) \/ u = o
    BY <1>1, <1>3, ConsQueue DEF Tasks
<1>6. o \notin Closers BY OpenersAssumption
<1>7. active # None => link[active] = "down"
    BY <1>3 DEF Live, ActiveOK, Typed
<1>8. Typed'
  <2>1. refs' \in 0..Cardinality(Openers) BY <1>3, OpenersFinite
  <2> QED BY <1>2, <1>3, <2>1 DEF Typed, InFlight, Holding
<1>9. QueueOK' BY <1>1, <1>3, <1>4, <1>5, <1>6 DEF QueueOK, Holding
<1>10. ConnsOK' BY <1>1, <1>2, <1>3, <1>4 DEF ConnsOK, Holding
<1>11. ActiveOK' BY <1>3 DEF ActiveOK
<1>12. Accounted' BY <1>1, <1>2, <1>3, <1>4, <1>7 DEF Accounted, Holding
<1>13. RefsMatchHolders' BY <1>3 DEF RefsMatchHolders
<1>14. NoForgottenSession' BY <1>3 DEF NoForgottenSession
<1> QED BY <1>8, <1>9, <1>10, <1>11, <1>12, <1>13, <1>14

\* An opener moves about outside the lock, or leaves it, and takes nothing.
LEMMA QuietStep ==
    ASSUME IInv, NEW o \in Openers, NEW pc \in {"idle", "draining", "queued"},
           opener[o].pc \in {"idle", "draining", "queued"},
           opener' = [opener EXCEPT ![o] = [pc |-> pc, conn |-> None]],
           lock' \in Queue,
           InQ(lock', o) <=> pc = "queued",
           \A u : u # o => (InQ(lock', u) <=> InQ(lock, u)),
           \A u : u # o /\ InQ(lock, u) /\ Head(lock) = u => Head(lock') = u,
           UNCHANGED <<available, managed, phase, active, refs, link, closer, cut, left>>
    PROVE  IInv'
<1> USE DEF IInv, Shape
<1>1. /\ opener'[o] = [pc |-> pc, conn |-> None]
      /\ \A p \in Openers \ {o} : opener'[p] = opener[p]
    BY DEF Typed
<1>2. o \notin Closers BY OpenersAssumption
<1>3. Holders(active)' = Holders(active) BY <1>1 DEF Holders
<1>4. Typed' BY DEF Typed, InFlight, Holding
<1>5. QueueOK' BY <1>1, <1>2 DEF QueueOK, Holding
<1>6. ConnsOK'
  <2>1. opener[o].conn = None BY DEF ConnsOK, Holding
  <2> QED BY <1>1, <2>1 DEF ConnsOK, Holding
<1>7. ActiveOK' BY <1>1, <1>2 DEF ActiveOK, Holding
<1>8. Accounted' BY <1>1 DEF Accounted, Holding
<1>9. RefsMatchHolders' BY <1>3 DEF RefsMatchHolders, Stopping
<1>10. NoForgottenSession' BY DEF NoForgottenSession, Stopping
<1> QED BY <1>4, <1>5, <1>6, <1>7, <1>8, <1>9, <1>10

\* Whoever has the lock reuses the session, connects or gives up.
LEMMA AdmitStep ==
    ASSUME IInv, NEW o \in Openers, NEW rest, AtLock(o, rest), Admit(o, rest)
    PROVE  IInv'
<1>1. CASE Reuse(o, rest) BY <1>1, ReuseStep DEF Admit
<1>2. CASE Connect(o, rest) BY <1>2, ConnectStep DEF Admit
<1>3. CASE GiveUp(o, rest)
  <2>1. /\ rest \in Queue /\ ~InQ(rest, o)
        /\ \A u : u # o => (InQ(rest, u) <=> InQ(lock, u))
      BY AtLockFacts DEF IInv, Shape
  <2>2. \A u : u # o /\ InQ(lock, u) => Head(lock) # u
      BY DEF AtLock, InQ
  <2> QED BY <1>3, <2>1, <2>2, QuietStep DEF GiveUp, Admit, IdleOpener, AtLock
<1> QED BY <1>1, <1>2, <1>3 DEF Admit

\* An open takes the free lock or joins its queue.
LEMMA ArriveStep ==
    ASSUME IInv, NEW o \in Openers, opener[o].pc \in {"idle", "draining"}, Arrive(o)
    PROVE  IInv'
<1>1. CASE lock = <<>> /\ Admit(o, <<>>) BY <1>1, AdmitStep DEF AtLock
<1>2. CASE lock # <<>> /\ lock' = Append(lock, o)
  <2>1. lock \in Queue /\ ~InQ(lock, o) /\ o \in Tasks
      BY DEF IInv, Shape, QueueOK, Holding, Tasks
  <2>2. /\ lock' \in Queue /\ Head(lock') = Head(lock)
        /\ \A u : InQ(lock', u) <=> InQ(lock, u) \/ u = o
      BY <1>2, <2>1, AppendQueue
  <2>3. /\ opener' = [opener EXCEPT ![o] = [pc |-> "queued", conn |-> None]]
        /\ UNCHANGED <<available, managed, phase, active, refs, link, closer, cut, left>>
      BY <1>2 DEF Arrive
  <2> QED BY <2>2, <2>3, QuietStep
<1> QED BY <1>1, <1>2 DEF Arrive

\* An open starts, goes on after the close in flight, or gets the lock.
LEMMA OpenSessionStep ==
    ASSUME IInv, NEW o \in Openers, OpenSession(o) \/ Drained(o) \/ Granted(o)
    PROVE  IInv'
<1>1. CASE opener[o].pc \in {"idle", "draining"} /\ Arrive(o) BY <1>1, ArriveStep
<1>2. CASE Granted(o) BY <1>2, AdmitStep DEF Granted, AtLock
<1>3. CASE /\ opener[o].pc \in {"idle", "draining"}
           /\ \E pc \in {"idle", "draining"} :
                 opener' = [opener EXCEPT ![o] = [pc |-> pc, conn |-> None]]
           /\ UNCHANGED <<available, managed, phase, active, refs, link, lock, closer, cut, left>>
  <2>1. lock \in Queue /\ ~InQ(lock, o)
      BY <1>3 DEF IInv, Shape, QueueOK, Holding
  <2> QED BY <1>3, <2>1, QuietStep
<1> QED BY <1>1, <1>2, <1>3 DEF OpenSession, Drained, IdleOpener

\* A connect that succeeds is stored or backed out.
LEMMA ConnectOkStep ==
    ASSUME IInv, ~Busy, NEW o \in Openers, ConnectOk(o)
    PROVE  IInv'
<1> USE DEF IInv, Shape
<1> DEFINE c == opener[o].conn
<1>1. /\ opener[o].pc = "connecting" /\ c \in Conns /\ c # None /\ active = None
      /\ link' = [link EXCEPT ![c] = "up"]
      /\ UNCHANGED <<available, managed, phase, closer, cut, left>>
    BY ConnsAssumption DEF ConnectOk, ConnsOK, ActiveOK, Holding, Typed
<1>2. /\ link'[c] = "up" /\ \A d \in Conns \ {c} : link'[d] = link[d]
    BY <1>1 DEF Typed
<1>3. /\ lock \in Queue /\ InQ(lock, o) /\ lock # <<>> /\ Head(lock) = o
    BY <1>1 DEF QueueOK, Holding, InQ
<1>4. o \notin Closers BY OpenersAssumption
<1>5. /\ \A p \in Openers \ {o} : opener[p].conn # c /\ opener[p].pc \notin Holding
      /\ \A k \in Closers : closer[k].conn # c
    BY <1>1, <1>3 DEF ConnsOK, QueueOK, Holding
<1>6. CASE opener' = [opener EXCEPT ![o].pc = "backout"] /\ UNCHANGED <<active, refs, lock>>
  <2>1. /\ opener'[o] = [pc |-> "backout", conn |-> c]
        /\ \A p \in Openers \ {o} : opener'[p] = opener[p]
      BY <1>6 DEF Typed
  <2>2. Typed' BY <1>1, <1>6 DEF Typed, InFlight, Holding
  <2>3. QueueOK' BY <1>1, <1>6, <2>1 DEF QueueOK, Holding
  <2>4. ConnsOK' BY <1>1, <1>5, <1>6, <2>1 DEF ConnsOK, Holding
  <2>5. ActiveOK' BY <1>1, <1>6 DEF ActiveOK
  <2>6. Accounted' BY <1>1, <1>2, <1>6, <2>1 DEF Accounted, Holding
  <2>7. RefsMatchHolders' BY <1>1, <1>6 DEF RefsMatchHolders, Stopping
  <2>8. NoForgottenSession' BY <1>1, <1>6 DEF NoForgottenSession
  <2> QED BY <2>2, <2>3, <2>4, <2>5, <2>6, <2>7, <2>8
<1>7. CASE /\ ~Stopping /\ active' = c /\ refs' = refs + 1 /\ lock' = Tail(lock)
           /\ opener' = [opener EXCEPT ![o].pc = "has"]
  <2>1. /\ opener'[o] = [pc |-> "has", conn |-> c]
        /\ \A p \in Openers \ {o} : opener'[p] = opener[p]
      BY <1>7 DEF Typed
  <2>2. /\ lock' \in Queue /\ \A u : InQ(lock', u) <=> InQ(lock, u) /\ u # o
      BY <1>3, <1>7, TailQueue
  <2>3. refs' = 1 BY <1>1, <1>7 DEF RefsMatchHolders
  <2>4. Holders(c)' = {o} BY <1>5, <2>1 DEF Holders
  <2>5. Cardinality(Holders(c)') = 1 BY <2>4, FS_Singleton
  <2>6. 1 \in 0..Cardinality(Openers)
    <3>1. {o} \subseteq Openers /\ Cardinality({o}) = 1 BY FS_Singleton
    <3> QED BY <3>1, OpenersFinite
  <2>7. Typed' BY <1>1, <1>7, <2>3, <2>6 DEF Typed, InFlight, Holding
  <2>8. \A k \in Closers : closer[k].pc = "disconnecting" => ~InQ(lock, k)
      BY <1>3, <1>4 DEF QueueOK
  <2>9. QueueOK' BY <1>1, <1>4, <1>5, <1>7, <2>1, <2>2, <2>8 DEF QueueOK, Holding
  <2>10. ConnsOK' BY <1>1, <1>5, <1>7, <2>1 DEF ConnsOK, Holding
  <2>11. ActiveOK'
    <3>1. phase # "stopped" BY <1>7 DEF Stopping
    <3>2. closer["removal"].pc # "closed" BY DEF Busy
    <3>3. \A p \in Openers : opener'[p].pc \notin Holding BY <1>5, <2>1 DEF Holding
    <3>4. \A k \in Closers : closer[k].pc = "disconnecting" => ~InQ(lock', k) BY <1>4, <2>2, <2>8
    <3>5. link'[active'] = "up" BY <1>2, <1>7
    <3> QED BY <1>1, <3>1, <3>2, <3>3, <3>4, <3>5 DEF ActiveOK
  <2>12. Accounted'
    <3>1. \A d \in Conns : d # active BY <1>1, ConnsAssumption
    <3>2. \A d \in Conns \ (left \cup {c}) : link'[d] # "down"
              => \E k \in Closers : closer[k].conn = d
        BY <1>1, <1>2, <1>5, <3>1 DEF Accounted, Holding
    <3> QED BY <1>1, <1>7, <3>2 DEF Accounted
  <2>13. RefsMatchHolders' BY <1>1, <1>7, <2>3, <2>5 DEF RefsMatchHolders
  <2>14. NoForgottenSession' BY <2>3 DEF NoForgottenSession
  <2> QED BY <2>7, <2>9, <2>10, <2>11, <2>12, <2>13, <2>14
<1> QED BY <1>6, <1>7 DEF ConnectOk

\* A connect fails and disconnects.
LEMMA ConnectFailedStep ==
    ASSUME IInv, NEW o \in Openers, ConnectFailed(o)
    PROVE  IInv'
<1> USE DEF IInv, Shape
<1>1. /\ opener[o].pc = "connecting"
      /\ opener' = [opener EXCEPT ![o].pc = "failing"]
      /\ UNCHANGED <<available, managed, phase, active, refs, link, lock, closer, cut, left>>
    BY DEF ConnectFailed
<1>2. /\ opener'[o].pc = "failing" /\ opener'[o].conn = opener[o].conn
      /\ \A p \in Openers \ {o} : opener'[p] = opener[p]
    BY <1>1 DEF Typed
<1>3. Typed' BY <1>1 DEF Typed, InFlight, Holding
<1>4. QueueOK' BY <1>1, <1>2 DEF QueueOK, Holding
<1>5. ConnsOK' BY <1>1, <1>2 DEF ConnsOK, Holding
<1>6. ActiveOK' BY <1>1, <1>2 DEF ActiveOK, Holding
<1>7. Accounted' BY <1>1, <1>2 DEF Accounted, Holding
<1>8. Holders(active)' = Holders(active) BY <1>1, <1>2 DEF Holders
<1>9. RefsMatchHolders' BY <1>1, <1>8 DEF RefsMatchHolders, Stopping
<1>10. NoForgottenSession' BY <1>1 DEF NoForgottenSession, Stopping
<1> QED BY <1>3, <1>4, <1>5, <1>6, <1>7, <1>9, <1>10

\* A connect that fails, or is backed out, leaves nothing behind, or its time is
\* over while it disconnects.
LEMMA OpenFailedStep ==
    ASSUME IInv, NEW o \in Openers, OpenFailed(o) \/ FailTimeout(o)
    PROVE  IInv'
<1> USE DEF IInv, Shape
<1> DEFINE c == opener[o].conn
<1>1. /\ opener[o].pc \in Holding /\ c \in Conns /\ c # None /\ active = None
      /\ \/ link' = [link EXCEPT ![c] = "down"] /\ UNCHANGED left
         \/ LeaveBehind(c)
      /\ lock' = Tail(lock)
      /\ opener' = [opener EXCEPT ![o] = IdleOpener]
      /\ UNCHANGED <<available, managed, phase, active, refs, closer, cut>>
    BY DEF OpenFailed, FailTimeout, ConnsOK, ActiveOK, Holding, Typed
<1>2. /\ link' \in [Conns -> {"down", "connecting", "up"}]
      /\ left \subseteq left' /\ left' \subseteq Conns
      /\ link'[c] = "down" \/ c \in left'
      /\ \A d \in Conns \ {c} : link'[d] = link[d]
      /\ opener'[o] = IdleOpener /\ \A p \in Openers \ {o} : opener'[p] = opener[p]
  <2>1. CASE link' = [link EXCEPT ![c] = "down"] /\ UNCHANGED left
      BY <1>1, <2>1 DEF Typed
  <2>2. CASE LeaveBehind(c) BY <1>1, <2>2 DEF LeaveBehind, Typed
  <2> QED BY <1>1, <2>1, <2>2
<1>3. /\ lock \in Queue /\ InQ(lock, o) /\ lock # <<>> /\ Head(lock) = o
    BY <1>1 DEF QueueOK, InQ
<1>4. o \notin Closers BY OpenersAssumption
<1>5. \A p \in Openers \ {o} : opener[p].pc \notin Holding
    BY <1>3 DEF QueueOK
<1>6. /\ lock' \in Queue /\ \A u : InQ(lock', u) <=> InQ(lock, u) /\ u # o
    BY <1>1, <1>3, TailQueue
<1>7. \A k \in Closers : closer[k].pc = "disconnecting" => ~InQ(lock, k)
    BY <1>3, <1>4 DEF QueueOK
<1>8. Typed' BY <1>1, <1>2 DEF Typed, InFlight, Holding, IdleOpener
<1>9. QueueOK' BY <1>1, <1>2, <1>4, <1>5, <1>6, <1>7 DEF QueueOK, Holding, IdleOpener
<1>10. ConnsOK' BY <1>1, <1>2, <1>5 DEF ConnsOK, Holding, IdleOpener
<1>11. ActiveOK' BY <1>1 DEF ActiveOK
<1>12. Accounted' BY <1>1, <1>2 DEF Accounted, Holding
<1>13. RefsMatchHolders' BY <1>1 DEF RefsMatchHolders, Stopping
<1>14. NoForgottenSession' BY <1>1 DEF NoForgottenSession
<1> QED BY <1>8, <1>9, <1>10, <1>11, <1>12, <1>13, <1>14

-----------------------------------------------------------------------------
(* Closing                                                                 *)

\* The openers that have a connection and give it back, and the connections that
\* go down, in the step of a close.
Shed(S, D) ==
    /\ S \subseteq {o \in Openers : opener[o].pc = "has"}
    /\ D \subseteq Conns
    /\ opener' = Without(S)
    /\ left' = left \ D
    /\ link' = [c \in Conns |-> IF c \in D THEN "down" ELSE link[c]]

\* What Shed does to openers and links, one by one.
LEMMA ShedFacts ==
    ASSUME Typed, NEW S, NEW D, Shed(S, D)
    PROVE  /\ \A o \in Openers : opener'[o] = IF o \in S THEN IdleOpener ELSE opener[o]
           /\ \A o \in S : o \in Openers /\ opener[o].pc = "has"
           /\ \A c \in Conns : link'[c] = IF c \in D THEN "down" ELSE link[c]
           /\ \A c \in D : c \in Conns
           /\ opener' \in [Openers -> [pc : InFlight \cup {"idle", "has"}, conn : Conns \cup {None}]]
           /\ link' \in [Conns -> {"down", "connecting", "up"}]
           /\ left' = left \ D
<1>1. \A o \in Openers : opener'[o] = IF o \in S THEN IdleOpener ELSE opener[o]
    BY DEF Shed, Without
<1>2. IdleOpener \in [pc : InFlight \cup {"idle", "has"}, conn : Conns \cup {None}]
    BY DEF IdleOpener
<1>3. opener' \in [Openers -> [pc : InFlight \cup {"idle", "has"}, conn : Conns \cup {None}]]
    BY <1>2 DEF Shed, Without, Typed
<1> QED BY <1>1, <1>3 DEF Shed, Typed

\* Openers give back and connections go down, while no close starts.
LEMMA ShedShape ==
    ASSUME Shape, NEW S, NEW D, Shed(S, D), refs' \in 0..Cardinality(Openers),
           available' \in BOOLEAN, UNCHANGED <<managed, phase, active, lock, closer, cut>>
    PROVE  Shape'
<1> USE DEF Shape
<1>1. /\ \A o \in Openers : opener'[o] = IF o \in S THEN IdleOpener ELSE opener[o]
      /\ \A o \in S : o \in Openers /\ opener[o].pc = "has"
      /\ \A c \in Conns : link'[c] = IF c \in D THEN "down" ELSE link[c]
      /\ \A c \in D : c \in Conns
      /\ opener' \in [Openers -> [pc : InFlight \cup {"idle", "has"}, conn : Conns \cup {None}]]
      /\ link' \in [Conns -> {"down", "connecting", "up"}]
      /\ left' = left \ D
    BY ShedFacts
<1>2. Typed' BY <1>1 DEF Typed
<1>3. QueueOK' BY <1>1 DEF QueueOK, Holding, IdleOpener
<1>4. ConnsOK' BY <1>1 DEF ConnsOK, Holding, IdleOpener
<1>5. ActiveOK' BY <1>1 DEF ActiveOK, Holding, IdleOpener, Typed
<1>6. Accounted' BY <1>1 DEF Accounted, Holding, IdleOpener
<1> QED BY <1>2, <1>3, <1>4, <1>5, <1>6

\* Closer k is at the lock, or its device is removed and the lock is not asked.
\* held and rest are the queue while it disconnects and when it has nothing to do.
AtPop(k, held, rest) ==
    /\ closer[k].pc \in {"idle", "queued"}
    /\ k = "removal" => managed
    /\ held \in Queue /\ rest \in Queue
    /\ ~InQ(rest, k)
    /\ \A u : u # k => /\ InQ(held, u) <=> InQ(lock, u)
                       /\ InQ(rest, u) <=> InQ(lock, u)
    /\ \/ /\ Head(held) = k /\ InQ(held, k)
          /\ \A o \in Openers : opener[o].pc \notin Holding
          /\ \A j \in Closers : closer[j].pc = "disconnecting" => ~InQ(lock, j) /\ ~managed
       \/ /\ ~managed /\ held = lock /\ rest = lock

\* A closer at the lock pops the session and disconnects it if it is live.
LEMMA PopShape ==
    ASSUME Shape, NEW k \in Closers, NEW S, NEW D, Shed(S, D),
           NEW held, NEW rest, AtPop(k, held, rest), Pop(k, link', held, rest),
           available' \in BOOLEAN, UNCHANGED <<managed, phase, cut>>
    PROVE  Shape' /\ active' = None /\ refs' = 0
<1> USE DEF Shape
<1>1. /\ \A o \in Openers : opener'[o] = IF o \in S THEN IdleOpener ELSE opener[o]
      /\ \A o \in S : o \in Openers /\ opener[o].pc = "has"
      /\ \A c \in Conns : link'[c] = IF c \in D THEN "down" ELSE link[c]
      /\ \A c \in D : c \in Conns
      /\ opener' \in [Openers -> [pc : InFlight \cup {"idle", "has"}, conn : Conns \cup {None}]]
      /\ link' \in [Conns -> {"down", "connecting", "up"}]
      /\ left' = left \ D
    BY ShedFacts
<1>2. active' = None /\ refs' = 0 /\ refs' \in 0..Cardinality(Openers)
    BY OpenersFinite DEF Pop
<1>3. \A o \in Openers : o \notin Closers BY OpenersAssumption
<1>4. ActiveOK' BY <1>2 DEF ActiveOK
<1>5. CASE Live(link')
  <2>1. active \in Conns /\ active # None /\ link'[active] = "up" /\ lock' = held
      BY <1>5 DEF Pop, Live, Typed
  <2>2. closer' = [closer EXCEPT ![k].pc = "disconnecting", ![k].conn = active]
      BY <1>5 DEF Pop
  <2>3. closer' \in [Closers -> [pc : {"idle", "queued", "disconnecting", "closed"},
                                 conn : Conns \cup {None}, last : BOOLEAN]]
    <3>1. PICK q : q = [closer[k] EXCEPT !.pc = "disconnecting", !.conn = active] OBVIOUS
    <3>2. closer[k] \in [pc : {"idle", "queued", "disconnecting", "closed"},
                         conn : Conns \cup {None}, last : BOOLEAN]
        BY DEF Typed
    <3>3. q \in [pc : {"idle", "queued", "disconnecting", "closed"},
                 conn : Conns \cup {None}, last : BOOLEAN]
        BY <2>1, <3>1, <3>2
    <3>4. closer' = [closer EXCEPT ![k] = q] BY <2>2, <3>1 DEF Typed
    <3> QED BY <3>3, <3>4 DEF Typed
  <2>4. /\ closer'[k].pc = "disconnecting" /\ closer'[k].conn = active
        /\ \A j \in Closers \ {k} : closer'[j] = closer[j]
      BY <2>2 DEF Typed
  <2>5. \A o \in Openers : opener[o].pc \notin Holding /\ opener'[o].pc \notin Holding
      BY <1>1, <2>1 DEF ActiveOK, Holding, IdleOpener
  <2>6. Typed' BY <1>1, <1>2, <2>3 DEF Typed
  <2>7. QueueOK'
    <3>1. \A o \in Openers : opener'[o].pc \in Holding \cup {"queued"} <=> InQ(lock', o)
        BY <1>1, <1>3, <2>1 DEF QueueOK, Holding, IdleOpener, AtPop
    <3>2. /\ InQ(lock', k) => Head(lock') = k
          /\ InQ(lock', k) \/ ~managed
        BY <2>1 DEF AtPop
    <3>3. \A j \in Closers \ {k} : closer[j].pc = "disconnecting" =>
             IF InQ(lock', j) THEN Head(lock') = j ELSE ~managed
        BY <2>1 DEF AtPop, QueueOK
    <3>4. lock' \in Queue /\ \A j \in Closers \ {k} : InQ(lock', j) <=> InQ(lock, j)
        BY <2>1 DEF AtPop
    <3>5. ~managed => k # "removal" BY DEF AtPop
    <3>6. "removal" \in Closers BY DEF Closers
    <3> QED BY <2>4, <2>5, <3>1, <3>2, <3>3, <3>4, <3>5, <3>6 DEF QueueOK
  <2>8. ConnsOK'
    <3>1. \A o \in Openers : opener'[o].conn # None <=> opener'[o].pc \in Holding \cup {"has"}
        BY <1>1 DEF ConnsOK, Holding, IdleOpener
    <3>2. \A j \in Closers : closer'[j].conn # None <=> closer'[j].pc = "disconnecting"
        BY <2>1, <2>4 DEF ConnsOK
    <3> QED BY <1>2, <2>5, <3>1, <3>2 DEF ConnsOK
  <2>9. Accounted'
    <3>1. closer[k].conn = None BY DEF AtPop, ConnsOK
    <3>2. ASSUME NEW c \in Conns \ left', link'[c] # "down"
          PROVE  \E j \in Closers : closer'[j].conn = c
      <4>1. link[c] # "down" /\ c # None /\ c \notin left BY <1>1, <3>2, ConnsAssumption
      <4>2. c = active \/ \E j \in Closers : closer[j].conn = c BY <2>5, <3>2, <4>1 DEF Accounted
      <4> QED BY <2>4, <3>1, <4>1, <4>2
    <3> QED BY <3>2 DEF Accounted
  <2> QED BY <1>2, <1>4, <2>6, <2>7, <2>8, <2>9
<1>6. CASE ~Live(link')
  <2>1. lock' = rest BY <1>6 DEF Pop
  <2>2. closer' = [closer EXCEPT ![k] =
                      [IdleCloser EXCEPT !.pc = IF k = "removal" THEN "closed" ELSE "idle"]]
      BY <1>6 DEF Pop
  <2>3. closer' \in [Closers -> [pc : {"idle", "queued", "disconnecting", "closed"},
                                 conn : Conns \cup {None}, last : BOOLEAN]]
      BY <2>2 DEF Typed, IdleCloser
  <2>4. /\ closer'[k].pc = IF k = "removal" THEN "closed" ELSE "idle"
        /\ closer'[k].conn = None
        /\ \A j \in Closers \ {k} : closer'[j] = closer[j]
      BY <2>2 DEF Typed, IdleCloser
  <2>5. Typed' BY <1>1, <1>2, <2>3 DEF Typed
  <2>6. \A u : u # k => (InQ(lock', u) <=> InQ(lock, u))
      BY <2>1 DEF AtPop
  <2>7. QueueOK'
    <3>1. \A o \in Openers : opener'[o].pc \in Holding \cup {"queued"} <=> InQ(lock', o)
        BY <1>1, <1>3, <2>6 DEF QueueOK, Holding, IdleOpener
    <3>2. lock' \in Queue /\ ~InQ(lock', k) BY <2>1 DEF AtPop
    <3>3. \A o \in Openers : opener'[o].pc \in Holding => Head(lock') = o
        BY <1>1, <2>1 DEF QueueOK, IdleOpener, AtPop, Holding
    <3>4. \A j \in Closers \ {k} : closer[j].pc = "disconnecting" =>
             IF InQ(lock', j) THEN Head(lock') = j ELSE ~managed
        BY <2>1 DEF AtPop, QueueOK
    <3>5. ~managed => k # "removal" BY DEF AtPop
    <3>6. "removal" \in Closers BY DEF Closers
    <3> QED BY <2>4, <2>6, <3>1, <3>2, <3>3, <3>4, <3>5, <3>6 DEF QueueOK
  <2>8. ConnsOK' BY <1>1, <1>2, <2>4 DEF ConnsOK, Holding, IdleOpener
  <2>9. \A c \in Conns : link'[c] # "down" => c # active
    <3>1. \A c \in Conns : link'[c] # "down" => link[c] # "down" /\ link'[c] = link[c]
        BY <1>1
    <3>2. active \in Conns => link[active] # "connecting" /\ link'[active] # "up"
        BY <1>6, ConnsAssumption DEF Live, ActiveOK
    <3> QED BY <3>1, <3>2 DEF Typed
  <2>10. Accounted'
    <3>1. closer[k].conn = None BY DEF AtPop, ConnsOK
    <3>2. ASSUME NEW c \in Conns \ left', link'[c] # "down"
          PROVE  \/ \E o \in Openers : opener'[o].pc \in Holding /\ opener'[o].conn = c
                 \/ \E j \in Closers : closer'[j].conn = c
      <4>1. link[c] # "down" /\ c # None /\ c # active /\ c \notin left
          BY <1>1, <2>9, <3>2, ConnsAssumption
      <4>2. \/ \E o \in Openers : opener[o].pc \in Holding /\ opener[o].conn = c
            \/ \E j \in Closers : closer[j].conn = c
          BY <3>2, <4>1 DEF Accounted
      <4> QED BY <1>1, <2>4, <3>1, <4>1, <4>2 DEF Holding
    <3> QED BY <3>2 DEF Accounted
  <2> QED BY <1>2, <1>4, <2>5, <2>7, <2>8, <2>10
<1> QED BY <1>5, <1>6

\* A close starts: at once, behind the lock, or not at all when it is under way.
LEMMA StartCloseShape ==
    ASSUME Shape, NEW k \in Closers, NEW S, NEW D, Shed(S, D),
           NEW r \in 0..Cardinality(Openers), NEW last \in BOOLEAN,
           StartClose(k, link', r, last),
           k = "removal" => managed,
           available' \in BOOLEAN, UNCHANGED <<managed, phase, cut>>
    PROVE  /\ Shape'
           /\ \/ active' = None /\ refs' = 0
              \/ active' = active /\ refs' = r /\ closer'[k].pc # "idle"
<1>1. CASE closer[k].pc # "idle"
  <2>1. refs' = r /\ UNCHANGED <<active, lock, closer>> BY <1>1 DEF StartClose
  <2> QED BY <1>1, <2>1, ShedShape
<1>2. CASE closer[k].pc = "idle" /\ (lock = <<>> \/ ~managed)
  <2> DEFINE held == IF managed THEN <<k>> ELSE lock
  <2>1. Pop(k, link', held, lock) BY <1>2 DEF StartClose
  <2>2. lock \in Queue /\ ~InQ(lock, k) BY <1>2 DEF Shape, QueueOK
  <2>3. AtPop(k, held, lock)
    <3>1. CASE ~managed BY <1>2, <2>2, <3>1 DEF AtPop
    <3>2. CASE managed /\ lock = <<>>
      <4>1. /\ <<k>> \in Queue /\ Head(<<k>>) = k
            /\ \A u : InQ(<<k>>, u) <=> u = k
        <5>1. k \in Tasks BY DEF Tasks
        <5>2. <<k>> \in Seq(Tasks) /\ DOMAIN <<k>> = 1..1 /\ <<k>>[1] = k BY <5>1
        <5>3. <<k>> \in Queue BY <5>2 DEF Queue
        <5>4. \A u : InQ(<<k>>, u) <=> u = k BY <5>2 DEF InQ
        <5> QED BY <5>2, <5>3, <5>4
      <4>2. \A u : ~InQ(lock, u) BY <3>2 DEF InQ
      <4> QED BY <1>2, <2>2, <3>2, <4>1, <4>2 DEF AtPop, Shape, QueueOK, Holding
    <3> QED BY <1>2, <3>1, <3>2
  <2> HIDE DEF held
  <2> QED BY <2>1, <2>3, PopShape
<1>3. CASE closer[k].pc = "idle" /\ lock # <<>> /\ managed
  <2> USE DEF Shape
  <2>1. /\ closer' = [closer EXCEPT ![k] = [pc |-> "queued", conn |-> None, last |-> last]]
        /\ lock' = Append(lock, k) /\ refs' = r /\ active' = active
      BY <1>3 DEF StartClose
  <2>2. lock \in Queue /\ ~InQ(lock, k) /\ k \in Tasks BY <1>3 DEF QueueOK, Tasks
  <2>3. /\ lock' \in Queue /\ Head(lock') = Head(lock)
        /\ \A u : InQ(lock', u) <=> InQ(lock, u) \/ u = k
      BY <1>3, <2>1, <2>2, AppendQueue
  <2>4. /\ closer'[k] = [pc |-> "queued", conn |-> None, last |-> last]
        /\ \A j \in Closers \ {k} : closer'[j] = closer[j]
      BY <2>1 DEF Typed
  <2>5. /\ \A o \in Openers : opener'[o] = IF o \in S THEN IdleOpener ELSE opener[o]
        /\ \A o \in S : o \in Openers /\ opener[o].pc = "has"
        /\ \A c \in Conns : link'[c] = IF c \in D THEN "down" ELSE link[c]
        /\ \A c \in D : c \in Conns
        /\ opener' \in [Openers -> [pc : InFlight \cup {"idle", "has"}, conn : Conns \cup {None}]]
        /\ link' \in [Conns -> {"down", "connecting", "up"}]
        /\ left' = left \ D
      BY ShedFacts
  <2>6. \A o \in Openers : o \notin Closers BY OpenersAssumption
  <2>7. Typed' BY <2>1, <2>5 DEF Typed
  <2>8. QueueOK' BY <1>3, <2>3, <2>4, <2>5, <2>6 DEF QueueOK, Holding, IdleOpener
  <2>9. closer[k].conn = None BY <1>3 DEF ConnsOK
  <2>10. ConnsOK' BY <2>1, <2>4, <2>5, <2>9 DEF ConnsOK, Holding, IdleOpener
  <2>11. ActiveOK'
    <3>1. \A o \in Openers : opener'[o].pc \in Holding => active = None
        BY <2>5 DEF ActiveOK, Holding, IdleOpener
    <3>2. \A j \in Closers : closer'[j].pc = "disconnecting" /\ InQ(lock', j) => active = None
        BY <2>3, <2>4 DEF ActiveOK
    <3>3. closer'["removal"].pc = "closed" => active = None
        BY <2>4 DEF ActiveOK, Closers
    <3>4. active # None => link'[active] # "connecting" BY <2>5 DEF ActiveOK, Typed
    <3> QED BY <2>1, <3>1, <3>2, <3>3, <3>4 DEF ActiveOK
  <2>12. Accounted' BY <2>1, <2>4, <2>5, <2>9 DEF Accounted, Holding, IdleOpener
  <2> QED BY <2>1, <2>4, <2>7, <2>8, <2>10, <2>11, <2>12
<1> QED BY <1>1, <1>2, <1>3

\* A closer starts while nobody gives anything back.
LEMMA CloseStartStep ==
    ASSUME IInv, NEW k \in Closers, StartClose(k, link, refs, FALSE), k = "removal" => managed,
           available' \in BOOLEAN, UNCHANGED <<managed, phase, link, opener, cut, left>>
    PROVE  IInv'
<1>1. Shed({}, {})
    BY DEF IInv, Shape, Typed, Shed, Without
<1>2. refs \in 0..Cardinality(Openers) BY DEF IInv, Shape, Typed
<1>3. /\ Shape'
      /\ \/ active' = None /\ refs' = 0
         \/ active' = active /\ refs' = refs /\ closer'[k].pc # "idle"
    BY <1>1, <1>2, StartCloseShape DEF IInv
<1>4. Holders(active)' = Holders(active) \/ active' = None BY <1>3 DEF Holders
<1>5. RefsMatchHolders' BY <1>3, <1>4 DEF IInv, RefsMatchHolders, Stopping
<1>6. NoForgottenSession'
  <2>1. \A j \in Closers \ {k} : closer'[j] = closer[j]
      BY DEF IInv, Shape, Typed, StartClose, Pop
  <2>2. "scheduled" \in Closers BY DEF Closers
  <2> QED BY <1>3, <2>1, <2>2 DEF IInv, NoForgottenSession, Stopping
<1> QED BY <1>3, <1>5, <1>6 DEF IInv

\* Some of those who hold connection c give it back, in one go.
LEMMA GiveBackStep ==
    ASSUME IInv, NEW c \in Conns, NEW S \in SUBSET Holders(c), NEW D, Shed(S, D),
           GiveBack(S, c, link'), UNCHANGED <<available, managed, phase, cut>>
    PROVE  IInv'
<1>1. available' \in BOOLEAN /\ refs \in 0..Cardinality(Openers)
    BY DEF IInv, Shape, Typed
<1>2. /\ IsFiniteSet(Holders(c)) /\ Cardinality(Holders(c)) \in 0..Cardinality(Openers)
      /\ Cardinality(Openers) \in Nat
  <2>1. Holders(c) \subseteq Openers BY DEF Holders
  <2> QED BY <2>1, OpenersFinite
<1>3. /\ IsFiniteSet(S) /\ Cardinality(S) \in Nat /\ Cardinality(S) <= Cardinality(Holders(c))
      /\ Cardinality(S) = Cardinality(Holders(c)) => S = Holders(c)
    BY <1>2, FS_Subset, FS_CardinalityType
<1>4. \A o \in Openers : opener'[o] = IF o \in S THEN IdleOpener ELSE opener[o]
    BY ShedFacts DEF IInv, Shape
<1>5. \A d : Holders(d)' = Holders(d) \ S BY <1>4 DEF Holders, IdleOpener
<1>6. CASE /\ S = {} \/ Stopping \/ active # c
           /\ UNCHANGED <<active, refs, lock, closer>>
  <2>1. Shape' BY <1>1, <1>6, ShedShape DEF IInv
  <2>2. ~Stopping => Holders(active)' = Holders(active)
      BY <1>5, <1>6 DEF Holders
  <2>3. RefsMatchHolders' BY <1>6, <2>2 DEF IInv, RefsMatchHolders, Stopping
  <2>4. NoForgottenSession' BY <1>6 DEF IInv, NoForgottenSession, Stopping
  <2> QED BY <2>1, <2>3, <2>4 DEF IInv
<1>7. CASE ~(S = {} \/ Stopping \/ active # c)
  <2>1. c # None /\ refs = Cardinality(Holders(c))
      BY <1>7, ConnsAssumption DEF IInv, RefsMatchHolders
  <2>2. CASE /\ refs > Cardinality(S) /\ refs' = refs - Cardinality(S)
             /\ UNCHANGED <<active, lock, closer>>
    <3>1. Cardinality(Holders(c) \ S) = refs'
      <4>1. Holders(c) \cap S = S OBVIOUS
      <4> QED BY <1>2, <2>1, <2>2, <4>1, FS_Difference
    <3>2. refs' \in 0..Cardinality(Openers) /\ refs' # 0 BY <1>1, <1>2, <1>3, <2>2
    <3>3. Shape' BY <1>1, <2>2, <3>2, ShedShape DEF IInv
    <3>4. RefsMatchHolders' BY <1>5, <1>7, <2>1, <2>2, <3>1 DEF RefsMatchHolders
    <3>5. NoForgottenSession' BY <3>2 DEF NoForgottenSession
    <3> QED BY <3>3, <3>4, <3>5 DEF IInv
  <2>3. CASE ~(refs > Cardinality(S)) /\ StartClose("scheduled", link', 0, TRUE)
    <3>1. Holders(c)' = {} BY <1>1, <1>3, <1>5, <2>1, <2>3
    <3>2. "scheduled" \in Closers /\ 0 \in 0..Cardinality(Openers) BY <1>2 DEF Closers
    <3>3. /\ Shape'
          /\ \/ active' = None /\ refs' = 0
             \/ active' = active /\ refs' = 0 /\ closer'["scheduled"].pc # "idle"
        BY <1>1, <2>3, <3>2, StartCloseShape DEF IInv
    <3>4. RefsMatchHolders' BY <1>7, <2>1, <3>1, <3>3, FS_EmptySet DEF RefsMatchHolders
    <3>5. NoForgottenSession' BY <3>3 DEF NoForgottenSession
    <3> QED BY <3>3, <3>4, <3>5 DEF IInv
  <2> QED BY <1>7, <2>2, <2>3 DEF GiveBack
<1> QED BY <1>6, <1>7 DEF GiveBack

\* An opener gives its reference back.
LEMMA ReleaseStep ==
    ASSUME IInv, NEW o \in Openers, ReleaseSession(o)
    PROVE  IInv'
<1> DEFINE c == opener[o].conn
<1>1. c \in Conns /\ {o} \in SUBSET Holders(c)
    BY DEF ReleaseSession, IInv, Shape, ConnsOK, Typed, Holders
<1>2. Shed({o}, {}) /\ link' = link
    BY DEF ReleaseSession, GiveBack, Shed, IInv, Shape, Typed
<1>3. GiveBack({o}, c, link') BY <1>2 DEF ReleaseSession
<1> QED BY <1>1, <1>2, <1>3, GiveBackStep DEF ReleaseSession

\* A connection dies, and its streams give their references back.
LEMMA DropStep ==
    ASSUME IInv, NEW c \in Conns, Drop(c)
    PROVE  IInv'
<1>1. Carried(c) \in SUBSET Holders(c) BY ConnsAssumption DEF Carried, Holders
<1>2. Shed(Carried(c), {c})
  <2>1. link' = [link EXCEPT ![c] = "down"] /\ left' = left \ {c} BY DEF Drop
  <2>2. link' = [d \in Conns |-> IF d \in {c} THEN "down" ELSE link[d]]
      BY <2>1 DEF IInv, Shape, Typed
  <2> QED BY <1>1, <2>1, <2>2 DEF Drop, GiveBack, Shed, Holders
<1> QED BY <1>1, <1>2, GiveBackStep DEF Drop

\* A closer that waited gets the lock.
LEMMA CloseGrantedStep ==
    ASSUME IInv, NEW k \in Closers, CloseGranted(k)
    PROVE  IInv'
<1>1. Shed({}, {}) /\ link' = link /\ available' \in BOOLEAN
    BY DEF CloseGranted, IInv, Shape, Typed, Shed, Without
<1>2. /\ lock # <<>> /\ Head(lock) = k /\ closer[k].pc = "queued"
      /\ Pop(k, link', lock, Tail(lock))
    BY <1>1 DEF CloseGranted
<1>3. AtPop(k, lock, Tail(lock))
  <2>1. /\ lock \in Queue /\ InQ(lock, k) /\ Tail(lock) \in Queue
        /\ \A u : InQ(Tail(lock), u) <=> InQ(lock, u) /\ u # k
      BY <1>2, TailQueue DEF IInv, Shape, QueueOK
  <2>2. \A o \in Openers : o # k BY OpenersAssumption
  <2>3. \A o \in Openers : opener[o].pc \notin Holding
      BY <1>2, <2>2 DEF IInv, Shape, QueueOK
  <2>4. \A j \in Closers : closer[j].pc = "disconnecting" => ~InQ(lock, j) /\ ~managed
      BY <1>2 DEF IInv, Shape, QueueOK
  <2>5. k = "removal" => managed BY <1>2 DEF IInv, Shape, QueueOK
  <2> QED BY <1>2, <2>1, <2>3, <2>4, <2>5 DEF AtPop
<1>4. Shape' /\ active' = None /\ refs' = 0
    BY <1>1, <1>2, <1>3, PopShape DEF IInv, CloseGranted
<1>5. RefsMatchHolders' /\ NoForgottenSession' BY <1>4 DEF RefsMatchHolders, NoForgottenSession
<1> QED BY <1>4, <1>5 DEF IInv

\* A closer has disconnected its connection and leaves the lock.
LEMMA CloseDoneStep ==
    ASSUME IInv, NEW k \in Closers, CloseDone(k)
    PROVE  IInv'
<1> USE DEF IInv, Shape
<1> DEFINE c == closer[k].conn
           S == Carried(c)
<1>1. /\ closer[k].pc = "disconnecting" /\ lock' = AfterCloser(k)
      /\ UNCHANGED <<available, managed, phase, active, refs, cut, left>>
    BY DEF CloseDone
<1>2. c \in Conns /\ c # None /\ c # active
    BY <1>1 DEF ConnsOK, Typed
<1>3. /\ link' \in [Conns -> {"down", "connecting", "up"}]
      /\ link'[c] = "down" /\ \A d \in Conns \ {c} : link'[d] = link[d]
    BY <1>2 DEF CloseDone, Typed
<1>4. closer' = [closer EXCEPT ![k] =
                    [IdleCloser EXCEPT !.pc = IF k = "removal" THEN "closed" ELSE "idle"]]
    BY DEF CloseDone
<1>5. /\ closer' \in [Closers -> [pc : {"idle", "queued", "disconnecting", "closed"},
                                  conn : Conns \cup {None}, last : BOOLEAN]]
      /\ closer'[k].pc = IF k = "removal" THEN "closed" ELSE "idle"
      /\ closer'[k].conn = None
      /\ \A j \in Closers \ {k} : closer'[j] = closer[j]
    BY <1>4 DEF Typed, IdleCloser
<1>6. /\ opener' \in [Openers -> [pc : InFlight \cup {"idle", "has"}, conn : Conns \cup {None}]]
      /\ \A o \in Openers : opener'[o] = IF o \in S THEN IdleOpener ELSE opener[o]
      /\ \A o \in S : opener[o].pc = "has" /\ opener[o].conn = c
    BY DEF CloseDone, Without, Typed, IdleOpener, Carried
<1> HIDE DEF S
<1>7. \A o \in Openers : o # k BY OpenersAssumption
<1>8. /\ lock' \in Queue /\ \A u : InQ(lock', u) <=> InQ(lock, u) /\ u # k
      /\ \A u : InQ(lock', u) /\ Head(lock) = u /\ u # k => Head(lock') = u
  <2>1. CASE InQ(lock, k)
    <3>1. lock # <<>> /\ Head(lock) = k BY <1>1, <2>1 DEF QueueOK, InQ
    <3> QED BY <1>1, <3>1, TailQueue DEF AfterCloser, QueueOK
  <2>2. CASE ~InQ(lock, k)
    <3>1. ASSUME lock # <<>> PROVE Head(lock) # k
      <4>1. lock \in Queue BY DEF QueueOK
      <4>2. InQ(lock, Head(lock)) BY <3>1, <4>1, TailQueue
      <4> QED BY <2>2, <4>2
    <3> QED BY <1>1, <2>2, <3>1 DEF AfterCloser, QueueOK
  <2> QED BY <2>1, <2>2
<1>9. "removal" \in Closers /\ "scheduled" \in Closers BY DEF Closers
<1>10. managed => InQ(lock, k) BY <1>1 DEF QueueOK
<1>11. InQ(lock, k) => active = None BY <1>1 DEF ActiveOK
<1>12. k = "removal" => managed BY <1>1 DEF QueueOK
<1>13. Typed' BY <1>1, <1>3, <1>5, <1>6 DEF Typed
<1>14. QueueOK'
  <2>1. \A o \in Openers :
           /\ opener'[o].pc \in Holding \cup {"queued"} <=> InQ(lock', o)
           /\ opener'[o].pc \in Holding => Head(lock') = o
      BY <1>6, <1>7, <1>8 DEF QueueOK, Holding, IdleOpener
  <2>2. \A j \in Closers \ {k} : closer[j].pc = "disconnecting" =>
           IF InQ(lock', j) THEN Head(lock') = j ELSE ~managed
      BY <1>8 DEF QueueOK
  <2> QED BY <1>1, <1>5, <1>8, <1>9, <1>12, <2>1, <2>2 DEF QueueOK
<1>15. ConnsOK' BY <1>1, <1>2, <1>5, <1>6 DEF ConnsOK, Holding, IdleOpener
<1>16. ActiveOK'
  <2>1. closer'["removal"].pc = "closed" => active = None
      BY <1>5, <1>9, <1>10, <1>11, <1>12 DEF ActiveOK
  <2>2. \A o \in Openers : opener'[o].pc \in Holding => active = None
      BY <1>6 DEF ActiveOK, Holding, IdleOpener
  <2>3. \A j \in Closers : closer'[j].pc = "disconnecting" /\ InQ(lock', j) => active = None
      BY <1>5, <1>8 DEF ActiveOK
  <2>4. active # None => link'[active] # "connecting" BY <1>2, <1>3 DEF ActiveOK, Typed
  <2> QED BY <1>1, <2>1, <2>2, <2>3, <2>4 DEF ActiveOK
<1>17. Accounted'
  <2>1. ASSUME NEW d \in Conns \ left', link'[d] # "down"
        PROVE  \/ d = active
               \/ \E o \in Openers : opener'[o].pc \in Holding /\ opener'[o].conn = d
               \/ \E j \in Closers : closer'[j].conn = d
    <3>1. d # c /\ link[d] # "down" /\ d \notin left BY <1>1, <1>3, <2>1
    <3>2. CASE \E o \in Openers : opener[o].pc \in Holding /\ opener[o].conn = d
        BY <1>6, <3>2 DEF Holding
    <3>3. CASE \E j \in Closers : closer[j].conn = d BY <1>5, <3>1, <3>3
    <3> QED BY <2>1, <3>1, <3>2, <3>3 DEF Accounted
  <2> QED BY <1>1, <2>1 DEF Accounted
<1>18. RefsMatchHolders'
  <2>1. active # None => active # c BY <1>1 DEF ConnsOK
  <2>2. active # None => \A o \in Openers :
           (opener'[o].pc = "has" /\ opener'[o].conn = active)
             <=> (opener[o].pc = "has" /\ opener[o].conn = active)
      BY <1>6, <2>1 DEF IdleOpener
  <2>3. active # None => Holders(active)' = Holders(active) BY <1>1, <2>2 DEF Holders
  <2> QED BY <1>1, <2>3 DEF RefsMatchHolders, Stopping
<1>19. NoForgottenSession'
    BY <1>1, <1>5, <1>9, <1>10, <1>11 DEF NoForgottenSession, Stopping
<1> QED BY <1>13, <1>14, <1>15, <1>16, <1>17, <1>18, <1>19

-----------------------------------------------------------------------------
(* Cancellation                                                            *)

\* A closer is cut short, and with it the opens that await it.
LEMMA CutCloseStep ==
    ASSUME IInv, NEW k \in Closers, CutClose(k), NEW U \in SUBSET Draining,
           opener' = Without(U),
           UNCHANGED <<available, managed, phase, active, refs>>
    PROVE  IInv'
<1> USE DEF IInv, Shape
<1>1. /\ closer' = [closer EXCEPT ![k] = IdleCloser] /\ lock' = Leave(k) /\ cut' = TRUE
      /\ link' = link
      /\ left' = left \cup {d \in Conns : d = closer[k].conn /\ link[d] # "down"}
    BY DEF CutClose, LeaveBehind
<1>2. /\ lock' \in Queue
      /\ \A u : InQ(lock', u) <=> InQ(lock, u) /\ u # k
      /\ \A u : InQ(lock, u) /\ u # k /\ Head(lock) = u => Head(lock') = u
    BY <1>1, LeaveQueue DEF QueueOK
<1>3. /\ closer'[k] = IdleCloser
      /\ \A j \in Closers \ {k} : closer'[j] = closer[j]
    BY <1>1 DEF Typed
<1>4. /\ \A o \in Openers : opener'[o] = IF o \in U THEN IdleOpener ELSE opener[o]
      /\ \A o \in U : o \in Openers /\ opener[o].pc = "draining"
    BY DEF Without, Draining
<1>5. \A o \in Openers : o # k BY OpenersAssumption
<1>6. Typed'
  <2>1. opener' \in [Openers -> [pc : InFlight \cup {"idle", "has"}, conn : Conns \cup {None}]]
      BY <1>4 DEF Without, Typed, IdleOpener
  <2>2. closer' \in [Closers -> [pc : {"idle", "queued", "disconnecting", "closed"},
                                 conn : Conns \cup {None}, last : BOOLEAN]]
      BY <1>1 DEF Typed, IdleCloser
  <2> QED BY <1>1, <2>1, <2>2 DEF Typed
<1>7. QueueOK'
  <2>1. \A o \in Openers :
           /\ opener'[o].pc \in Holding \cup {"queued"} <=> InQ(lock', o)
           /\ opener'[o].pc \in Holding => Head(lock') = o
      BY <1>2, <1>4, <1>5 DEF QueueOK, Holding, IdleOpener
  <2>2. \A j \in Closers \ {k} : closer[j].pc = "disconnecting" =>
           IF InQ(lock', j) THEN Head(lock') = j ELSE ~managed
      BY <1>2 DEF QueueOK
  <2>3. \A j \in Closers :
           /\ InQ(lock', j) => closer'[j].pc \in {"queued", "disconnecting"}
           /\ closer'[j].pc = "queued" => InQ(lock', j)
           /\ closer'[j].pc = "disconnecting" => IF InQ(lock', j) THEN Head(lock') = j ELSE ~managed
           /\ closer'[j].pc = "closed" => j = "removal"
      BY <1>2, <1>3, <2>2 DEF QueueOK, IdleCloser
  <2>4. ~managed => closer'["removal"].pc = "idle"
      BY <1>3 DEF QueueOK, IdleCloser, Closers
  <2> QED BY <1>2, <2>1, <2>3, <2>4 DEF QueueOK
<1>8. ConnsOK' BY <1>3, <1>4 DEF ConnsOK, Holding, IdleOpener, IdleCloser
<1>9. ActiveOK'
  <2>1. \A o \in Openers : opener'[o].pc \in Holding => active = None
      BY <1>4 DEF ActiveOK, Holding, IdleOpener
  <2>2. \A j \in Closers : closer'[j].pc = "disconnecting" /\ InQ(lock', j) => active = None
      BY <1>2, <1>3 DEF ActiveOK, IdleCloser
  <2> QED BY <1>1, <1>3, <2>1, <2>2 DEF ActiveOK, IdleCloser, Closers
<1>10. Accounted'
  <2>1. ASSUME NEW d \in Conns \ left', link[d] # "down"
        PROVE  \/ d = active
               \/ \E o \in Openers : opener'[o].pc \in Holding /\ opener'[o].conn = d
               \/ \E j \in Closers : closer'[j].conn = d
    <3>1. d \notin left /\ d # closer[k].conn BY <1>1, <2>1
    <3>2. CASE \E o \in Openers : opener[o].pc \in Holding /\ opener[o].conn = d
        BY <1>4, <3>2 DEF Holding
    <3>3. CASE \E j \in Closers : closer[j].conn = d BY <1>3, <3>1, <3>3
    <3> QED BY <2>1, <3>1, <3>2, <3>3 DEF Accounted
  <2> QED BY <1>1, <2>1 DEF Accounted
<1>11. RefsMatchHolders'
  <2>1. \A c : Holders(c)' = Holders(c) BY <1>4 DEF Holders, IdleOpener
  <2> QED BY <2>1 DEF RefsMatchHolders, Stopping
<1>12. NoForgottenSession' BY <1>1 DEF NoForgottenSession
<1> QED BY <1>6, <1>7, <1>8, <1>9, <1>10, <1>11, <1>12

\* An open is cancelled wherever it waits.
LEMMA CancelOpenStep ==
    ASSUME IInv, NEW o \in Openers, CancelOpen(o)
    PROVE  IInv'
<1> USE DEF IInv, Shape
<1>1. CASE /\ opener[o].pc = "draining" /\ CutClose("scheduled")
           /\ opener' = Without(Draining)
  <2>1. "scheduled" \in Closers BY DEF Closers
  <2> HIDE DEF IInv
  <2> QED BY <1>1, <2>1, CutCloseStep DEF CancelOpen
<1>2. CASE /\ opener[o].pc \in Holding \cup {"queued"}
           /\ \/ link' = [link EXCEPT ![opener[o].conn] = "down"] /\ UNCHANGED left
              \/ LeaveBehind(opener[o].conn)
           /\ lock' = Leave(o)
           /\ opener' = [opener EXCEPT ![o] = IdleOpener]
           /\ UNCHANGED <<closer, cut>>
  <2> DEFINE c == opener[o].conn
  <2>1. UNCHANGED <<available, managed, phase, active, refs, closer, cut>>
      BY <1>2 DEF CancelOpen
  <2>2. /\ lock' \in Queue
        /\ \A u : InQ(lock', u) <=> InQ(lock, u) /\ u # o
        /\ \A u : InQ(lock, u) /\ u # o /\ Head(lock) = u => Head(lock') = u
      BY <1>2, LeaveQueue DEF QueueOK
  <2>3. /\ opener'[o] = IdleOpener /\ \A p \in Openers \ {o} : opener'[p] = opener[p]
        /\ opener' \in [Openers -> [pc : InFlight \cup {"idle", "has"}, conn : Conns \cup {None}]]
      BY <1>2 DEF Typed, IdleOpener
  <2>4. /\ link' \in [Conns -> {"down", "connecting", "up"}]
        /\ \A d \in Conns : link'[d] \in {link[d], "down"}
        /\ left \subseteq left' /\ left' \subseteq Conns
        /\ c \in Conns => link'[c] = "down" \/ c \in left'
    <3>1. CASE link' = [link EXCEPT ![c] = "down"] /\ UNCHANGED left
        BY <3>1 DEF Typed
    <3>2. CASE LeaveBehind(c) BY <3>2 DEF LeaveBehind, Typed
    <3> QED BY <1>2, <3>1, <3>2
  <2>5. \A k \in Closers : k # o BY OpenersAssumption
  <2>6. Typed' BY <2>1, <2>3, <2>4 DEF Typed
  <2>7. QueueOK'
    <3>1. \A p \in Openers :
             /\ opener'[p].pc \in Holding \cup {"queued"} <=> InQ(lock', p)
             /\ opener'[p].pc \in Holding => Head(lock') = p
        BY <2>2, <2>3 DEF QueueOK, Holding, IdleOpener
    <3>2. \A k \in Closers : closer[k].pc = "disconnecting" =>
             IF InQ(lock', k) THEN Head(lock') = k ELSE ~managed
        BY <2>2, <2>5 DEF QueueOK
    <3> QED BY <2>1, <2>2, <2>5, <3>1, <3>2 DEF QueueOK
  <2>8. ConnsOK' BY <2>1, <2>3 DEF ConnsOK, Holding, IdleOpener
  <2>9. ActiveOK'
    <3>1. \A p \in Openers : opener'[p].pc \in Holding => active = None
        BY <2>3 DEF ActiveOK, Holding, IdleOpener
    <3>2. \A k \in Closers : closer[k].pc = "disconnecting" /\ InQ(lock', k) => active = None
        BY <2>2 DEF ActiveOK
    <3> QED BY <2>1, <2>4, <3>1, <3>2 DEF ActiveOK, Typed
  <2>10. Accounted'
    <3>1. ASSUME NEW d \in Conns \ left', link'[d] # "down"
          PROVE  \/ d = active
                 \/ \E p \in Openers : opener'[p].pc \in Holding /\ opener'[p].conn = d
                 \/ \E k \in Closers : closer[k].conn = d
      <4>1. d # c /\ link[d] # "down" /\ d \notin left BY <2>4, <3>1
      <4>2. CASE \E p \in Openers : opener[p].pc \in Holding /\ opener[p].conn = d
          BY <2>3, <4>1, <4>2
      <4> QED BY <3>1, <4>1, <4>2 DEF Accounted
    <3> QED BY <2>1, <3>1 DEF Accounted
  <2>11. \A d : Holders(d)' = Holders(d) BY <1>2, <2>3 DEF Holders, Holding, IdleOpener
  <2>12. RefsMatchHolders' BY <2>1, <2>11 DEF RefsMatchHolders, Stopping
  <2>13. NoForgottenSession' BY <2>1 DEF NoForgottenSession, Stopping
  <2> QED BY <2>6, <2>7, <2>8, <2>9, <2>10, <2>12, <2>13
<1> QED BY <1>1, <1>2 DEF CancelOpen, Cancel

\* The drain of async_stop cancels a close.
LEMMA StopOverrunStep ==
    ASSUME IInv, NEW k \in Closers, StopOverrun(k)
    PROVE  IInv'
<1> DEFINE U == IF k = "scheduled" THEN Draining ELSE {}
<1>1. U \in SUBSET Draining OBVIOUS
<1>2. opener = Without({}) BY DEF Without, IInv, Shape, Typed
<1>3. opener' = Without(U) BY <1>2 DEF StopOverrun
<1> QED BY <1>1, <1>3, CutCloseStep DEF StopOverrun

-----------------------------------------------------------------------------
(* The device, its removal, and async_stop                                 *)

\* The device is gone once its last close is over.
LEMMA RemovedStep ==
    ASSUME IInv, Removed
    PROVE  IInv'
<1> USE DEF IInv, Shape
<1> DEFINE S == {s \in Streams : opener[s].pc = "has"}
<1>1. /\ closer["removal"].pc = "closed" /\ managed' = FALSE /\ active = None
      /\ closer' = [closer EXCEPT !["removal"] = IdleCloser]
      /\ UNCHANGED <<available, phase, active, refs, link, lock, cut, left>>
    BY DEF Removed, ActiveOK
<1>2. "removal" \in Closers BY DEF Closers
<1>3. /\ closer' \in [Closers -> [pc : {"idle", "queued", "disconnecting", "closed"},
                                  conn : Conns \cup {None}, last : BOOLEAN]]
      /\ closer'["removal"] = IdleCloser
      /\ \A k \in Closers \ {"removal"} : closer'[k] = closer[k]
    BY <1>1, <1>2 DEF Typed, IdleCloser
<1>4. /\ opener' \in [Openers -> [pc : InFlight \cup {"idle", "has"}, conn : Conns \cup {None}]]
      /\ \A o \in Openers : opener'[o] = IF o \in S THEN IdleOpener ELSE opener[o]
      /\ \A o \in S : opener[o].pc = "has"
    BY DEF Removed, Without, Typed, IdleOpener
<1> HIDE DEF S
<1>5. Typed' BY <1>1, <1>3, <1>4 DEF Typed
<1>6. QueueOK'
  <2>1. ~InQ(lock, "removal") BY <1>1, <1>2 DEF QueueOK
  <2> QED BY <1>1, <1>2, <1>3, <1>4, <2>1 DEF QueueOK, Holding, IdleOpener, IdleCloser
<1>7. ConnsOK' BY <1>1, <1>3, <1>4 DEF ConnsOK, Holding, IdleOpener, IdleCloser
<1>8. ActiveOK' BY <1>1 DEF ActiveOK
<1>9. Accounted'
  <2>1. closer["removal"].conn = None BY <1>1, <1>2 DEF ConnsOK
  <2>2. \A c \in Conns : c # None BY ConnsAssumption
  <2> QED BY <1>1, <1>3, <1>4, <2>1, <2>2 DEF Accounted, Holding
<1>10. RefsMatchHolders' BY <1>1 DEF RefsMatchHolders, Stopping
<1>11. NoForgottenSession' BY <1>1 DEF NoForgottenSession
<1> QED BY <1>5, <1>6, <1>7, <1>8, <1>9, <1>10, <1>11

\* async_stop disarms every stream.
LEMMA StopDropStep ==
    ASSUME IInv, StopDrop
    PROVE  IInv'
<1> USE DEF IInv, Shape
<1> DEFINE S == {s \in Streams : opener[s].pc = "has"}
<1>1. /\ phase' = "closing"
      /\ UNCHANGED <<available, managed, active, refs, link, lock, closer, cut, left>>
    BY DEF StopDrop
<1>2. /\ opener' \in [Openers -> [pc : InFlight \cup {"idle", "has"}, conn : Conns \cup {None}]]
      /\ \A o \in Openers : opener'[o] = IF o \in S THEN IdleOpener ELSE opener[o]
      /\ \A o \in S : opener[o].pc = "has"
    BY DEF StopDrop, Without, Typed, IdleOpener
<1> HIDE DEF S
<1>3. Typed' BY <1>1, <1>2 DEF Typed
<1>4. QueueOK' BY <1>1, <1>2 DEF QueueOK, Holding, IdleOpener
<1>5. ConnsOK' BY <1>1, <1>2 DEF ConnsOK, Holding, IdleOpener
<1>6. ActiveOK' BY <1>1, <1>2 DEF ActiveOK, Holding, IdleOpener
<1>7. Accounted' BY <1>1, <1>2 DEF Accounted, Holding
<1>8. RefsMatchHolders' BY <1>1 DEF RefsMatchHolders, Stopping
<1>9. NoForgottenSession' BY <1>1 DEF NoForgottenSession, Stopping
<1> QED BY <1>3, <1>4, <1>5, <1>6, <1>7, <1>8, <1>9

\* async_stop disconnects the active session.
LEMMA StopDoneStep ==
    ASSUME IInv, StopDone
    PROVE  IInv'
<1> USE DEF IInv, Shape
<1>1. /\ phase' = "stopped" /\ active' = None /\ refs' = 0
      /\ UNCHANGED <<available, managed, lock, opener, closer, cut, left>>
    BY DEF StopDone
<1>2. /\ link' \in [Conns -> {"down", "connecting", "up"}]
      /\ \A c \in Conns : link'[c] = IF c = active THEN "down" ELSE link[c]
    BY DEF StopDone, Typed
<1>3. Typed' BY <1>1, <1>2, OpenersFinite DEF Typed
<1>4. QueueOK' BY <1>1 DEF QueueOK
<1>5. ConnsOK' BY <1>1 DEF ConnsOK
<1>6. ActiveOK' BY <1>1 DEF ActiveOK
<1>7. Accounted' BY <1>1, <1>2 DEF Accounted
<1>8. RefsMatchHolders' BY <1>1 DEF RefsMatchHolders
<1>9. NoForgottenSession' BY <1>1 DEF NoForgottenSession
<1> QED BY <1>3, <1>4, <1>5, <1>6, <1>7, <1>8, <1>9

\* The device comes online, or the manager begins to stop: nothing else changes.
LEMMA FlagStep ==
    ASSUME IInv, GoOnline \/ StopBegin
    PROVE  IInv'
<1> USE DEF IInv, Shape
<1>1. /\ available' \in BOOLEAN /\ phase' \in {phase, "draining"}
      /\ UNCHANGED <<managed, active, refs, link, lock, opener, closer, cut, left>>
    BY DEF GoOnline, StopBegin, Typed
<1>2. Typed' BY <1>1 DEF Typed
<1>3. QueueOK' BY <1>1 DEF QueueOK
<1>4. ConnsOK' BY <1>1 DEF ConnsOK
<1>5. ActiveOK' BY <1>1 DEF ActiveOK
<1>6. Accounted' BY <1>1 DEF Accounted
<1>7. Holders(active)' = Holders(active) BY <1>1 DEF Holders
<1>8. RefsMatchHolders' BY <1>1, <1>7 DEF RefsMatchHolders, Stopping
<1>9. NoForgottenSession' BY <1>1 DEF NoForgottenSession, Stopping
<1> QED BY <1>2, <1>3, <1>4, <1>5, <1>6, <1>8, <1>9
-----------------------------------------------------------------------------
(* The theorems                                                            *)

\* A manager that starts has no session, nobody waits, and every link is down.
LEMMA InitInv == Init => IInv
<1> SUFFICES ASSUME Init PROVE IInv OBVIOUS
<1>1. \A u : ~InQ(lock, u) BY DEF Init, InQ
<1>2. Typed
  <2>1. 0 \in 0..Cardinality(Openers) BY OpenersFinite
  <2>2. opener \in [Openers -> [pc : InFlight \cup {"idle", "has"}, conn : Conns \cup {None}]]
      BY DEF Init, IdleOpener
  <2>3. closer \in [Closers -> [pc : {"idle", "queued", "disconnecting", "closed"},
                                conn : Conns \cup {None}, last : BOOLEAN]]
      BY DEF Init, IdleCloser
  <2> QED BY <2>1, <2>2, <2>3 DEF Init, Typed
<1>3. QueueOK
  <2>1. lock \in Queue BY DEF Init, Queue
  <2> QED BY <1>1, <2>1 DEF Init, QueueOK, Holding, IdleOpener, IdleCloser, Closers
<1>4. ConnsOK BY DEF Init, ConnsOK, Holding, IdleOpener, IdleCloser
<1>5. ActiveOK BY <1>1 DEF Init, ActiveOK, Holding, IdleOpener, IdleCloser, Closers
<1>6. Accounted BY DEF Init, Accounted
<1>7. RefsMatchHolders /\ NoForgottenSession BY DEF Init, RefsMatchHolders, NoForgottenSession
<1> QED BY <1>2, <1>3, <1>4, <1>5, <1>6, <1>7 DEF IInv, Shape

\* Every step of every task keeps the invariant.
LEMMA StepInv == IInv /\ [SNext]_svars => IInv'
<1> SUFFICES ASSUME IInv, [SNext]_svars PROVE IInv' OBVIOUS
<1>1. CASE Removed BY <1>1, RemovedStep
<1>2. ASSUME ~Busy, NEW o \in Openers, OpenerStep(o) PROVE IInv'
    BY <1>2, OpenSessionStep, ConnectOkStep, ConnectFailedStep, OpenFailedStep, ReleaseStep
       DEF OpenerStep
<1>3. ASSUME NEW o \in Cancellable, CancelOpen(o) PROVE IInv'
    BY <1>3, ConnsAssumption, CancelOpenStep
<1>4. ASSUME NEW k \in Closers, CloseGranted(k) \/ CloseDone(k) \/ StopOverrun(k) PROVE IInv'
    BY <1>4, CloseGrantedStep, CloseDoneStep, StopOverrunStep
<1>5. ASSUME NEW c \in Conns, Drop(c) PROVE IInv'
    BY <1>5, DropStep
<1>6. /\ available \in BOOLEAN
      /\ "scheduled" \in Closers /\ "forced" \in Closers /\ "removal" \in Closers
    BY DEF IInv, Shape, Typed, Closers
<1>7. CASE ForceClose BY <1>6, <1>7, CloseStartStep DEF ForceClose
<1>8. CASE Remove BY <1>6, <1>8, CloseStartStep DEF Remove
<1>9. CASE GoOffline
  <2>1. CASE active # None BY <1>6, <1>9, <2>1, CloseStartStep DEF GoOffline
  <2>2. CASE active = None
    <3>1. /\ available' = FALSE
          /\ UNCHANGED <<managed, phase, active, refs, link, lock, opener, closer, cut, left>>
        BY <1>9, <2>2 DEF GoOffline
    <3>2. Typed' BY <3>1 DEF IInv, Shape, Typed
    <3>3. QueueOK' /\ ConnsOK' /\ ActiveOK' /\ Accounted'
        BY <3>1 DEF IInv, Shape, QueueOK, ConnsOK, ActiveOK, Accounted
    <3>4. RefsMatchHolders' /\ NoForgottenSession'
        BY <2>2, <3>1 DEF IInv, RefsMatchHolders, NoForgottenSession, Stopping
    <3> QED BY <3>2, <3>3, <3>4 DEF IInv, Shape
  <2> QED BY <2>1, <2>2
<1>10. CASE GoOnline \/ StopBegin BY <1>10, FlagStep
<1>11. CASE StopDrop BY <1>11, StopDropStep
<1>12. CASE StopDone BY <1>12, StopDoneStep
<1>13. CASE UNCHANGED svars
    BY <1>13 DEF svars, IInv, Shape, Typed, QueueOK, ConnsOK, ActiveOK, Accounted,
                 RefsMatchHolders, NoForgottenSession, Stopping, Holders
<1> QED BY <1>1, <1>2, <1>3, <1>4, <1>5, <1>7, <1>8, <1>9, <1>10, <1>11, <1>12, <1>13 DEF SNext

\* The session never leaves its inductive invariant, however its tasks interleave.
THEOREM Invariance == SessionSpec => []IInv
<1> QED BY InitInv, StepInv, PTL DEF SessionSpec

\* Every variable keeps its type, and the lock's queue holds each task that
\* waits for it or holds it exactly once, and nobody else.
THEOREM TypeCorrect == SessionSpec => []SessionTypeOK
<1>1. ASSUME IInv PROVE SessionTypeOK
  <2>1. lock \in Seq(Openers \cup Closers) /\ \A i, j \in DOMAIN lock : lock[i] = lock[j] => i = j
      BY <1>1 DEF IInv, Shape, QueueOK, Queue, Tasks
  <2>2. \A o \in Openers : opener[o].pc \in Holding \cup {"queued"}
                             <=> \E i \in DOMAIN lock : lock[i] = o
      BY <1>1 DEF IInv, Shape, QueueOK, Holding, InQ
  <2> QED BY <1>1, <2>1, <2>2 DEF IInv, Shape, Typed, SessionTypeOK
<1> QED BY <1>1, Invariance, PTL

\* The reference count is the number of references to the active connection.
THEOREM CountsReferences == SessionSpec => []RefsMatchHolders
<1>1. IInv => RefsMatchHolders BY DEF IInv
<1> QED BY <1>1, Invariance, PTL

\* A session without references has its close under way.
THEOREM ClosesForgotten == SessionSpec => []NoForgottenSession
<1>1. IInv => NoForgottenSession BY DEF IInv
<1> QED BY <1>1, Invariance, PTL

\* Two links that are not down and were not left behind are one, while the device
\* is managed: whoever owns a link holds the lock, or nobody does.
LEMMA OneLink ==
    ASSUME IInv, managed, NEW c \in Conns \ left, NEW d \in Conns \ left,
           link[c] # "down", link[d] # "down"
    PROVE  c = d
<1> DEFINE Owns(e) == \/ e = active
                      \/ \E o \in Openers : opener[o].pc \in Holding /\ opener[o].conn = e
                      \/ \E k \in Closers : closer[k].conn = e
<1>1. Owns(c) /\ Owns(d) /\ c # None /\ d # None
    BY ConnsAssumption DEF IInv, Shape, Accounted
<1>2. ASSUME NEW o \in Openers, opener[o].pc \in Holding
      PROVE  active = None /\ Head(lock) = o
    BY <1>2 DEF IInv, Shape, QueueOK, ActiveOK
<1>3. ASSUME NEW k \in Closers, closer[k].conn # None
      PROVE  active = None /\ Head(lock) = k
  <2>1. closer[k].pc = "disconnecting" BY <1>3 DEF IInv, Shape, ConnsOK
  <2>2. InQ(lock, k) /\ Head(lock) = k BY <2>1 DEF IInv, Shape, QueueOK
  <2> QED BY <2>1, <2>2 DEF IInv, Shape, ActiveOK
<1>4. CASE \E o \in Openers : opener[o].pc \in Holding /\ opener[o].conn = c
  <2>1. PICK o \in Openers : opener[o].pc \in Holding /\ opener[o].conn = c BY <1>4
  <2>2. active = None /\ Head(lock) = o BY <1>2, <2>1
  <2>3. ~\E k \in Closers : closer[k].conn = d BY <1>1, <1>3, <2>2, OpenersAssumption
  <2> QED BY <1>1, <1>2, <2>1, <2>2, <2>3
<1>5. CASE \E k \in Closers : closer[k].conn = c
  <2>1. PICK k \in Closers : closer[k].conn = c BY <1>5
  <2>2. active = None /\ Head(lock) = k BY <1>1, <1>3, <2>1
  <2>3. ~\E o \in Openers : opener[o].pc \in Holding /\ opener[o].conn = d
      BY <1>2, <2>2, OpenersAssumption
  <2> QED BY <1>1, <1>3, <2>1, <2>2, <2>3
<1>6. CASE c = active
  <2>1. ~\E o \in Openers : opener[o].pc \in Holding BY <1>1, <1>2, <1>6
  <2>2. ~\E k \in Closers : closer[k].conn = d BY <1>1, <1>3, <1>6
  <2> QED BY <1>1, <1>6, <2>1, <2>2
<1> QED BY <1>1, <1>4, <1>5, <1>6

\* A device has one session connection at a time, but for those left behind.
THEOREM OneConnection == SessionSpec => []OneSocket
<1>1. ASSUME IInv PROVE OneSocket
  <2> DEFINE L == {c \in Conns \ left : link[c] # "down"}
  <2> SUFFICES ASSUME managed PROVE Cardinality(L) <= 1 BY DEF OneSocket
  <2>1. \A c, d \in L : c = d BY <1>1, OneLink
  <2> HIDE DEF L
  <2>2. CASE L = {} BY <2>2, FS_EmptySet
  <2>3. CASE L # {}
    <3>1. PICK c : c \in L BY <2>3
    <3>2. L = {c} BY <2>1, <3>1
    <3> QED BY <3>2, FS_Singleton
  <2> QED BY <2>2, <2>3
<1> QED BY <1>1, Invariance, PTL

\* Once the manager has stopped, every connection that is not down belongs to an
\* open or a close under way, or was left behind before.
THEOREM StopLeavesNothing == SessionSpec => []StoppedIsClosed
<1>1. ASSUME IInv PROVE StoppedIsClosed
  <2>1. phase = "stopped" => active = None BY <1>1 DEF IInv, Shape, ActiveOK
  <2>2. \A c \in Conns : c # None BY ConnsAssumption
  <2> QED BY <1>1, <2>1, <2>2 DEF IInv, Shape, Accounted, StoppedIsClosed, Holding
<1> QED BY <1>1, Invariance, PTL

\* No step makes a connection the active one unless its device is reachable and
\* the manager runs.
THEOREM StrandsNoSession == SessionSpec => NoStrandedSession
<1> DEFINE A == active' # None /\ active' # active => IsAvailable /\ ~Stopping
<1>1. ASSUME SNext PROVE A
  <2> SUFFICES ASSUME active' # None, active' # active PROVE IsAvailable /\ ~Stopping OBVIOUS
  <2>1. ASSUME NEW o \in Openers, NEW rest PROVE ~Admit(o, rest)
      BY DEF Admit, Reuse, Connect, GiveUp
  <2>2. ASSUME NEW o \in Openers, OpenerStep(o) PROVE ConnectOk(o) \/ ReleaseSession(o)
      BY <2>1, <2>2 DEF OpenerStep, OpenSession, Drained, Granted, Arrive, OpenFailed,
                          ConnectFailed, FailTimeout
  <2>3. ASSUME NEW k, NEW lk, NEW r, NEW last PROVE ~StartClose(k, lk, r, last)
      BY DEF StartClose, Pop
  <2>4. ASSUME NEW S, NEW c, NEW lk PROVE ~GiveBack(S, c, lk)
      BY <2>3 DEF GiveBack
  <2>5. \E o \in Openers : ConnectOk(o)
      BY <1>1, <2>2, <2>3, <2>4
         DEF SNext, ReleaseSession, Removed, CancelOpen, CloseGranted, Pop, CloseDone,
             StopOverrun, Drop, ForceClose, GoOffline, GoOnline, Remove, StopBegin, StopDrop, StopDone
  <2> QED BY <2>5 DEF ConnectOk
<1>2. [SNext]_svars => [A]_svars BY <1>1
<1> QED BY <1>2, PTL DEF SessionSpec, NoStrandedSession

=============================================================================
