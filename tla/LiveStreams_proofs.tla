------------------------- MODULE LiveStreams_proofs -------------------------
(***************************************************************************)
(* The safety of the panel's live streams, for any devices, streams and    *)
(* number of calls, and that the steps of a core stream are steps of       *)
(* SharedStream.                                                           *)
(*                                                                         *)
(* A stream and its calls point at each other (Link): what the stream      *)
(* holds is the call of its current claim, that call is in flight or open, *)
(* and no other call is open.  A core stream that holds, asks or waits     *)
(* does so for the device of the open session (Tied).  Where that device   *)
(* is lost, the list that says so is on its way, or the panel is at        *)
(* another device (Warned).                                                *)
(***************************************************************************)
EXTENDS LiveStreams, FiniteSetTheorems, WellFoundedInduction, TLAPS

Line == [mac : Macs \cup {None}, unsub : Nat \cup {None}, cur : Nat \cup {None},
         timer : {"none", "retry", "reopen"}, n : 0..RetryLimit, again : BOOLEAN,
         back : BOOLEAN, due : {"none", "closed", "down"}]
Request == {"free", "asked", "granted", "open", "leaving"}
Votes == {"none", "up", "down"}
Says == {"up", "down"}
Flags == BOOLEAN
Tries == 0..RetryLimit
Lives == [stream : [Streams -> Line], call : [Streams -> UNION {[Slots[s] -> Request] : s \in Streams}],
          vote : [Streams -> Says], reported : Votes, offline : BOOLEAN]

\* A stream that holds, asks or waits.
Active(r) == r.cur # None \/ r.timer # "none"

\* Of the calls C only the one that stream r holds is open.
Holds(r, C, K) ==
    /\ r \in Line /\ C \in [K -> Request]
    /\ r.unsub # None => r.unsub \in K /\ C[r.unsub] = "open"
    /\ \A i \in K : C[i] = "open" => r.unsub = i

\* Stream r and its calls C, which are K.
Link(r, C, K) ==
    /\ r \in Line /\ C \in [K -> Request]
    /\ Active(r) => r.mac \in Macs
    /\ r.unsub # None => r.unsub = r.cur
    /\ r.cur # None =>
          /\ r.cur \in K /\ r.timer = "none"
          /\ C[r.cur] \in {"asked", "granted", "open"}
          /\ C[r.cur] = "open" <=> r.unsub # None
    /\ \A i \in K : C[i] = "open" => r.unsub = i
    /\ r.timer = "retry" => r.n < RetryLimit

Linked(L, s) == Link(L.stream[s], L.call[s], Slots[s])

Good(L) == L \in Lives /\ \A s \in Streams : Linked(L, s)

Tied(L, d) ==
    \A s \in Core : Active(L.stream[s]) => d # None /\ L.stream[s].mac = d

\* The list that lacks device d is on its way, or panel and controller, at p and c,
\* are at another device.
Passes(d, g, p, c) == d \in g \/ (p = c /\ p # d)

\* What the panel knows of the loss of its session's device d, with devices k.
Warned(L, d, k, g, p, c) ==
    d # None =>
        /\ d \notin k => Passes(d, g, p, c)
        /\ \A s \in Core : Deaf(L, s) => Passes(d, g, p, c)

IInv ==
    /\ up \in BOOLEAN /\ known \subseteq Macs /\ gone \subseteq Macs
    /\ sel \in Macs /\ ctl \in Macs /\ session \in Macs \cup {None}
    /\ overlayOn \in BOOLEAN
    /\ Good(live) /\ Tied(live, session)
    /\ Warned(live, session, known, gone, sel, ctl)

-----------------------------------------------------------------------------
(* One stream and its calls                                                *)

\* A set of numbers has a least one.
LEMMA LeastIsIn ==
    ASSUME NEW K \in SUBSET Nat, K # {}
    PROVE  Least(K) \in K
<1>1. PICK k \in K : \A j \in K : ~(<<j, k>> \in OpToRel(<, Nat))
    BY NatLessThanWellFounded, WFMin
<1>2. ASSUME NEW j \in K PROVE k <= j
  <2>1. j \in Nat /\ k \in Nat OBVIOUS
  <2>2. ~(j < k) BY <1>1, <2>1 DEF OpToRel
  <2> QED BY <2>1, <2>2
<1> QED BY <1>1, <1>2 DEF Least

\* A stream that gives up what it held points at nothing.
LEMMA ReleasedLink ==
    ASSUME NEW L, NEW s \in Streams, Holds(L.stream[s], L.call[s], Slots[s]),
           NEW q \in Line, q.unsub = None, q.cur = None, q.timer # "retry",
           Active(q) => q.mac \in Macs, NEW D, D = Released(L, s)
    PROVE  /\ Link(q, D, Slots[s])
           /\ \A i \in Slots[s] : L.call[s][i] = "free" <=> D[i] = "free"
<1> DEFINE C == L.call[s]
           i == L.stream[s].unsub
           c == "leaving"
<1>1. L.stream[s] \in Line /\ C \in [Slots[s] -> Request] BY DEF Holds
<1>2. CASE i = None
  <2>1. D = C BY <1>2 DEF Released
  <2>2. \A j \in Slots[s] : D[j] # "open" BY <1>2, <2>1, LiveAssumption DEF Holds
  <2> QED BY <1>1, <2>1, <2>2 DEF Link
<1>3. CASE i # None
  <2>1. i \in Slots[s] /\ C[i] = "open" BY <1>3 DEF Holds
  <2>2. c \in Request /\ c = "leaving" BY DEF Request
  <2>3. D = [C EXCEPT ![i] = c] BY <1>3 DEF Released
  <2> HIDE DEF c
  <2>4. D \in [Slots[s] -> Request] /\ D[i] = c /\ \A j \in Slots[s] \ {i} : D[j] = C[j]
      BY <1>1, <2>1, <2>2, <2>3
  <2>5. \A j \in Slots[s] : D[j] # "open" BY <2>2, <2>4 DEF Holds
  <2> QED BY <2>1, <2>2, <2>4, <2>5 DEF Link
<1> QED BY <1>2, <1>3

\* A linked stream holds what is open.
LEMMA LinkHolds == ASSUME NEW r, NEW C, NEW K \in SUBSET Nat, Link(r, C, K) PROVE Holds(r, C, K)
BY LiveAssumption DEF Link, Holds

\* A stream that points at nothing asks on a free call.
LEMMA AskLink ==
    ASSUME NEW K \in SUBSET Nat, NEW r, NEW C, Link(r, C, K), r.cur = None,
           NEW i \in K, NEW q \in Line,
           q.cur = i, q.unsub = None, q.timer = "none", q.mac \in Macs,
           NEW D, D = [C EXCEPT ![i] = "asked"]
    PROVE  Link(q, D, K)
<1> DEFINE c == "asked"
<1>1. c \in Request /\ c = "asked" BY DEF Request
<1>2. D = [C EXCEPT ![i] = c] OBVIOUS
<1> HIDE DEF c
<1>3. D \in [K -> Request] /\ D[i] = c /\ \A j \in K \ {i} : D[j] = C[j]
    BY <1>1, <1>2 DEF Link
<1>4. \A j \in K : C[j] # "open"
    BY LiveAssumption DEF Link
<1> QED BY <1>1, <1>3, <1>4 DEF Link

\* L with stream s and its calls as r and C, and the rest as given.
Put(L, s, r, C, v, p, o) ==
    [stream |-> [L.stream EXCEPT ![s] = r], call |-> [L.call EXCEPT ![s] = C],
     vote |-> v, reported |-> p, offline |-> o]

LEMMA PutLives ==
    ASSUME NEW L \in Lives, NEW s \in Streams, NEW r \in Line, NEW C \in [Slots[s] -> Request],
           NEW v \in [Streams -> Says], NEW p \in Votes, NEW o \in Flags,
           NEW T, T = Put(L, s, r, C, v, p, o)
    PROVE  T \in Lives
<1>1. C \in UNION {[Slots[x] -> Request] : x \in Streams} OBVIOUS
<1> QED BY <1>1 DEF Lives, Put, Flags

\* A stream r with calls C is deaf.
DeafAt(r, C) == r.cur # None /\ C[r.cur] # "asked" /\ ~r.back /\ r.due # "closed"

\* Only stream s and its calls have changed.
LEMMA OneMoves ==
    ASSUME NEW L, Good(L), NEW s \in Streams, NEW r, NEW C, Link(r, C, Slots[s]),
           NEW v \in [Streams -> Says], NEW p \in Votes, NEW o \in Flags,
           NEW T, T = Put(L, s, r, C, v, p, o)
    PROVE  /\ Good(T)
           /\ T.stream[s] = r /\ T.call[s] = C
           /\ \A x \in Streams \ {s} : T.stream[x] = L.stream[x] /\ T.call[x] = L.call[x]
<1>1. L \in Lives BY DEF Good
<1>2. r \in Line /\ C \in [Slots[s] -> Request] BY DEF Link
<1>3. T \in Lives BY <1>1, <1>2, PutLives
<1>4. T.stream = [L.stream EXCEPT ![s] = r] /\ T.call = [L.call EXCEPT ![s] = C] BY DEF Put
<1>5. T.stream[s] = r /\ T.call[s] = C BY <1>1, <1>4 DEF Lives
<1>6. \A x \in Streams \ {s} : T.stream[x] = L.stream[x] /\ T.call[x] = L.call[x]
    BY <1>1, <1>4 DEF Lives
<1>7. \A x \in Streams : Linked(T, x) BY <1>5, <1>6 DEF Good, Linked
<1> QED BY <1>3, <1>5, <1>6, <1>7 DEF Good

-----------------------------------------------------------------------------
(* The controller's operators                                              *)

LEMMA NoStreamLine ==
    /\ NoStream \in Line /\ NoStream.unsub = None /\ NoStream.cur = None
    /\ NoStream.timer = "none"
BY LiveAssumption DEF NoStream, Line

\* The streams S are torn down, the others are left alone.
LEMMA SilenceGood ==
    ASSUME NEW L, Good(L), NEW S \in SUBSET Streams, NEW T, T = Silence(L, S)
    PROVE  /\ Good(T)
           /\ \A s \in S : T.stream[s] = NoStream
           /\ \A s \in Streams \ S : T.stream[s] = L.stream[s] /\ T.call[s] = L.call[s]
           /\ \A s \in Streams : \A i \in Slots[s] : L.call[s][i] = "free" <=> T.call[s][i] = "free"
           /\ T.reported = L.reported /\ T.offline = L.offline
<1>1. L \in Lives BY DEF Good
<1>2. /\ T.call = [s \in Streams |-> IF s \in S THEN Released(L, s) ELSE L.call[s]]
      /\ T.stream = [s \in Streams |-> IF s \in S THEN NoStream ELSE L.stream[s]]
      /\ T.vote = [s \in Streams |-> IF s \in S THEN "down" ELSE L.vote[s]]
      /\ T.reported = L.reported /\ T.offline = L.offline
      /\ T = [stream |-> T.stream, call |-> T.call, vote |-> T.vote,
              reported |-> T.reported, offline |-> T.offline]
    BY <1>1 DEF Silence, Lives
<1>3. ASSUME NEW s \in Streams
      PROVE  /\ Linked(T, s) /\ T.stream[s] = IF s \in S THEN NoStream ELSE L.stream[s]
             /\ T.call[s] \in [Slots[s] -> Request]
             /\ \A i \in Slots[s] : L.call[s][i] = "free" <=> T.call[s][i] = "free"
  <2>1. Linked(L, s) BY DEF Good
  <2>2. CASE s \in S
    <3>1. T.stream[s] = NoStream /\ T.call[s] = Released(L, s) BY <1>2, <2>2
    <3>2. /\ Link(NoStream, T.call[s], Slots[s])
          /\ \A i \in Slots[s] : L.call[s][i] = "free" <=> T.call[s][i] = "free"
      <4>1. Slots[s] \in SUBSET Nat BY LiveAssumption
      <4>2. Holds(L.stream[s], L.call[s], Slots[s]) BY <2>1, <4>1, LinkHolds DEF Linked
      <4> QED BY <3>1, <4>2, NoStreamLine, ReleasedLink DEF Active
    <3> QED BY <2>2, <3>1, <3>2 DEF Linked, Link
  <2>3. CASE s \notin S
    <3>1. T.stream[s] = L.stream[s] /\ T.call[s] = L.call[s] BY <1>2, <2>3
    <3> QED BY <2>1, <2>3, <3>1 DEF Linked, Link
  <2> QED BY <2>2, <2>3
<1>4. T \in Lives
  <2>1. T.stream \in [Streams -> Line]
    <3>1. T.stream = [s \in Streams |-> T.stream[s]] BY <1>2
    <3>2. \A s \in Streams : T.stream[s] \in Line BY <1>3 DEF Linked, Link
    <3> QED BY <3>1, <3>2
  <2>2. T.call = [s \in Streams |-> T.call[s]] BY <1>2
  <2>3. T.call \in [Streams -> UNION {[Slots[s] -> Request] : s \in Streams}] BY <1>3, <2>2
  <2>4. T.vote \in [Streams -> Says] BY <1>1, <1>2 DEF Lives, Says
  <2> QED BY <1>1, <1>2, <2>1, <2>3, <2>4 DEF Lives
<1> QED BY <1>2, <1>3, <1>4 DEF Good

\* The streams S may ask.
Ready(L, S) ==
    \A s \in S : L.stream[s].cur = None /\ L.stream[s].timer = "none" /\ FreeSlots(L, s) # {}

\* From L to T the streams S have asked for device m, and no other has moved.
Asked(L, S, m, T) ==
    /\ \A s \in S : /\ T.stream[s].mac = m /\ T.stream[s].cur # None
                    /\ T.stream[s].unsub = None /\ T.stream[s].timer = "none"
                    /\ T.call[s][T.stream[s].cur] = "asked"
    /\ \A s \in Streams \ S : T.stream[s] = L.stream[s] /\ T.call[s] = L.call[s]
    /\ T.vote = L.vote /\ T.reported = L.reported /\ T.offline = L.offline

\* The streams S, idle before, ask for device m.
LEMMA SubscribeGood ==
    ASSUME NEW L, Good(L), NEW S \in SUBSET Streams, NEW m \in Macs, NEW n \in Tries,
           Ready(L, S), NEW T, T = Subscribe(L, S, m, n)
    PROVE  Good(T) /\ Asked(L, S, m, T)
<1> DEFINE claim == [s \in S |-> Least(FreeSlots(L, s))]
<1>1. L \in Lives BY DEF Good
<1>2. \A s \in S : claim[s] \in Slots[s] /\ claim[s] \in Nat
  <2>1. ASSUME NEW s \in S PROVE claim[s] \in Slots[s] /\ claim[s] \in Nat
    <3>1. FreeSlots(L, s) \in SUBSET Nat /\ FreeSlots(L, s) \subseteq Slots[s]
        BY LiveAssumption DEF FreeSlots
    <3>2. FreeSlots(L, s) # {} BY DEF Ready
    <3>3. Least(FreeSlots(L, s)) \in FreeSlots(L, s) BY <3>1, <3>2, LeastIsIn
    <3> QED BY <3>1, <3>3
  <2> QED BY <2>1
<1>3. T = [L EXCEPT
             !.stream = [s \in Streams |-> IF s \in S
                                           THEN [@[s] EXCEPT !.mac = m, !.cur = claim[s], !.n = n]
                                           ELSE @[s]],
             !.call = [s \in Streams |-> IF s \in S
                                         THEN [@[s] EXCEPT ![claim[s]] = "asked"]
                                         ELSE @[s]]]
    BY DEF Subscribe
<1> HIDE DEF claim
<1>4. /\ T.stream = [s \in Streams |-> IF s \in S
                                       THEN [L.stream[s] EXCEPT !.mac = m, !.cur = claim[s], !.n = n]
                                       ELSE L.stream[s]]
      /\ T.call = [s \in Streams |-> IF s \in S
                                     THEN [L.call[s] EXCEPT ![claim[s]] = "asked"]
                                     ELSE L.call[s]]
      /\ T.vote = L.vote /\ T.reported = L.reported /\ T.offline = L.offline
      /\ T = [stream |-> T.stream, call |-> T.call, vote |-> T.vote,
              reported |-> T.reported, offline |-> T.offline]
    BY <1>1, <1>3 DEF Lives
<1>5. ASSUME NEW s \in S
      PROVE  /\ Linked(T, s) /\ T.stream[s].mac = m /\ T.stream[s].cur # None
             /\ T.stream[s].unsub = None /\ T.stream[s].timer = "none"
             /\ T.call[s][T.stream[s].cur] = "asked"
  <2> DEFINE q == [L.stream[s] EXCEPT !.mac = m, !.cur = claim[s], !.n = n]
             C == [L.call[s] EXCEPT ![claim[s]] = "asked"]
  <2>1. Linked(L, s) /\ L.stream[s] \in Line BY DEF Good, Linked, Link
  <2>2. L.stream[s].unsub = None /\ L.stream[s].cur = None /\ L.stream[s].timer = "none"
      BY <2>1 DEF Linked, Link, Ready
  <2>3. claim[s] \in Slots[s] /\ claim[s] \in Nat BY <1>2
  <2>4. q \in Line /\ q.cur = claim[s] /\ q.unsub = None /\ q.timer = "none" /\ q.mac = m
      BY <2>1, <2>2, <2>3 DEF Line, Tries
  <2>5. T.stream[s] = q /\ T.call[s] = C BY <1>4
  <2> HIDE DEF q
  <2>6. Slots[s] \in SUBSET Nat BY LiveAssumption
  <2>7. Link(q, C, Slots[s]) BY <2>1, <2>2, <2>3, <2>4, <2>6, AskLink DEF Linked
  <2>8. claim[s] # None BY <2>3, LiveAssumption
  <2>9. C[claim[s]] = "asked" BY <2>1, <2>3 DEF Linked, Link
  <2> HIDE DEF C
  <2> QED BY <2>4, <2>5, <2>7, <2>8, <2>9 DEF Linked
<1>6. \A s \in Streams \ S : T.stream[s] = L.stream[s] /\ T.call[s] = L.call[s] BY <1>4
<1>7. \A s \in Streams : Linked(T, s) BY <1>5, <1>6 DEF Good, Linked
<1>8. T \in Lives
  <2>1. T.stream = [s \in Streams |-> T.stream[s]] /\ T.call = [s \in Streams |-> T.call[s]]
      BY <1>4
  <2>2. T.stream \in [Streams -> Line]
    <3>1. \A s \in Streams : T.stream[s] \in Line BY <1>7 DEF Linked, Link
    <3> QED BY <2>1, <3>1
  <2>3. T.call \in [Streams -> UNION {[Slots[s] -> Request] : s \in Streams}]
    <3>1. \A s \in Streams : T.call[s] \in [Slots[s] -> Request] BY <1>7 DEF Linked, Link
    <3>2. \A s \in Streams : T.call[s] \in UNION {[Slots[x] -> Request] : x \in Streams}
        BY <3>1
    <3> QED BY <2>1, <3>2
  <2> QED BY <1>1, <1>4, <2>2, <2>3 DEF Lives
<1> QED BY <1>4, <1>5, <1>6, <1>7, <1>8 DEF Good, Asked

\* One stream asks.
LEMMA AskGood ==
    ASSUME NEW L, Good(L), NEW s \in Streams, NEW m \in Macs, NEW n \in Tries,
           Ready(L, {s}), NEW T, T = Subscribe(L, {s}, m, n)
    PROVE  Good(T) /\ Asked(L, {s}, m, T)
<1>1. PICK S \in SUBSET Streams : S = {s} OBVIOUS
<1>2. T = Subscribe(L, S, m, n) BY <1>1
<1>3. Ready(L, S) BY <1>1
<1>4. Good(T) /\ Asked(L, S, m, T) BY <1>2, <1>3, SubscribeGood
<1> QED BY <1>1, <1>4

\* _reopenStream gives up what is held and arms the timer.
LEMMA ReopenForm ==
    ASSUME NEW L \in Lives, NEW s \in Streams, NEW T, T = Reopen(L, s)
    PROVE  T = Put(L, s, Reopening(L, s), Released(L, s), L.vote, L.reported, L.offline)
<1> DEFINE q == Reopening(L, s)
           D == Released(L, s)
<1>1. T = [L EXCEPT !.call[s] = D, !.stream[s] = q] BY DEF Reopen
<1> HIDE DEF q, D
<1>2. T = [stream |-> [L.stream EXCEPT ![s] = q], call |-> [L.call EXCEPT ![s] = D],
           vote |-> L.vote, reported |-> L.reported, offline |-> L.offline]
    BY <1>1 DEF Lives
<1> QED BY <1>2 DEF Put, q, D

LEMMA ReopeningLine ==
    ASSUME NEW L \in Lives, NEW s \in Streams, L.stream[s].mac \in Macs
    PROVE  LET q == Reopening(L, s) IN
           /\ q \in Line /\ q.unsub = None /\ q.cur = None /\ q.timer = "reopen"
           /\ q.mac = L.stream[s].mac /\ q.again /\ Active(q)
<1>1. Reopening(L, s) = [mac |-> L.stream[s].mac, unsub |-> None, cur |-> None,
                         timer |-> "reopen", n |-> 0, again |-> TRUE,
                         back |-> FALSE, due |-> "none"]
  <2>1. L.stream[s].mac = L.stream[s].mac OBVIOUS
  <2> DEFINE m == L.stream[s].mac
  <2>2. Reopening(L, s) = [NoStream EXCEPT !.mac = m, !.timer = "reopen", !.again = TRUE]
      BY DEF Reopening
  <2> HIDE DEF m
  <2>3. Reopening(L, s) = [mac |-> m, unsub |-> None, cur |-> None,
                           timer |-> "reopen", n |-> 0, again |-> TRUE,
                           back |-> FALSE, due |-> "none"]
      BY <2>2 DEF NoStream
  <2> QED BY <2>3 DEF m
<1>2. 0 \in 0..RetryLimit BY LiveAssumption
<1> QED BY <1>1, <1>2 DEF Line, Active

\* From L to T the banner rises only when no stream is up.
Outage(L, T) == ~L.offline /\ T.offline => ~Up(T)

\* A report moves a vote, and perhaps the banner.
LEMMA ReportForm ==
    ASSUME NEW L \in Lives, NEW s \in Streams, NEW v \in {"up", "down"}, NEW T, T = Report(L, s, v)
    PROVE  /\ T = [stream |-> L.stream, call |-> L.call, vote |-> T.vote,
                   reported |-> T.reported, offline |-> T.offline]
           /\ T \in Lives /\ Outage(L, T)
<1> DEFINE M == [L EXCEPT !.vote[s] = v]
           any == IF Up(M) THEN "up" ELSE "down"
           b == IF L.stream[s].mac = sel THEN any = "down" ELSE L.offline
<1>1. T = IF any = L.reported THEN M
          ELSE [M EXCEPT !.reported = any,
                         !.offline = IF L.stream[s].mac = sel THEN any = "down" ELSE @]
    BY DEF Report
<1>2. M = [stream |-> L.stream, call |-> L.call, vote |-> [L.vote EXCEPT ![s] = v],
           reported |-> L.reported, offline |-> L.offline]
  <2>1. M = [L EXCEPT !.vote = [L.vote EXCEPT ![s] = v]] OBVIOUS
  <2> HIDE DEF M
  <2> QED BY <2>1 DEF Lives
<1>3. [L.vote EXCEPT ![s] = v] \in [Streams -> Says] BY DEF Lives, Says
<1>4. any \in Votes /\ b \in BOOLEAN BY DEF Lives, Votes
<1>5. b /\ ~L.offline => ~Up(M) OBVIOUS
<1> HIDE DEF M, any
<1>6. CASE any = L.reported
  <2>1. T = M BY <1>1, <1>6
  <2> QED BY <1>2, <1>3, <2>1 DEF Lives, Outage
<1>7. CASE any # L.reported
  <2>1. M.offline = L.offline /\ M.vote = [L.vote EXCEPT ![s] = v] BY <1>2
  <2>2. T = [M EXCEPT !.reported = any, !.offline = b] BY <1>1, <1>7, <2>1
  <2> HIDE DEF b
  <2>3. T = [stream |-> L.stream, call |-> L.call, vote |-> M.vote,
             reported |-> any, offline |-> b]
      BY <1>2, <2>2
  <2>4. T \in Lives BY <1>3, <1>4, <2>1, <2>3 DEF Lives
  <2>5. Up(T) <=> Up(M) BY <2>3 DEF Up
  <2>6. T.offline = b BY <2>3
  <2> QED BY <1>5, <2>3, <2>4, <2>5, <2>6 DEF Outage
<1> QED BY <1>6, <1>7

-----------------------------------------------------------------------------
(* The steps                                                               *)

FeedOf(L, d, s) ==
    IF d = None THEN "off"
    ELSE IF Deaf(L, s) THEN "parked"
    ELSE IF L.stream[s].unsub # None THEN "held"
    ELSE IF Active(L.stream[s]) THEN "seeking"
    ELSE "parked"

\* The backend has the device of the session.
Serves == up /\ session \in known

\* What a step does to the feeds of the core streams.
Moved ==
    \A s \in Core :
        LET f == FeedOf(live, session, s)
            g == FeedOf(live', session', s)
        IN  \/ session' = session /\ g = f
            \/ /\ session' = session /\ up' = up /\ known' = known
               /\ \/ f = "held" /\ g = "seeking"
                  \/ f = "seeking" /\ (g = "held" \/ (g = "parked" /\ ~Serves))
            \/ session' # session /\ (session' = None \/ (session = None /\ g = "seeking"))

\* What a step needs of the state it starts from.
LEMMA NowFacts ==
    ASSUME IInv
    PROVE  /\ Good(live) /\ live \in Lives /\ live.stream \in [Streams -> Line]
           /\ \A s \in Streams : /\ Linked(live, s) /\ live.stream[s] \in Line
                                 /\ live.call[s] \in [Slots[s] -> Request]
                                 /\ Slots[s] \in SUBSET Nat
BY LiveAssumption DEF IInv, Good, Lives, Linked, Link

\* A callback of one stream leaves a core stream active, unless it gives up the
\* search of an integration that is down; the stream goes deaf only where the
\* backend does not have its device.
LEMMA LoneStep ==
    ASSUME IInv, NEW s \in Streams, NEW T, Becomes(T), Good(T), Outage(live, T),
           \A x \in Streams \ {s} : T.stream[x] = live.stream[x] /\ T.call[x] = live.call[x],
           Active(T.stream[s]) => /\ Active(live.stream[s])
                                  /\ T.stream[s].mac = live.stream[s].mac,
           ~Active(T.stream[s]) /\ Active(live.stream[s]) => live.stream[s].unsub = None /\ (s \in Core => ~up),
           Deaf(live, s) => Deaf(T, s),
           Deaf(T, s) => \/ Deaf(live, s)
                         \/ live.stream[s].unsub = None /\ live.stream[s].mac \notin known
    PROVE  IInv' /\ Outage(live, live') /\ Moved
<1>1. live' = T /\ UNCHANGED <<up, known, gone, sel, ctl, session, overlayOn>>
    BY DEF Becomes, registry, panel
<1>2. Tied(T, session)
  <2>1. \A x \in Core : x \in Streams BY DEF Core
  <2> QED BY <2>1 DEF Tied, IInv
<1>3. \A x \in Streams \ {s} : Deaf(T, x) <=> Deaf(live, x) BY DEF Deaf
<1>4. Deaf(T, s) => Active(T.stream[s]) BY DEF Deaf, Active
<1>5. ASSUME s \in Core, Deaf(T, s), ~Deaf(live, s)
      PROVE  session # None /\ session \notin known
  <2>1. Active(live.stream[s]) /\ live.stream[s].mac \notin known BY <1>4, <1>5
  <2>2. session # None /\ live.stream[s].mac = session BY <1>5, <2>1 DEF IInv, Tied
  <2> QED BY <2>1, <2>2
<1>6. Warned(T, session, known, gone, sel, ctl)
  <2>1. ASSUME session # None, NEW x \in Core, Deaf(T, x)
        PROVE  Passes(session, gone, sel, ctl)
    <3>1. CASE Deaf(live, x) BY <2>1, <3>1 DEF IInv, Warned
    <3>2. CASE ~Deaf(live, x)
      <4>1. x = s BY <1>3, <2>1, <3>2 DEF Core
      <4>2. session \notin known BY <1>5, <2>1, <3>2, <4>1
      <4> QED BY <2>1, <4>2 DEF IInv, Warned
    <3> QED BY <3>1, <3>2
  <2>2. session # None /\ session \notin known => Passes(session, gone, sel, ctl)
      BY DEF IInv, Warned
  <2> QED BY <2>1, <2>2 DEF Warned
<1>7. ASSUME NEW x \in Core
      PROVE  LET f == FeedOf(live, session, x)
                 g == FeedOf(T, session, x)
             IN  g = f \/ (f = "held" /\ g = "seeking")
                 \/ (f = "seeking" /\ (g = "held" \/ (g = "parked" /\ ~Serves)))
  <2>1. CASE x # s
    <3>1. T.stream[x] = live.stream[x] /\ (Deaf(T, x) <=> Deaf(live, x)) BY <1>3, <2>1 DEF Core
    <3> QED BY <3>1 DEF FeedOf
  <2>2. CASE x = s
    <3>1. T.stream[s].unsub # None => Active(T.stream[s])
        BY DEF Good, Linked, Link, Active
    <3>2. live.stream[s].unsub # None => Active(live.stream[s])
        BY NowFacts DEF Linked, Link, Active
    <3>3. CASE Deaf(live, s) BY <2>2, <3>3 DEF FeedOf
    <3>4. CASE ~Deaf(live, s) /\ Deaf(T, s)
      <4>1. session # None /\ session \notin known BY <1>5, <2>2, <3>4
      <4>2. Active(live.stream[s]) /\ live.stream[s].unsub = None BY <1>4, <3>4
      <4> QED BY <2>2, <3>4, <4>1, <4>2 DEF FeedOf, Serves
    <3>5. CASE ~Deaf(live, s) /\ ~Deaf(T, s)
      <4>1. CASE Active(T.stream[s]) BY <2>2, <3>1, <3>2, <3>5, <4>1 DEF FeedOf
      <4>2. CASE ~Active(T.stream[s]) BY <2>2, <3>1, <3>2, <3>5, <4>2 DEF FeedOf, Serves
      <4> QED BY <4>1, <4>2
    <3> QED BY <3>3, <3>4, <3>5
  <2> QED BY <2>1, <2>2
<1>8. Moved BY <1>1, <1>7 DEF Moved
<1>9. IInv' BY <1>1, <1>2, <1>6 DEF IInv
<1> QED BY <1>1, <1>8, <1>9

\* Its stream's callback: only the stream and its calls change, to q and D.
LEMMA PutStep ==
    ASSUME IInv, NEW s \in Streams, NEW q, NEW D, Link(q, D, Slots[s]), NEW T,
           T = Put(live, s, q, D, live.vote, live.reported, live.offline), Becomes(T),
           Active(q) => Active(live.stream[s]) /\ q.mac = live.stream[s].mac,
           ~Active(q) /\ Active(live.stream[s]) => live.stream[s].unsub = None /\ (s \in Core => ~up),
           Deaf(live, s) => DeafAt(q, D),
           DeafAt(q, D) => \/ Deaf(live, s)
                           \/ live.stream[s].unsub = None /\ live.stream[s].mac \notin known
    PROVE  IInv' /\ Outage(live, live') /\ Moved
<1>1. Good(live) /\ live.vote \in [Streams -> Says] /\ live.reported \in Votes
      /\ live.offline \in Flags
    BY NowFacts DEF Lives, Flags
<1>2. /\ Good(T) /\ T.stream[s] = q /\ T.call[s] = D
      /\ \A x \in Streams \ {s} : T.stream[x] = live.stream[x] /\ T.call[x] = live.call[x]
  <2>1. PICK v, p, o : v = live.vote /\ p = live.reported /\ o = live.offline OBVIOUS
  <2>2. Good(live) /\ v \in [Streams -> Says] /\ p \in Votes /\ o \in Flags BY <1>1, <2>1
  <2>3. T = Put(live, s, q, D, v, p, o) BY <2>1
  <2> QED BY <2>2, <2>3, OneMoves
<1>3. Outage(live, T)
  <2>1. T.offline = live.offline BY DEF Put
  <2> QED BY <2>1 DEF Outage
<1>4. Deaf(T, s) <=> DeafAt(q, D) BY <1>2 DEF Deaf, DeafAt
<1> QED BY <1>2, <1>3, <1>4, LoneStep

\* A timer fires: the stream asks again.
LEMMA TimerFiresStep ==
    ASSUME IInv, NEW s \in Streams, TimerFires(s)
    PROVE  IInv' /\ Outage(live, live') /\ Moved
<1> DEFINE r == live.stream[s]
           q == [r EXCEPT !.timer = "none"]
           M == [live EXCEPT !.stream[s].timer = "none"]
           n == IF r.timer = "retry" THEN r.n + 1 ELSE 1
           T == Subscribe(M, {s}, r.mac, n)
<1>1. r.timer # "none" /\ FreeSlots(live, s) # {} /\ Becomes(T) BY DEF TimerFires
<1>2. r \in Line /\ Link(r, live.call[s], Slots[s]) BY NowFacts DEF Linked
<1>3. r.cur = None /\ r.unsub = None /\ r.mac \in Macs /\ Active(r) BY <1>1, <1>2 DEF Link, Active
<1>4. n \in Tries
  <2>1. r.n \in 0..RetryLimit /\ (r.timer = "retry" => r.n < RetryLimit) BY <1>2 DEF Link, Line
  <2> QED BY <2>1, LiveAssumption DEF Tries
<1>5. q \in Line /\ q.cur = None /\ q.unsub = None /\ q.timer = "none" /\ q.n = r.n
    BY <1>2, <1>3 DEF Line
<1>6. M = [stream |-> [live.stream EXCEPT ![s] = q], call |-> live.call, vote |-> live.vote,
           reported |-> live.reported, offline |-> live.offline]
  <2>1. M = [live EXCEPT !.stream[s] = q] OBVIOUS
  <2> HIDE DEF M, q
  <2> QED BY <2>1, NowFacts DEF Lives
<1>7. live.call = [live.call EXCEPT ![s] = live.call[s]] BY NowFacts DEF Lives
<1>8. Link(q, live.call[s], Slots[s]) BY <1>2, <1>3, <1>5 DEF Link, Active
<1> HIDE DEF q, M, n
<1>9. /\ Good(M) /\ M.stream[s] = q /\ M.call[s] = live.call[s]
      /\ \A x \in Streams \ {s} : M.stream[x] = live.stream[x] /\ M.call[x] = live.call[x]
  <2>1. live.vote \in [Streams -> Says] /\ live.reported \in Votes
        /\ live.offline \in Flags
      BY NowFacts DEF Lives, Flags
  <2>2. M = Put(live, s, q, live.call[s], live.vote, live.reported, live.offline)
      BY <1>6, <1>7 DEF Put
  <2>3. Good(live) BY NowFacts
  <2> QED BY <1>8, <2>1, <2>2, <2>3, OneMoves
<1>10. FreeSlots(M, s) # {} BY <1>1, <1>9 DEF FreeSlots
<1>11. /\ Good(T) /\ T.stream[s].mac = r.mac /\ T.stream[s].cur # None
       /\ \A x \in Streams \ {s} : T.stream[x] = M.stream[x] /\ T.call[x] = M.call[x]
       /\ T.offline = M.offline /\ T.call[s][T.stream[s].cur] = "asked"
  <2>1. Ready(M, {s}) BY <1>5, <1>9, <1>10 DEF Ready
  <2>2. Good(M) /\ r.mac \in Macs BY <1>3, <1>9
  <2> HIDE DEF T, r
  <2>3. T = Subscribe(M, {s}, r.mac, n) BY DEF T
  <2>4. Good(T) /\ Asked(M, {s}, r.mac, T) BY <1>4, <2>1, <2>2, <2>3, AskGood
  <2> QED BY <2>4 DEF Asked
<1>12. M.offline = live.offline BY <1>6
<1>13. ~Deaf(live, s) /\ ~Deaf(T, s) BY <1>3, <1>11 DEF Deaf
<1> HIDE DEF T
<1> QED BY <1>1, <1>3, <1>9, <1>11, <1>12, <1>13, LoneStep DEF Outage, Active

\* Only stream s and one call of it change: the form of the state.
LEMMA CallForm ==
    ASSUME NEW L \in Lives, NEW s \in Streams, NEW i \in Slots[s], NEW c,
           NEW T, T = [L EXCEPT !.call[s][i] = c]
    PROVE  T = Put(L, s, L.stream[s], [L.call[s] EXCEPT ![i] = c], L.vote, L.reported, L.offline)
<1> DEFINE C == [L.call[s] EXCEPT ![i] = c]
<1>1. T = [L EXCEPT !.call[s] = C] OBVIOUS
<1> HIDE DEF C
<1>2. L.stream = [L.stream EXCEPT ![s] = L.stream[s]] BY DEF Lives
<1>3. T = [stream |-> L.stream, call |-> [L.call EXCEPT ![s] = C], vote |-> L.vote,
           reported |-> L.reported, offline |-> L.offline]
    BY <1>1 DEF Lives
<1> QED BY <1>2, <1>3 DEF Put, C

LEMMA ClaimForm ==
    ASSUME NEW L \in Lives, NEW s \in Streams, NEW i \in Slots[s], NEW c, NEW q,
           NEW T, T = [L EXCEPT !.call[s][i] = c, !.stream[s] = q]
    PROVE  T = Put(L, s, q, [L.call[s] EXCEPT ![i] = c], L.vote, L.reported, L.offline)
<1> DEFINE C == [L.call[s] EXCEPT ![i] = c]
<1>1. T = [L EXCEPT !.call[s] = C, !.stream[s] = q] OBVIOUS
<1> HIDE DEF C
<1>2. T = [stream |-> [L.stream EXCEPT ![s] = q], call |-> [L.call EXCEPT ![s] = C],
           vote |-> L.vote, reported |-> L.reported, offline |-> L.offline]
    BY <1>1 DEF Lives
<1> QED BY <1>2 DEF Put, C

\* A call that its stream does not name changes.
LEMMA CallStep ==
    ASSUME IInv, NEW s \in Streams, NEW i \in Slots[s], NEW c \in Request, c # "open",
           live.stream[s].cur # i,
           NEW T, T = [live EXCEPT !.call[s][i] = c], Becomes(T)
    PROVE  IInv' /\ Outage(live, live') /\ Moved
<1>1. PICK r : r = live.stream[s] OBVIOUS
<1>2. PICK C : C = live.call[s] OBVIOUS
<1>3. PICK D : D = [C EXCEPT ![i] = c] OBVIOUS
<1>4. T = Put(live, s, r, D, live.vote, live.reported, live.offline)
    BY <1>1, <1>2, <1>3, NowFacts, CallForm
<1>5. Link(r, C, Slots[s]) BY <1>1, <1>2, NowFacts DEF Linked
<1>6. D \in [Slots[s] -> Request] /\ D[i] = c /\ \A j \in Slots[s] \ {i} : D[j] = C[j]
    BY <1>3, <1>5 DEF Link
<1>7. r.cur # None => D[r.cur] = C[r.cur] BY <1>1, <1>5, <1>6 DEF Link
<1>8. Link(r, D, Slots[s]) BY <1>5, <1>6, <1>7 DEF Link
<1>9. Deaf(live, s) <=> DeafAt(r, D) BY <1>1, <1>2, <1>7 DEF Deaf, DeafAt
<1> QED BY <1>1, <1>4, <1>8, <1>9, PutStep

\* The call that its stream names goes on, to c, and the stream to q.
LEMMA ClaimStep ==
    ASSUME IInv, NEW s \in Streams, NEW i \in Slots[s], live.stream[s].cur = i,
           NEW c \in {"granted", "open"}, live.call[s][i] \in {"asked", "granted"},
           NEW q \in Line, q.cur = i, q.timer = "none", q.mac = live.stream[s].mac,
           q.unsub = IF c = "open" THEN i ELSE None,
           NEW T, T = [live EXCEPT !.call[s][i] = c, !.stream[s] = q], Becomes(T),
           Deaf(live, s) => ~q.back /\ q.due # "closed",
           ~q.back /\ q.due # "closed" => Deaf(live, s) \/ live.stream[s].mac \notin known
    PROVE  IInv' /\ Outage(live, live') /\ Moved
<1>1. PICK r : r = live.stream[s] OBVIOUS
<1>2. PICK C : C = live.call[s] OBVIOUS
<1>3. PICK D : D = [C EXCEPT ![i] = c] OBVIOUS
<1>4. T = Put(live, s, q, D, live.vote, live.reported, live.offline)
  <2>1. live \in Lives BY NowFacts
  <2>2. T = Put(live, s, q, [live.call[s] EXCEPT ![i] = c],
                live.vote, live.reported, live.offline)
      BY <2>1, ClaimForm
  <2> QED BY <1>2, <1>3, <2>2
<1>5. Link(r, C, Slots[s]) /\ i # None
    BY <1>1, <1>2, NowFacts, LiveAssumption DEF Linked
<1>6. c \in Request BY DEF Request
<1>7. D \in [Slots[s] -> Request] /\ D[i] = c /\ \A j \in Slots[s] \ {i} : D[j] = C[j]
    BY <1>3, <1>5, <1>6 DEF Link
<1>8. r.unsub = None /\ r.mac \in Macs /\ Active(r) /\ Active(q)
    BY <1>1, <1>2, <1>5 DEF Link, Active
<1>9. \A j \in Slots[s] : D[j] = "open" => q.unsub = j
  <2>1. \A j \in Slots[s] : C[j] # "open"
    <3>1. \A j \in Slots[s] : C[j] = "open" => r.unsub = j BY <1>5 DEF Link
    <3> QED BY <1>8, <3>1, LiveAssumption
  <2> QED BY <1>7, <2>1
<1>10. Link(q, D, Slots[s]) BY <1>1, <1>5, <1>7, <1>8, <1>9 DEF Link
<1>11. DeafAt(q, D) <=> ~q.back /\ q.due # "closed" BY <1>5, <1>7 DEF DeafAt
<1> QED BY <1>1, <1>4, <1>8, <1>10, <1>11, PutStep

\* The backend's answers to a call.
LEMMA AnswerStep ==
    ASSUME IInv, NEW s \in Streams, NEW i \in Slots[s], Grant(s, i) \/ Unsubscribed(s, i)
    PROVE  IInv' /\ Outage(live, live') /\ Moved
<1>1. PICK r : r = live.stream[s] OBVIOUS
<1>2. /\ live.call[s][i] \in Request /\ Link(r, live.call[s], Slots[s])
      /\ live.stream = [live.stream EXCEPT ![s] = r] /\ r \in Line
    BY <1>1, NowFacts DEF Linked
<1>3. CASE Grant(s, i) /\ r.cur # i
  <2>1. PICK T : T = [live EXCEPT !.call[s][i] = "granted"] OBVIOUS
  <2>2. Becomes(T)
    <3>1. [live EXCEPT !.call[s][i] = "granted", !.stream[s] = r] = T
      <4>1. PICK U : U = [live EXCEPT !.call[s][i] = "granted", !.stream[s] = r] OBVIOUS
      <4>2. live \in Lives BY NowFacts
      <4>3. U = Put(live, s, r, [live.call[s] EXCEPT ![i] = "granted"],
                    live.vote, live.reported, live.offline)
          BY <4>1, <4>2, ClaimForm
      <4>4. T = Put(live, s, r, [live.call[s] EXCEPT ![i] = "granted"],
                    live.vote, live.reported, live.offline)
          BY <1>1, <2>1, NowFacts, CallForm
      <4> QED BY <4>1, <4>3, <4>4
    <3> QED BY <1>1, <1>3, <3>1 DEF Grant
  <2>3. "granted" \in Request BY DEF Request
  <2> QED BY <1>1, <1>3, <2>1, <2>2, <2>3, CallStep
<1>4. CASE Grant(s, i) /\ r.cur = i
  <2>1. PICK q : q = IF r.mac \in known THEN [r EXCEPT !.back = TRUE] ELSE [r EXCEPT !.due = "down"]
      OBVIOUS
  <2>2. PICK T : T = [live EXCEPT !.call[s][i] = "granted", !.stream[s] = q] OBVIOUS
  <2>3. Becomes(T) /\ live.call[s][i] = "asked" BY <1>1, <1>4, <2>1, <2>2 DEF Grant
  <2>4. i # None BY NowFacts, LiveAssumption
  <2>5. r.timer = "none" /\ r.unsub = None BY <1>2, <1>4, <2>3, <2>4 DEF Link
  <2>6. /\ q \in Line /\ q.cur = i /\ q.timer = "none" /\ q.mac = r.mac /\ q.unsub = None
        /\ r.mac \in known => q.back
      BY <1>2, <1>4, <2>1, <2>5 DEF Line
  <2>7. ~Deaf(live, s) BY <1>1, <1>4, <2>3 DEF Deaf
  <2> QED BY <1>1, <1>4, <2>2, <2>3, <2>6, <2>7, ClaimStep
<1>5. CASE Unsubscribed(s, i)
  <2>1. PICK T : T = [live EXCEPT !.call[s][i] = "free"] OBVIOUS
  <2>2. live.call[s][i] = "leaving" /\ Becomes(T) BY <1>5, <2>1 DEF Unsubscribed
  <2>3. live.stream[s].cur # i BY <1>1, <1>2, <2>2, LiveAssumption DEF Link
  <2>4. "free" \in Request BY DEF Request
  <2> QED BY <2>1, <2>2, <2>3, <2>4, CallStep
<1> QED BY <1>3, <1>4, <1>5

\* A subscribe call resolves.
LEMMA ResolveStep ==
    ASSUME IInv, NEW s \in Streams, NEW i \in Slots[s], Resolve(s, i)
    PROVE  IInv' /\ Outage(live, live') /\ Moved
<1>1. PICK r : r = live.stream[s] OBVIOUS
<1>2. r \in Line /\ live.call[s][i] = "granted" /\ Link(r, live.call[s], Slots[s]) /\ i # None
    BY <1>1, NowFacts, LiveAssumption DEF Linked, Resolve
<1>3. CASE r.cur # i
  <2>1. PICK T : T = [live EXCEPT !.call[s][i] = "leaving"] OBVIOUS
  <2>2. Becomes(T) BY <1>1, <1>3, <2>1 DEF Resolve
  <2>3. "leaving" \in Request BY DEF Request
  <2> QED BY <1>1, <1>3, <2>1, <2>2, <2>3, CallStep
<1>4. CASE r.cur = i
  <2>1. PICK q : q = [r EXCEPT !.unsub = i, !.n = 0, !.again = FALSE] OBVIOUS
  <2>2. PICK T : T = [live EXCEPT !.call[s][i] = "open", !.stream[s] = q] OBVIOUS
  <2>3. Becomes(T) BY <1>1, <1>4, <2>1, <2>2 DEF Resolve
  <2>4. i \in Nat /\ 0 \in 0..RetryLimit BY LiveAssumption
  <2>5. r.timer = "none" BY <1>2, <1>4 DEF Link
  <2>6. /\ q \in Line /\ q.cur = i /\ q.timer = "none" /\ q.mac = r.mac /\ q.unsub = i
        /\ q.back = r.back /\ q.due = r.due
      BY <1>2, <1>4, <2>1, <2>4, <2>5 DEF Line
  <2>7. Deaf(live, s) <=> ~r.back /\ r.due # "closed" BY <1>1, <1>2, <1>4 DEF Deaf
  <2> QED BY <1>1, <1>2, <1>4, <2>2, <2>3, <2>6, <2>7, ClaimStep
<1> QED BY <1>3, <1>4

\* Two changes of one stream are one.
LEMMA PutPut ==
    ASSUME NEW L \in Lives, NEW s \in Streams, NEW r, NEW C, NEW M,
           M.stream = [L.stream EXCEPT ![s] = r], M.call = [L.call EXCEPT ![s] = C],
           NEW q, NEW D, NEW v, NEW p, NEW o, NEW T, T = Put(M, s, q, D, v, p, o)
    PROVE  T = Put(L, s, q, D, v, p, o)
<1>1. /\ [M.stream EXCEPT ![s] = q] = [L.stream EXCEPT ![s] = q]
      /\ [M.call EXCEPT ![s] = D] = [L.call EXCEPT ![s] = D]
    BY DEF Lives
<1> QED BY <1>1 DEF Put

\* A subscribe call is rejected.
LEMMA RejectStep ==
    ASSUME IInv, NEW s \in Streams, NEW i \in Slots[s], Reject(s, i)
    PROVE  IInv' /\ Outage(live, live') /\ Moved
<1> DEFINE r == live.stream[s]
           C == live.call[s]
           M == [live EXCEPT !.call[s][i] = "free"]
<1>1. C[i] = "asked" /\ ~up /\ Link(r, C, Slots[s]) /\ i # None
    BY NowFacts, LiveAssumption DEF Linked, Reject
<1>2. "free" \in Request BY DEF Request
<1>3. CASE r.cur # i
  <2>1. Becomes(M) BY <1>3 DEF Reject
  <2>2. PICK T : T = M OBVIOUS
  <2> HIDE DEF M
  <2>3. T = [live EXCEPT !.call[s][i] = "free"] BY <2>2 DEF M
  <2> QED BY <1>2, <1>3, <2>1, <2>2, <2>3, CallStep
<1>4. CASE r.cur = i
  <2> DEFINE D == [C EXCEPT ![i] = "free"]
  <2>1. PICK T : T = Failed(M, s) OBVIOUS
  <2>2. Becomes(T) BY <1>4, <2>1 DEF Reject
  <2>3. r \in Line /\ r.unsub = None /\ r.timer = "none" /\ r.mac \in Macs /\ Active(r)
      BY <1>1, <1>4 DEF Link, Active
  <2>4. D \in [Slots[s] -> Request] /\ D[i] = "free" /\ \A j \in Slots[s] \ {i} : D[j] = C[j]
      BY <1>1, <1>2 DEF Link
  <2>5. M = Put(live, s, r, D, live.vote, live.reported, live.offline)
      BY NowFacts, CallForm
  <2> HIDE DEF D
  <2>6. \A j \in Slots[s] : D[j] # "open"
      BY <1>1, <2>3, <2>4, LiveAssumption DEF Link
  <2>7. /\ M.stream = [live.stream EXCEPT ![s] = r] /\ M.call = [live.call EXCEPT ![s] = D]
        /\ M.vote = live.vote /\ M.reported = live.reported /\ M.offline = live.offline
      BY <2>5 DEF Put
  <2>8. M.stream[s] = r /\ M.call[s] = D BY <2>7, NowFacts DEF Lives
  <2> HIDE DEF M
  <2>9. M \in Lives
    <3>1. live.vote \in [Streams -> Says] /\ live.reported \in Votes /\ live.offline \in Flags
        BY NowFacts DEF Lives, Flags
    <3>2. live \in Lives BY NowFacts
    <3> QED BY <2>3, <2>4, <2>5, <3>1, <3>2, PutLives
  <2>10. ASSUME NEW q \in Line, q.unsub = None, q.cur = None, q.mac = r.mac,
                q.timer = "retry" => q.n < RetryLimit,
                T = Put(M, s, q, D, live.vote, live.reported, live.offline)
         PROVE  IInv' /\ Outage(live, live') /\ Moved
    <3>1. Link(q, D, Slots[s]) BY <2>3, <2>4, <2>6, <2>10 DEF Link
    <3>2. T = Put(live, s, q, D, live.vote, live.reported, live.offline)
      <4>1. live \in Lives BY NowFacts
      <4> QED BY <2>7, <2>10, <4>1, PutPut
    <3>3. ~Deaf(live, s) /\ ~DeafAt(q, D) BY <1>1, <1>4, <2>10 DEF Deaf, DeafAt
    <3> QED BY <1>1, <2>2, <2>3, <2>10, <3>1, <3>2, <3>3, PutStep
  <2>11. ASSUME NEW q, T = [M EXCEPT !.stream[s] = q]
         PROVE  T = Put(M, s, q, D, live.vote, live.reported, live.offline)
    <3>1. [M.call EXCEPT ![s] = D] = M.call BY <2>8, <2>9 DEF Lives
    <3> QED BY <2>7, <2>9, <2>11, <3>1 DEF Lives, Put
  <2>12. CASE r.again
    <3>1. T = Reopen(M, s) BY <2>1, <2>8, <2>12 DEF Failed
    <3>2. T = Put(M, s, Reopening(M, s), Released(M, s), M.vote, M.reported, M.offline)
        BY <2>9, <3>1, ReopenForm
    <3>3. Released(M, s) = D BY <2>3, <2>8 DEF Released
    <3>4. PICK q : q = Reopening(M, s) OBVIOUS
    <3>5. /\ q \in Line /\ q.unsub = None /\ q.cur = None /\ q.timer = "reopen" /\ q.mac = r.mac
        BY <2>3, <2>8, <2>9, <3>4, ReopeningLine
    <3>6. T = Put(M, s, q, D, live.vote, live.reported, live.offline)
        BY <2>7, <3>2, <3>3, <3>4
    <3> QED BY <2>10, <3>5, <3>6
  <2>13. CASE ~r.again /\ r.n >= RetryLimit
    <3>1. PICK q : q = [r EXCEPT !.cur = None, !.n = 0] OBVIOUS
    <3>2. 0 \in 0..RetryLimit BY LiveAssumption
    <3>3. q \in Line /\ q.unsub = None /\ q.cur = None /\ q.timer = "none" /\ q.mac = r.mac
        BY <2>3, <3>1, <3>2 DEF Line
    <3>4. T = [M EXCEPT !.stream[s] = q]
      <4>1. T = [M EXCEPT !.stream[s] = [@ EXCEPT !.cur = None, !.n = 0]]
          BY <2>1, <2>8, <2>13 DEF Failed
      <4> QED BY <2>8, <3>1, <4>1
    <3> QED BY <2>10, <2>11, <3>3, <3>4
  <2>14. CASE ~r.again /\ ~(r.n >= RetryLimit)
    <3>1. PICK q : q = [r EXCEPT !.cur = None, !.timer = "retry"] OBVIOUS
    <3>2. r.n \in Nat /\ RetryLimit \in Nat BY <2>3, LiveAssumption DEF Line
    <3>3. q \in Line /\ q.unsub = None /\ q.cur = None /\ q.n = r.n /\ q.mac = r.mac
        BY <2>3, <3>1 DEF Line
    <3>4. q.n < RetryLimit BY <2>14, <3>2, <3>3
    <3>5. T = [M EXCEPT !.stream[s] = q]
      <4>1. T = [M EXCEPT !.stream[s] = [@ EXCEPT !.cur = None, !.timer = "retry"]]
          BY <2>1, <2>8, <2>14 DEF Failed
      <4> QED BY <2>8, <3>1, <4>1
    <3> QED BY <2>10, <2>11, <3>3, <3>4, <3>5
  <2> QED BY <2>12, <2>13, <2>14
<1> QED BY <1>3, <1>4

\* A report leaves the streams and their calls alone.
LEMMA ReportGood ==
    ASSUME NEW L, Good(L), NEW s \in Streams, NEW v \in {"up", "down"}, NEW T, T = Report(L, s, v)
    PROVE  Good(T) /\ T.stream = L.stream /\ T.call = L.call /\ Outage(L, T)
<1>1. L \in Lives BY DEF Good
<1>2. /\ T = [stream |-> L.stream, call |-> L.call, vote |-> T.vote,
              reported |-> T.reported, offline |-> T.offline]
      /\ T \in Lives /\ Outage(L, T)
    BY <1>1, ReportForm
<1>3. T.stream = L.stream /\ T.call = L.call BY <1>2
<1> QED BY <1>2, <1>3 DEF Good, Linked

\* A message says whether the device is available.
LEMMA HearStep ==
    ASSUME IInv, NEW s \in Streams, NEW i \in Slots[s], NEW m \in {"up", "down"}, Hear(s, i, m)
    PROVE  IInv' /\ Outage(live, live') /\ Moved
<1>1. Good(live) BY NowFacts
<1>2. ASSUME NEW T, Becomes(T), Good(T), T.stream = live.stream, T.call = live.call,
             Outage(live, T)
      PROVE  IInv' /\ Outage(live, live') /\ Moved
  <2>1. Deaf(T, s) <=> Deaf(live, s) BY <1>2 DEF Deaf
  <2> QED BY <1>2, <2>1, LoneStep
<1>3. CASE live.stream[s].cur = i
  <2>1. PICK T : T = Report(live, s, m) OBVIOUS
  <2>2. Becomes(T)
    <3>1. m # "closed" OBVIOUS
    <3> QED BY <1>3, <2>1, <3>1 DEF Hear, HandleMsg, Handle
  <2>3. Good(T) /\ T.stream = live.stream /\ T.call = live.call /\ Outage(live, T)
      BY <1>1, <2>1, ReportGood
  <2> QED BY <1>2, <2>2, <2>3
<1>4. CASE live.stream[s].cur # i
  <2>1. PICK T : T = live OBVIOUS
  <2>2. Becomes(T) BY <1>4, <2>1 DEF Hear, HandleMsg
  <2> QED BY <1>1, <1>2, <2>1, <2>2 DEF Outage
<1> QED BY <1>3, <1>4

\* The last message of what was behind a call: its stream re-opens, or reports.
LEMMA HearLastStep ==
    ASSUME IInv, NEW s \in Streams, NEW i \in Slots[s], HearLast(s, i)
    PROVE  IInv' /\ Outage(live, live') /\ Moved
<1>1. PICK r : r = live.stream[s] OBVIOUS
<1>2. PICK C : C = live.call[s] OBVIOUS
<1>3. PICK q : q = [r EXCEPT !.due = "none"] OBVIOUS
<1>4. PICK M : M = [live EXCEPT !.stream[s].due = "none"] OBVIOUS
<1>5. PICK R : R = Report(M, s, "down") OBVIOUS
<1>6. /\ r.cur = i /\ r.due \in {"closed", "down"} /\ Link(r, C, Slots[s]) /\ i # None
      /\ HandleMsg(M, s, i, r.due)
    BY <1>1, <1>2, <1>4, NowFacts, LiveAssumption DEF HearLast, Linked, Line
<1>7. /\ q \in Line /\ q.unsub = r.unsub /\ q.cur = r.cur /\ q.timer = r.timer /\ q.mac = r.mac
      /\ q.n = r.n /\ q.back = r.back /\ q.due = "none"
    BY <1>3, <1>6 DEF Link, Line
<1>8. Link(q, C, Slots[s]) BY <1>6, <1>7 DEF Link, Active
<1>9. M = Put(live, s, q, C, live.vote, live.reported, live.offline)
  <2>1. M = [live EXCEPT !.stream[s] = q] BY <1>1, <1>3, <1>4
  <2>2. [live.call EXCEPT ![s] = C] = live.call BY <1>2, NowFacts DEF Lives
  <2> QED BY <2>1, <2>2, NowFacts DEF Lives, Put
<1>10. /\ Good(M) /\ M.stream[s] = q /\ M.call[s] = C /\ M.offline = live.offline
       /\ \A x \in Streams \ {s} : M.stream[x] = live.stream[x] /\ M.call[x] = live.call[x]
  <2>1. /\ live.vote \in [Streams -> Says] /\ live.reported \in Votes
        /\ live.offline \in Flags /\ Good(live)
      BY NowFacts DEF Lives, Flags
  <2>2. M.offline = live.offline BY <1>9 DEF Put
  <2> QED BY <1>8, <1>9, <2>1, <2>2, OneMoves
<1>11. Good(R) /\ R.stream = M.stream /\ R.call = M.call /\ Outage(M, R)
  <2>1. PICK v \in {"up", "down"} : v = "down" OBVIOUS
  <2>2. R = Report(M, s, v) BY <1>5, <2>1
  <2> QED BY <1>10, <2>2, ReportGood
<1>12. Outage(live, R) BY <1>10, <1>11 DEF Outage
<1>14. r.mac \in Macs /\ Active(r) /\ Active(q) BY <1>6, <1>7 DEF Link, Active
<1>15. CASE r.due = "down"
  <2>1. Becomes(R) BY <1>1, <1>5, <1>6, <1>15 DEF HandleMsg, Handle
  <2>2. Deaf(R, s) <=> Deaf(live, s)
      BY <1>1, <1>2, <1>7, <1>10, <1>11, <1>15 DEF Deaf
  <2> QED BY <1>1, <1>7, <1>10, <1>11, <1>12, <1>14, <2>1, <2>2, LoneStep
<1>16. CASE r.due = "closed"
  <2>1. PICK T : T = Reopen(R, s) OBVIOUS
  <2>2. Becomes(T) BY <1>1, <1>5, <1>6, <1>16, <2>1 DEF HandleMsg, Handle
  <2>3. R.stream[s] = q /\ R.call[s] = C BY <1>10, <1>11
  <2>4. PICK z : z = Reopening(R, s) OBVIOUS
  <2>5. PICK E : E = Released(R, s) OBVIOUS
  <2>6. R \in Lives BY <1>11 DEF Good
  <2>7. /\ z \in Line /\ z.unsub = None /\ z.cur = None /\ z.timer = "reopen"
        /\ z.mac = r.mac /\ Active(z)
      BY <1>7, <1>14, <2>3, <2>4, <2>6, ReopeningLine
  <2>8. Link(z, E, Slots[s])
    <3>1. Slots[s] \in SUBSET Nat BY NowFacts
    <3>2. Holds(R.stream[s], R.call[s], Slots[s]) BY <1>8, <2>3, <3>1, LinkHolds
    <3>3. z.timer # "retry" /\ z.mac \in Macs BY <1>14, <2>7
    <3> QED BY <2>5, <2>7, <3>2, <3>3, ReleasedLink
  <2>9. T = Put(R, s, z, E, R.vote, R.reported, R.offline)
      BY <2>1, <2>4, <2>5, <2>6, ReopenForm
  <2>10. /\ Good(T) /\ T.stream[s] = z /\ T.call[s] = E
         /\ \A x \in Streams \ {s} : T.stream[x] = R.stream[x] /\ T.call[x] = R.call[x]
    <3>1. R.vote \in [Streams -> Says] /\ R.reported \in Votes /\ R.offline \in Flags
        BY <2>6 DEF Lives, Flags
    <3> QED BY <1>11, <2>8, <2>9, <3>1, OneMoves
  <2>11. Outage(live, T)
    <3>1. T.vote = R.vote /\ T.offline = R.offline BY <2>9 DEF Put
    <3>2. Up(T) <=> Up(R) BY <3>1 DEF Up
    <3> QED BY <1>12, <3>1, <3>2 DEF Outage
  <2>12. ~Deaf(live, s) /\ ~Deaf(T, s) BY <1>1, <1>16, <2>7, <2>10 DEF Deaf
  <2> QED BY <1>1, <1>10, <1>11, <1>14, <2>2, <2>7, <2>10, <2>11, <2>12, LoneStep
<1> QED BY <1>6, <1>15, <1>16

-----------------------------------------------------------------------------
(* The steps of the panel and the session                                  *)

\* From L to T what stream s is fed stays as it is.
SameFeed(L, T, s) ==
    /\ T.stream[s].unsub = L.stream[s].unsub
    /\ Active(T.stream[s]) <=> Active(L.stream[s])
    /\ Deaf(T, s) <=> Deaf(L, s)

\* A step that opens or closes the session, or leaves its streams alone.
LEMMA SessionStep ==
    ASSUME IInv, NEW T, live' = T, Good(T), Outage(live, T), Tied(T, session'),
           Warned(T, session', known', gone', sel', ctl'),
           up' \in BOOLEAN, known' \subseteq Macs, gone' \subseteq Macs,
           sel' \in Macs, ctl' \in Macs, session' \in Macs \cup {None}, overlayOn' \in BOOLEAN,
           \/ session' = session /\ \A s \in Core : SameFeed(live, T, s)
           \/ session' = None
           \/ /\ session = None
              /\ \A s \in Core : Active(T.stream[s]) /\ T.stream[s].unsub = None /\ ~Deaf(T, s)
    PROVE  IInv' /\ Outage(live, live') /\ Moved
<1>1. ASSUME NEW s \in Core
      PROVE  LET f == FeedOf(live, session, s)
                 g == FeedOf(T, session', s)
             IN  \/ session' = session /\ g = f
                 \/ session' # session /\ (session' = None \/ (session = None /\ g = "seeking"))
  <2>1. CASE session' = session /\ \A x \in Core : SameFeed(live, T, x)
    <3>1. SameFeed(live, T, s) BY <2>1
    <3> QED BY <2>1, <3>1 DEF FeedOf, SameFeed
  <2>2. CASE session' = None
    <3>1. session = None => FeedOf(live, session, s) = FeedOf(T, session', s) BY <2>2 DEF FeedOf
    <3> QED BY <2>2, <3>1
  <2>3. CASE /\ session' # None /\ session = None
             /\ \A x \in Core : Active(T.stream[x]) /\ T.stream[x].unsub = None /\ ~Deaf(T, x)
    <3>1. FeedOf(T, session', s) = "seeking" BY <2>3 DEF FeedOf
    <3> QED BY <2>3, <3>1
  <2> QED BY <2>1, <2>2, <2>3
<1>2. Moved BY <1>1 DEF Moved
<1> QED BY <1>2 DEF IInv

\* The session stays, and a device that is lost is gone.
Stays ==
    /\ UNCHANGED <<sel, ctl, session>> /\ up' \in BOOLEAN /\ overlayOn' \in BOOLEAN
    /\ known' \subseteq Macs /\ gone' \subseteq Macs /\ gone \subseteq gone'
    /\ \A d \in Macs : d \notin known' => d \notin known \/ d \in gone'

\* The session stays, and what its streams are fed.
LEMMA KeepStep ==
    ASSUME IInv, NEW T, live' = T, Good(T), T.offline = live.offline, Stays,
           \A s \in Core : SameFeed(live, T, s) /\ T.stream[s].mac = live.stream[s].mac
    PROVE  IInv' /\ Outage(live, live') /\ Moved
<1> USE DEF Stays
<1>1. Tied(T, session') BY DEF IInv, Tied, SameFeed
<1>2. \A p, c, d : Passes(d, gone, p, c) => Passes(d, gone', p, c) BY DEF Passes
<1>3. Warned(T, session', known', gone', sel', ctl')
  <2>1. ASSUME session # None, session \notin known' PROVE Passes(session, gone', sel, ctl)
    <3>1. session \notin known \/ session \in gone' BY <2>1 DEF IInv
    <3>2. CASE session \in gone' BY <3>2 DEF Passes
    <3>3. CASE session \notin known
      <4>1. Passes(session, gone, sel, ctl) BY <2>1, <3>3 DEF IInv, Warned
      <4> QED BY <1>2, <4>1
    <3> QED BY <3>1, <3>2, <3>3
  <2>2. ASSUME session # None, NEW s \in Core, Deaf(T, s) PROVE Passes(session, gone', sel, ctl)
    <3>1. Deaf(live, s) BY <2>2 DEF SameFeed
    <3>2. Passes(session, gone, sel, ctl) BY <2>2, <3>1 DEF IInv, Warned
    <3> QED BY <1>2, <3>2
  <2> QED BY <2>1, <2>2 DEF Warned
<1>4. sel' \in Macs /\ ctl' \in Macs /\ session' \in Macs \cup {None} BY DEF IInv
<1>5. Outage(live, T) BY DEF Outage
<1> QED BY <1>1, <1>3, <1>4, <1>5, SessionStep

\* After a teardown of all streams there is nothing to tie.
LEMMA ClosedGood ==
    ASSUME NEW L, Good(L), NEW T, T = CloseSession(L)
    PROVE  Good(T) /\ T.offline = L.offline /\ \A d : Tied(T, d)
<1>1. PICK S \in SUBSET Streams : S = Streams OBVIOUS
<1>2. T = Silence(L, S) BY <1>1 DEF CloseSession
<1>3. Good(T) /\ T.offline = L.offline /\ \A s \in S : T.stream[s] = NoStream
    BY <1>2, SilenceGood
<1>4. \A s \in Core : ~Active(T.stream[s]) BY <1>1, <1>3, NoStreamLine DEF Core, Active
<1> QED BY <1>3, <1>4 DEF Tied

\* Only the banner and what the panel was told of the streams change.
LEMMA AsideGood ==
    ASSUME NEW L, Good(L), NEW v \in [Streams -> Says], NEW p \in Votes, NEW o \in Flags, NEW T,
           T = [stream |-> L.stream, call |-> L.call, vote |-> v, reported |-> p,
                offline |-> o]
    PROVE  Good(T) /\ T.stream = L.stream /\ T.call = L.call
<1>1. T \in Lives BY DEF Good, Lives, Flags
<1> QED BY <1>1 DEF Good, Linked

\* The picker.
LEMMA PickStep ==
    ASSUME IInv, NEW m \in Macs, Pick(m)
    PROVE  IInv' /\ Outage(live, live') /\ Moved
<1>1. PICK M : M = CloseSession(live) OBVIOUS
<1>2. Good(M) /\ \A d : Tied(M, d) BY <1>1, NowFacts, ClosedGood
<1>3. M \in Lives BY <1>2 DEF Good
<1>4. PICK T : T = [M EXCEPT !.offline = FALSE] OBVIOUS
<1>5. PICK o \in Flags : o = FALSE BY DEF Flags
<1>6. T = [stream |-> M.stream, call |-> M.call, vote |-> M.vote, reported |-> M.reported,
           offline |-> o]
    BY <1>3, <1>4, <1>5 DEF Lives
<1>7. Good(T) /\ T.stream = M.stream
  <2>1. M.vote \in [Streams -> Says] /\ M.reported \in Votes
      BY <1>3 DEF Lives, Flags
  <2>2. T.stream = M.stream BY <1>6
  <2> QED BY <1>2, <1>6, <2>1, <2>2, AsideGood
<1>8. \A d : Tied(T, d) BY <1>2, <1>7 DEF Tied
<1>9. Outage(live, T) BY <1>5, <1>6 DEF Outage
<1>10. /\ live' = T /\ sel' = m /\ session' = None
       /\ UNCHANGED <<up, known, gone, ctl, overlayOn>>
    BY <1>1, <1>4 DEF Pick, registry
<1>11. /\ up' \in BOOLEAN /\ known' \subseteq Macs /\ gone' \subseteq Macs
       /\ ctl' \in Macs /\ overlayOn' \in BOOLEAN
    BY <1>10 DEF IInv
<1>12. Warned(T, session', known', gone', sel', ctl') BY <1>10 DEF Warned
<1> QED BY <1>7, <1>8, <1>9, <1>10, <1>11, <1>12, SessionStep

\* closeDeviceSession.
LEMMA SessionClosesStep ==
    ASSUME IInv, SessionCloses
    PROVE  IInv' /\ Outage(live, live') /\ Moved
<1>1. PICK T : T = CloseSession(live) OBVIOUS
<1>2. Good(T) /\ T.offline = live.offline /\ \A d : Tied(T, d) BY <1>1, NowFacts, ClosedGood
<1>3. /\ live' = T /\ session' = None
      /\ UNCHANGED <<up, known, gone, sel, ctl, overlayOn>>
    BY <1>1 DEF SessionCloses, registry
<1>4. /\ up' \in BOOLEAN /\ known' \subseteq Macs /\ gone' \subseteq Macs
      /\ sel' \in Macs /\ ctl' \in Macs /\ overlayOn' \in BOOLEAN
    BY <1>3 DEF IInv
<1>5. Outage(live, T) BY <1>2 DEF Outage
<1>6. Warned(T, session', known', gone', sel', ctl') BY <1>3 DEF Warned
<1> QED BY <1>2, <1>3, <1>4, <1>5, <1>6, SessionStep

\* From L to T the core streams and the banner are as they were.
Spared(L, T) ==
    T.offline = L.offline /\ \A s \in Core : T.stream[s] = L.stream[s] /\ T.call[s] = L.call[s]

\* The overlay's stream is torn down, and perhaps asked for again.
LEMMA OverlayGood ==
    ASSUME NEW L, Good(L), NEW m \in Macs, NEW M, M = Silence(L, {Overlay}), NEW T,
           T = M \/ (T = Subscribe(M, {Overlay}, m, 1) /\ FreeSlots(L, Overlay) # {})
    PROVE  Good(T) /\ Spared(L, T)
<1>1. PICK S \in SUBSET Streams : S = {Overlay} BY LiveAssumption
<1>2. M = Silence(L, S) BY <1>1
<1>3. /\ Good(M) /\ M.offline = L.offline
      /\ \A s \in S : M.stream[s] = NoStream
      /\ \A s \in Streams \ S : M.stream[s] = L.stream[s] /\ M.call[s] = L.call[s]
      /\ FreeSlots(M, Overlay) = FreeSlots(L, Overlay)
  <2>1. Good(M) /\ M.offline = L.offline BY <1>2, SilenceGood
  <2>2. \A s \in S : M.stream[s] = NoStream BY <1>2, SilenceGood
  <2>3. \A s \in Streams \ S : M.stream[s] = L.stream[s] /\ M.call[s] = L.call[s]
      BY <1>2, SilenceGood
  <2>4. \A s \in Streams : \A i \in Slots[s] : L.call[s][i] = "free" <=> M.call[s][i] = "free"
      BY <1>2, SilenceGood
  <2>5. FreeSlots(M, Overlay) = FreeSlots(L, Overlay) BY <2>4, LiveAssumption DEF FreeSlots
  <2> QED BY <2>1, <2>2, <2>3, <2>5
<1>4. Core = Streams \ S BY <1>1 DEF Core
<1>5. CASE T = M BY <1>3, <1>4, <1>5 DEF Spared
<1>6. CASE T = Subscribe(M, {Overlay}, m, 1) /\ FreeSlots(L, Overlay) # {}
  <2>1. FreeSlots(M, Overlay) # {} BY <1>3, <1>6
  <2>2. Ready(M, {Overlay}) BY <1>1, <1>3, <2>1, NoStreamLine DEF Ready
  <2>3. PICK n : n = 1 OBVIOUS
  <2>4. n \in Tries BY <2>3, LiveAssumption DEF Tries
  <2>5. Good(T) /\ Asked(M, {Overlay}, m, T)
    <3>1. T = Subscribe(M, {Overlay}, m, n) BY <1>6, <2>3
    <3>2. Overlay \in Streams /\ Good(M) BY <1>3, LiveAssumption
    <3> QED BY <2>2, <2>4, <3>1, <3>2, AskGood
  <2> QED BY <1>1, <1>3, <1>4, <2>5 DEF Asked, Spared
<1> QED BY <1>5, <1>6

\* The overlay's toggle.
LEMMA SetOverlayStep ==
    ASSUME IInv, NEW b \in BOOLEAN, SetOverlay(b)
    PROVE  IInv' /\ Outage(live, live') /\ Moved
<1>1. PICK T : T = SubscribeOverlay(live, b) OBVIOUS
<1>2. PICK M : M = Silence(live, {Overlay}) OBVIOUS
<1>3. T = M \/ (T = Subscribe(M, {Overlay}, ctl, 1) /\ FreeSlots(live, Overlay) # {})
    BY <1>1, <1>2 DEF SubscribeOverlay, SetOverlay
<1>4. PICK m \in Macs : m = ctl BY DEF IInv
<1>5. T = M \/ (T = Subscribe(M, {Overlay}, m, 1) /\ FreeSlots(live, Overlay) # {})
    BY <1>3, <1>4
<1>6. Good(live) BY NowFacts
<1>7. Good(T) /\ Spared(live, T) BY <1>2, <1>5, <1>6, OverlayGood
<1>8. live' = T /\ overlayOn' \in BOOLEAN /\ UNCHANGED <<up, known, gone, sel, ctl, session>>
    BY <1>1 DEF SetOverlay, registry
<1>9. \A s \in Core : SameFeed(live, T, s) /\ T.stream[s].mac = live.stream[s].mac
    BY <1>7 DEF Spared, SameFeed, Deaf
<1>10. Stays BY <1>8 DEF IInv, Stays
<1> QED BY <1>7, <1>8, <1>9, <1>10, KeepStep DEF Spared

\* subscribeTargets: the streams of a session that opens have asked.
LEMMA TargetsGood ==
    ASSUME NEW L, Good(L), NEW d \in Macs, ctl \in Macs,
           \A s \in Core : FreeSlots(L, s) # {}, overlayOn => FreeSlots(L, Overlay) # {},
           NEW T, T = SubscribeTargets(L, d)
    PROVE  /\ Good(T) /\ T.offline = L.offline
           /\ \A s \in Core : /\ T.stream[s].mac = d /\ T.stream[s].cur # None
                              /\ T.stream[s].unsub = None
                              /\ T.call[s][T.stream[s].cur] = "asked"
<1>1. PICK A : A = Silence(L, Core) OBVIOUS
<1>2. Core \in SUBSET Streams BY DEF Core
<1>3. /\ Good(A) /\ A.offline = L.offline
      /\ \A s \in Core : A.stream[s] = NoStream
      /\ \A s \in Streams : FreeSlots(A, s) = FreeSlots(L, s)
  <2>1. PICK S \in SUBSET Streams : S = Core BY <1>2
  <2>2. A = Silence(L, S) BY <1>1, <2>1
  <2>3. Good(A) /\ A.offline = L.offline BY <2>2, SilenceGood
  <2>4. \A s \in S : A.stream[s] = NoStream BY <2>2, SilenceGood
  <2>5. \A s \in Streams : \A i \in Slots[s] : L.call[s][i] = "free" <=> A.call[s][i] = "free"
      BY <2>2, SilenceGood
  <2>6. \A s \in Streams : FreeSlots(A, s) = FreeSlots(L, s) BY <2>5 DEF FreeSlots
  <2> QED BY <2>1, <2>3, <2>4, <2>6
<1>4. A \in Lives BY <1>3 DEF Good
<1>5. PICK M : M = [A EXCEPT !.vote = [s \in Streams |-> "down"], !.reported = "none"] OBVIOUS
<1>6. PICK v \in [Streams -> Says] : v = [s \in Streams |-> "down"] BY DEF Says
<1>7. M = [stream |-> A.stream, call |-> A.call, vote |-> v, reported |-> "none",
           offline |-> A.offline]
    BY <1>4, <1>5, <1>6 DEF Lives
<1>8. M.stream = A.stream /\ M.call = A.call /\ M.offline = A.offline BY <1>7
<1>9. Good(M)
  <2>1. PICK p \in Votes : p = "none" BY DEF Votes
  <2>2. A.offline \in Flags BY <1>4 DEF Lives, Flags
  <2>3. M = [stream |-> A.stream, call |-> A.call, vote |-> v, reported |-> p,
             offline |-> A.offline]
      BY <1>7, <2>1
  <2> QED BY <1>3, <1>8, <2>2, <2>3, AsideGood
<1>10. PICK n : n = 1 OBVIOUS
<1>11. n \in Tries BY <1>10, LiveAssumption DEF Tries
<1>12. PICK C : C = Subscribe(M, Core, d, n) OBVIOUS
<1>13. Good(C) /\ Asked(M, Core, d, C)
  <2>1. PICK S \in SUBSET Streams : S = Core BY <1>2
  <2>2. \A s \in S : FreeSlots(M, s) # {} BY <1>3, <1>8, <2>1 DEF FreeSlots
  <2>3. \A s \in S : M.stream[s] = NoStream BY <1>3, <1>8, <2>1
  <2>4. Ready(M, S) BY <2>2, <2>3, NoStreamLine DEF Ready
  <2>5. C = Subscribe(M, S, d, n) BY <1>12, <2>1
  <2>6. Good(C) /\ Asked(M, S, d, C) BY <1>9, <1>11, <2>4, <2>5, SubscribeGood
  <2> QED BY <2>1, <2>6
<1>14. /\ C.offline = L.offline
       /\ \A s \in Core : /\ C.stream[s].mac = d /\ C.stream[s].cur # None
                          /\ C.stream[s].unsub = None
                          /\ C.call[s][C.stream[s].cur] = "asked"
       /\ C.call[Overlay] = A.call[Overlay]
    BY <1>3, <1>8, <1>13, LiveAssumption DEF Asked, Core
<1>15. T = IF overlayOn THEN SubscribeOverlay(C, TRUE) ELSE C
    BY <1>1, <1>5, <1>10, <1>12 DEF SubscribeTargets
<1>16. CASE ~overlayOn BY <1>13, <1>14, <1>15, <1>16
<1>17. CASE overlayOn
  <2>1. PICK m \in Macs : m = ctl OBVIOUS
  <2>2. PICK O : O = Silence(C, {Overlay}) OBVIOUS
  <2>3. FreeSlots(C, Overlay) # {} BY <1>3, <1>14, <1>17, LiveAssumption DEF FreeSlots
  <2>4. T = O \/ (T = Subscribe(O, {Overlay}, m, 1) /\ FreeSlots(C, Overlay) # {})
      BY <1>15, <1>17, <2>1, <2>2, <2>3 DEF SubscribeOverlay
  <2>5. Good(T) /\ Spared(C, T) BY <1>13, <2>2, <2>4, OverlayGood
  <2> QED BY <1>14, <2>5 DEF Spared
<1> QED BY <1>16, <1>17

\* The session opens.
LEMMA SessionOpensStep ==
    ASSUME IInv, SessionOpens
    PROVE  IInv' /\ Outage(live, live') /\ Moved
<1>1. PICK T : T = SubscribeTargets(live, sel) OBVIOUS
<1>2. /\ live' = T /\ session' = sel /\ session = None /\ sel \in known
      /\ UNCHANGED <<up, known, gone, sel, ctl, overlayOn>>
      /\ \A s \in Streams : FreeSlots(live, s) # {} \/ (s = Overlay /\ ~overlayOn)
    BY <1>1 DEF SessionOpens, registry
<1>3. PICK d \in Macs : d = sel BY DEF IInv
<1>4. /\ Good(T) /\ T.offline = live.offline
      /\ \A s \in Core : /\ T.stream[s].mac = d /\ T.stream[s].cur # None
                         /\ T.stream[s].unsub = None
                         /\ T.call[s][T.stream[s].cur] = "asked"
  <2>1. \A s \in Core : FreeSlots(live, s) # {} BY <1>2 DEF Core
  <2>2. overlayOn => FreeSlots(live, Overlay) # {} BY <1>2, LiveAssumption
  <2>3. ctl \in Macs /\ Good(live) BY DEF IInv
  <2>4. T = SubscribeTargets(live, d) BY <1>1, <1>3
  <2> QED BY <2>1, <2>2, <2>3, <2>4, TargetsGood
<1>5. \A s \in Core : Active(T.stream[s]) /\ T.stream[s].unsub = None /\ ~Deaf(T, s)
    BY <1>4 DEF Active, Deaf
<1>6. Tied(T, session')
  <2>1. session' = d /\ d # None BY <1>2, <1>3, LiveAssumption
  <2> QED BY <1>4, <2>1 DEF Tied
<1>7. Warned(T, session', known', gone', sel', ctl') BY <1>2, <1>5 DEF Warned
<1>8. Outage(live, T) BY <1>4 DEF Outage
<1>9. /\ up' \in BOOLEAN /\ known' \subseteq Macs /\ gone' \subseteq Macs /\ sel' \in Macs
      /\ ctl' \in Macs /\ session' \in Macs \cup {None} /\ overlayOn' \in BOOLEAN
    BY <1>2 DEF IInv
<1> QED BY <1>2, <1>4, <1>5, <1>6, <1>7, <1>8, <1>9, SessionStep

\* A fresh connection object.
LEMMA SwapConnectionStep ==
    ASSUME IInv, SwapConnection
    PROVE  IInv' /\ Outage(live, live') /\ Moved
<1>1. PICK T : T = live' OBVIOUS
<1>2. PICK R : R = [s \in Streams |-> [NoStream EXCEPT !.again = live.stream[s].again]] OBVIOUS
<1>3. PICK C : C = [s \in Streams |-> [i \in Slots[s] |->
                       IF live.call[s][i] \in {"asked", "granted"} THEN "leaving" ELSE "free"]]
    OBVIOUS
<1>4. live \in Lives BY NowFacts
<1>5. T = [live EXCEPT !.stream = R, !.call = C] BY <1>1, <1>2, <1>3, <1>4 DEF SwapConnection, Lives
<1>6. T = [stream |-> R, call |-> C, vote |-> live.vote, reported |-> live.reported,
           offline |-> live.offline]
    BY <1>4, <1>5 DEF Lives
<1>7. ASSUME NEW s \in Streams
      PROVE  /\ R[s] \in Line /\ C[s] \in [Slots[s] -> Request] /\ Link(R[s], C[s], Slots[s])
             /\ ~Active(R[s])
  <2>1. PICK a \in BOOLEAN : a = live.stream[s].again BY NowFacts DEF Line
  <2>2. R[s] = [NoStream EXCEPT !.again = a] BY <1>2, <2>1
  <2>3. /\ R[s] \in Line /\ R[s].unsub = None /\ R[s].cur = None /\ R[s].timer = "none"
      BY <2>2, NoStreamLine DEF Line
  <2>4. C[s] = [i \in Slots[s] |->
                   IF live.call[s][i] \in {"asked", "granted"} THEN "leaving" ELSE "free"]
      BY <1>3
  <2>5. C[s] \in [Slots[s] -> Request] /\ \A i \in Slots[s] : C[s][i] # "open"
      BY <2>4 DEF Request
  <2> QED BY <2>3, <2>5 DEF Link, Active
<1>8. R \in [Streams -> Line] BY <1>2, <1>7
<1>9. C \in [Streams -> UNION {[Slots[s] -> Request] : s \in Streams}] BY <1>3, <1>7
<1>10. T.stream = R /\ T.call = C /\ T.offline = live.offline BY <1>6
<1>11. T \in Lives BY <1>4, <1>6, <1>8, <1>9 DEF Lives
<1>12. Good(T) BY <1>7, <1>10, <1>11 DEF Good, Linked
<1>13. session' = None /\ gone' = Macs \ known /\ UNCHANGED <<up, known, sel, ctl, overlayOn>>
    BY DEF SwapConnection
<1>14. Tied(T, session') BY <1>7, <1>10 DEF Tied, Core
<1>15. /\ up' \in BOOLEAN /\ known' \subseteq Macs /\ gone' \subseteq Macs
       /\ sel' \in Macs /\ ctl' \in Macs /\ overlayOn' \in BOOLEAN
    BY <1>13 DEF IInv
<1>16. Outage(live, T) BY <1>10 DEF Outage
<1>17. Warned(T, session', known', gone', sel', ctl') BY <1>13 DEF Warned
<1> QED BY <1>1, <1>12, <1>13, <1>14, <1>15, <1>16, <1>17, SessionStep

\* Where streams of the backend end, `closed` is on its way.
LEMMA EndedGood ==
    ASSUME NEW L, Good(L), NEW M, NEW T, T = Ended(L, M)
    PROVE  /\ Good(T) /\ T.offline = L.offline
           /\ \A s \in Streams : SameFeed(L, T, s) /\ T.stream[s].mac = L.stream[s].mac
<1>1. L \in Lives BY DEF Good
<1>2. PICK R : R = [s \in Streams |->
                       IF L.stream[s].back /\ L.stream[s].mac \in M
                       THEN [L.stream[s] EXCEPT !.back = FALSE, !.due = "closed"]
                       ELSE L.stream[s]]
    OBVIOUS
<1>3. T = [stream |-> R, call |-> L.call, vote |-> L.vote, reported |-> L.reported,
           offline |-> L.offline]
  <2>1. T = [L EXCEPT !.stream = R] BY <1>1, <1>2 DEF Ended, Lives
  <2> QED BY <1>1, <2>1 DEF Lives
<1>4. ASSUME NEW s \in Streams
      PROVE  /\ R[s] \in Line /\ Link(R[s], L.call[s], Slots[s])
             /\ R[s].mac = L.stream[s].mac /\ R[s].unsub = L.stream[s].unsub
             /\ R[s].cur = L.stream[s].cur /\ R[s].timer = L.stream[s].timer
             /\ R[s] = L.stream[s]
                \/ (L.stream[s].back /\ R[s].due = "closed")
  <2>1. PICK r : r = L.stream[s] OBVIOUS
  <2>2. r \in Line /\ Link(r, L.call[s], Slots[s]) BY <2>1 DEF Good, Linked, Link
  <2>3. PICK q : q = [r EXCEPT !.back = FALSE, !.due = "closed"] OBVIOUS
  <2>4. /\ q \in Line /\ q.mac = r.mac /\ q.unsub = r.unsub /\ q.cur = r.cur
        /\ q.timer = r.timer /\ q.n = r.n /\ q.due = "closed"
      BY <2>2, <2>3 DEF Line
  <2>5. Link(q, L.call[s], Slots[s]) BY <2>2, <2>4 DEF Link, Active
  <2>6. R[s] = IF r.back /\ r.mac \in M THEN q ELSE r BY <1>2, <2>1, <2>3
  <2> QED BY <2>1, <2>2, <2>4, <2>5, <2>6
<1>5. T.stream = R /\ T.call = L.call /\ T.offline = L.offline BY <1>3
<1>6. Good(T)
  <2>1. R \in [Streams -> Line] BY <1>2, <1>4
  <2>2. T \in Lives BY <1>1, <1>3, <2>1 DEF Lives
  <2> QED BY <1>4, <1>5, <2>2 DEF Good, Linked
<1>7. ASSUME NEW s \in Streams PROVE SameFeed(L, T, s) /\ T.stream[s].mac = L.stream[s].mac
  <2>1. Deaf(T, s) <=> Deaf(L, s) BY <1>4, <1>5 DEF Deaf
  <2> QED BY <1>4, <1>5, <2>1 DEF SameFeed, Active
<1> QED BY <1>5, <1>6, <1>7

\* The integration is unloaded, or loses a device: streams of the backend end.
LEMMA EndStep ==
    ASSUME IInv, Unload \/ \E m \in Macs : RemoveDevice(m)
    PROVE  IInv' /\ Outage(live, live') /\ Moved
<1>1. PICK M : live' = Ended(live, M) /\ Stays
  <2>1. CASE Unload BY <2>1 DEF Unload, IInv, panel, Stays
  <2>2. ASSUME NEW m \in Macs, RemoveDevice(m)
        PROVE  live' = Ended(live, {m}) /\ Stays
      BY <2>2 DEF RemoveDevice, IInv, panel, Stays
  <2> QED BY <2>1, <2>2 DEF Unload
<1>2. PICK T : T = Ended(live, M) OBVIOUS
<1>3. /\ Good(T) /\ T.offline = live.offline
      /\ \A s \in Streams : SameFeed(live, T, s) /\ T.stream[s].mac = live.stream[s].mac
    BY <1>2, NowFacts, EndedGood
<1> QED BY <1>1, <1>2, <1>3, KeepStep DEF Core

\* The integration, or a device, arrives.
LEMMA ArrivalStep ==
    ASSUME IInv, (\E K \in SUBSET Macs : Load(K)) \/ \E m \in Macs : AddDevice(m)
    PROVE  IInv' /\ Outage(live, live') /\ Moved
<1>1. live' = live /\ Stays BY DEF Load, AddDevice, IInv, panel, Stays
<1>2. PICK T : T = live OBVIOUS
<1>3. \A s \in Core : SameFeed(live, T, s) BY <1>2 DEF SameFeed
<1>4. Good(T) BY <1>2 DEF IInv
<1> QED BY <1>1, <1>2, <1>3, <1>4, KeepStep

\* A device list arrives.
LEMMA PushStep ==
    ASSUME IInv, NEW L \in SUBSET Macs, Push(L)
    PROVE  IInv' /\ Outage(live, live') /\ Moved
<1>1. /\ gone' = gone \cap L /\ ctl' \in Selects(L) /\ sel' = ctl'
      /\ UNCHANGED <<up, known, overlayOn>>
    BY DEF Push
<1>2. ctl' \in Macs /\ (ctl \in L => ctl' \in L /\ (sel \in L => ctl' = sel))
    BY <1>1 DEF Selects, IInv
<1>3. /\ up' \in BOOLEAN /\ known' \subseteq Macs /\ gone' \subseteq Macs
      /\ sel' \in Macs /\ overlayOn' \in BOOLEAN
    BY <1>1, <1>2 DEF IInv
<1>4. CASE ctl \notin L
  <2>1. PICK T : T = CloseSession(live) OBVIOUS
  <2>2. Good(T) /\ T.offline = live.offline /\ \A d : Tied(T, d) BY <2>1, NowFacts, ClosedGood
  <2>3. live' = T /\ session' = None BY <1>4, <2>1 DEF Push
  <2>4. Warned(T, session', known', gone', sel', ctl') BY <2>3 DEF Warned
  <2>5. Outage(live, T) BY <2>2 DEF Outage
  <2> QED BY <1>2, <1>3, <2>2, <2>3, <2>4, <2>5, SessionStep
<1>5. CASE ctl \in L
  <2>1. PICK T : T = live OBVIOUS
  <2>2. live' = T /\ session' = session BY <1>5, <2>1 DEF Push
  <2>3. ASSUME Passes(session, gone, sel, ctl) PROVE Passes(session, gone', sel', ctl')
    <3>1. CASE session \in gone
      <4>1. CASE session \in L BY <1>1, <3>1, <4>1 DEF Passes
      <4>2. CASE session \notin L BY <1>1, <1>2, <1>5, <4>2 DEF Passes
      <4> QED BY <4>1, <4>2
    <3>2. CASE sel = ctl /\ sel # session BY <1>1, <1>2, <1>5, <3>2 DEF Passes
    <3> QED BY <2>3, <3>1, <3>2 DEF Passes
  <2>4. Warned(T, session', known', gone', sel', ctl')
      BY <1>1, <2>1, <2>2, <2>3 DEF Warned, IInv
  <2>5. \A s \in Core : SameFeed(live, T, s) BY <2>1 DEF SameFeed
  <2>6. Good(T) /\ Tied(T, session') /\ session' \in Macs \cup {None}
      BY <2>1, <2>2 DEF IInv
  <2>7. Outage(live, T) BY <2>1 DEF Outage
  <2> QED BY <1>2, <1>3, <2>2, <2>4, <2>5, <2>6, <2>7, SessionStep
<1> QED BY <1>4, <1>5

-----------------------------------------------------------------------------
(* The invariant                                                           *)

LEMMA InitIInv == Init => IInv
<1> SUFFICES ASSUME Init PROVE IInv OBVIOUS
<1>1. PICK T : T = live OBVIOUS
<1>2. T = [stream |-> [s \in Streams |-> NoStream],
           call |-> [s \in Streams |-> [i \in Slots[s] |-> "free"]],
           vote |-> [s \in Streams |-> "down"],
           reported |-> "none", offline |-> FALSE]
    BY <1>1 DEF Init
<1>3. "free" \in Request /\ "free" # "open" BY DEF Request
<1>4. T.stream = [s \in Streams |-> NoStream] /\ T.call = [s \in Streams |-> [i \in Slots[s] |-> "free"]]
    BY <1>2
<1>5. \A s \in Streams : T.stream[s] = NoStream /\ T.call[s] = [i \in Slots[s] |-> "free"]
    BY <1>4
<1>6. \A s \in Streams : Linked(T, s) BY <1>3, <1>5, NoStreamLine DEF Linked, Link, Active
<1>7. T \in Lives
  <2>1. T.stream \in [Streams -> Line] BY <1>4, NoStreamLine
  <2>2. T.call \in [Streams -> UNION {[Slots[s] -> Request] : s \in Streams}] BY <1>3, <1>4
  <2>3. [s \in Streams |-> "down"] \in [Streams -> Says] /\ "none" \in Votes BY DEF Says, Votes
  <2> QED BY <1>2, <2>1, <2>2, <2>3 DEF Lives
<1>8. Tied(T, session) BY <1>5, NoStreamLine DEF Tied, Core, Active
<1>9. Warned(live, session, known, gone, sel, ctl) BY DEF Init, Warned
<1> QED BY <1>1, <1>6, <1>7, <1>8, <1>9, LiveAssumption DEF Init, IInv, Good

LEMMA NextStep == ASSUME IInv, Next PROVE IInv' /\ Outage(live, live') /\ Moved
<1>1. ASSUME NEW m \in Macs, Pick(m) PROVE IInv' /\ Outage(live, live') /\ Moved
    BY <1>1, PickStep
<1>2. ASSUME NEW L \in SUBSET Macs, Push(L) PROVE IInv' /\ Outage(live, live') /\ Moved
    BY <1>2, PushStep
<1>3. CASE SessionOpens BY <1>3, SessionOpensStep
<1>4. CASE SessionCloses BY <1>4, SessionClosesStep
<1>5. ASSUME NEW b \in BOOLEAN, SetOverlay(b) PROVE IInv' /\ Outage(live, live') /\ Moved
    BY <1>5, SetOverlayStep
<1>6. CASE SwapConnection BY <1>6, SwapConnectionStep
<1>7. ASSUME NEW s \in Streams, TimerFires(s) PROVE IInv' /\ Outage(live, live') /\ Moved
    BY <1>7, TimerFiresStep
<1>8. ASSUME NEW s \in Streams, NEW i \in Slots[s], Settle(s, i) \/ Hear(s, i, "up") \/ Hear(s, i, "down")
      PROVE  IInv' /\ Outage(live, live') /\ Moved
  <2>1. CASE Grant(s, i) \/ Unsubscribed(s, i) BY <2>1, AnswerStep
  <2>2. CASE Resolve(s, i) BY <2>2, ResolveStep
  <2>3. CASE Reject(s, i) BY <2>3, RejectStep
  <2>4. CASE HearLast(s, i) BY <2>4, HearLastStep
  <2>5. ASSUME NEW m \in {"up", "down"}, Hear(s, i, m)
        PROVE  IInv' /\ Outage(live, live') /\ Moved
      BY <2>5, HearStep
  <2> QED BY <1>8, <2>1, <2>2, <2>3, <2>4, <2>5 DEF Settle
<1>9. CASE Unload \/ \E m \in Macs : RemoveDevice(m) BY <1>9, EndStep
<1>10. CASE (\E K \in SUBSET Macs : Load(K)) \/ \E m \in Macs : AddDevice(m)
    BY <1>10, ArrivalStep
<1> QED BY <1>1, <1>2, <1>3, <1>4, <1>5, <1>6, <1>7, <1>8, <1>9, <1>10 DEF Next

LEMMA StutterStep == ASSUME IInv, UNCHANGED vars PROVE IInv'
BY DEF vars, IInv, Good, Tied, Warned, Passes, Linked, Deaf

\* IInv is an invariant: a stream and its calls point at each other, a stream works
\* for the open session, and where the session's device is lost the panel is warned.
THEOREM Invariance == Spec => []IInv
<1>1. IInv /\ [Next]_vars => IInv' BY NextStep, StutterStep
<1> QED BY <1>1, InitIInv, PTL DEF Spec

-----------------------------------------------------------------------------
(* The properties                                                          *)

\* The panel's and the controller's state keeps its types.
THEOREM TypeCorrect == Spec => []LiveTypeOK
<1>1. ASSUME IInv PROVE LiveTypeOK
  <2>1. ASSUME NEW s \in Streams
        PROVE  /\ live.stream[s] \in [mac : Macs \cup {None}, unsub : Slots[s] \cup {None},
                                      cur : Slots[s] \cup {None}, timer : {"none", "retry", "reopen"},
                                      n : 0..RetryLimit, again : BOOLEAN, back : BOOLEAN,
                                      due : {"none", "closed", "down"}]
               /\ live.call[s] \in [Slots[s] -> Request]
    <3>1. live.stream[s] \in Line /\ Link(live.stream[s], live.call[s], Slots[s])
        BY <1>1, NowFacts DEF Linked
    <3> QED BY <3>1 DEF Line, Link
  <2>2. /\ live \in Lives /\ DOMAIN live.stream = Streams /\ DOMAIN live.call = Streams
    <3>1. live \in Lives BY <1>1, NowFacts
    <3> QED BY <3>1 DEF Lives
  <2>3. /\ live.vote \in [Streams -> {"up", "down"}]
        /\ live.reported \in {"none", "up", "down"}
        /\ live.offline \in BOOLEAN
      BY <2>2 DEF Lives, Votes, Says
  <2> QED BY <1>1, <2>1, <2>2, <2>3 DEF IInv, LiveTypeOK, Request
<1> QED BY <1>1, Invariance, PTL

\* No resolved subscription is left behind by a late open or a teardown.
THEOREM LeavesNoOrphan == Spec => []NoOrphanStream
<1>1. ASSUME IInv PROVE NoOrphanStream
  <2>1. \A s \in Streams : Link(live.stream[s], live.call[s], Slots[s])
      BY <1>1, NowFacts DEF Linked
  <2> QED BY <2>1 DEF Link, NoOrphanStream
<1> QED BY <1>1, Invariance, PTL

\* Behind a core stream that was granted there is a stream of the backend, or its
\* end is on the way, but for one whose device was removed; and that passes.
THEOREM HoldsNothingDeaf == Spec => []NoDeafStream
<1>1. ASSUME IInv PROVE NoDeafStream
  <2>1. ASSUME NEW s \in Core, Deaf(live, s)
        PROVE  session \in gone \/ (sel = ctl /\ sel # session)
    <3>1. Active(live.stream[s]) BY <2>1 DEF Deaf, Active
    <3>2. session # None BY <1>1, <3>1 DEF IInv, Tied
    <3> QED BY <1>1, <2>1, <3>2 DEF IInv, Warned, Passes
  <2> QED BY <2>1 DEF NoDeafStream
<1> QED BY <1>1, Invariance, PTL

\* A stream is held, asked for or waited for, one of these at a time, and a
\* core stream only for the device of the open session.
THEOREM OneWayAtATime == Spec => []OneWayOn
<1>1. ASSUME IInv PROVE OneWayOn
  <2>1. ASSUME NEW s \in Streams
        PROVE  /\ Cardinality(Ways(s)) <= 1
               /\ Ways(s) # {} => Active(live.stream[s])
    <3>1. Link(live.stream[s], live.call[s], Slots[s]) BY <1>1, NowFacts DEF Linked
    <3>2. PICK r : r = live.stream[s] OBVIOUS
    <3>3. /\ "unsub" \in Ways(s) <=> r.unsub # None
          /\ "opening" \in Ways(s) <=> r.cur # None /\ r.unsub = None
          /\ "timer" \in Ways(s) <=> r.timer # "none"
          /\ Ways(s) \subseteq {"unsub", "opening", "timer"}
        BY <3>2 DEF Ways
    <3>4. /\ r.unsub # None => r.cur # None
          /\ r.cur # None => r.timer = "none"
        BY <3>1, <3>2, LiveAssumption DEF Link
    <3>5. Ways(s) = {} \/ Ways(s) = {"unsub"} \/ Ways(s) = {"opening"} \/ Ways(s) = {"timer"}
        BY <3>3, <3>4
    <3>6. Cardinality({}) = 0 /\ \A x : Cardinality({x}) = 1 BY FS_EmptySet, FS_Singleton
    <3>7. Cardinality(Ways(s)) <= 1
      <4>1. CASE Ways(s) = {} BY <3>6, <4>1
      <4>2. CASE Ways(s) # {}
        <5>1. Cardinality(Ways(s)) = 1 BY <3>5, <3>6, <4>2
        <5> QED BY <5>1
      <4> QED BY <4>1, <4>2
    <3>8. Ways(s) # {} => Active(live.stream[s]) BY <3>2, <3>3, <3>4, <3>5 DEF Active
    <3> QED BY <3>7, <3>8
  <2>2. \A s \in Core : s \in Streams /\ (Active(live.stream[s]) =>
                            session # None /\ live.stream[s].mac = session)
      BY <1>1 DEF IInv, Tied, Core
  <2> QED BY <2>1, <2>2 DEF OneWayOn
<1> QED BY <1>1, Invariance, PTL

\* Only an outage of every stream raises the banner.
THEOREM BannerNeedsOutage == Spec => BannerOnlyOnOutage
<1> DEFINE A == ~live.offline /\ live'.offline => ~Up(live')
<1>1. ASSUME IInv, [Next]_vars PROVE A \/ UNCHANGED vars
  <2>1. CASE Next BY <1>1, <2>1, NextStep DEF Outage
  <2> QED BY <1>1, <2>1
<1>2. IInv /\ [Next]_vars => [A]_vars BY <1>1
<1> HIDE DEF A
<1>3. Spec => [][A]_vars BY <1>2, Invariance, PTL DEF Spec
<1> QED BY <1>3 DEF BannerOnlyOnOutage, A

\* The steps of a core stream are steps of SharedStream: it is held only while
\* the session is open, and parked only by an integration that is down or does not
\* have the device.
THEOREM ImplementsSharedStream == Spec => Shared!Init /\ [][Shared!Next]_(Shared!vars)
<1>1. Init => Shared!Init BY DEF Init, Shared!Init, Feed
<1>2. ASSUME IInv, [Next]_vars PROVE [Shared!Next]_(Shared!vars)
  <2>1. CASE UNCHANGED vars BY <2>1 DEF vars, Shared!vars, Feed, Ways, Deaf
  <2>2. CASE Next
    <3>1. Spot \in Core /\ Spot \in Streams BY LiveAssumption DEF Core
    <3>2. IInv' /\ Moved BY <1>2, <2>2, NextStep
    <3>3. Feed(Spot) = FeedOf(live, session, Spot) /\ Feed(Spot)' = FeedOf(live', session', Spot)
      <4>1. ASSUME IInv PROVE Feed(Spot) = FeedOf(live, session, Spot)
        <5>1. Ways(Spot) # {} <=> Active(live.stream[Spot])
          <6>1. Link(live.stream[Spot], live.call[Spot], Slots[Spot])
              BY <3>1, <4>1, NowFacts DEF Linked
          <6>2. live.stream[Spot].unsub # None => live.stream[Spot].cur # None
              BY <6>1 DEF Link
          <6> QED BY <6>2 DEF Ways, Active
        <5> QED BY <5>1 DEF Feed, FeedOf
      <4>2. Feed(Spot)' = FeedOf(live', session', Spot)
        <5>1. Ways(Spot)' # {} <=> Active(live'.stream[Spot])
          <6>1. Link(live'.stream[Spot], live'.call[Spot], Slots[Spot])
              BY <3>1, <3>2 DEF IInv, Good, Linked
          <6>2. live'.stream[Spot].unsub # None => live'.stream[Spot].cur # None
              BY <6>1 DEF Link
          <6> QED BY <6>2 DEF Ways, Active
        <5>2. Deaf(live, Spot)' <=> Deaf(live', Spot) BY DEF Deaf
        <5> QED BY <5>1, <5>2 DEF Feed, FeedOf
      <4> QED BY <1>2, <4>1, <4>2
    <3>4. PICK f : f = Feed(Spot) OBVIOUS
    <3>5. PICK g : g = Feed(Spot)' OBVIOUS
    <3>6. f \in {"off", "held", "seeking", "parked"} /\ (session = None <=> f = "off")
        BY <3>4 DEF Feed
    <3>7. session' = None => g = "off" BY <3>5 DEF Feed
    <3>8. Serves \in BOOLEAN /\ Serves' \in BOOLEAN BY <1>2, <3>2 DEF IInv, Serves
    <3>9. CASE session' = session /\ g = f
      <4>1. Serves' = Serves \/ Serves' = ~Serves BY <3>8
      <4> QED BY <3>4, <3>5, <3>9, <4>1 DEF Serves, Shared!Next, Shared!Backend, Shared!vars
    <3>10. CASE /\ session' = session /\ up' = up /\ known' = known
                /\ \/ f = "held" /\ g = "seeking"
                   \/ f = "seeking" /\ (g = "held" \/ (g = "parked" /\ ~Serves))
      <4>1. Serves' = Serves BY <3>10 DEF Serves
      <4> QED BY <3>4, <3>5, <3>6, <3>10, <4>1
              DEF Serves, Shared!Next, Shared!Lose, Shared!Attach, Shared!Park, Shared!vars
    <3>11. CASE session' # session /\ (session' = None \/ (session = None /\ g = "seeking"))
      <4>1. CASE session' = None
        BY <3>5, <3>7, <3>8, <3>11, <4>1 DEF Serves, Shared!Next, Shared!Rewatch, Shared!FeedsOf
      <4>2. CASE session' # None
        BY <3>5, <3>8, <3>11, <4>2 DEF Serves, Shared!Next, Shared!Rewatch, Shared!FeedsOf
      <4> QED BY <3>11, <4>1, <4>2
    <3> QED BY <3>1, <3>2, <3>3, <3>4, <3>5, <3>9, <3>10, <3>11 DEF Moved
  <2> QED BY <1>2, <2>1, <2>2
<1> QED BY <1>1, <1>2, Invariance, PTL DEF Spec

=============================================================================
