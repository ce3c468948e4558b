---------------------- MODULE SubscriptionStore_proofs ----------------------
(***************************************************************************)
(* The safety of the card's store, for any cards, devices and number of    *)
(* calls, and that its steps are steps of SharedStream.                    *)
(*                                                                         *)
(* An entry and the calls it names point at each other (Base): what an     *)
(* entry holds is open and its own, what it opens is in flight and its     *)
(* own, and it is in one of these states at a time.  That is what every    *)
(* operation of the store keeps, also halfway; between two callbacks an    *)
(* entry is also watched exactly as long as it is kept (Sound).            *)
(***************************************************************************)
EXTENDS SubscriptionStore, FiniteSetTheorems, WellFoundedInduction, TLAPS

Entry == [on : SUBSET Cards, ws : Calls \cup {None}, opening : Calls \cup {None},
          conn : 0..MaxConn, timer : Timers \cup {None}, dead : BOOLEAN, available : BOOLEAN]
Request == [st : {"free", "asked", "granted", "open", "leaving"},
            dev : Devices \cup {None}, mine : BOOLEAN, conn : 0..MaxConn,
            back : BOOLEAN, closing : BOOLEAN]
State == [entry : [Devices -> Entry], call : [Calls -> Request],
          armed : [Timers -> Devices \cup {None}]]

\* Nothing is held, in flight or armed for device d.
Idle(S, d) == S.entry[d].ws = None /\ S.entry[d].opening = None /\ S.entry[d].timer = None

\* On connection n a stream is behind call k, or `closed` is on its way; calls
\* X are exempt, whose `closed` is being handled.
Heard(S, k, n, X) == k \in X \/ S.call[k].back \/ S.call[k].closing \/ S.call[k].conn # n

Base(S, n, X) ==
    /\ S \in State
    /\ \A d \in Devices, k \in Calls : S.entry[d].ws = k =>
          S.call[k].st = "open" /\ S.call[k].dev = d /\ S.call[k].mine /\ Heard(S, k, n, X)
    /\ \A d \in Devices, k \in Calls : S.entry[d].opening = k =>
          /\ S.call[k].st \in {"asked", "granted"} /\ S.call[k].dev = d /\ S.call[k].mine
          /\ S.call[k].st = "granted" => Heard(S, k, n, X)
    /\ \A k \in Calls : S.call[k].st # "free" => S.call[k].dev \in Devices
    /\ \A k \in Calls : S.call[k].st = "open" => S.entry[S.call[k].dev].ws = k
    /\ \A d \in Devices, t \in Timers : S.entry[d].timer = t <=> S.armed[t] = d
    /\ \A d \in Devices : /\ S.entry[d].ws # None => S.entry[d].opening = None
                          /\ S.entry[d].ws # None => S.entry[d].timer = None
                          /\ S.entry[d].opening # None => S.entry[d].timer = None
                          /\ S.entry[d].dead => S.entry[d].ws = None /\ S.entry[d].opening = None
                          /\ S.entry[d].conn <= n
    /\ \A k \in Calls : S.call[k].conn <= n

\* An entry is kept exactly as long as it is watched, and only a terminal
\* rejection leaves it idle.
Sound(S, d) ==
    /\ S.entry[d].on = {} => Idle(S, d)
    /\ S.entry[d].on # {} /\ Idle(S, d) => S.entry[d].dead
    /\ S.entry[d].on # {} => S.entry[d].conn # 0

\* What T leaves of S but for the way on of device d.
Same(S, T, d) ==
    /\ \A x \in Devices \ {d} : T.entry[x] = S.entry[x]
    /\ T.entry[d].on = S.entry[d].on /\ T.entry[d].conn = S.entry[d].conn
    /\ T.entry[d].dead = S.entry[d].dead /\ T.entry[d].available = S.entry[d].available
    /\ \A k \in Calls : /\ T.call[k].st = "free" <=> S.call[k].st = "free"
                        /\ T.call[k].st = "asked" <=> S.call[k].st = "asked"

CardsOK ==
    \A c \in Cards : card[c].up => card[c].dev \in Devices /\ card[c].sub \in Devices

Good(S, n, X) == Base(S, n, X) /\ \A d \in Devices : Sound(S, d)

IInv == StoreTypeOK /\ Good(Now, conn, {}) /\ CardsOK

-----------------------------------------------------------------------------
(* The operators                                                           *)

\* A set of numbers has a least one.
LEMMA LeastIsIn ==
    ASSUME NEW K \in SUBSET Nat, K # {}
    PROVE  Least(K) \in K
<1>1. PICK k \in K : \A j \in K : ~(<<j, k>> \in OpToRel(<, Nat))
    BY NatLessThanWellFounded, WFMin
<1>2. ASSUME NEW j \in K PROVE k <= j
  <2>1. j \in Nat /\ k \in Nat OBVIOUS
  <2>2. ~(j < k) BY <1>1, <2>1 DEF OpToRel
  <2> QED BY <2>1, <2>2
<1> QED BY <1>1, <1>2 DEF Least

\* While an entry has no timer there is one to arm.
LEMMA FreeTimer ==
    ASSUME NEW S, NEW n \in Nat, NEW X, Base(S, n, X), NEW d \in Devices, S.entry[d].timer = None
    PROVE  \E t \in Timers : S.armed[t] = None
<1>1. SUFFICES ASSUME \A t \in Timers : S.armed[t] # None PROVE FALSE OBVIOUS
<1>2. S.armed \in [Timers -> Devices \cup {None}] BY DEF Base, State
<1>3. \A t \in Timers : S.armed[t] \in Devices \ {d}
    BY <1>1, <1>2, StoreAssumption DEF Base
<1> DEFINE f == [t \in Timers |-> S.armed[t]]
<1>4. f \in Injection(Timers, Devices \ {d})
  <2>1. \A t, u \in Timers : f[t] = f[u] => t = u BY <1>3 DEF Base
  <2>2. f \in [Timers -> Devices \ {d}] BY <1>3
  <2> HIDE DEF f
  <2> QED BY <2>1, <2>2 DEF Injection, IsInjective
<1>5. IsFiniteSet(Devices \ {d}) /\ Cardinality(Devices \ {d}) = Cardinality(Devices) - 1
    BY StoreAssumption, FS_RemoveElement
<1>6. Cardinality(Timers) <= Cardinality(Devices \ {d}) BY <1>4, <1>5, FS_Injection
<1>7. Cardinality(Timers) \in Nat /\ Cardinality(Devices) \in Nat
    BY StoreAssumption, FS_CardinalityType
<1> QED BY <1>5, <1>6, <1>7, StoreAssumption

\* clearTimeout takes the timer and nothing else.
LEMMA ClearTimerBase ==
    ASSUME NEW S, NEW n \in Nat, NEW X, Base(S, n, X), NEW d \in Devices, NEW T, T = ClearTimer(S, d)
    PROVE  /\ Base(T, n, X) /\ Same(S, T, d) /\ T.call = S.call
           /\ T.entry[d].timer = None
           /\ T.entry[d].ws = S.entry[d].ws /\ T.entry[d].opening = S.entry[d].opening
<1>1. S \in State /\ S.entry[d] \in Entry BY DEF Base, State
<1>2. CASE S.entry[d].timer = None BY <1>2 DEF ClearTimer, Same
<1>3. CASE S.entry[d].timer # None
  <2> DEFINE t == S.entry[d].timer
             e == [S.entry[d] EXCEPT !.timer = None]
  <2>1. t \in Timers BY <1>1, <1>3 DEF Entry
  <2>2. T = [S EXCEPT !.armed[t] = None, !.entry[d].timer = None] BY <1>3 DEF ClearTimer
  <2>3. T.call = S.call /\ T.entry = [S.entry EXCEPT ![d] = e]
        /\ T.armed = [S.armed EXCEPT ![t] = None]
        /\ T = [entry |-> T.entry, call |-> T.call, armed |-> T.armed]
      BY <1>1, <2>2 DEF State
  <2>4. /\ e \in Entry /\ e.timer = None /\ e.ws = S.entry[d].ws
        /\ e.opening = S.entry[d].opening /\ e.on = S.entry[d].on /\ e.conn = S.entry[d].conn
        /\ e.dead = S.entry[d].dead /\ e.available = S.entry[d].available
      BY <1>1 DEF Entry
  <2>5. S.armed[t] = d /\ \A u \in Timers \ {t} : S.armed[u] # d BY <2>1 DEF Base
  <2> HIDE DEF e, t
  <2>6. T.entry[d] = e /\ \A x \in Devices \ {d} : T.entry[x] = S.entry[x]
      BY <1>1, <2>3 DEF State
  <2>7. T.armed[t] = None /\ \A u \in Timers \ {t} : T.armed[u] = S.armed[u]
      BY <1>1, <2>1, <2>3 DEF State
  <2>8. T \in State BY <1>1, <2>3, <2>4 DEF State
  <2>9. \A x \in Devices, u \in Timers : T.entry[x].timer = u <=> T.armed[u] = x
      BY <2>1, <2>4, <2>5, <2>6, <2>7, StoreAssumption DEF Base
  <2>10. Base(T, n, X) BY <2>3, <2>4, <2>6, <2>8, <2>9 DEF Base, Heard
  <2> QED BY <2>3, <2>4, <2>6, <2>10 DEF Same
<1> QED BY <1>2, <1>3
\* closeWs leaves the entry idle; what it held is on its way out.
LEMMA CloseWsBase ==
    ASSUME NEW S, NEW n \in Nat, NEW X, Base(S, n, X), NEW d \in Devices, NEW U, U = CloseWs(S, d)
    PROVE  Base(U, n, X) /\ Same(S, U, d) /\ Idle(U, d)
<1> DEFINE R == ClearTimer(S, d)
           T == [R EXCEPT !.entry[d].opening = None]
<1>1. /\ Base(R, n, X) /\ Same(S, R, d) /\ R.entry[d].timer = None
      /\ R \in State /\ R.entry[d] \in Entry
  <2>1. Base(R, n, X) /\ Same(S, R, d) /\ R.entry[d].timer = None BY ClearTimerBase
  <2> HIDE DEF R
  <2> QED BY <2>1 DEF Base, State
<1>2. U = IF T.entry[d].ws = None THEN T
          ELSE [Unsub(T, T.entry[d].ws) EXCEPT !.entry[d].ws = None]
    BY DEF CloseWs
<1> HIDE DEF R
<1> DEFINE e == [R.entry[d] EXCEPT !.opening = None]
<1>3. e \in Entry /\ e.opening = None /\ e.ws = R.entry[d].ws /\ e.timer = None
      /\ e.on = R.entry[d].on /\ e.conn = R.entry[d].conn
      /\ e.dead = R.entry[d].dead /\ e.available = R.entry[d].available
    BY <1>1 DEF Entry
<1>4. T.call = R.call /\ T.armed = R.armed /\ T.entry = [R.entry EXCEPT ![d] = e]
      /\ T = [entry |-> T.entry, call |-> T.call, armed |-> T.armed]
    BY <1>1 DEF State
<1> HIDE DEF T, e
<1>5. T.entry[d] = e /\ \A x \in Devices \ {d} : T.entry[x] = R.entry[x]
    BY <1>1, <1>4 DEF State
<1>6. T \in State BY <1>1, <1>3, <1>4 DEF State
<1>7. Base(T, n, X) BY <1>1, <1>3, <1>4, <1>5, <1>6, StoreAssumption DEF Base, Heard
<1>8. Same(S, T, d) BY <1>1, <1>3, <1>4, <1>5 DEF Same
<1>9. CASE T.entry[d].ws = None BY <1>2, <1>3, <1>5, <1>7, <1>8, <1>9 DEF Idle
<1>10. CASE T.entry[d].ws # None
  <2> DEFINE k == T.entry[d].ws
             V == Unsub(T, k)
             f == [T.entry[d] EXCEPT !.ws = None]
             q == [T.call[k] EXCEPT !.st = "leaving"]
  <2>1. k \in Calls BY <1>3, <1>5, <1>10 DEF Entry
  <2>2. T.call[k].st = "open" /\ T.call[k].dev = d BY <1>7, <2>1 DEF Base
  <2> HIDE DEF k
  <2>3. V.entry = T.entry /\ V.armed = T.armed /\ V.call = [T.call EXCEPT ![k] = q]
        /\ V = [entry |-> V.entry, call |-> V.call, armed |-> V.armed]
      BY <1>6, <2>1 DEF Unsub, State
  <2>4. U = [V EXCEPT !.entry[d].ws = None] BY <1>2, <1>10 DEF k
  <2> HIDE DEF V
  <2>5. U.entry = [T.entry EXCEPT ![d] = f] /\ U.armed = T.armed /\ U.call = V.call
        /\ U = [entry |-> U.entry, call |-> U.call, armed |-> U.armed]
      BY <2>3, <2>4
  <2>6. f \in Entry /\ f.ws = None /\ f.opening = None /\ f.timer = None
        /\ f.on = T.entry[d].on /\ f.conn = T.entry[d].conn
        /\ f.dead = T.entry[d].dead /\ f.available = T.entry[d].available
      BY <1>3, <1>5 DEF Entry
  <2>7. q \in Request /\ q.st = "leaving" /\ q.dev = d /\ q.conn = T.call[k].conn
      BY <1>6, <2>1, <2>2 DEF State, Request
  <2> HIDE DEF f, q
  <2>8. U.entry[d] = f /\ \A x \in Devices \ {d} : U.entry[x] = T.entry[x]
      BY <1>6, <2>5 DEF State
  <2>9. U.call[k] = q /\ \A j \in Calls \ {k} : U.call[j] = T.call[j]
      BY <1>6, <2>1, <2>3, <2>5 DEF State
  <2>10. U \in State BY <1>6, <2>3, <2>5, <2>6, <2>7 DEF State
  <2>11. \A x \in Devices \ {d} : T.entry[x].ws # k /\ T.entry[x].opening # k
      BY <1>7, <2>1, <2>2 DEF Base
  <2>12. \A j \in Calls : U.call[j].st = "open" => U.entry[U.call[j].dev].ws = j
    <3>1. ASSUME NEW j \in Calls, U.call[j].st = "open" PROVE U.entry[U.call[j].dev].ws = j
      <4>1. j # k BY <2>7, <2>9, <3>1
      <4>2. T.call[j].st = "open" /\ U.call[j].dev = T.call[j].dev BY <2>9, <3>1, <4>1
      <4>3. T.entry[T.call[j].dev].ws = j /\ T.call[j].dev \in Devices BY <1>7, <4>2 DEF Base
      <4>4. T.call[j].dev # d BY <4>1, <4>3 DEF k
      <4> QED BY <2>8, <4>2, <4>3, <4>4
    <3> QED BY <3>1
  <2>13. Base(U, n, X)
    <3>1. \A x \in Devices, j \in Calls : U.entry[x].ws = j =>
             U.call[j].st = "open" /\ U.call[j].dev = x /\ U.call[j].mine /\ Heard(U, j, n, X)
      <4>1. ASSUME NEW x \in Devices, NEW j \in Calls, U.entry[x].ws = j
            PROVE  U.call[j].st = "open" /\ U.call[j].dev = x /\ U.call[j].mine /\ Heard(U, j, n, X)
        <5>1. x # d BY <2>6, <2>8, <4>1, StoreAssumption
        <5>2. T.entry[x].ws = j /\ j # k BY <2>8, <2>11, <4>1, <5>1
        <5>3. U.call[j] = T.call[j] BY <2>9, <5>2
        <5> QED BY <1>7, <5>2, <5>3 DEF Base, Heard
      <4> QED BY <4>1
    <3>2. \A x \in Devices, j \in Calls : U.entry[x].opening = j =>
             /\ U.call[j].st \in {"asked", "granted"} /\ U.call[j].dev = x /\ U.call[j].mine
             /\ U.call[j].st = "granted" => Heard(U, j, n, X)
        BY <1>7, <2>6, <2>8, <2>9, <2>11, StoreAssumption DEF Base, Heard
    <3>3. \A j \in Calls : /\ U.call[j].st # "free" => U.call[j].dev \in Devices
                           /\ U.call[j].conn <= n
        BY <1>7, <2>1, <2>7, <2>9 DEF Base
    <3>4. \A x \in Devices, t \in Timers : U.entry[x].timer = t <=> U.armed[t] = x
        BY <1>3, <1>5, <1>7, <2>5, <2>6, <2>8 DEF Base
    <3>5. \A x \in Devices : /\ U.entry[x].ws # None => U.entry[x].opening = None
                             /\ U.entry[x].ws # None => U.entry[x].timer = None
                             /\ U.entry[x].opening # None => U.entry[x].timer = None
                             /\ U.entry[x].dead => U.entry[x].ws = None /\ U.entry[x].opening = None
                             /\ U.entry[x].conn <= n
        BY <1>7, <2>6, <2>8 DEF Base
    <3> QED BY <2>10, <2>12, <3>1, <3>2, <3>3, <3>4, <3>5 DEF Base
  <2>14. Same(S, U, d) BY <1>8, <2>1, <2>2, <2>6, <2>7, <2>8, <2>9 DEF Same
  <2> QED BY <2>6, <2>8, <2>13, <2>14 DEF Idle
<1> QED BY <1>9, <1>10

\* openWs takes a free call, which becomes the one in flight.
LEMMA OpenWsBase ==
    ASSUME NEW S, NEW n \in Nat, NEW X, Base(S, n, X), NEW d \in Devices, Idle(S, d),
           NEW h \in 0..MaxConn, h <= n, \E k \in Calls : S.call[k].st = "free",
           NEW T, T = OpenWs(S, d, h)
    PROVE  /\ Base(T, n, X)
           /\ \A x \in Devices \ {d} : T.entry[x] = S.entry[x]
           /\ T.entry[d].on = S.entry[d].on /\ T.entry[d].conn = h
           /\ T.entry[d].available = S.entry[d].available
           /\ T.entry[d].ws = None /\ T.entry[d].opening # None
           /\ \A j \in Calls : S.call[j].st = "asked" => T.call[j].st = "asked"
<1> DEFINE k == Least({j \in Calls : S.call[j].st = "free"})
           e == [S.entry[d] EXCEPT !.conn = h, !.dead = FALSE, !.opening = k]
           q == [st |-> "asked", dev |-> d, mine |-> TRUE, conn |-> h,
                 back |-> FALSE, closing |-> FALSE]
<1>1. k \in Calls /\ S.call[k].st = "free"
  <2>1. k \in {j \in Calls : S.call[j].st = "free"} BY LeastIsIn, StoreAssumption
  <2> QED BY <2>1
<1> HIDE DEF k
<1>2. S \in State /\ S.entry[d] \in Entry BY DEF Base, State
<1>3. T = [S EXCEPT !.entry[d] = [@ EXCEPT !.conn = h, !.dead = FALSE, !.opening = k],
                    !.call[k] = q]
    BY DEF OpenWs, k
<1>4. T.armed = S.armed /\ T.entry = [S.entry EXCEPT ![d] = e] /\ T.call = [S.call EXCEPT ![k] = q]
      /\ T = [entry |-> T.entry, call |-> T.call, armed |-> T.armed]
  <2> HIDE DEF q
  <2>1. T.armed = S.armed /\ T.call = [S.call EXCEPT ![k] = q] BY <1>2, <1>3 DEF State
  <2>2. T.entry = [S.entry EXCEPT ![d] = e] BY <1>2, <1>3 DEF State
  <2>3. T = [entry |-> T.entry, call |-> T.call, armed |-> T.armed] BY <1>2, <1>3 DEF State
  <2> QED BY <2>1, <2>2, <2>3
<1>5. e \in Entry /\ e.conn = h /\ ~e.dead /\ e.opening = k /\ e.ws = None /\ e.timer = None
      /\ e.on = S.entry[d].on /\ e.available = S.entry[d].available
    BY <1>1, <1>2 DEF Entry, Idle
<1>6. q \in Request /\ q.st = "asked" /\ q.dev = d /\ q.mine /\ q.conn = h BY DEF Request
<1> HIDE DEF e, q
<1>7. T.entry[d] = e /\ \A x \in Devices \ {d} : T.entry[x] = S.entry[x]
    BY <1>2, <1>4 DEF State
<1>8. T.call[k] = q /\ \A j \in Calls \ {k} : T.call[j] = S.call[j]
    BY <1>1, <1>2, <1>4 DEF State
<1>9. T \in State BY <1>2, <1>4, <1>5, <1>6 DEF State
<1>10. \A x \in Devices : S.entry[x].ws # k /\ S.entry[x].opening # k BY <1>1 DEF Base
<1>11. k # None BY <1>1, StoreAssumption
<1>12. \A j \in Calls : T.call[j].st = "open" => T.entry[T.call[j].dev].ws = j
  <2>1. ASSUME NEW j \in Calls, T.call[j].st = "open" PROVE T.entry[T.call[j].dev].ws = j
    <3>1. j # k BY <1>6, <1>8, <2>1
    <3>2. S.call[j].st = "open" /\ T.call[j].dev = S.call[j].dev BY <1>8, <2>1, <3>1
    <3>3. S.entry[S.call[j].dev].ws = j /\ S.call[j].dev \in Devices BY <3>2 DEF Base
    <3>4. S.call[j].dev # d BY <3>3, StoreAssumption DEF Idle
    <3> QED BY <1>7, <3>2, <3>3, <3>4
  <2> QED BY <2>1
<1>13. \A x \in Devices, j \in Calls : T.entry[x].ws = j =>
          T.call[j].st = "open" /\ T.call[j].dev = x /\ T.call[j].mine /\ Heard(T, j, n, X)
  <2>1. SUFFICES ASSUME NEW x \in Devices, NEW j \in Calls, T.entry[x].ws = j
                 PROVE  T.call[j].st = "open" /\ T.call[j].dev = x /\ T.call[j].mine
                        /\ Heard(T, j, n, X)
      OBVIOUS
  <2>2. x # d BY <1>5, <1>7, <2>1, StoreAssumption
  <2>3. S.entry[x].ws = j /\ j # k BY <1>7, <1>10, <2>1, <2>2
  <2>4. T.call[j] = S.call[j] BY <1>8, <2>3
  <2> QED BY <2>3, <2>4 DEF Base, Heard
<1>14. \A x \in Devices, j \in Calls : T.entry[x].opening = j =>
          /\ T.call[j].st \in {"asked", "granted"} /\ T.call[j].dev = x /\ T.call[j].mine
          /\ T.call[j].st = "granted" => Heard(T, j, n, X)
  <2>1. SUFFICES ASSUME NEW x \in Devices, NEW j \in Calls, T.entry[x].opening = j
                 PROVE  /\ T.call[j].st \in {"asked", "granted"} /\ T.call[j].dev = x
                        /\ T.call[j].mine
                        /\ T.call[j].st = "granted" => Heard(T, j, n, X)
      OBVIOUS
  <2>2. CASE x = d
    <3>1. j = k
      <4>1. T.entry[x] = e BY <1>7, <2>2
      <4> QED BY <1>5, <2>1, <4>1
    <3>2. T.call[j] = q BY <1>8, <3>1
    <3> QED BY <1>6, <2>2, <3>2
  <2>3. CASE x # d
    <3>1. S.entry[x].opening = j /\ j # k BY <1>7, <1>10, <2>1, <2>3
    <3>2. T.call[j] = S.call[j] BY <1>8, <3>1
    <3> QED BY <3>1, <3>2 DEF Base, Heard
  <2> QED BY <2>2, <2>3
<1>15. \A j \in Calls : (T.call[j].st # "free" => T.call[j].dev \in Devices) /\ T.call[j].conn <= n
    BY <1>1, <1>6, <1>8 DEF Base
<1>16. \A x \in Devices, t \in Timers : T.entry[x].timer = t <=> T.armed[t] = x
    BY <1>4, <1>5, <1>7, StoreAssumption DEF Base, Idle
<1>17. \A x \in Devices : /\ T.entry[x].ws # None => T.entry[x].opening = None
                          /\ T.entry[x].ws # None => T.entry[x].timer = None
                          /\ T.entry[x].opening # None => T.entry[x].timer = None
                          /\ T.entry[x].dead => T.entry[x].ws = None /\ T.entry[x].opening = None
                          /\ T.entry[x].conn <= n
    BY <1>5, <1>7 DEF Base
<1>18. Base(T, n, X) BY <1>9, <1>12, <1>13, <1>14, <1>15, <1>16, <1>17 DEF Base
<1> QED BY <1>1, <1>5, <1>7, <1>8, <1>11, <1>18

\* scheduleReopen arms a timer for an entry that is kept and idle.
LEMMA ScheduleBase ==
    ASSUME NEW S, NEW n \in Nat, NEW X, Base(S, n, X), NEW d \in Devices, Registered(S, d), Idle(S, d),
           NEW T, T = Schedule(S, d)
    PROVE  /\ Base(T, n, X) /\ Same(S, T, d) /\ T.call = S.call
           /\ T.entry[d].ws = None /\ T.entry[d].opening = None /\ T.entry[d].timer # None
<1> DEFINE t == Least({u \in Timers : S.armed[u] = None})
           e == [S.entry[d] EXCEPT !.timer = t]
<1>1. t \in Timers /\ S.armed[t] = None
  <2>1. {u \in Timers : S.armed[u] = None} # {} BY FreeTimer DEF Idle
  <2>2. t \in {u \in Timers : S.armed[u] = None} BY <2>1, LeastIsIn, StoreAssumption
  <2> QED BY <2>2
<1> HIDE DEF t
<1>2. S \in State /\ S.entry[d] \in Entry BY DEF Base, State
<1>3. T = [S EXCEPT !.armed[t] = d, !.entry[d].timer = t] BY DEF Schedule, Idle, t
<1>4. T.call = S.call /\ T.entry = [S.entry EXCEPT ![d] = e] /\ T.armed = [S.armed EXCEPT ![t] = d]
      /\ T = [entry |-> T.entry, call |-> T.call, armed |-> T.armed]
    BY <1>2, <1>3 DEF State
<1>5. e \in Entry /\ e.timer = t /\ e.opening = None /\ e.ws = None
      /\ e.on = S.entry[d].on /\ e.conn = S.entry[d].conn
      /\ e.dead = S.entry[d].dead /\ e.available = S.entry[d].available
    BY <1>1, <1>2 DEF Entry, Idle
<1> HIDE DEF e
<1>6. T.entry[d] = e /\ \A x \in Devices \ {d} : T.entry[x] = S.entry[x]
    BY <1>2, <1>4 DEF State
<1>7. T.armed[t] = d /\ \A u \in Timers \ {t} : T.armed[u] = S.armed[u]
    BY <1>1, <1>2, <1>4 DEF State
<1>8. T \in State BY <1>2, <1>4, <1>5 DEF State
<1>9. \A u \in Timers : S.armed[u] # d BY StoreAssumption DEF Base, Idle
<1>10. \A x \in Devices : S.entry[x].timer # t BY <1>1, StoreAssumption DEF Base
<1>11. \A x \in Devices, u \in Timers : T.entry[x].timer = u <=> T.armed[u] = x
    BY <1>1, <1>5, <1>6, <1>7, <1>9, <1>10 DEF Base
<1>12. Base(T, n, X)
    BY <1>4, <1>5, <1>6, <1>8, <1>11 DEF Base, Heard, Idle
<1>13. t # None BY <1>1, StoreAssumption
<1> QED BY <1>4, <1>5, <1>6, <1>12, <1>13 DEF Same

\* What an entry says beyond its way on is its own affair.
LEMMA SameWayBase ==
    ASSUME NEW S, NEW n \in Nat, NEW X, Base(S, n, X), NEW d \in Devices,
           NEW T \in State, T.call = S.call, T.armed = S.armed,
           \A x \in Devices \ {d} : T.entry[x] = S.entry[x],
           T.entry[d].ws = S.entry[d].ws, T.entry[d].opening = S.entry[d].opening,
           T.entry[d].timer = S.entry[d].timer, T.entry[d].conn = S.entry[d].conn,
           T.entry[d].dead => T.entry[d].ws = None /\ T.entry[d].opening = None
    PROVE  Base(T, n, X)
BY DEF Base, Heard

\* Only the listeners of d change.
LEMMA ListenForm ==
    ASSUME NEW S \in State, NEW d \in Devices, NEW W \in SUBSET Cards
    PROVE  LET T == Listen(S, d, W) IN
           /\ T \in State /\ T.call = S.call /\ T.armed = S.armed
           /\ \A x \in Devices \ {d} : T.entry[x] = S.entry[x]
           /\ T.entry[d].on = W
           /\ T.entry[d].ws = S.entry[d].ws /\ T.entry[d].opening = S.entry[d].opening
           /\ T.entry[d].timer = S.entry[d].timer /\ T.entry[d].dead = S.entry[d].dead
           /\ T.entry[d].conn = S.entry[d].conn /\ T.entry[d].available = S.entry[d].available
<1> DEFINE T == Listen(S, d, W)
           e == [S.entry[d] EXCEPT !.on = W]
<1>1. S.entry[d] \in Entry BY DEF State
<1>2. /\ e \in Entry /\ e.on = W
      /\ e.ws = S.entry[d].ws /\ e.opening = S.entry[d].opening /\ e.timer = S.entry[d].timer
      /\ e.dead = S.entry[d].dead /\ e.conn = S.entry[d].conn
      /\ e.available = S.entry[d].available
    BY <1>1 DEF Entry
<1>3. T = [S EXCEPT !.entry[d] = e] BY DEF Listen
<1> HIDE DEF e
<1> HIDE DEF T
<1>4. /\ T \in State /\ T.call = S.call /\ T.armed = S.armed
      /\ T.entry[d] = e /\ \A x \in Devices \ {d} : T.entry[x] = S.entry[x]
  <2>1. T.call = S.call /\ T.armed = S.armed /\ T.entry = [S.entry EXCEPT ![d] = e]
        /\ T = [entry |-> T.entry, call |-> T.call, armed |-> T.armed]
      BY <1>3 DEF State
  <2> QED BY <1>2, <2>1 DEF State
<1>5. /\ T.entry[d].on = W
      /\ T.entry[d].ws = S.entry[d].ws /\ T.entry[d].opening = S.entry[d].opening
      /\ T.entry[d].timer = S.entry[d].timer /\ T.entry[d].dead = S.entry[d].dead
      /\ T.entry[d].conn = S.entry[d].conn /\ T.entry[d].available = S.entry[d].available
    BY <1>2, <1>4
<1> QED BY <1>4, <1>5 DEF T

\* reopen: an entry that is kept gets a timer, and holds and opens nothing.
LEMMA ReopenGood ==
    ASSUME NEW S, NEW n \in Nat, NEW X, Good(S, n, X), NEW d \in Devices, NEW T, T = Reopen(S, d)
    PROVE  /\ Good(T, n, X) /\ Same(S, T, d)
           /\ T.entry[d].ws = None /\ T.entry[d].opening = None
           /\ S.entry[d].on # {} => T.entry[d].timer # None
<1>1. Base(S, n, X) /\ Sound(S, d) /\ S.entry[d] \in Entry BY DEF Good, Base, State
<1>2. CASE S.entry[d].timer # None
  <2>1. T = S BY <1>2 DEF Reopen
  <2>2. S.entry[d].ws = None /\ S.entry[d].opening = None BY <1>1, <1>2 DEF Base
  <2> QED BY <1>2, <2>1, <2>2 DEF Same
<1>3. CASE S.entry[d].timer = None
  <2> DEFINE U == CloseWs(S, d)
  <2>1. Base(U, n, X) /\ Same(S, U, d) /\ Idle(U, d) BY <1>1, CloseWsBase
  <2>2. T = Schedule(U, d) BY <1>3 DEF Reopen
  <2> HIDE DEF U
  <2>3. CASE Registered(U, d)
    <3>1. /\ Base(T, n, X) /\ Same(U, T, d)
          /\ T.entry[d].ws = None /\ T.entry[d].opening = None /\ T.entry[d].timer # None
        BY <2>1, <2>2, <2>3, ScheduleBase
    <3>2. Same(S, T, d) BY <2>1, <3>1 DEF Same
    <3>3. \A x \in Devices : Sound(T, x)
        BY <2>3, <3>1, <3>2 DEF Good, Sound, Idle, Same, Registered
    <3> QED BY <3>1, <3>2, <3>3 DEF Good
  <2>4. CASE ~Registered(U, d)
    <3>1. T = U BY <2>2, <2>4 DEF Schedule
    <3>2. S.entry[d].on = {} BY <2>1, <2>4 DEF Same, Registered
    <3>3. \A x \in Devices : Sound(T, x)
        BY <2>1, <3>1, <3>2 DEF Good, Sound, Idle, Same
    <3> QED BY <2>1, <3>1, <3>2, <3>3 DEF Good, Idle
  <2> QED BY <2>3, <2>4
<1> QED BY <1>2, <1>3

\* subscribe's undo: the last card that leaves takes the entry with it.
LEMMA LeaveGood ==
    ASSUME NEW S, NEW n \in Nat, NEW X, Good(S, n, X), NEW d \in Devices, NEW c \in Cards,
           NEW T, T = Leave(S, c, d)
    PROVE  /\ Good(T, n, X)
           /\ \A x \in Devices \ {d} : T.entry[x] = S.entry[x]
           /\ T.entry[d].on = S.entry[d].on \ {c}
           /\ \/ T.entry[d].on = {}
              \/ /\ T.entry[d].ws = S.entry[d].ws /\ T.entry[d].opening = S.entry[d].opening
                 /\ T.entry[d].timer = S.entry[d].timer
           /\ T.entry[d].available = S.entry[d].available \/ T.entry[d].available
           /\ \A k \in Calls : /\ T.call[k].st = "free" <=> S.call[k].st = "free"
                               /\ S.call[k].st = "asked" => T.call[k].st = "asked"
<1>1. Base(S, n, X) /\ Sound(S, d) /\ S \in State /\ S.entry[d] \in Entry
    BY DEF Good, Base, State
<1> DEFINE R == Listen(S, d, S.entry[d].on \ {c})
<1>2. T = IF Registered(R, d) \/ ~Registered(S, d) THEN R
          ELSE LET U == CloseWs(R, d)
               IN  [U EXCEPT !.entry[d] = NoEntry,
                             !.call = [k \in Calls |-> IF @[k].dev = d
                                                       THEN [@[k] EXCEPT !.mine = FALSE] ELSE @[k]]]
    BY DEF Leave
<1>3. PICK W \in SUBSET Cards : W = S.entry[d].on \ {c} BY <1>1 DEF Entry
<1>4. R = Listen(S, d, W) BY <1>3
<1> HIDE DEF R
<1>5. /\ R \in State /\ R.armed = S.armed /\ R.call = S.call /\ R.entry[d].on = S.entry[d].on \ {c}
      /\ R.entry[d].ws = S.entry[d].ws /\ R.entry[d].opening = S.entry[d].opening
      /\ R.entry[d].timer = S.entry[d].timer /\ R.entry[d].dead = S.entry[d].dead
      /\ R.entry[d].conn = S.entry[d].conn /\ R.entry[d].available = S.entry[d].available
      /\ \A x \in Devices \ {d} : R.entry[x] = S.entry[x]
    BY <1>1, <1>3, <1>4, ListenForm
<1>6. Base(R, n, X)
  <2>1. R.entry[d].dead => R.entry[d].ws = None /\ R.entry[d].opening = None
      BY <1>1, <1>5 DEF Base
  <2> QED BY <1>1, <1>5, <2>1, SameWayBase
<1>7. CASE Registered(R, d) \/ ~Registered(S, d)
  <2>1. T = R BY <1>2, <1>7
  <2>2. Sound(T, d) BY <1>1, <1>5, <1>7, <2>1 DEF Sound, Idle, Registered
  <2>3. \A x \in Devices \ {d} : Sound(T, x) BY <1>5, <2>1 DEF Good, Sound, Idle
  <2> QED BY <1>5, <1>6, <2>1, <2>2, <2>3 DEF Good
<1>8. CASE ~Registered(R, d) /\ Registered(S, d)
  <2> DEFINE U == CloseWs(R, d)
             g == [k \in Calls |-> IF U.call[k].dev = d THEN [U.call[k] EXCEPT !.mine = FALSE]
                                   ELSE U.call[k]]
  <2>1. Base(U, n, X) /\ Same(R, U, d) /\ Idle(U, d) BY <1>6, CloseWsBase
  <2>2. T = [U EXCEPT !.entry[d] = NoEntry, !.call = g] BY <1>2, <1>8
  <2> HIDE DEF U
  <2>3. U \in State BY <2>1 DEF Base
  <2>4. \A k \in Calls : /\ g[k] \in Request /\ g[k].st = U.call[k].st /\ g[k].dev = U.call[k].dev
                         /\ g[k].conn = U.call[k].conn /\ g[k].back = U.call[k].back
                         /\ g[k].closing = U.call[k].closing
                         /\ U.call[k].dev # d => g[k].mine = U.call[k].mine
    <3>1. ASSUME NEW k \in Calls
          PROVE  LET q == [U.call[k] EXCEPT !.mine = FALSE]
                 IN  /\ q \in Request /\ q.st = U.call[k].st /\ q.dev = U.call[k].dev
                     /\ q.conn = U.call[k].conn /\ q.back = U.call[k].back
                     /\ q.closing = U.call[k].closing
      <4>1. U.call[k] \in Request BY <2>3 DEF State
      <4> QED BY <4>1 DEF Request
    <3>2. \A k \in Calls : U.call[k] \in Request BY <2>3 DEF State
    <3> QED BY <3>1, <3>2
  <2>5. g = [k \in Calls |-> g[k]] OBVIOUS
  <2>6. T.entry = [U.entry EXCEPT ![d] = NoEntry] /\ T.call = g /\ T.armed = U.armed
        /\ T = [entry |-> T.entry, call |-> T.call, armed |-> T.armed]
    <3> HIDE DEF g
    <3> QED BY <2>2, <2>3 DEF State
  <2> HIDE DEF g
  <2>7. NoEntry \in Entry
    <3>1. 0 \in 0..MaxConn BY StoreAssumption
    <3> QED BY <3>1 DEF NoEntry, Entry
  <2>8. T.entry[d] = NoEntry /\ \A x \in Devices \ {d} : T.entry[x] = U.entry[x]
      BY <2>3, <2>6 DEF State
  <2>9. g \in [Calls -> Request] BY <2>4, <2>5
  <2>10. T \in State BY <2>3, <2>6, <2>7, <2>9 DEF State
  <2>11. \A k \in Calls : U.call[k].st = "open" => U.call[k].dev # d
      BY <2>1, StoreAssumption DEF Base, Idle
  <2>12. 0 <= n OBVIOUS
  <2>13. Base(T, n, X)
    <3>1. ASSUME NEW x \in Devices, NEW k \in Calls
          PROVE  /\ T.entry[x].ws = k => /\ T.call[k].st = "open" /\ T.call[k].dev = x
                                         /\ T.call[k].mine /\ Heard(T, k, n, X)
                 /\ T.entry[x].opening = k =>
                      /\ T.call[k].st \in {"asked", "granted"} /\ T.call[k].dev = x
                      /\ T.call[k].mine
                      /\ T.call[k].st = "granted" => Heard(T, k, n, X)
      <4>1. CASE x = d BY <2>8, <4>1, StoreAssumption DEF NoEntry
      <4>2. CASE x # d
        <5>1. T.entry[x] = U.entry[x] BY <2>8, <4>2
        <5>2. /\ T.call[k].st = U.call[k].st /\ T.call[k].dev = U.call[k].dev
              /\ U.call[k].dev # d => T.call[k].mine = U.call[k].mine
              /\ Heard(U, k, n, X) => Heard(T, k, n, X)
            BY <2>4, <2>6 DEF Heard
        <5> QED BY <2>1, <4>2, <5>1, <5>2 DEF Base
      <4> QED BY <4>1, <4>2
    <3>2. \A k \in Calls : /\ T.call[k].st # "free" => T.call[k].dev \in Devices
                           /\ T.call[k].st = "open" => T.entry[T.call[k].dev].ws = k
                           /\ T.call[k].conn <= n
        BY <2>1, <2>4, <2>6, <2>8, <2>11 DEF Base
    <3>3. \A x \in Devices, t \in Timers : T.entry[x].timer = t <=> T.armed[t] = x
        BY <2>1, <2>6, <2>8, StoreAssumption DEF Base, Idle, NoEntry
    <3>4. \A x \in Devices : /\ T.entry[x].ws # None => T.entry[x].opening = None
                             /\ T.entry[x].ws # None => T.entry[x].timer = None
                             /\ T.entry[x].opening # None => T.entry[x].timer = None
                             /\ T.entry[x].dead => T.entry[x].ws = None /\ T.entry[x].opening = None
                             /\ T.entry[x].conn <= n
        BY <2>1, <2>8, <2>12 DEF Base, NoEntry
    <3> QED BY <2>10, <3>1, <3>2, <3>3, <3>4 DEF Base
  <2>14. \A x \in Devices : Sound(T, x)
      BY <1>5, <2>1, <2>8 DEF Good, Sound, Idle, NoEntry, Same
  <2>15. T.entry[d].on = {} /\ T.entry[d].available BY <2>8 DEF NoEntry
  <2>16. S.entry[d].on \ {c} = {} BY <1>5, <1>8 DEF Registered
  <2>17. \A x \in Devices \ {d} : T.entry[x] = S.entry[x] BY <1>5, <2>1, <2>8 DEF Same
  <2>18. \A k \in Calls : /\ T.call[k].st = "free" <=> S.call[k].st = "free"
                          /\ S.call[k].st = "asked" => T.call[k].st = "asked"
      BY <1>5, <2>1, <2>4, <2>6 DEF Same
  <2> QED BY <2>13, <2>14, <2>15, <2>16, <2>17, <2>18 DEF Good
<1> QED BY <1>7, <1>8

\* subscribe: whatever the entry was, card c is on it and it has a way on.
LEMMA JoinGood ==
    ASSUME NEW S, NEW n \in 1..MaxConn, NEW X, Good(S, n, X), NEW d \in Devices, NEW c \in Cards,
           NEW h \in 1..n, \E k \in Calls : S.call[k].st = "free",
           NEW T, T = Join(S, c, d, h)
    PROVE  /\ Good(T, n, X)
           /\ \A x \in Devices \ {d} : T.entry[x] = S.entry[x]
           /\ T.entry[d].on = S.entry[d].on \cup {c}
           /\ ~Idle(T, d) /\ (T.entry[d].ws # None => S.entry[d].ws # None)
           /\ T.entry[d].available = S.entry[d].available
           /\ \A k \in Calls : S.call[k].st = "asked" => T.call[k].st = "asked"
<1>0. n \in Nat /\ h \in 0..MaxConn /\ h <= n /\ h # 0 BY StoreAssumption
<1>1. Base(S, n, X) /\ Sound(S, d) /\ S \in State /\ S.entry[d] \in Entry
    BY DEF Good, Base, State
<1> DEFINE R == IF ~Registered(S, d) THEN OpenWs(S, d, h)
                ELSE IF S.entry[d].conn # h THEN OpenWs(CloseWs(S, d), d, h)
                ELSE IF S.entry[d].ws = None /\ S.entry[d].timer # None THEN Schedule(ClearTimer(S, d), d)
                ELSE IF S.entry[d].dead THEN OpenWs(S, d, h)
                ELSE S
           Opened(U) == /\ Base(U, n, X)
                        /\ \A x \in Devices \ {d} : U.entry[x] = S.entry[x]
                        /\ U.entry[d].on = S.entry[d].on /\ U.entry[d].conn = h
                        /\ U.entry[d].available = S.entry[d].available
                        /\ ~Idle(U, d) /\ (U.entry[d].ws # None => S.entry[d].ws # None)
                        /\ \A k \in Calls : S.call[k].st = "asked" => U.call[k].st = "asked"
<1>2. T = Listen(R, d, R.entry[d].on \cup {c}) BY DEF Join
<1>3. Opened(R)
  <2>1. ASSUME Idle(S, d) PROVE Opened(OpenWs(S, d, h))
      BY <1>0, <1>1, <2>1, OpenWsBase DEF Idle
  <2>2. CASE ~Registered(S, d)
    <3>1. Idle(S, d) BY <1>1, <2>2 DEF Sound, Registered
    <3> QED BY <2>1, <2>2, <3>1
  <2>3. CASE Registered(S, d) /\ S.entry[d].conn # h
    <3> DEFINE C == CloseWs(S, d)
               U == OpenWs(C, d, h)
    <3>1. Base(C, n, X) /\ Same(S, C, d) /\ Idle(C, d) BY <1>0, <1>1, CloseWsBase
    <3>2. R = U BY <2>3
    <3> HIDE DEF C
    <3>3. \E k \in Calls : C.call[k].st = "free" BY <3>1 DEF Same
    <3>4. /\ Base(U, n, X)
          /\ \A x \in Devices \ {d} : U.entry[x] = C.entry[x]
          /\ U.entry[d].on = C.entry[d].on /\ U.entry[d].conn = h
          /\ U.entry[d].available = C.entry[d].available
          /\ U.entry[d].ws = None /\ U.entry[d].opening # None
          /\ \A j \in Calls : C.call[j].st = "asked" => U.call[j].st = "asked"
        BY <1>0, <3>1, <3>3, OpenWsBase
    <3> HIDE DEF U
    <3>5. Opened(U) BY <3>1, <3>4 DEF Same, Idle
    <3> QED BY <3>2, <3>5
  <2>4. CASE Registered(S, d) /\ S.entry[d].conn = h /\ S.entry[d].ws = None /\ S.entry[d].timer # None
    <3> DEFINE C == ClearTimer(S, d)
               U == Schedule(C, d)
    <3>1. /\ Base(C, n, X) /\ Same(S, C, d) /\ C.call = S.call /\ C.entry[d].timer = None
          /\ C.entry[d].ws = S.entry[d].ws /\ C.entry[d].opening = S.entry[d].opening
        BY <1>0, <1>1, ClearTimerBase
    <3>2. R = U BY <2>4
    <3> HIDE DEF C
    <3>3. Idle(C, d) /\ Registered(C, d) BY <1>1, <2>4, <3>1 DEF Base, Idle, Registered, Same
    <3>4. /\ Base(U, n, X) /\ Same(C, U, d) /\ U.call = C.call
          /\ U.entry[d].ws = None /\ U.entry[d].timer # None
        BY <1>0, <3>1, <3>3, ScheduleBase
    <3> HIDE DEF U
    <3>5. Opened(U) BY <2>4, <3>1, <3>4 DEF Same, Idle
    <3> QED BY <3>2, <3>5
  <2>5. CASE Registered(S, d) /\ S.entry[d].conn = h /\ ~(S.entry[d].ws = None /\ S.entry[d].timer # None) /\ S.entry[d].dead
    <3>1. Idle(S, d) BY <1>1, <2>5 DEF Base, Idle
    <3>2. R = OpenWs(S, d, h) BY <2>5
    <3> QED BY <2>1, <3>1, <3>2
  <2>6. CASE Registered(S, d) /\ S.entry[d].conn = h /\ ~(S.entry[d].ws = None /\ S.entry[d].timer # None) /\ ~S.entry[d].dead
    <3>1. R = S BY <2>6
    <3>2. ~Idle(S, d) BY <1>1, <2>6 DEF Sound, Registered
    <3> QED BY <1>1, <2>6, <3>1, <3>2
  <2> HIDE DEF R
  <2> QED BY <2>2, <2>3, <2>4, <2>5, <2>6
<1> HIDE DEF R
<1>4. R \in State /\ R.entry[d] \in Entry BY <1>3 DEF Base, State
<1>5. PICK W \in SUBSET Cards : W = R.entry[d].on \cup {c} BY <1>4 DEF Entry
<1>6. T = Listen(R, d, W) BY <1>2, <1>5
<1>7. /\ T \in State /\ T.armed = R.armed /\ T.call = R.call /\ T.entry[d].on = R.entry[d].on \cup {c}
      /\ T.entry[d].ws = R.entry[d].ws /\ T.entry[d].opening = R.entry[d].opening
      /\ T.entry[d].timer = R.entry[d].timer /\ T.entry[d].dead = R.entry[d].dead
      /\ T.entry[d].conn = R.entry[d].conn /\ T.entry[d].available = R.entry[d].available
      /\ \A x \in Devices \ {d} : T.entry[x] = R.entry[x]
    BY <1>4, <1>5, <1>6, ListenForm
<1>8. Base(T, n, X)
  <2>1. Base(R, n, X) BY <1>3
  <2>2. T.entry[d].dead => T.entry[d].ws = None /\ T.entry[d].opening = None
      BY <1>7, <2>1 DEF Base
  <2> QED BY <1>0, <1>7, <2>1, <2>2, SameWayBase
<1>9. T.entry[d].on = S.entry[d].on \cup {c} /\ ~Idle(T, d)
      /\ (T.entry[d].ws # None => S.entry[d].ws # None)
      /\ T.entry[d].available = S.entry[d].available /\ T.entry[d].conn = h
    BY <1>3, <1>7 DEF Idle
<1>10. \A x \in Devices : Sound(T, x) BY <1>0, <1>3, <1>7, <1>9 DEF Good, Sound, Idle
<1> QED BY <1>3, <1>7, <1>8, <1>9, <1>10 DEF Good

\* The feed of device d, as SharedStream sees it.
FeedOf(S, d) ==
    IF S.entry[d].on = {} THEN "off"
    ELSE IF S.entry[d].ws # None THEN "held"
    ELSE IF S.entry[d].opening = None /\ S.entry[d].timer = None THEN "parked"
    ELSE "seeking"

\* From S to T the feed of d does what the cards' coming and going may do to it.
Rewatched(S, T, d) ==
    \/ /\ T.entry[d].on = S.entry[d].on
       /\ FeedOf(T, d) = FeedOf(S, d) \/ (FeedOf(S, d) # "off" /\ FeedOf(T, d) = "seeking")
    \/ /\ T.entry[d].on # S.entry[d].on
       /\ T.entry[d].on = {} => FeedOf(T, d) = "off"
       /\ T.entry[d].on # {} /\ T.entry[d].on \subseteq S.entry[d].on => FeedOf(T, d) = FeedOf(S, d)
       /\ ~(T.entry[d].on \subseteq S.entry[d].on) =>
             FeedOf(T, d) = "seeking" \/ (FeedOf(T, d) = "held" /\ FeedOf(S, d) = "held")

\* ensure(): a card gives up its subscription and takes another.
LEMMA EnsureGood ==
    ASSUME NEW S, NEW n \in 1..MaxConn, NEW X, Good(S, n, X), NEW c \in Cards,
           NEW r, r.dev \in Devices, r.sub \in Devices \cup {None}, r.hass \in 1..n,
           \E k \in Calls : S.call[k].st = "free",
           NEW T, T = Ensure(S, r, c)
    PROVE  /\ Good(T, n, X)
           /\ \A x \in Devices : /\ Rewatched(S, T, x)
                                 /\ T.entry[x].available = S.entry[x].available
                                    \/ T.entry[x].available
           /\ \A k \in Calls : S.call[k].st = "asked" => T.call[k].st = "asked"
<1> DEFINE d == r.dev
           b == r.sub
           L == IF b = None THEN S ELSE Leave(S, c, b)
<1>1. n \in Nat /\ d \in Devices /\ b \in Devices \cup {None} OBVIOUS
<1>2. CASE b = d /\ r.conn = r.hass
    BY <1>2 DEF Ensure, Rewatched
<1>3. CASE ~(b = d /\ r.conn = r.hass)
  <2>1. T = Join(L, c, d, r.hass) BY <1>3 DEF Ensure
  <2>2. /\ Good(L, n, X)
        /\ \A x \in Devices : x # b => L.entry[x] = S.entry[x]
        /\ b # None =>
             /\ L.entry[b].on = S.entry[b].on \ {c}
             /\ \/ L.entry[b].on = {}
                \/ /\ L.entry[b].ws = S.entry[b].ws /\ L.entry[b].opening = S.entry[b].opening
                   /\ L.entry[b].timer = S.entry[b].timer
             /\ L.entry[b].available = S.entry[b].available \/ L.entry[b].available
        /\ \A k \in Calls : /\ L.call[k].st = "free" <=> S.call[k].st = "free"
                            /\ S.call[k].st = "asked" => L.call[k].st = "asked"
    <3>1. CASE b = None BY <3>1
    <3>2. CASE b # None
      <4>1. L = Leave(S, c, b) /\ b \in Devices BY <1>1, <3>2
      <4> HIDE DEF L, b
      <4> QED BY <1>1, <4>1, LeaveGood
    <3> QED BY <3>1, <3>2
  <2> HIDE DEF L, d, b
  <2>3. \E k \in Calls : L.call[k].st = "free" BY <2>2
  <2>4. /\ Good(T, n, X)
        /\ \A x \in Devices \ {d} : T.entry[x] = L.entry[x]
        /\ T.entry[d].on = L.entry[d].on \cup {c}
        /\ ~Idle(T, d) /\ (T.entry[d].ws # None => L.entry[d].ws # None)
        /\ T.entry[d].available = L.entry[d].available
        /\ \A k \in Calls : L.call[k].st = "asked" => T.call[k].st = "asked"
      BY <1>1, <2>1, <2>2, <2>3, JoinGood
  <2>5. ASSUME NEW x \in Devices PROVE Rewatched(S, T, x)
    <3>1. Sound(S, x) /\ Sound(L, x) BY <2>2 DEF Good
    <3>2. CASE x # d /\ x # b BY <2>2, <2>4, <3>2 DEF Rewatched, FeedOf
    <3>3. CASE x # d /\ x = b BY <1>1, <2>2, <2>4, <3>1, <3>3, StoreAssumption
        DEF Rewatched, FeedOf, Sound, Idle
    <3>4. CASE x = d /\ x # b
      <4>1. L.entry[x] = S.entry[x] BY <2>2, <3>4
      <4>2. T.entry[x].on = S.entry[x].on \cup {c} /\ T.entry[x].on # {} BY <2>4, <3>4, <4>1
      <4>3. FeedOf(T, x) = "seeking" \/ (FeedOf(T, x) = "held" /\ S.entry[x].ws # None)
          BY <2>4, <3>4, <4>1, <4>2 DEF FeedOf, Idle
      <4>4. S.entry[x].ws # None => FeedOf(S, x) = "held"
          BY <3>1 DEF FeedOf, Sound, Idle
      <4>5. FeedOf(S, x) = "off" => S.entry[x].on = {} BY DEF FeedOf
      <4> QED BY <4>2, <4>3, <4>4, <4>5 DEF Rewatched
    <3>5. CASE x = d /\ x = b
      <4>1. b # None BY <3>5, StoreAssumption
      <4>2. T.entry[x].on = S.entry[x].on \cup {c} /\ T.entry[x].on # {} BY <2>2, <2>4, <3>5, <4>1
      <4>3. L.entry[x].ws # None => S.entry[x].ws # None
          BY <2>2, <3>1, <3>5, <4>1 DEF Sound, Idle
      <4>4. FeedOf(T, x) = "seeking" \/ (FeedOf(T, x) = "held" /\ S.entry[x].ws # None)
          BY <2>4, <3>5, <4>2, <4>3 DEF FeedOf, Idle
      <4>5. S.entry[x].ws # None => FeedOf(S, x) = "held"
          BY <3>1 DEF FeedOf, Sound, Idle
      <4>6. FeedOf(S, x) = "off" => S.entry[x].on = {} BY DEF FeedOf
      <4> QED BY <4>2, <4>4, <4>5, <4>6 DEF Rewatched
    <3> QED BY <3>2, <3>3, <3>4, <3>5
  <2>6. \A x \in Devices : T.entry[x].available = S.entry[x].available \/ T.entry[x].available
    <3>1. ASSUME NEW x \in Devices
          PROVE  T.entry[x].available = S.entry[x].available \/ T.entry[x].available
      <4>1. x # None BY StoreAssumption
      <4>2. T.entry[x].available = L.entry[x].available BY <2>4
      <4>3. L.entry[x].available = S.entry[x].available \/ L.entry[x].available
          BY <2>2, <4>1
      <4> QED BY <4>2, <4>3
    <3> QED BY <3>1
  <2> QED BY <2>2, <2>4, <2>5, <2>6
<1> QED BY <1>2, <1>3

-----------------------------------------------------------------------------
(* The steps                                                               *)

Records == [up : BOOLEAN, dev : Devices \cup {None}, hass : 0..MaxConn,
            sub : Devices \cup {None}, conn : 0..MaxConn]
Serving(d) == up /\ d \in known

\* From S to T every feed does what SharedStream allows.
Streams(S, T) ==
    \A d \in Devices :
        \/ Rewatched(S, T, d)
        \/ /\ T.entry[d].on = S.entry[d].on /\ FeedOf(S, d) = "seeking"
           /\ FeedOf(T, d) = "held" \/ (FeedOf(T, d) = "parked" /\ ~Serving(d))

\* From S to T no live entry goes offline while the open of a call fails.
Healthy(S, T) ==
    \A d \in Devices : S.entry[d].ws # None /\ S.entry[d].available /\ ~T.entry[d].available =>
        \A k \in Calls : S.call[k].st = "asked" => T.call[k].st # "free"

\* What a step needs of the state it starts from.
LEMMA NowFacts ==
    ASSUME IInv
    PROVE  /\ Good(Now, conn, {}) /\ Base(Now, conn, {}) /\ Now \in State
           /\ Now.entry = entry /\ Now.call = call /\ Now.armed = armed
           /\ entry \in [Devices -> Entry] /\ call \in [Calls -> Request]
           /\ armed \in [Timers -> Devices \cup {None}]
           /\ conn \in 1..MaxConn /\ conn \in Nat
           /\ up \in BOOLEAN /\ known \subseteq Devices /\ shows \in Dashboards
           /\ card \in [Cards -> Records] /\ CardsOK
BY StoreAssumption
   DEF IInv, Good, Now, StoreTypeOK, State, Entry, Request, Records

\* A state that is reached with the rest of the variables well typed.
LEMMA Reached ==
    ASSUME NEW T, Becomes(T), Good(T, conn', {}), conn' \in 1..MaxConn, up' \in BOOLEAN,
           known' \subseteq Devices, shows' \in Dashboards, card' \in [Cards -> Records], CardsOK'
    PROVE  IInv' /\ Now' = T
<1>1. Now' = [entry |-> T.entry, call |-> T.call, armed |-> T.armed] BY DEF Now, Becomes
<1>2. T \in State BY DEF Good, Base
<1>3. Now' = T BY <1>1, <1>2 DEF State
<1>4. /\ entry' \in [Devices -> Entry] /\ call' \in [Calls -> Request]
      /\ armed' \in [Timers -> Devices \cup {None}] /\ entry' = T.entry
    BY <1>2 DEF Becomes, State
<1>5. \A d \in Devices : entry'[d].on # {} => entry'[d].conn # 0 BY <1>4 DEF Good, Sound
<1>6. StoreTypeOK' BY <1>4, <1>5 DEF StoreTypeOK, Entry, Request, Records
<1> QED BY <1>3, <1>6 DEF IInv

\* A step of the store alone.
LEMMA StoreStep ==
    ASSUME IInv, NEW T, Becomes(T), Good(T, conn, {}), UNCHANGED <<conn, up, known, shows, card>>
    PROVE  IInv' /\ Now' = T
<1>1. CardsOK' BY NowFacts DEF CardsOK
<1> QED BY <1>1, NowFacts, Reached

\* A card goes on as record r, subscribed to its device.
LEMMA SubscribedStep ==
    ASSUME IInv, NEW c \in Cards, NEW r \in Records, r.dev \in Devices, r.hass = conn,
           Subscribed(c, r)
    PROVE  IInv' /\ Streams(Now, Now') /\ Healthy(Now, Now')
<1> DEFINE T == Ensure(Now, r, c)
           q == [r EXCEPT !.sub = r.dev, !.conn = r.hass]
<1>1. FreeCalls # {} /\ Becomes(T) /\ card' = [card EXCEPT ![c] = q]
      /\ UNCHANGED <<conn, up, known, shows>>
    BY DEF Subscribed
<1>2. r.sub \in Devices \cup {None} /\ r.hass \in 1..conn BY NowFacts DEF Records
<1>3. \E k \in Calls : Now.call[k].st = "free" BY <1>1, NowFacts DEF FreeCalls
<1>4. q \in Records /\ q.dev = r.dev /\ q.sub = r.dev BY DEF Records
<1> HIDE DEF q
<1>5. /\ Good(T, conn, {})
      /\ \A x \in Devices : /\ Rewatched(Now, T, x)
                            /\ T.entry[x].available = Now.entry[x].available
                               \/ T.entry[x].available
      /\ \A k \in Calls : Now.call[k].st = "asked" => T.call[k].st = "asked"
    BY <1>2, <1>3, NowFacts, EnsureGood
<1> HIDE DEF T
<1>6. card' \in [Cards -> Records] /\ CardsOK' BY <1>1, <1>4, NowFacts DEF CardsOK
<1>7. IInv' /\ Now' = T BY <1>1, <1>5, <1>6, NowFacts, Reached
<1> QED BY <1>5, <1>7 DEF Streams, Healthy

\* The three ways a card subscribes.
LEMMA CardSteps ==
    ASSUME IInv, NEW c \in Cards, NEW d \in Devices, Mount(c, d) \/ SetConfig(c, d) \/ SetHass(c)
    PROVE  IInv' /\ Streams(Now, Now') /\ Healthy(Now, Now')
<1>1. card[c] \in Records /\ conn \in 0..MaxConn BY NowFacts
<1>2. CASE Mount(c, d)
  <2> DEFINE r == [card[c] EXCEPT !.up = TRUE, !.dev = d, !.hass = conn]
  <2>1. r \in Records /\ r.dev = d /\ r.hass = conn BY <1>1 DEF Records
  <2>2. Subscribed(c, r) BY <1>2 DEF Mount
  <2> HIDE DEF r
  <2> QED BY <2>1, <2>2, SubscribedStep
<1>3. CASE SetConfig(c, d)
  <2> DEFINE r == [card[c] EXCEPT !.dev = d]
  <2>1. r \in Records /\ r.dev = d /\ r.hass = conn BY <1>1, <1>3 DEF Records, SetConfig
  <2>2. Subscribed(c, r) BY <1>3 DEF SetConfig
  <2> HIDE DEF r
  <2> QED BY <2>1, <2>2, SubscribedStep
<1>4. CASE SetHass(c)
  <2> DEFINE r == [card[c] EXCEPT !.hass = conn]
  <2>1. r \in Records /\ r.dev \in Devices /\ r.hass = conn
      BY <1>1, <1>4, NowFacts DEF Records, SetHass
  <2>2. Subscribed(c, r) BY <1>4 DEF SetHass
  <2> HIDE DEF r
  <2> QED BY <2>1, <2>2, SubscribedStep
<1> QED BY <1>2, <1>3, <1>4

\* A card leaves the page.
LEMMA UnmountStep ==
    ASSUME IInv, NEW c \in Cards, Unmount(c)
    PROVE  IInv' /\ Streams(Now, Now') /\ Healthy(Now, Now')
<1> DEFINE d == card[c].sub
           q == [card[c] EXCEPT !.up = FALSE, !.sub = None, !.conn = 0]
           T == Leave(Now, c, d)
<1>1. /\ card[c].up /\ Becomes(T) /\ card' = [card EXCEPT ![c] = q]
      /\ UNCHANGED <<conn, up, known, shows>>
    BY DEF Unmount
<1>2. d \in Devices BY <1>1, NowFacts DEF CardsOK
<1>3. q \in Records /\ ~q.up
  <2>1. 0 \in 0..MaxConn BY StoreAssumption
  <2> QED BY <2>1, NowFacts DEF Records
<1> HIDE DEF d, q
<1>4. /\ Good(T, conn, {})
      /\ \A x \in Devices \ {d} : T.entry[x] = Now.entry[x]
      /\ T.entry[d].on = Now.entry[d].on \ {c}
      /\ \/ T.entry[d].on = {}
         \/ /\ T.entry[d].ws = Now.entry[d].ws /\ T.entry[d].opening = Now.entry[d].opening
            /\ T.entry[d].timer = Now.entry[d].timer
      /\ T.entry[d].available = Now.entry[d].available \/ T.entry[d].available
  <2>1. T = Leave(Now, c, d) OBVIOUS
  <2> HIDE DEF T
  <2> QED BY <1>2, <2>1, NowFacts, LeaveGood
<1> HIDE DEF T
<1>5. card' \in [Cards -> Records] /\ CardsOK' BY <1>1, <1>3, NowFacts DEF CardsOK
<1>6. IInv' /\ Now' = T BY <1>1, <1>4, <1>5, NowFacts, Reached
<1>7. Healthy(Now, T) BY <1>4 DEF Healthy
<1>8. Rewatched(Now, T, d) BY <1>4 DEF Rewatched, FeedOf
<1>9. \A x \in Devices \ {d} : Rewatched(Now, T, x) BY <1>4 DEF Rewatched, FeedOf
<1> QED BY <1>6, <1>7, <1>8, <1>9 DEF Streams

\* The backoff is over.
LEMMA TimerFiresStep ==
    ASSUME IInv, NEW t \in Timers, TimerFires(t)
    PROVE  IInv' /\ Streams(Now, Now') /\ Healthy(Now, Now')
<1> DEFINE d == armed[t]
           S == ClearTimer(Now, d)
           T == OpenWs(S, d, entry[d].conn)
<1>1. d \in Devices /\ entry[d].timer = t /\ t # None
    BY NowFacts, StoreAssumption DEF TimerFires, Base
<1>2. S = [Now EXCEPT !.armed[t] = None, !.entry[d].timer = None]
    BY <1>1, NowFacts DEF ClearTimer
<1>3. Becomes(T) /\ UNCHANGED <<conn, up, known, shows, card>> /\ FreeCalls # {}
    BY <1>2 DEF TimerFires
<1> HIDE DEF d
<1>4. entry[d].ws = None /\ entry[d].opening = None /\ entry[d].on # {}
    BY <1>1, NowFacts, StoreAssumption DEF Base, Good, Sound, Idle
<1>5. /\ Base(S, conn, {}) /\ Same(Now, S, d) /\ Idle(S, d) /\ S.call = Now.call
  <2>1. /\ Base(S, conn, {}) /\ Same(Now, S, d) /\ S.call = Now.call
        /\ S.entry[d].timer = None
        /\ S.entry[d].ws = Now.entry[d].ws /\ S.entry[d].opening = Now.entry[d].opening
      BY <1>1, NowFacts, ClearTimerBase
  <2> QED BY <1>4, <2>1, NowFacts DEF Idle
<1> HIDE DEF S
<1>6. \E k \in Calls : S.call[k].st = "free" BY <1>3, <1>5, NowFacts DEF FreeCalls
<1>7. entry[d].conn \in 0..MaxConn /\ entry[d].conn <= conn /\ entry[d].conn # 0
    BY <1>1, <1>4, NowFacts DEF Base, Entry, Good, Sound
<1>8. /\ Base(T, conn, {})
      /\ \A x \in Devices \ {d} : T.entry[x] = S.entry[x]
      /\ T.entry[d].on = S.entry[d].on /\ T.entry[d].conn = entry[d].conn
      /\ T.entry[d].available = S.entry[d].available
      /\ T.entry[d].ws = None /\ T.entry[d].opening # None
      /\ \A j \in Calls : S.call[j].st = "asked" => T.call[j].st = "asked"
    BY <1>1, <1>5, <1>6, <1>7, NowFacts, OpenWsBase
<1> HIDE DEF T
<1>9. /\ \A x \in Devices \ {d} : T.entry[x] = entry[x]
      /\ T.entry[d].on = entry[d].on /\ T.entry[d].available = entry[d].available
    BY <1>5, <1>8, NowFacts DEF Same
<1>10. \A x \in Devices : Sound(T, x)
    BY <1>4, <1>7, <1>8, <1>9, NowFacts DEF Good, Sound, Idle
<1>11. IInv' /\ Now' = T BY <1>3, <1>8, <1>10, StoreStep DEF Good
<1>12. Healthy(Now, T) BY <1>9, NowFacts DEF Healthy
<1>13. Streams(Now, T)
    BY <1>1, <1>4, <1>8, <1>9, NowFacts DEF Streams, Rewatched, FeedOf
<1> QED BY <1>11, <1>12, <1>13

\* A subscribe call resolves.
LEMMA ResolveStep ==
    ASSUME IInv, NEW k \in Calls, Resolve(k)
    PROVE  IInv' /\ Streams(Now, Now') /\ Healthy(Now, Now')
<1>1. call[k].st = "granted" /\ UNCHANGED <<conn, up, known, shows, card>> BY DEF Resolve
<1>2. call[k] \in Request /\ call[k].dev \in Devices BY <1>1, NowFacts DEF Base
<1>3. k # None BY StoreAssumption
<1>4. CASE Current(k)
  <2> DEFINE d == call[k].dev
             T == [Now EXCEPT !.call[k].st = "open",
                              !.entry[d] = [@ EXCEPT !.ws = k, !.opening = None]]
             q == [call[k] EXCEPT !.st = "open"]
             e == [entry[d] EXCEPT !.ws = k, !.opening = None]
  <2>1. Becomes(T) BY <1>4 DEF Resolve
  <2>2. d \in Devices /\ entry[d].opening = k /\ call[k].mine BY <1>2, <1>4 DEF Current
  <2> HIDE DEF d
  <2>3. T.armed = armed /\ T.entry = [entry EXCEPT ![d] = e] /\ T.call = [call EXCEPT ![k] = q]
        /\ T = [entry |-> T.entry, call |-> T.call, armed |-> T.armed]
    <3>1. e = [Now.entry[d] EXCEPT !.ws = k, !.opening = None] BY NowFacts
    <3>2. q = [Now.call[k] EXCEPT !.st = "open"] BY NowFacts
    <3>3. T = [Now EXCEPT !.call[k] = q, !.entry[d] = e] BY <3>1, <3>2
    <3> HIDE DEF T, e, q
    <3> QED BY <3>3 DEF Now
  <2>4. /\ e \in Entry /\ e.ws = k /\ e.opening = None /\ e.timer = entry[d].timer
        /\ e.on = entry[d].on /\ e.conn = entry[d].conn /\ e.dead = entry[d].dead
        /\ e.available = entry[d].available
    <3>1. entry[d] \in Entry BY <2>2, NowFacts
    <3>2. e = [[entry[d] EXCEPT !.ws = k] EXCEPT !.opening = None] OBVIOUS
    <3> QED BY <3>1, <3>2 DEF Entry
  <2>5. /\ q \in Request /\ q.st = "open" /\ q.dev = d /\ q.mine = call[k].mine
        /\ q.conn = call[k].conn /\ q.back = call[k].back /\ q.closing = call[k].closing
      BY <1>2 DEF Request, d
  <2> HIDE DEF T, e, q
  <2>6. T.entry[d] = e /\ \A x \in Devices \ {d} : T.entry[x] = entry[x]
      BY <2>2, <2>3, NowFacts
  <2>7. T.call[k] = q /\ \A j \in Calls \ {k} : T.call[j] = call[j] BY <2>3, NowFacts
  <2>8. T \in State BY <2>3, <2>4, <2>5, NowFacts DEF State
  <2>9. /\ entry[d].ws = None /\ entry[d].timer = None /\ ~entry[d].dead /\ entry[d].on # {}
        /\ \A x \in Devices \ {d} : entry[x].ws # k /\ entry[x].opening # k
        /\ Heard(Now, k, conn, {}) /\ call[k].dev = d /\ call[k].conn <= conn
        /\ \A j \in Calls : call[j].st = "open" => call[j].dev # d
      BY <1>1, <1>3, <2>2, NowFacts, StoreAssumption DEF Base, Good, Sound, Idle
  <2>10. Base(T, conn, {})
    <3>1. ASSUME NEW x \in Devices, NEW j \in Calls
          PROVE  /\ T.entry[x].ws = j => /\ T.call[j].st = "open" /\ T.call[j].dev = x
                                         /\ T.call[j].mine /\ Heard(T, j, conn, {})
                 /\ T.entry[x].opening = j =>
                      /\ T.call[j].st \in {"asked", "granted"} /\ T.call[j].dev = x
                      /\ T.call[j].mine
                      /\ T.call[j].st = "granted" => Heard(T, j, conn, {})
      <4>1. CASE x = d
        <5>1. T.entry[x].ws = k /\ T.entry[x].opening # j
            BY <2>4, <2>6, <4>1, StoreAssumption
        <5>2. T.call[k].st = "open" /\ T.call[k].dev = x /\ T.call[k].mine
            BY <2>2, <2>5, <2>7, <2>9, <4>1
        <5>3. Heard(T, k, conn, {}) BY <2>5, <2>7, <2>9, NowFacts DEF Heard
        <5> QED BY <5>1, <5>2, <5>3
      <4>2. CASE x # d BY <2>6, <2>7, <2>9, <4>2, NowFacts DEF Base, Heard
      <4> QED BY <4>1, <4>2
    <3>2. \A j \in Calls : /\ T.call[j].st # "free" => T.call[j].dev \in Devices
                           /\ T.call[j].st = "open" => T.entry[T.call[j].dev].ws = j
                           /\ T.call[j].conn <= conn
      <4>1. ASSUME NEW j \in Calls
            PROVE  /\ T.call[j].st # "free" => T.call[j].dev \in Devices
                   /\ T.call[j].st = "open" => T.entry[T.call[j].dev].ws = j
                   /\ T.call[j].conn <= conn
        <5>1. CASE j = k BY <2>2, <2>4, <2>5, <2>6, <2>7, <2>9, <5>1
        <5>2. CASE j # k BY <2>6, <2>7, <2>9, <5>2, NowFacts DEF Base
        <5> QED BY <5>1, <5>2
      <4> QED BY <4>1
    <3>3. \A x \in Devices, t \in Timers : T.entry[x].timer = t <=> T.armed[t] = x
        BY <2>3, <2>4, <2>6, NowFacts DEF Base
    <3>4. \A x \in Devices : /\ T.entry[x].ws # None => T.entry[x].opening = None
                             /\ T.entry[x].ws # None => T.entry[x].timer = None
                             /\ T.entry[x].opening # None => T.entry[x].timer = None
                             /\ T.entry[x].dead => T.entry[x].ws = None /\ T.entry[x].opening = None
                             /\ T.entry[x].conn <= conn
        BY <2>4, <2>6, <2>9, NowFacts DEF Base
    <3> QED BY <2>8, <3>1, <3>2, <3>3, <3>4 DEF Base
  <2>11. \A x \in Devices : Sound(T, x)
      BY <1>3, <2>4, <2>6, <2>9, NowFacts DEF Good, Sound, Idle
  <2>12. IInv' /\ Now' = T BY <1>1, <2>1, <2>10, <2>11, StoreStep DEF Good
  <2>13. Healthy(Now, T) BY <2>4, <2>6, NowFacts DEF Healthy
  <2>14. Streams(Now, T)
      BY <1>3, <2>2, <2>4, <2>6, <2>9, NowFacts DEF Streams, Rewatched, FeedOf
  <2> QED BY <2>12, <2>13, <2>14
<1>5. CASE ~Current(k)
  <2> DEFINE T == Unsub(Now, k)
             q == [call[k] EXCEPT !.st = "leaving"]
  <2>1. Becomes(T) BY <1>5 DEF Resolve
  <2>2. T.armed = armed /\ T.entry = entry /\ T.call = [call EXCEPT ![k] = q]
        /\ T = [entry |-> T.entry, call |-> T.call, armed |-> T.armed]
    <3>1. T = [entry |-> entry, call |-> [call EXCEPT ![k] = q], armed |-> armed]
        BY NowFacts DEF Unsub, Now
    <3> HIDE DEF q
    <3> QED BY <3>1
  <2>3. /\ q \in Request /\ q.st = "leaving" /\ q.dev = call[k].dev /\ q.conn = call[k].conn
      BY <1>2 DEF Request
  <2> HIDE DEF T, q
  <2>4. T.call[k] = q /\ \A j \in Calls \ {k} : T.call[j] = call[j] BY <2>2, NowFacts
  <2>5. T \in State BY <2>2, <2>3, NowFacts DEF State
  <2>6. \A x \in Devices : entry[x].ws # k /\ entry[x].opening # k
      BY <1>1, <1>5, NowFacts DEF Base, Current
  <2>7. Base(T, conn, {})
    <3>1. \A x \in Devices, j \in Calls :
             entry[x].ws = j \/ entry[x].opening = j => T.call[j] = call[j]
        BY <2>4, <2>6
    <3> QED BY <1>2, <2>2, <2>3, <2>4, <2>5, <3>1, NowFacts DEF Base, Heard
  <2>8. \A x \in Devices : Sound(T, x) BY <2>2, NowFacts DEF Good, Sound, Idle
  <2>9. IInv' /\ Now' = T BY <1>1, <2>1, <2>7, <2>8, StoreStep DEF Good
  <2>10. Healthy(Now, T) /\ Streams(Now, T)
      BY <2>2, NowFacts DEF Healthy, Streams, Rewatched, FeedOf
  <2> QED BY <2>9, <2>10
<1> QED BY <1>4, <1>5

\* What happens to the calls alone, between connections n and m: calls that no
\* entry names may go, those of an entry stay its own.
LEMMA CallsGood ==
    ASSUME NEW S, NEW n \in Nat, NEW X, Good(S, n, X), NEW m \in Nat, n <= m, NEW Y,
           NEW T \in State, T.entry = S.entry, T.armed = S.armed,
           \A k \in Calls : /\ T.call[k].conn <= m
                            /\ T.call[k].st # "free" => T.call[k].dev \in Devices
                            /\ T.call[k].st = "open" =>
                                  S.call[k].st = "open" /\ T.call[k].dev = S.call[k].dev,
           \A k \in Calls, d \in Devices : S.entry[d].ws = k \/ S.entry[d].opening = k =>
              /\ T.call[k].dev = S.call[k].dev /\ T.call[k].mine = S.call[k].mine
              /\ S.call[k].st = "open" => T.call[k].st = "open"
              /\ S.call[k].st \in {"asked", "granted"} => T.call[k].st \in {"asked", "granted"}
              /\ T.call[k].st # "asked" => Heard(T, k, m, Y)
    PROVE  Good(T, m, Y)
<1>1. Base(S, n, X) BY DEF Good
<1>2. ASSUME NEW d \in Devices, NEW k \in Calls
      PROVE  /\ T.entry[d].ws = k => /\ T.call[k].st = "open" /\ T.call[k].dev = d
                                     /\ T.call[k].mine /\ Heard(T, k, m, Y)
             /\ T.entry[d].opening = k =>
                  /\ T.call[k].st \in {"asked", "granted"} /\ T.call[k].dev = d
                  /\ T.call[k].mine
                  /\ T.call[k].st = "granted" => Heard(T, k, m, Y)
  <2>1. ASSUME S.entry[d].ws = k
        PROVE  /\ T.call[k].st = "open" /\ T.call[k].dev = d
               /\ T.call[k].mine /\ Heard(T, k, m, Y)
      BY <1>1, <2>1 DEF Base
  <2>2. ASSUME S.entry[d].opening = k
        PROVE  /\ T.call[k].st \in {"asked", "granted"} /\ T.call[k].dev = d
               /\ T.call[k].mine
               /\ T.call[k].st = "granted" => Heard(T, k, m, Y)
      BY <1>1, <2>2 DEF Base
  <2> QED BY <2>1, <2>2
<1>3. \A k \in Calls : T.call[k].st = "open" => T.entry[T.call[k].dev].ws = k
    BY <1>1 DEF Base
<1>4. \A d \in Devices : S.entry[d].conn \in Nat /\ S.entry[d].conn <= n
    BY <1>1, StoreAssumption DEF Base, State, Entry
<1>5. \A d \in Devices : S.entry[d].conn <= m BY <1>4
<1>6. Base(T, m, Y) BY <1>1, <1>2, <1>3, <1>5 DEF Base
<1>7. \A d \in Devices : Sound(T, d) BY DEF Good, Sound, Idle
<1> QED BY <1>6, <1>7 DEF Good

\* The same for the state after a step, spelled out on the variables.
LEMMA CallsTo ==
    ASSUME IInv, call' \in [Calls -> Request], UNCHANGED <<entry, armed>>,
           conn' \in Nat, conn <= conn',
           \A k \in Calls : /\ call'[k].conn <= conn'
                            /\ call'[k].st # "free" => call'[k].dev \in Devices
                            /\ call'[k].st = "open" =>
                                  call[k].st = "open" /\ call'[k].dev = call[k].dev,
           \A k \in Calls, d \in Devices : entry[d].ws = k \/ entry[d].opening = k =>
              /\ call'[k].dev = call[k].dev /\ call'[k].mine = call[k].mine
              /\ call[k].st = "open" => call'[k].st = "open"
              /\ call[k].st \in {"asked", "granted"} => call'[k].st \in {"asked", "granted"}
              /\ call'[k].st # "asked" =>
                    call'[k].back \/ call'[k].closing \/ call'[k].conn # conn'
    PROVE  Good(Now', conn', {})
<1>1. PICK T : T = Now' OBVIOUS
<1>2. T \in State /\ T.call = call' /\ T.entry = Now.entry /\ T.armed = Now.armed
    BY <1>1, NowFacts DEF Now, State
<1>3. \A k \in Calls : /\ T.call[k].conn <= conn'
                       /\ T.call[k].st # "free" => T.call[k].dev \in Devices
                       /\ T.call[k].st = "open" =>
                             Now.call[k].st = "open" /\ T.call[k].dev = Now.call[k].dev
    BY <1>2, NowFacts
<1>4. \A k \in Calls, d \in Devices : Now.entry[d].ws = k \/ Now.entry[d].opening = k =>
         /\ T.call[k].dev = Now.call[k].dev /\ T.call[k].mine = Now.call[k].mine
         /\ Now.call[k].st = "open" => T.call[k].st = "open"
         /\ Now.call[k].st \in {"asked", "granted"} => T.call[k].st \in {"asked", "granted"}
         /\ T.call[k].st # "asked" => Heard(T, k, conn', {})
    BY <1>2, NowFacts DEF Heard
<1>5. Good(T, conn', {})
  <2>1. Good(Now, conn, {}) /\ conn \in Nat BY NowFacts
  <2>2. T \in State /\ T.entry = Now.entry /\ T.armed = Now.armed BY <1>2, NowFacts
  <2>3. conn' \in Nat /\ conn <= conn' BY <1>2, NowFacts
  <2> QED BY <1>3, <1>4, <2>1, <2>2, <2>3, CallsGood
<1> QED BY <1>1, <1>5

\* A step in which nothing but calls and the backend change.
LEMMA CallsStep ==
    ASSUME IInv, UNCHANGED <<shows, card, entry, armed>>, Good(Now', conn', {}),
           conn' \in 1..MaxConn, up' \in BOOLEAN, known' \subseteq Devices
    PROVE  IInv' /\ Streams(Now, Now') /\ Healthy(Now, Now')
<1>1. Becomes(Now') BY DEF Becomes, Now
<1>2. CardsOK' BY NowFacts DEF CardsOK
<1>3. IInv' BY <1>1, <1>2, NowFacts, Reached
<1>4. Now'.entry = Now.entry BY DEF Now
<1> QED BY <1>3, <1>4 DEF Streams, Healthy, Rewatched, FeedOf

\* A call that no entry names is over.
LEMMA FreedStep ==
    ASSUME IInv, NEW k \in Calls, \A d \in Devices : entry[d].ws # k /\ entry[d].opening # k,
           call' = [call EXCEPT ![k] = NoCall],
           UNCHANGED <<conn, up, known, shows, card, entry, armed>>
    PROVE  IInv' /\ Streams(Now, Now') /\ Healthy(Now, Now')
<1>1. NoCall \in Request /\ NoCall.st = "free" /\ NoCall.conn = 0
  <2>1. 0 \in 0..MaxConn BY StoreAssumption
  <2> QED BY <2>1 DEF NoCall, Request
<1>2. call' \in [Calls -> Request] /\ call'[k] = NoCall
      /\ \A j \in Calls \ {k} : call'[j] = call[j]
    BY <1>1, NowFacts
<1>3. \A j \in Calls, d \in Devices : entry[d].ws = j \/ entry[d].opening = j =>
         /\ call'[j] = call[j]
         /\ call'[j].st # "asked" => call'[j].back \/ call'[j].closing \/ call'[j].conn # conn
  <2>1. ASSUME NEW j \in Calls, NEW d \in Devices, entry[d].ws = j \/ entry[d].opening = j
        PROVE  /\ call'[j] = call[j]
               /\ call'[j].st # "asked" =>
                     call'[j].back \/ call'[j].closing \/ call'[j].conn # conn
    <3>1. call'[j] = call[j] BY <1>2, <2>1
    <3>2. call[j].st # "asked" => Heard(Now, j, conn, {}) BY <2>1, NowFacts DEF Base
    <3> QED BY <3>1, <3>2, NowFacts DEF Heard
  <2> QED BY <2>1
<1>4. \A j \in Calls : /\ call'[j].conn <= conn
                       /\ call'[j].st # "free" => call'[j].dev \in Devices
                       /\ call'[j].st = "open" => call[j].st = "open" /\ call'[j].dev = call[j].dev
  <2>1. \A j \in Calls : call[j].conn <= conn /\ (call[j].st # "free" => call[j].dev \in Devices)
      BY NowFacts DEF Base
  <2> QED BY <1>1, <1>2, <2>1, NowFacts
<1>5. conn' = conn /\ conn' \in Nat /\ conn <= conn' BY NowFacts
<1>6. Good(Now', conn', {}) BY <1>2, <1>3, <1>4, <1>5, CallsTo
<1> QED BY <1>6, NowFacts, CallsStep

\* The backend's answers and the connection.
LEMMA ExternalSteps ==
    ASSUME IInv,
           \/ \E k \in Calls : Grant(k) \/ Unsubscribed(k)
           \/ Unload \/ Load \/ SwapConnection
           \/ \E d \in Devices : RemoveDevice(d) \/ AddDevice(d)
    PROVE  IInv' /\ Streams(Now, Now') /\ Healthy(Now, Now')
<1>1. Base(Now, conn, {}) /\ Good(Now, conn, {}) /\ conn \in Nat /\ call \in [Calls -> Request]
      /\ Now.call = call /\ Now.entry = entry /\ Now.armed = armed
    BY NowFacts
<1>4. \A k \in Calls : /\ call[k] \in Request /\ call[k].conn <= conn
                       /\ call[k].st # "free" => call[k].dev \in Devices
    BY <1>1 DEF Base
<1>5. ASSUME NEW k \in Calls, Grant(k)
      PROVE  IInv' /\ Streams(Now, Now') /\ Healthy(Now, Now')
  <2> DEFINE q == [call[k] EXCEPT !.st = "granted", !.back = TRUE]
  <2>1. call[k].st = "asked" /\ call' = [call EXCEPT ![k] = q]
        /\ UNCHANGED <<conn, up, known, shows, card, entry, armed>>
      BY <1>5 DEF Grant
  <2>2. q \in Request /\ q.st = "granted" /\ q.back /\ q.dev = call[k].dev
        /\ q.mine = call[k].mine /\ q.conn = call[k].conn
      BY <1>4 DEF Request
  <2> HIDE DEF q
  <2>3. call' \in [Calls -> Request] /\ call'[k] = q /\ \A j \in Calls \ {k} : call'[j] = call[j]
      BY <1>1, <2>1, <2>2
  <2>4. \A j \in Calls, d \in Devices : entry[d].ws = j \/ entry[d].opening = j =>
           /\ call'[j].dev = call[j].dev /\ call'[j].mine = call[j].mine
           /\ call[j].st = "open" => call'[j].st = "open"
           /\ call[j].st \in {"asked", "granted"} => call'[j].st \in {"asked", "granted"}
           /\ call'[j].st # "asked" => (call'[j].back \/ call'[j].closing \/ call'[j].conn # conn)
    <3>1. ASSUME NEW j \in Calls, NEW d \in Devices, entry[d].ws = j \/ entry[d].opening = j
          PROVE  /\ call'[j].dev = call[j].dev /\ call'[j].mine = call[j].mine
                 /\ call[j].st = "open" => call'[j].st = "open"
                 /\ call[j].st \in {"asked", "granted"} => call'[j].st \in {"asked", "granted"}
                 /\ call'[j].st # "asked" => (call'[j].back \/ call'[j].closing \/ call'[j].conn # conn)
      <4>2. CASE j = k BY <2>1, <2>2, <2>3, <4>2 DEF Heard
      <4>3. CASE j # k
        <5>1. call'[j] = call[j] BY <2>3, <4>3
        <5>2. call[j].st # "asked" => Heard(Now, j, conn, {}) BY <1>1, <3>1 DEF Base
        <5> QED BY <1>1, <5>1, <5>2 DEF Heard
      <4> QED BY <4>2, <4>3
    <3> QED BY <3>1
  <2>5. \A j \in Calls : /\ call'[j].conn <= conn
                         /\ call'[j].st # "free" => call'[j].dev \in Devices
                         /\ call'[j].st = "open" => call[j].st = "open" /\ call'[j].dev = call[j].dev
      BY <1>4, <2>1, <2>2, <2>3
  <2>6. Good(Now', conn', {}) BY <1>1, <2>1, <2>3, <2>4, <2>5, CallsTo
  <2> QED BY <2>1, <2>6, NowFacts, CallsStep
<1>6. ASSUME NEW k \in Calls, Unsubscribed(k)
      PROVE  IInv' /\ Streams(Now, Now') /\ Healthy(Now, Now')
  <2>1. call[k].st = "leaving" /\ call' = [call EXCEPT ![k] = NoCall]
        /\ UNCHANGED <<conn, up, known, shows, card, entry, armed>>
      BY <1>6 DEF Unsubscribed
  <2>2. \A d \in Devices : entry[d].ws # k /\ entry[d].opening # k BY <1>1, <2>1 DEF Base
  <2> QED BY <2>1, <2>2, FreedStep
<1>7. ASSUME NEW K \in SUBSET Calls, K \subseteq {k \in Calls : call[k].back}, Close(K),
             UNCHANGED <<conn, shows, card, entry, armed>>, up' \in BOOLEAN, known' \subseteq Devices
      PROVE  IInv' /\ Streams(Now, Now') /\ Healthy(Now, Now')
  <2>1. ASSUME NEW k \in Calls
        PROVE  /\ call'[k] \in Request /\ call'[k].st = call[k].st /\ call'[k].dev = call[k].dev
               /\ call'[k].mine = call[k].mine /\ call'[k].conn = call[k].conn
               /\ call[k].back \/ call[k].closing => call'[k].back \/ call'[k].closing
    <3> DEFINE q == [call[k] EXCEPT !.back = FALSE, !.closing = TRUE]
    <3>1. q \in Request /\ q.st = call[k].st /\ q.dev = call[k].dev /\ q.mine = call[k].mine
          /\ q.conn = call[k].conn /\ q.closing
        BY <1>4 DEF Request
    <3>2. call'[k] = IF k \in K THEN q ELSE call[k] BY <1>7 DEF Close
    <3> HIDE DEF q
    <3> QED BY <1>4, <3>1, <3>2
  <2>2. call' \in [Calls -> Request]
    <3>1. call' = [k \in Calls |-> call'[k]] BY <1>7 DEF Close
    <3> QED BY <2>1, <3>1
  <2>3. \A j \in Calls, d \in Devices : entry[d].ws = j \/ entry[d].opening = j =>
           (call'[j].st # "asked" => (call'[j].back \/ call'[j].closing \/ call'[j].conn # conn))
    <3>1. ASSUME NEW j \in Calls, NEW d \in Devices, entry[d].ws = j \/ entry[d].opening = j,
                 call'[j].st # "asked"
          PROVE  (call'[j].back \/ call'[j].closing \/ call'[j].conn # conn)
      <4>2. Heard(Now, j, conn, {}) BY <1>1, <2>1, <3>1 DEF Base
      <4> QED BY <1>1, <2>1, <4>2 DEF Heard
    <3> QED BY <3>1
  <2>4. Good(Now', conn', {}) BY <1>1, <1>4, <1>7, <2>1, <2>2, <2>3, CallsTo
  <2> QED BY <1>7, <2>4, NowFacts, CallsStep
<1>8. CASE Unload BY <1>7, <1>8, NowFacts DEF Unload
<1>9. ASSUME NEW d \in Devices, RemoveDevice(d)
      PROVE  IInv' /\ Streams(Now, Now') /\ Healthy(Now, Now')
    BY <1>7, <1>9, NowFacts DEF RemoveDevice
<1>10. CASE Load \/ \E d \in Devices : AddDevice(d)
  <2>1. UNCHANGED <<conn, shows, card, entry, call, armed>> /\ up' \in BOOLEAN /\ known' \subseteq Devices
      BY <1>10, NowFacts DEF Load, AddDevice
  <2>2. Now' = Now BY <2>1 DEF Now
  <2> QED BY <1>1, <2>1, <2>2, NowFacts, CallsStep
<1>11. CASE SwapConnection
  <2>1. conn' = conn + 1 /\ conn' \in 1..MaxConn /\ conn' \in Nat
        /\ UNCHANGED <<up, known, shows, card, entry, armed>>
    <3>1. conn \in 1..MaxConn /\ MaxConn \in Nat BY NowFacts, StoreAssumption
    <3>2. conn < MaxConn /\ conn' = conn + 1 /\ UNCHANGED <<up, known, shows, card, entry, armed>>
        BY <1>11 DEF SwapConnection
    <3> QED BY <3>1, <3>2
  <2>2. ASSUME NEW k \in Calls
        PROVE  /\ call'[k] \in Request /\ call'[k].st = call[k].st /\ call'[k].dev = call[k].dev
               /\ call'[k].mine = call[k].mine /\ call'[k].conn = call[k].conn
               /\ call'[k].conn <= conn' /\ call'[k].conn # conn'
    <3> DEFINE q == [call[k] EXCEPT !.back = FALSE, !.closing = FALSE]
    <3>1. q \in Request /\ q.st = call[k].st /\ q.dev = call[k].dev /\ q.mine = call[k].mine
          /\ q.conn = call[k].conn
        BY <1>4 DEF Request
    <3>2. call'[k] = q BY <1>11 DEF SwapConnection
    <3>3. call[k].conn \in Nat BY <1>4, StoreAssumption DEF Request
    <3> HIDE DEF q
    <3> QED BY <1>1, <1>4, <2>1, <3>1, <3>2, <3>3
  <2>3. call' \in [Calls -> Request]
    <3>1. call' = [k \in Calls |-> call'[k]] BY <1>11 DEF SwapConnection
    <3> QED BY <2>2, <3>1
  <2>5. conn <= conn' BY <1>1, <2>1
  <2>6. Good(Now', conn', {}) BY <1>1, <1>4, <2>1, <2>2, <2>3, <2>5, CallsTo
  <2> QED BY <2>1, <2>6, NowFacts, CallsStep
<1> QED BY <1>5, <1>6, <1>8, <1>9, <1>10, <1>11
\* The reducer changes what the entry shows.
LEMMA ReduceGood ==
    ASSUME NEW S, NEW n \in Nat, NEW X, Good(S, n, X), NEW d \in Devices, NEW m,
           NEW T, T = Reduce(S, d, m)
    PROVE  /\ Good(T, n, X) /\ T.call = S.call
           /\ \A x \in Devices \ {d} : T.entry[x] = S.entry[x]
           /\ T.entry[d].on = S.entry[d].on /\ T.entry[d].ws = S.entry[d].ws
           /\ T.entry[d].opening = S.entry[d].opening /\ T.entry[d].timer = S.entry[d].timer
<1> DEFINE e == [S.entry[d] EXCEPT !.available = (m = "frame")]
<1>1. Base(S, n, X) /\ S \in State /\ S.entry[d] \in Entry BY DEF Good, Base, State
<1>2. /\ e \in Entry /\ e.on = S.entry[d].on /\ e.ws = S.entry[d].ws
      /\ e.opening = S.entry[d].opening /\ e.timer = S.entry[d].timer
      /\ e.dead = S.entry[d].dead /\ e.conn = S.entry[d].conn
    BY <1>1 DEF Entry
<1>3. T = [S EXCEPT !.entry[d] = e] BY DEF Reduce
<1> HIDE DEF e
<1>4. /\ T \in State /\ T.call = S.call /\ T.armed = S.armed
      /\ T.entry[d] = e /\ \A x \in Devices \ {d} : T.entry[x] = S.entry[x]
  <2>1. T.call = S.call /\ T.armed = S.armed /\ T.entry = [S.entry EXCEPT ![d] = e]
        /\ T = [entry |-> T.entry, call |-> T.call, armed |-> T.armed]
      BY <1>1, <1>3 DEF State
  <2> QED BY <1>1, <1>2, <2>1 DEF State
<1>5. T.entry[d].dead => T.entry[d].ws = None /\ T.entry[d].opening = None
    BY <1>1, <1>2, <1>4 DEF Base
<1>6. Base(T, n, X) BY <1>1, <1>2, <1>4, <1>5, SameWayBase
<1>7. \A x \in Devices : Sound(T, x) BY <1>2, <1>4 DEF Good, Sound, Idle
<1> QED BY <1>2, <1>4, <1>6, <1>7 DEF Good

\* A frame, or the word that the device is away.
LEMMA HearStep ==
    ASSUME IInv, NEW k \in Calls, NEW m \in {"frame", "away"}, Hear(k, m)
    PROVE  IInv' /\ Streams(Now, Now') /\ Healthy(Now, Now')
<1>1. /\ call[k].st # "free" /\ UNCHANGED <<conn, up, known, shows, card>>
      /\ Becomes(IF call[k].mine THEN Handle(Now, call[k].dev, m) ELSE Now)
    BY DEF Hear, HandleMsg
<1>2. PICK d \in Devices : d = call[k].dev BY <1>1, NowFacts DEF Base
<1>3. PICK T : T = IF call[k].mine THEN Reduce(Now, d, m) ELSE Now OBVIOUS
<1>4. Becomes(T) BY <1>1, <1>2, <1>3 DEF Handle
<1>5. /\ Good(T, conn, {}) /\ T.call = Now.call
      /\ \A x \in Devices \ {d} : T.entry[x] = Now.entry[x]
      /\ T.entry[d].on = Now.entry[d].on /\ T.entry[d].ws = Now.entry[d].ws
      /\ T.entry[d].opening = Now.entry[d].opening /\ T.entry[d].timer = Now.entry[d].timer
  <2>1. CASE call[k].mine
    <3>1. T = Reduce(Now, d, m) BY <1>3, <2>1
    <3>2. Good(Now, conn, {}) /\ conn \in Nat BY NowFacts
    <3> QED BY ONLY <3>1, <3>2, ReduceGood
  <2>2. CASE ~call[k].mine BY <1>3, <2>2, NowFacts
  <2> QED BY <2>1, <2>2
<1>6. IInv' /\ Now' = T BY <1>1, <1>4, <1>5, StoreStep
<1>7. Healthy(Now, T) BY <1>5 DEF Healthy
<1>8. \A x \in Devices : Rewatched(Now, T, x)
  <2>1. \A x \in Devices \ {d} : Rewatched(Now, T, x) BY <1>5 DEF Rewatched, FeedOf
  <2>2. Rewatched(Now, T, d) BY <1>5 DEF Rewatched, FeedOf
  <2> QED BY <2>1, <2>2
<1> QED BY <1>6, <1>7, <1>8 DEF Streams

\* The manager has closed the stream behind a call.
LEMMA HearClosedStep ==
    ASSUME IInv, NEW k \in Calls, HearClosed(k)
    PROVE  IInv' /\ Streams(Now, Now') /\ Healthy(Now, Now')
<1> DEFINE q == [call[k] EXCEPT !.closing = FALSE]
<1>1. PICK R : R = [Now EXCEPT !.call[k].closing = FALSE] OBVIOUS
<1>2. /\ call[k].st \in {"granted", "open", "leaving"}
      /\ UNCHANGED <<conn, up, known, shows, card>>
      /\ Becomes(IF call[k].mine THEN Reopen(Reduce(R, call[k].dev, "closed"), call[k].dev) ELSE R)
    BY <1>1 DEF HearClosed, HandleMsg, Handle
<1>3. PICK d \in Devices : d = call[k].dev BY <1>2, NowFacts DEF Base
<1>4. call[k] \in Request /\ q \in Request /\ q.st = call[k].st /\ q.dev = call[k].dev
      /\ q.mine = call[k].mine /\ q.conn = call[k].conn
    BY NowFacts DEF Request
<1>5. R = [Now EXCEPT !.call[k] = q] BY <1>1, NowFacts
<1> HIDE DEF q
<1>6. R.entry = entry /\ R.armed = armed /\ R.call = [call EXCEPT ![k] = q] /\ R \in State
  <2>1. R = [entry |-> entry, call |-> [call EXCEPT ![k] = q], armed |-> armed]
      BY <1>5, NowFacts DEF Now
  <2> QED BY <1>4, <2>1, NowFacts DEF State
<1>7. R.call[k] = q /\ \A j \in Calls \ {k} : R.call[j] = call[j] BY <1>6, NowFacts
<1>8. \A x \in Devices : entry[x].ws = k \/ entry[x].opening = k => x = d /\ call[k].mine
    BY <1>3, NowFacts DEF Base
<1>9. PICK Y : Y = IF call[k].mine THEN {k} ELSE {} OBVIOUS
<1>10. Good(R, conn, Y)
  <2>1. ASSUME NEW j \in Calls
        PROVE  /\ R.call[j].conn <= conn
               /\ R.call[j].st # "free" => R.call[j].dev \in Devices
               /\ R.call[j].st = Now.call[j].st /\ R.call[j].dev = Now.call[j].dev
               /\ R.call[j].mine = Now.call[j].mine
    <3>1. CASE j = k BY <1>4, <1>7, <3>1, NowFacts DEF Base
    <3>2. CASE j # k BY <1>7, <3>2, NowFacts DEF Base
    <3> QED BY <3>1, <3>2
  <2>2. ASSUME NEW j \in Calls, NEW x \in Devices,
               Now.entry[x].ws = j \/ Now.entry[x].opening = j, R.call[j].st # "asked"
        PROVE  Heard(R, j, conn, Y)
    <3>1. CASE j = k BY <1>8, <1>9, <2>2, <3>1, NowFacts DEF Heard
    <3>2. CASE j # k
      <4>0. PICK r : r = Now.call[j] OBVIOUS
      <4>1. Heard(Now, j, conn, {})
        <5>1. r.st # "asked" BY <2>1, <2>2, <4>0
        <5>2. CASE Now.entry[x].ws = j BY <5>2, NowFacts DEF Base
        <5>3. CASE Now.entry[x].opening = j
          <6>1. r.st \in {"asked", "granted"} /\ (r.st = "granted" => Heard(Now, j, conn, {}))
              BY <4>0, <5>3, NowFacts DEF Base
          <6> QED BY <5>1, <6>1
        <5> QED BY <2>2, <5>2, <5>3
      <4>2. R.call[j] = Now.call[j] BY <1>7, <3>2, NowFacts
      <4> QED BY <4>1, <4>2 DEF Heard
    <3> QED BY <3>1, <3>2
  <2>3. R.entry = Now.entry /\ R.armed = Now.armed /\ conn <= conn BY <1>6, NowFacts
  <2>4. \A j \in Calls : /\ R.call[j].conn <= conn
                         /\ R.call[j].st # "free" => R.call[j].dev \in Devices
                         /\ R.call[j].st = "open" =>
                               Now.call[j].st = "open" /\ R.call[j].dev = Now.call[j].dev
      BY <2>1
  <2>5. \A j \in Calls, x \in Devices : Now.entry[x].ws = j \/ Now.entry[x].opening = j =>
           /\ R.call[j].dev = Now.call[j].dev /\ R.call[j].mine = Now.call[j].mine
           /\ Now.call[j].st = "open" => R.call[j].st = "open"
           /\ Now.call[j].st \in {"asked", "granted"} => R.call[j].st \in {"asked", "granted"}
           /\ R.call[j].st # "asked" => Heard(R, j, conn, Y)
      BY <2>1, <2>2
  <2>6. R \in State /\ conn \in Nat /\ Good(Now, conn, {}) BY <1>6, NowFacts
  <2> QED BY <2>3, <2>4, <2>5, <2>6, CallsGood
<1>11. CASE ~call[k].mine
  <2>1. Becomes(R) /\ Good(R, conn, {}) BY <1>2, <1>9, <1>10, <1>11
  <2>2. IInv' /\ Now' = R BY <1>2, <2>1, StoreStep
  <2>3. R.entry = Now.entry BY <1>6, NowFacts
  <2> QED BY <2>2, <2>3 DEF Streams, Healthy, Rewatched, FeedOf
<1>12. CASE call[k].mine
  <2>1. PICK Q : Q = Reduce(R, d, "closed") OBVIOUS
  <2>2. PICK T : T = Reopen(Q, d) OBVIOUS
  <2>3. Becomes(T) /\ Good(R, conn, {k}) BY <1>2, <1>3, <1>9, <1>10, <1>12, <2>1, <2>2
  <2>4. /\ Good(Q, conn, {k}) /\ Q.call = R.call
        /\ \A x \in Devices \ {d} : Q.entry[x] = entry[x]
        /\ Q.entry[d].on = entry[d].on
    <3>1. conn \in Nat BY NowFacts
    <3>2. /\ Good(Q, conn, {k}) /\ Q.call = R.call
          /\ \A x \in Devices \ {d} : Q.entry[x] = R.entry[x]
          /\ Q.entry[d].on = R.entry[d].on
        BY <2>1, <2>3, <3>1, ReduceGood
    <3> QED BY <1>6, <3>2
  <2>5. /\ Good(T, conn, {k}) /\ Same(Q, T, d)
        /\ T.entry[d].ws = None /\ T.entry[d].opening = None
        /\ Q.entry[d].on # {} => T.entry[d].timer # None
    <3>1. conn \in Nat BY NowFacts
    <3> QED BY <2>2, <2>4, <3>1, ReopenGood
  <2>6. \A x \in Devices \ {d} : T.entry[x] = entry[x] BY <2>4, <2>5 DEF Same
  <2>7. \A x \in Devices : T.entry[x].ws # k /\ T.entry[x].opening # k
      BY <1>8, <2>5, <2>6, StoreAssumption
  <2>8. Good(T, conn, {})
    <3>1. \A x \in Devices, j \in Calls : T.entry[x].ws = j \/ T.entry[x].opening = j =>
             (Heard(T, j, conn, {k}) => Heard(T, j, conn, {}))
        BY <2>7 DEF Heard
    <3>2. Base(T, conn, {}) BY <2>5, <3>1 DEF Good, Base
    <3> QED BY <2>5, <3>2 DEF Good
  <2>9. IInv' /\ Now' = T BY <1>2, <2>3, <2>8, StoreStep
  <2>10. Healthy(Now, T)
    <3>1. \A j \in Calls : call[j].st = "asked" => T.call[j].st # "free"
      <4>1. \A j \in Calls : R.call[j].st = call[j].st BY <1>4, <1>7
      <4> QED BY <2>4, <2>5, <4>1 DEF Same
    <3> QED BY <3>1, NowFacts DEF Healthy
  <2>11. Rewatched(Now, T, d)
    <3>1. T.entry[d].on = Now.entry[d].on BY <2>4, <2>5, NowFacts DEF Same
    <3>2. CASE Now.entry[d].on = {} BY <3>1, <3>2 DEF Rewatched, FeedOf
    <3>3. CASE Now.entry[d].on # {}
      <4>1. Q.entry[d].on # {} BY <2>4, <3>3, NowFacts
      <4>2. T.entry[d].timer # None /\ T.entry[d].ws = None /\ T.entry[d].on # {}
          BY <2>5, <3>1, <3>3, <4>1
      <4>3. FeedOf(T, d) = "seeking" BY <4>2 DEF FeedOf
      <4>4. FeedOf(Now, d) # "off" BY <3>3 DEF FeedOf
      <4> QED BY <3>1, <4>3, <4>4 DEF Rewatched
    <3> QED BY <3>2, <3>3
  <2>12. \A x \in Devices \ {d} : Rewatched(Now, T, x)
      BY <2>6, NowFacts DEF Rewatched, FeedOf
  <2> QED BY <2>9, <2>10, <2>11, <2>12 DEF Streams
<1> QED BY <1>11, <1>12
\* A subscribe call is rejected.
LEMMA RejectStep ==
    ASSUME IInv, NEW k \in Calls, Reject(k)
    PROVE  IInv' /\ Streams(Now, Now') /\ Healthy(Now, Now')
<1>1. /\ call[k].st = "asked" /\ ~Accepts(k)
      /\ UNCHANGED <<conn, up, known, shows, card>>
    BY DEF Reject
<1>2. PICK d \in Devices : d = call[k].dev BY <1>1, NowFacts DEF Base
<1>3. PICK S : S = [Now EXCEPT !.call[k] = NoCall] OBVIOUS
<1>4. S.entry = entry /\ S.armed = armed /\ S.call = [call EXCEPT ![k] = NoCall]
      /\ S = [entry |-> S.entry, call |-> S.call, armed |-> S.armed]
    BY <1>3 DEF Now
<1>5. CASE ~Current(k)
  <2>1. Becomes(S) BY <1>3, <1>5 DEF Reject
  <2>2. call' = [call EXCEPT ![k] = NoCall] /\ UNCHANGED <<entry, armed>>
      BY <1>4, <2>1 DEF Becomes
  <2>3. \A x \in Devices : entry[x].ws # k /\ entry[x].opening # k
      BY <1>1, <1>5, NowFacts DEF Base, Current
  <2> QED BY <1>1, <2>2, <2>3, FreedStep
<1>6. CASE Current(k)
  <2> DEFINE e == [entry[d] EXCEPT !.opening = None, !.available = FALSE]
  <2>1. NoCall \in Request /\ NoCall.st = "free" /\ NoCall.conn = 0
    <3>1. 0 \in 0..MaxConn BY StoreAssumption
    <3> QED BY <3>1 DEF NoCall, Request
  <2>2. entry[d].opening = k /\ k # None /\ entry[d] \in Entry
      BY <1>2, <1>6, NowFacts, StoreAssumption DEF Current
  <2>3. entry[d].ws = None /\ entry[d].timer = None /\ ~entry[d].dead /\ entry[d].on # {}
    <3>1. entry[d].on = {} => entry[d].opening = None BY NowFacts DEF Good, Sound, Idle
    <3> QED BY <2>2, <3>1, NowFacts DEF Base
  <2>4. e \in Entry /\ e.opening = None /\ e.ws = None /\ e.timer = None /\ ~e.dead
        /\ e.on = entry[d].on /\ e.conn = entry[d].conn
      BY <2>2, <2>3 DEF Entry
  <2>5. PICK F : F = [S EXCEPT !.entry[d] = [@ EXCEPT !.opening = None, !.available = FALSE]]
      OBVIOUS
  <2>6. F = [S EXCEPT !.entry[d] = e] BY <1>4, <2>5
  <2> HIDE DEF e
  <2>7. F.call = S.call /\ F.armed = armed /\ F.entry = [entry EXCEPT ![d] = e] /\ F \in State
    <3>1. F = [entry |-> [entry EXCEPT ![d] = e], call |-> S.call, armed |-> armed]
        BY <1>4, <2>6
    <3>2. S.call \in [Calls -> Request] BY <1>4, <2>1, NowFacts
    <3> QED BY <2>4, <3>1, <3>2, NowFacts DEF State
  <2>8. F.entry[d] = e /\ \A x \in Devices \ {d} : F.entry[x] = entry[x]
      BY <2>7, NowFacts
  <2>9. F.call[k] = NoCall /\ \A j \in Calls \ {k} : F.call[j] = call[j]
      BY <1>4, <2>7, NowFacts
  <2>10. Base(F, conn, {})
    <3>1. \A x \in Devices : F.entry[x].ws # k /\ F.entry[x].opening # k
        BY <1>1, <1>2, <2>2, <2>4, <2>8, NowFacts DEF Base
    <3>2. ASSUME NEW x \in Devices, NEW j \in Calls
          PROVE  /\ F.entry[x].ws = j => /\ F.call[j].st = "open" /\ F.call[j].dev = x
                                         /\ F.call[j].mine /\ Heard(F, j, conn, {})
                 /\ F.entry[x].opening = j =>
                      /\ F.call[j].st \in {"asked", "granted"} /\ F.call[j].dev = x
                      /\ F.call[j].mine
                      /\ F.call[j].st = "granted" => Heard(F, j, conn, {})
      <4>1. CASE x = d BY <2>2, <2>4, <2>8, <4>1, StoreAssumption
      <4>2. CASE x # d BY <2>8, <2>9, <3>1, <4>2, NowFacts DEF Base, Heard
      <4> QED BY <4>1, <4>2
    <3>3. \A j \in Calls : /\ F.call[j].st # "free" => F.call[j].dev \in Devices
                           /\ F.call[j].st = "open" => F.entry[F.call[j].dev].ws = j
                           /\ F.call[j].conn <= conn
      <4>1. ASSUME NEW j \in Calls
            PROVE  /\ F.call[j].st # "free" => F.call[j].dev \in Devices
                   /\ F.call[j].st = "open" => F.entry[F.call[j].dev].ws = j
                   /\ F.call[j].conn <= conn
        <5>1. CASE j = k BY <2>1, <2>9, <5>1, NowFacts
        <5>2. CASE j # k
          <6>1. /\ call[j].st # "free" => call[j].dev \in Devices
                /\ call[j].st = "open" => entry[call[j].dev].ws = j
                /\ call[j].conn <= conn
              BY NowFacts DEF Base
          <6>2. entry[d].ws # j BY <2>3, StoreAssumption
          <6> QED BY <2>8, <2>9, <5>2, <6>1, <6>2
        <5> QED BY <5>1, <5>2
      <4> QED BY <4>1
    <3>4. \A x \in Devices, t \in Timers : F.entry[x].timer = t <=> F.armed[t] = x
      <4>1. \A x \in Devices : F.entry[x].timer = entry[x].timer BY <2>3, <2>4, <2>8
      <4> QED BY <2>7, <4>1, NowFacts DEF Base
    <3>5. \A x \in Devices : /\ F.entry[x].ws # None => F.entry[x].opening = None
                             /\ F.entry[x].ws # None => F.entry[x].timer = None
                             /\ F.entry[x].opening # None => F.entry[x].timer = None
                             /\ F.entry[x].dead => F.entry[x].ws = None /\ F.entry[x].opening = None
                             /\ F.entry[x].conn <= conn
        BY <2>4, <2>8, NowFacts DEF Base
    <3> QED BY <2>7, <3>2, <3>3, <3>4, <3>5 DEF Base
  <2>11. Registered(F, d) /\ Idle(F, d) BY <2>3, <2>4, <2>8 DEF Registered, Idle
  <2>12. PICK T : T = IF up /\ ~Lost(k) THEN [F EXCEPT !.entry[d].dead = TRUE] ELSE Schedule(F, d)
      OBVIOUS
  <2>13. Becomes(T) BY <1>2, <1>3, <1>6, <2>5, <2>12 DEF Reject, Failed
  <2>14. entry[d].conn # 0 BY <2>3, NowFacts DEF Good, Sound
  <2>15. FeedOf(Now, d) = "seeking" /\ Now.entry[d].ws = None
      BY <2>2, <2>3, NowFacts DEF FeedOf
  <2>16. /\ Base(T, conn, {}) /\ \A x \in Devices \ {d} : T.entry[x] = entry[x]
         /\ Sound(T, d) /\ T.entry[d].on = entry[d].on
         /\ FeedOf(T, d) = "seeking" \/ (FeedOf(T, d) = "parked" /\ ~Serving(d))
    <3>1. CASE up /\ ~Lost(k)
      <4> DEFINE g == [e EXCEPT !.dead = TRUE]
      <4>1. T = [F EXCEPT !.entry[d] = g] BY <2>8, <2>12, <3>1
      <4>2. g \in Entry /\ g.opening = None /\ g.ws = None /\ g.timer = None /\ g.dead
            /\ g.on = entry[d].on /\ g.conn = entry[d].conn
          BY <2>4 DEF Entry
      <4> HIDE DEF g
      <4>3. T.call = F.call /\ T.armed = F.armed /\ T.entry = [F.entry EXCEPT ![d] = g]
            /\ T = [entry |-> T.entry, call |-> T.call, armed |-> T.armed]
          BY <2>7, <4>1 DEF State
      <4>4. T \in State /\ T.entry[d] = g /\ \A x \in Devices \ {d} : T.entry[x] = F.entry[x]
          BY <2>7, <4>2, <4>3 DEF State
      <4>5. Base(T, conn, {})
        <5>1. /\ T.entry[d].ws = F.entry[d].ws /\ T.entry[d].opening = F.entry[d].opening
              /\ T.entry[d].timer = F.entry[d].timer /\ T.entry[d].conn = F.entry[d].conn
              /\ T.entry[d].dead => T.entry[d].ws = None /\ T.entry[d].opening = None
            BY <2>4, <2>8, <4>2, <4>4
        <5>2. conn \in Nat BY NowFacts
        <5>3. T \in State /\ T.call = F.call /\ T.armed = F.armed
              /\ \A x \in Devices \ {d} : T.entry[x] = F.entry[x]
            BY <4>3, <4>4
        <5> QED BY <2>10, <5>1, <5>2, <5>3, SameWayBase
      <4>6. ~Serving(d) BY <1>1, <1>2, <3>1 DEF Serving, Accepts
      <4>7. FeedOf(T, d) = "parked" BY <2>3, <4>2, <4>4 DEF FeedOf
      <4>8. Sound(T, d) BY <2>3, <2>14, <4>2, <4>4 DEF Sound, Idle
      <4> QED BY <2>8, <4>2, <4>4, <4>5, <4>6, <4>7, <4>8
    <3>2. CASE ~(up /\ ~Lost(k))
      <4>1. T = Schedule(F, d) /\ conn \in Nat BY <2>12, <3>2, NowFacts
      <4>2. /\ Base(T, conn, {}) /\ Same(F, T, d)
            /\ T.entry[d].ws = None /\ T.entry[d].opening = None /\ T.entry[d].timer # None
          BY <2>10, <2>11, <4>1, ScheduleBase
      <4>3. T.entry[d].on = entry[d].on /\ T.entry[d].conn = entry[d].conn
            /\ \A x \in Devices \ {d} : T.entry[x] = entry[x]
          BY <2>4, <2>8, <4>2 DEF Same
      <4>4. FeedOf(T, d) = "seeking" BY <2>3, <4>2, <4>3 DEF FeedOf
      <4>5. Sound(T, d) BY <2>3, <2>14, <4>2, <4>3 DEF Sound, Idle
      <4> QED BY <4>2, <4>3, <4>4, <4>5
    <3> QED BY <3>1, <3>2
  <2>17. \A x \in Devices : Sound(T, x) BY <2>16, NowFacts DEF Good, Sound, Idle
  <2>18. IInv' /\ Now' = T BY <1>1, <2>13, <2>16, <2>17, StoreStep DEF Good
  <2>19. Healthy(Now, T) BY <2>15, <2>16, NowFacts DEF Healthy
  <2>20. \A x \in Devices \ {d} : Rewatched(Now, T, x)
      BY <2>16, NowFacts DEF Rewatched, FeedOf
  <2>21. T.entry[d].on = Now.entry[d].on BY <2>16, NowFacts
  <2>22. Streams(Now, T) BY <2>15, <2>16, <2>20, <2>21 DEF Streams, Rewatched
  <2> QED BY <2>18, <2>19, <2>22
<1> QED BY <1>5, <1>6
-----------------------------------------------------------------------------
(* The invariant                                                           *)

LEMMA InitIInv == Init => IInv
<1> SUFFICES ASSUME Init PROVE IInv OBVIOUS
<1>1. 0 \in 0..MaxConn /\ 1 \in 1..MaxConn BY StoreAssumption
<1>2. NoEntry \in Entry /\ NoEntry.on = {} /\ NoEntry.ws = None /\ NoEntry.opening = None
      /\ NoEntry.timer = None /\ ~NoEntry.dead /\ NoEntry.conn = 0
    BY <1>1 DEF NoEntry, Entry
<1>3. NoCall \in Request /\ NoCall.st = "free" /\ NoCall.conn = 0 BY <1>1 DEF NoCall, Request
<1>4. NewCard \in Records /\ ~NewCard.up BY <1>1 DEF NewCard, Records
<1>5. /\ entry \in [Devices -> Entry] /\ \A d \in Devices : entry[d] = NoEntry
      /\ call \in [Calls -> Request] /\ \A k \in Calls : call[k] = NoCall
      /\ armed \in [Timers -> Devices \cup {None}] /\ \A t \in Timers : armed[t] = None
      /\ card \in [Cards -> Records] /\ \A c \in Cards : card[c] = NewCard
      /\ conn = 1 /\ up = TRUE /\ known = Devices /\ shows \in Dashboards
    BY <1>2, <1>3, <1>4 DEF Init
<1>6. Now \in State /\ Now.entry = entry /\ Now.call = call /\ Now.armed = armed
    BY <1>5 DEF Now, State
<1>7. Base(Now, conn, {}) BY <1>2, <1>3, <1>5, <1>6, StoreAssumption DEF Base
<1>8. \A d \in Devices : Sound(Now, d) BY <1>2, <1>5, <1>6 DEF Sound, Idle
<1>9. StoreTypeOK BY <1>1, <1>2, <1>5 DEF StoreTypeOK, Entry, Request, Records
<1>10. CardsOK BY <1>4, <1>5 DEF CardsOK
<1> QED BY <1>7, <1>8, <1>9, <1>10 DEF IInv, Good

LEMMA NextIInv ==
    ASSUME IInv, Next
    PROVE  IInv' /\ Streams(Now, Now') /\ Healthy(Now, Now')
<1>1. ASSUME NEW c \in Cards, NEW d \in Devices, Mount(c, d) \/ SetConfig(c, d)
      PROVE  IInv' /\ Streams(Now, Now') /\ Healthy(Now, Now')
    BY <1>1, CardSteps
<1>2. ASSUME NEW c \in Cards, Unmount(c)
      PROVE  IInv' /\ Streams(Now, Now') /\ Healthy(Now, Now')
    BY <1>2, UnmountStep
<1>3. ASSUME NEW c \in Cards, SetHass(c)
      PROVE  IInv' /\ Streams(Now, Now') /\ Healthy(Now, Now')
    BY <1>3, CardSteps, StoreAssumption
<1>4. ASSUME NEW t \in Timers, TimerFires(t)
      PROVE  IInv' /\ Streams(Now, Now') /\ Healthy(Now, Now')
    BY <1>4, TimerFiresStep
<1>5. ASSUME NEW k \in Calls, Settle(k)
      PROVE  IInv' /\ Streams(Now, Now') /\ Healthy(Now, Now')
    BY <1>5, ExternalSteps, ResolveStep, RejectStep, HearClosedStep DEF Settle
<1>6. ASSUME NEW k \in Calls, NEW m \in {"frame", "away"}, Hear(k, m)
      PROVE  IInv' /\ Streams(Now, Now') /\ Healthy(Now, Now')
    BY <1>6, HearStep
<1>7. ASSUME Unload \/ Load \/ SwapConnection
             \/ \E d \in Devices : RemoveDevice(d) \/ AddDevice(d)
      PROVE  IInv' /\ Streams(Now, Now') /\ Healthy(Now, Now')
    BY <1>7, ExternalSteps
<1> QED BY <1>1, <1>2, <1>3, <1>4, <1>5, <1>6, <1>7 DEF Next

LEMMA StuttersIInv == ASSUME IInv, UNCHANGED vars PROVE IInv' /\ Now' = Now
BY DEF vars, IInv, StoreTypeOK, Good, CardsOK, Now, Base, Sound, Idle, Heard

\* IInv is an invariant: an entry and its calls point at each other, and an
\* entry is kept as long as it is watched.
THEOREM Invariance == Spec => []IInv
<1>1. IInv /\ [Next]_vars => IInv' BY NextIInv, StuttersIInv
<1> QED BY <1>1, InitIInv, PTL DEF Spec

-----------------------------------------------------------------------------
(* The properties                                                          *)

\* The store's variables keep their types.
THEOREM TypeCorrect == Spec => []StoreTypeOK
<1>1. IInv => StoreTypeOK BY DEF IInv
<1> QED BY <1>1, Invariance, PTL

\* No resolved subscription is left behind by a swap, a teardown or a superseded open.
THEOREM LeavesNoOrphan == Spec => []NoOrphanStream
<1>1. ASSUME IInv PROVE NoOrphanStream
  <2>1. ASSUME NEW k \in Calls, call[k].st = "open"
        PROVE  call[k].mine /\ entry[call[k].dev].ws = k /\ entry[call[k].dev].on # {}
    <3>1. PICK d \in Devices : d = call[k].dev BY <1>1, <2>1, NowFacts DEF Base
    <3>2. entry[d].ws = k /\ k # None BY <1>1, <2>1, <3>1, NowFacts, StoreAssumption DEF Base
    <3>3. call[k].mine BY <1>1, <3>2, NowFacts DEF Base
    <3>4. entry[d].on # {} BY <1>1, <3>2, NowFacts DEF Good, Sound, Idle
    <3> QED BY <3>1, <3>2, <3>3, <3>4
  <2> QED BY <2>1 DEF NoOrphanStream
<1> QED BY <1>1, Invariance, PTL

\* What an entry holds is alive, or its end is on the way, or the connection is gone.
THEOREM HoldsNothingDeaf == Spec => []NoDeafEntry
<1>1. ASSUME IInv PROVE NoDeafEntry
  <2>1. ASSUME NEW d \in Devices, entry[d].ws # None
        PROVE  call[entry[d].ws].st = "open"
               /\ (call[entry[d].ws].back \/ call[entry[d].ws].closing
                   \/ call[entry[d].ws].conn # conn)
    <3>1. PICK k \in Calls : k = entry[d].ws BY <1>1, <2>1, NowFacts DEF Entry
    <3>2. call[k].st = "open" /\ Heard(Now, k, conn, {}) BY <1>1, <3>1, NowFacts DEF Base
    <3> QED BY <1>1, <3>1, <3>2, NowFacts DEF Heard
  <2> QED BY <2>1 DEF NoDeafEntry
<1> QED BY <1>1, Invariance, PTL

\* A watched entry has one way on, but for a terminal rejection.
THEOREM StrandsNobody == Spec => []NeverStranded
<1>1. ASSUME IInv PROVE NeverStranded
  <2>1. ASSUME NEW d \in Devices, entry[d].on # {}
        PROVE  LET n == Cardinality({f \in {"ws", "opening", "timer"} : entry[d][f] # None})
               IN  n <= 1 /\ (n = 0 => entry[d].dead)
    <3> DEFINE W == {f \in {"ws", "opening", "timer"} : entry[d][f] # None}
    <3>1. /\ entry[d].ws # None => entry[d].opening = None /\ entry[d].timer = None
          /\ entry[d].opening # None => entry[d].timer = None
          /\ entry[d].ws = None /\ entry[d].opening = None /\ entry[d].timer = None => entry[d].dead
      <4>1. Sound(Now, d) BY <1>1, NowFacts DEF Good
      <4> QED BY <1>1, <2>1, <4>1, NowFacts DEF Base, Sound, Idle
    <3>2. W = {} \/ W = {"ws"} \/ W = {"opening"} \/ W = {"timer"} BY <3>1
    <3>3. W = {} => entry[d].dead
      <4>1. W = {} => entry[d]["ws"] = None /\ entry[d]["opening"] = None /\ entry[d]["timer"] = None
          OBVIOUS
      <4> QED BY <3>1, <4>1
    <3>4. Cardinality({}) = 0 /\ \A x : Cardinality({x}) = 1 BY FS_EmptySet, FS_Singleton
    <3>5. CASE W = {} BY <3>3, <3>4, <3>5
    <3>6. CASE W # {}
      <4> HIDE DEF W
      <4>1. Cardinality(W) = 1 BY <3>2, <3>4, <3>6
      <4> QED BY <4>1 DEF W
    <3> QED BY <3>5, <3>6
  <2> QED BY <2>1 DEF NeverStranded
<1> QED BY <1>1, Invariance, PTL

\* Only a message shows a healthy live card as offline.
THEOREM KeepsHealthyOnline == Spec => HealthyStaysOnline
<1> DEFINE A == \A d \in Devices :
                   entry[d].ws # None /\ entry[d].available /\ ~entry'[d].available =>
                       \A k \in Calls : call[k].st = "asked" => call'[k].st # "free"
<1>1. ASSUME IInv, [Next]_vars PROVE A \/ UNCHANGED vars
  <2>1. CASE Next
    <3>1. Healthy(Now, Now') BY <1>1, <2>1, NextIInv
    <3>2. Now'.entry = entry' /\ Now'.call = call' /\ Now.entry = entry /\ Now.call = call
        BY DEF Now
    <3> QED BY <3>1, <3>2 DEF Healthy
  <2> QED BY <1>1, <2>1
<1>2. IInv /\ [Next]_vars => [A]_vars BY <1>1
<1> HIDE DEF A
<1>3. Spec => [][A]_vars BY <1>2, Invariance, PTL DEF Spec
<1> QED BY <1>3 DEF HealthyStaysOnline, A

\* A step moves the store or the backend, not both.
LEMMA OneSideMoves == ASSUME Next PROVE UNCHANGED entry \/ UNCHANGED <<up, known>>
BY DEF Next, Mount, SetConfig, Unmount, SetHass, Subscribed, TimerFires, Settle, Grant, Resolve,
       Reject, Unsubscribed, HearClosed, Hear, HandleMsg, Unload, Load, SwapConnection,
       RemoveDevice, AddDevice

\* The steps of the store are steps of SharedStream: a device has one stream,
\* held only while it is watched, and parked only on the backend's word.
THEOREM ImplementsSharedStream == Spec => Shared!Init /\ [][Shared!Next]_(Shared!vars)
<1>1. Init => Shared!Init
  <2> SUFFICES ASSUME Init PROVE Shared!Init OBVIOUS
  <2>1. entry[Spot].on = {} BY StoreAssumption DEF Init, NoEntry
  <2> QED BY <2>1 DEF Init, Shared!Init, Feed
<1>2. ASSUME IInv, [Next]_vars PROVE [Shared!Next]_(Shared!vars)
  <2>1. CASE UNCHANGED vars BY <2>1 DEF vars, Shared!vars, Feed
  <2>2. CASE Next
    <3>1. Spot \in Devices BY StoreAssumption
    <3>2. Streams(Now, Now') /\ IInv' BY <1>2, <2>2, NextIInv
    <3>3. /\ FeedOf(Now, Spot) = Feed(Spot) /\ FeedOf(Now', Spot) = Feed(Spot)'
          /\ Now.entry = entry /\ Now'.entry = entry'
        BY DEF FeedOf, Feed, Now
    <3>4. entry[Spot].on \subseteq Cards /\ entry'[Spot].on \subseteq Cards
        BY <1>2, <3>1, <3>2 DEF IInv, StoreTypeOK
    <3>5. CASE UNCHANGED entry
      <4>1. Serving(Spot)' = Serving(Spot) \/ Serving(Spot)' = ~Serving(Spot) BY DEF Serving
      <4>2. Feed(Spot)' = Feed(Spot) BY <3>5 DEF Feed
      <4> QED BY <3>5, <4>1, <4>2 DEF Shared!Next, Shared!Backend, Shared!vars, Serving
    <3>6. CASE UNCHANGED <<up, known>>
      <4>1. CASE Rewatched(Now, Now', Spot) /\ entry'[Spot].on = entry[Spot].on
        <5>1. \/ Feed(Spot)' = Feed(Spot)
              \/ Feed(Spot) # "off" /\ Feed(Spot)' = "seeking"
            BY <3>3, <4>1 DEF Rewatched
        <5>2. Feed(Spot) \in {"off", "seeking", "held", "parked"} BY DEF Feed
        <5> QED BY <3>6, <4>1, <5>1, <5>2 DEF Shared!Next, Shared!Lose, Shared!vars
      <4>2. CASE Rewatched(Now, Now', Spot) /\ entry'[Spot].on # entry[Spot].on
        <5>1. /\ entry'[Spot].on = {} => Feed(Spot)' = "off"
              /\ entry'[Spot].on # {} /\ entry'[Spot].on \subseteq entry[Spot].on =>
                    Feed(Spot)' = Feed(Spot)
              /\ ~(entry'[Spot].on \subseteq entry[Spot].on) =>
                    Feed(Spot)' = "seeking" \/ (Feed(Spot)' = "held" /\ Feed(Spot) = "held")
            BY <3>3, <4>2 DEF Rewatched
        <5>2. Feed(Spot)' \in Shared!FeedsOf(entry'[Spot].on) BY <5>1 DEF Shared!FeedsOf
        <5>3. Serving(Spot)' \in BOOLEAN BY <3>2 DEF IInv, StoreTypeOK, Serving
        <5> QED BY <3>4, <4>2, <5>2, <5>3 DEF Shared!Next, Shared!Rewatch, Serving
      <4>3. CASE ~Rewatched(Now, Now', Spot)
        <5>1. /\ entry'[Spot].on = entry[Spot].on /\ Feed(Spot) = "seeking"
              /\ Feed(Spot)' = "held" \/ (Feed(Spot)' = "parked" /\ ~Serving(Spot))
            BY <3>1, <3>2, <3>3, <4>3 DEF Streams
        <5> QED BY <3>6, <5>1 DEF Shared!Next, Shared!Attach, Shared!Park, Serving
      <4> QED BY <4>1, <4>2, <4>3
    <3> QED BY <2>2, <3>5, <3>6, OneSideMoves
  <2> QED BY <1>2, <2>1, <2>2
<1> QED BY <1>1, <1>2, Invariance, PTL DEF Spec

=============================================================================
