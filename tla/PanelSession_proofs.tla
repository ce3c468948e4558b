------------------------ MODULE PanelSession_proofs -------------------------
(***************************************************************************)
(* The safety of the panel's session, for any devices and any number of    *)
(* pipelines.                                                              *)
(*                                                                         *)
(* The controller keeps at most one reference because the token of an open *)
(* in flight is current in one pipeline at most, and only while there is   *)
(* no session; a panel that has left the document holds nothing because    *)
(* no token is current any more.  Good says so of a state of controller    *)
(* and pipelines, and has one lemma per operator of the model.             *)
(***************************************************************************)
EXTENDS PanelSession, FiniteSetTheorems, WellFoundedInduction, TLAPS

Controller == [session : Macs \cup {None}, streams : Macs \cup {None}, held : 0..1,
               reconnecting : BOOLEAN, loading : Tasks \cup {None}, reopening : Tasks \cup {None}]
Pipeline == [kind : {"load", "reopen"}, mac : Macs \cup {None},
             pc : {"free", "joined", "queued", "wakeLoad", "config", "joinReopen",
                   "queueReopen", "wakeReopen", "opening", "reopened", "resumed"},
             fresh : BOOLEAN, config : BOOLEAN]
State == [c : Controller, task : [Tasks -> Pipeline]]

\* Pipeline t may store the session it opens.
Opening(S, t) == S.task[t].pc = "opening" /\ S.task[t].fresh

Good(S, att) ==
    /\ S \in State
    /\ \A t \in Tasks : S.task[t].pc # "free" => S.task[t].mac \in Macs
    /\ S.c.held = IF S.c.session = None THEN 0 ELSE 1
    /\ \A t \in Tasks : Opening(S, t) =>
          S.c.session = None /\ \A u \in Tasks : Opening(S, u) => u = t
    /\ ~att => S.c.session = None /\ S.c.streams = None /\ \A t \in Tasks : ~S.task[t].fresh

\* Good, but for what pipeline t may still store.
GoodBut(S, att, t) ==
    /\ S \in State
    /\ \A u \in Tasks : S.task[u].pc # "free" => S.task[u].mac \in Macs
    /\ S.c.held = IF S.c.session = None THEN 0 ELSE 1
    /\ \A u \in Tasks \ {t} : Opening(S, u) =>
          S.c.session = None /\ \A v \in Tasks \ {t} : Opening(S, v) => v = u
    /\ ~att => S.c.session = None /\ S.c.streams = None /\ \A u \in Tasks : ~S.task[u].fresh

IInv == PanelTypeOK /\ Good(Now, attached) /\ ShownIsLoaded

-----------------------------------------------------------------------------
(* The operators                                                           *)

\* A set of pipelines has a first one.
LEMMA LeastIsIn ==
    ASSUME NEW K \in SUBSET Tasks, K # {}
    PROVE  Least(K) \in K
<1>1. K \subseteq Nat BY PanelAssumption
<1>2. PICK k \in K : \A j \in K : ~(<<j, k>> \in OpToRel(<, Nat))
    BY <1>1, NatLessThanWellFounded, WFMin
<1>3. ASSUME NEW j \in K PROVE k <= j
  <2>1. j \in Nat /\ k \in Nat BY <1>1
  <2>2. ~(j < k) BY <1>2, <2>1 DEF OpToRel
  <2> QED BY <2>1, <2>2
<1> QED BY <1>2, <1>3 DEF Least

\* A step that starts no open, makes no token current and leaves the session
\* alone keeps the invariant.
LEMMA CalmGood ==
    ASSUME NEW att \in BOOLEAN, NEW S, Good(S, att), NEW T \in State,
           T.c.session = S.c.session, T.c.streams = S.c.streams, T.c.held = S.c.held,
           \A t \in Tasks : /\ T.task[t].pc # "free" => T.task[t].mac \in Macs
                            /\ T.task[t].fresh => S.task[t].fresh
                            /\ T.task[t].pc = "opening" => S.task[t].pc = "opening"
    PROVE  Good(T, att)
BY DEF Good, Opening

\* The controller's record without a session, and pipelines without a current token.
LEMMA ClosedRecords ==
    /\ \A r \in Controller :
          LET q == [r EXCEPT !.held = 0, !.session = None, !.streams = None]
          IN  /\ q \in Controller /\ q.held = 0 /\ q.session = None /\ q.streams = None
              /\ q.reconnecting = r.reconnecting /\ q.loading = r.loading
              /\ q.reopening = r.reopening
    /\ \A p \in Pipeline :
          LET q == [p EXCEPT !.fresh = FALSE]
          IN  /\ q \in Pipeline /\ ~q.fresh
              /\ q.pc = p.pc /\ q.mac = p.mac /\ q.kind = p.kind /\ q.config = p.config
<1>1. ASSUME NEW r \in Controller
      PROVE  LET q == [r EXCEPT !.held = 0, !.session = None, !.streams = None]
             IN  /\ q \in Controller /\ q.held = 0 /\ q.session = None /\ q.streams = None
                 /\ q.reconnecting = r.reconnecting /\ q.loading = r.loading
                 /\ q.reopening = r.reopening
  <2> DEFINE q == [r EXCEPT !.held = 0, !.session = None, !.streams = None]
  <2>1. [r EXCEPT !.held = 0] \in Controller BY DEF Controller
  <2>2. \A p \in Controller : [p EXCEPT !.session = None] \in Controller BY DEF Controller
  <2>3. \A p \in Controller : [p EXCEPT !.streams = None] \in Controller BY DEF Controller
  <2>4. q = [[[r EXCEPT !.held = 0] EXCEPT !.session = None] EXCEPT !.streams = None]
      BY DEF Controller
  <2>5. q \in Controller BY <2>1, <2>2, <2>3, <2>4
  <2>6. q.held = 0 /\ q.session = None /\ q.streams = None BY DEF Controller
  <2>7. q.reconnecting = r.reconnecting /\ q.loading = r.loading /\ q.reopening = r.reopening
      BY DEF Controller
  <2> QED BY <2>5, <2>6, <2>7
<1>2. ASSUME NEW p \in Pipeline
      PROVE  LET q == [p EXCEPT !.fresh = FALSE]
             IN  /\ q \in Pipeline /\ ~q.fresh
                 /\ q.pc = p.pc /\ q.mac = p.mac /\ q.kind = p.kind /\ q.config = p.config
    BY DEF Pipeline
<1> QED BY <1>1, <1>2

\* Closing the session leaves nothing, and no token current.
LEMMA CloseSessionGood ==
    ASSUME NEW att \in BOOLEAN, NEW S, Good(S, att), NEW b \in BOOLEAN
    PROVE  LET T == CloseSession(S)
           IN  /\ Good(T, b)
               /\ T.c.session = None /\ T.c.reopening = S.c.reopening
               /\ T.c.loading = S.c.loading /\ T.c.reconnecting = S.c.reconnecting
               /\ \A t \in Tasks : /\ T.task[t].pc = S.task[t].pc
                                   /\ T.task[t].mac = S.task[t].mac
                                   /\ T.task[t].kind = S.task[t].kind
                                   /\ ~T.task[t].fresh
<1> DEFINE T == CloseSession(S)
           h == IF S.c.session = None THEN S.c.held ELSE S.c.held - 1
<1>1. S \in State /\ S.c \in Controller /\ S.task \in [Tasks -> Pipeline]
    BY DEF Good, State
<1>2. h = 0 BY DEF Good
<1>3. T = [c |-> [S.c EXCEPT !.held = 0, !.session = None, !.streams = None],
           task |-> [t \in Tasks |-> [S.task[t] EXCEPT !.fresh = FALSE]]]
    BY <1>2 DEF CloseSession
<1> HIDE DEF T
<1>4. /\ T.c \in Controller
      /\ T.c.session = None /\ T.c.streams = None /\ T.c.held = 0
      /\ T.c.reopening = S.c.reopening /\ T.c.loading = S.c.loading
      /\ T.c.reconnecting = S.c.reconnecting
    BY <1>1, <1>3, ClosedRecords
<1>5. T.task = [t \in Tasks |-> [S.task[t] EXCEPT !.fresh = FALSE]] BY <1>3
<1>6. /\ T.task \in [Tasks -> Pipeline]
      /\ \A t \in Tasks : /\ T.task[t].pc = S.task[t].pc /\ T.task[t].mac = S.task[t].mac
                          /\ T.task[t].kind = S.task[t].kind /\ ~T.task[t].fresh
  <2>1. \A t \in Tasks : S.task[t] \in Pipeline /\ T.task[t] = [S.task[t] EXCEPT !.fresh = FALSE]
      BY <1>1, <1>5
  <2>2. \A t \in Tasks : /\ T.task[t] \in Pipeline /\ ~T.task[t].fresh
                         /\ T.task[t].pc = S.task[t].pc /\ T.task[t].mac = S.task[t].mac
                         /\ T.task[t].kind = S.task[t].kind
      BY <2>1, ClosedRecords
  <2> QED BY <1>5, <2>2
<1>7. T \in State BY <1>3, <1>4, <1>6 DEF State
<1>8. Good(T, b) BY <1>4, <1>6, <1>7 DEF Good, Opening
<1> QED BY <1>4, <1>6, <1>8 DEF T

\* A pipeline of an attached panel opens the session: its token is the current one.
LEMMA OpenGood ==
    ASSUME NEW S, Good(S, TRUE), NEW t \in Tasks, S.task[t].mac \in Macs
    PROVE  Good(Open(S, t), TRUE)
<1> DEFINE C == CloseSession(S)
           T == Open(S, t)
           r == [C.task[t] EXCEPT !.pc = "opening", !.fresh = TRUE]
           k == [C.c EXCEPT !.reopening = t]
<1>1. /\ Good(C, TRUE) /\ C.c.session = None
      /\ C.task[t].mac \in Macs
      /\ \A u \in Tasks : ~C.task[u].fresh
    BY CloseSessionGood
<1>2. C \in State /\ C.c \in Controller /\ C.task \in [Tasks -> Pipeline]
    BY <1>1 DEF Good, State
<1> HIDE DEF C
<1>3. T = [c |-> k, task |-> [C.task EXCEPT ![t] = r]] BY DEF Open, C
<1>4. r \in Pipeline /\ r.mac \in Macs BY <1>1, <1>2 DEF Pipeline
<1>5. k \in Controller /\ k.session = None /\ k.held = C.c.held
    BY <1>1, <1>2 DEF Controller
<1> HIDE DEF T, r, k
<1>6. T.c = k /\ T.task = [C.task EXCEPT ![t] = r] BY <1>2, <1>3 DEF State
<1>7. T \in State BY <1>2, <1>3, <1>4, <1>5 DEF State
<1>8. T.task[t] = r /\ \A u \in Tasks \ {t} : T.task[u] = C.task[u] BY <1>2, <1>6
<1>9. r.pc = "opening" BY <1>2 DEF r, Pipeline
<1> QED BY <1>1, <1>4, <1>5, <1>7, <1>6, <1>8, <1>9 DEF Good, Opening, T

\* One pipeline goes on, without touching the session, and starts no open.
LEMMA PutGood ==
    ASSUME NEW att \in BOOLEAN, NEW S, Good(S, att), NEW t \in Tasks,
           NEW k \in Controller, NEW r \in Pipeline, NEW T,
           T = [c |-> k, task |-> [S.task EXCEPT ![t] = r]],
           k.session = S.c.session, k.streams = S.c.streams, k.held = S.c.held,
           r.pc # "free" => r.mac \in Macs,
           r.fresh => att \/ S.task[t].fresh,
           r.pc = "opening" /\ r.fresh => Opening(S, t)
    PROVE  Good(T, att)
<1>1. S \in State /\ S.task \in [Tasks -> Pipeline] BY DEF Good, State
<1>2. T.c = k /\ T.task = [S.task EXCEPT ![t] = r] OBVIOUS
<1>3. T \in State BY <1>1 DEF State
<1>4. T.task[t] = r /\ \A u \in Tasks \ {t} : T.task[u] = S.task[u] BY <1>1, <1>2
<1> QED BY <1>2, <1>3, <1>4 DEF Good, Opening

\* A pipeline re-opens the session, or waits for the one that does.
LEMMA ReopenGood ==
    ASSUME NEW S, Good(S, TRUE), NEW t \in Tasks, S.task[t].mac \in Macs
    PROVE  Good(Reopen(S, t), TRUE)
<1>1. CASE S.c.reopening = None BY <1>1, OpenGood DEF Reopen
<1>2. CASE S.c.reopening # None
  <2> DEFINE pc == IF S.task[S.c.reopening].mac = S.task[t].mac THEN "joinReopen" ELSE "queueReopen"
             r == [S.task[t] EXCEPT !.pc = pc]
  <2>1. S \in State /\ S.c \in Controller /\ S.task \in [Tasks -> Pipeline]
      BY DEF Good, State
  <2>2. pc \in {"joinReopen", "queueReopen"} OBVIOUS
  <2>3. Reopen(S, t) = [c |-> S.c, task |-> [S.task EXCEPT ![t] = r]] BY <1>2 DEF Reopen
  <2> HIDE DEF pc
  <2>4. r \in Pipeline /\ r.mac = S.task[t].mac /\ r.fresh = S.task[t].fresh /\ r.pc = pc
      BY <2>1, <2>2 DEF Pipeline
  <2> HIDE DEF r
  <2> QED BY <2>1, <2>2, <2>3, <2>4, PutGood
<1> QED BY <1>1, <1>2

\* A load asks for the configuration; its token is current, and the panel attached.
LEMMA StartLoadGood ==
    ASSUME NEW S, Good(S, TRUE), NEW t \in Tasks, S.task[t].mac \in Macs
    PROVE  Good(StartLoad(S, t), TRUE)
<1> DEFINE k == [S.c EXCEPT !.loading = t, !.reconnecting = TRUE]
           r == [S.task[t] EXCEPT !.pc = "config", !.fresh = TRUE]
<1>1. S \in State /\ S.c \in Controller /\ S.task \in [Tasks -> Pipeline]
    BY DEF Good, State
<1>2. StartLoad(S, t) = [c |-> k, task |-> [S.task EXCEPT ![t] = r]]
    BY DEF StartLoad
<1>3. k \in Controller /\ k.session = S.c.session /\ k.streams = S.c.streams /\ k.held = S.c.held
    BY <1>1 DEF Controller
<1>4. r \in Pipeline /\ r.mac = S.task[t].mac /\ r.pc = "config" BY <1>1 DEF Pipeline
<1> HIDE DEF k, r
<1> QED BY <1>2, <1>3, <1>4, PutGood

\* A free pipeline is there for a load or a re-open.
LEMMA BeginGood ==
    ASSUME NEW S, Good(S, TRUE), \E u \in Tasks : S.task[u].pc = "free", NEW m \in Macs,
           NEW kind \in {"load", "reopen"}, NEW pc \in {"free", "joined", "queued"}
    PROVE  LET t == NewTask(S)
               T == Begin(S, t, kind, m, pc)
           IN  t \in Tasks /\ Good(T, TRUE) /\ T.task[t].mac = m
<1> DEFINE t == NewTask(S)
           r == [NoTask EXCEPT !.kind = kind, !.mac = m, !.pc = pc]
           T == Begin(S, t, kind, m, pc)
<1>1. t \in Tasks
  <2>1. {u \in Tasks : S.task[u].pc = "free"} # {} OBVIOUS
  <2> QED BY <2>1, LeastIsIn DEF NewTask
<1>2. S \in State /\ S.c \in Controller /\ S.task \in [Tasks -> Pipeline]
    BY DEF Good, State
<1>3. r \in Pipeline /\ r.mac = m /\ ~r.fresh BY DEF Pipeline, NoTask
<1>4. T = [c |-> S.c, task |-> [S.task EXCEPT ![t] = r]] BY DEF Begin
<1> HIDE DEF r, T, t
<1>5. T.task[t] = r BY <1>1, <1>2, <1>4
<1>6. Good(T, TRUE) BY <1>1, <1>2, <1>3, <1>4, PutGood
<1> QED BY <1>1, <1>3, <1>5, <1>6 DEF t, T

\* loadDeviceConfig: a load of its own, or one that waits for the load under way.
LEMMA LoadGood ==
    ASSUME NEW S, Good(S, TRUE), \E u \in Tasks : S.task[u].pc = "free", NEW m \in Macs
    PROVE  Good(Load(S, m), TRUE)
<1> DEFINE t == NewTask(S)
           B(pc) == Begin(S, t, "load", m, pc)
<1>1. \A pc \in {"free", "joined", "queued"} :
         t \in Tasks /\ Good(B(pc), TRUE) /\ B(pc).task[t].mac = m
    BY BeginGood
<1>2. CASE S.c.loading = None
  <2>1. Load(S, m) = StartLoad(B("free"), t) BY <1>2 DEF Load
  <2> HIDE DEF t, B
  <2> QED BY <1>1, <2>1, StartLoadGood
<1>3. CASE S.c.loading # None
  <2>1. Load(S, m) = B("joined") \/ Load(S, m) = B("queued") BY <1>3 DEF Load
  <2> HIDE DEF t, B
  <2> QED BY <1>1, <2>1
<1> QED BY <1>2, <1>3

\* reopenSession without a load, and _ensureSession.
LEMMA EnsureGood ==
    ASSUME NEW S, Good(S, TRUE), \E u \in Tasks : S.task[u].pc = "free", NEW m \in Macs
    PROVE  Good(Ensure(S, m), TRUE)
<1> DEFINE t == NewTask(S)
           B == Begin(S, t, "reopen", m, "free")
<1>1. t \in Tasks /\ Good(B, TRUE) /\ B.task[t].mac = m BY BeginGood
<1>2. Good(Reopen(B, t), TRUE)
  <2> HIDE DEF t, B
  <2> QED BY <1>1, ReopenGood
<1> QED BY <1>2, LoadGood DEF Ensure, BareReopen

\* The record of a pipeline whose session was re-opened.
LEMMA AfterReopenRecord ==
    ASSUME NEW p \in Pipeline, p.mac \in Macs
    PROVE  LET q == AfterReopen(p)
           IN  q \in Pipeline /\ (q.pc # "free" => q.mac \in Macs) /\ (q.fresh => p.fresh)
               /\ q.pc # "opening"
BY DEF AfterReopen, Pipeline, NoTask

\* Those that waited go on.
LEMMA WakeGood ==
    ASSUME NEW att \in BOOLEAN, NEW S, Good(S, att),
           NEW from \in {"joined", "queued", "joinReopen", "queueReopen"},
           NEW to \in {"reopened", "wakeReopen", "resumed", "wakeLoad"}
    PROVE  Good(Wake(S, from, to), att)
<1> DEFINE T == Wake(S, from, to)
<1>1. S \in State /\ S.c \in Controller /\ S.task \in [Tasks -> Pipeline]
    BY DEF Good, State
<1>2. \A u \in Tasks : T.task[u] = IF S.task[u].pc = from THEN [S.task[u] EXCEPT !.pc = to]
                                   ELSE S.task[u]
    BY DEF Wake
<1>3. T.c = S.c /\ T = [c |-> T.c, task |-> T.task] /\ DOMAIN T.task = Tasks
      /\ T.task = [u \in Tasks |-> T.task[u]]
    BY DEF Wake
<1> HIDE DEF T
<1>4. ASSUME NEW u \in Tasks
      PROVE  /\ T.task[u] \in Pipeline /\ T.task[u].mac = S.task[u].mac
             /\ T.task[u].fresh = S.task[u].fresh
             /\ T.task[u].pc = S.task[u].pc \/ (S.task[u].pc = from /\ T.task[u].pc = to)
  <2>1. S.task[u] \in Pipeline BY <1>1
  <2>2. CASE S.task[u].pc = from
    <3> DEFINE q == [S.task[u] EXCEPT !.pc = to]
    <3>1. q \in Pipeline BY <2>1 DEF Pipeline
    <3>2. q.mac = S.task[u].mac /\ q.fresh = S.task[u].fresh /\ q.pc = to BY <2>1 DEF Pipeline
    <3>3. T.task[u] = q BY <1>2, <2>2
    <3> HIDE DEF q
    <3>4. T.task[u] \in Pipeline /\ T.task[u].pc = to BY <3>1, <3>2, <3>3
    <3>5. T.task[u].mac = S.task[u].mac /\ T.task[u].fresh = S.task[u].fresh BY <3>2, <3>3
    <3> QED BY <2>2, <3>4, <3>5
  <2>3. CASE S.task[u].pc # from BY <1>2, <2>1, <2>3
  <2> QED BY <2>2, <2>3
<1>5. T \in State BY <1>1, <1>3, <1>4 DEF State
<1>6. \A u \in Tasks : /\ T.task[u].pc # "free" => T.task[u].mac \in Macs
                       /\ T.task[u].fresh => S.task[u].fresh
                       /\ T.task[u].pc = "opening" => S.task[u].pc = "opening"
    BY <1>4 DEF Good
<1>7. Good(T, att) BY <1>3, <1>5, <1>6, CalmGood
<1> QED BY <1>7 DEF T

\* Whoever shares or awaits the re-open of t goes on when it settles.  t itself
\* may have stored its session by then.
LEMMA ReopenSettlesGood ==
    ASSUME NEW att \in BOOLEAN, NEW S, NEW t \in Tasks, S.task[t].mac \in Macs,
           GoodBut(S, att, t)
    PROVE  Good(ReopenSettles(S, t), att)
<1> DEFINE k == [S.c EXCEPT !.reopening = IF @ = t THEN None ELSE @]
           r == AfterReopen(S.task[t])
           T == [c |-> k, task |-> [S.task EXCEPT ![t] = r]]
<1>1. S \in State /\ S.c \in Controller /\ S.task \in [Tasks -> Pipeline]
    BY DEF GoodBut, State
<1>2. k \in Controller /\ k.session = S.c.session /\ k.streams = S.c.streams /\ k.held = S.c.held
    BY <1>1 DEF Controller
<1>3. r \in Pipeline /\ (r.pc # "free" => r.mac \in Macs) /\ (r.fresh => S.task[t].fresh)
      /\ r.pc # "opening"
    BY <1>1, AfterReopenRecord
<1>4. Good(T, att)
  <2> HIDE DEF k, r
  <2>1. T \in State BY <1>1, <1>2, <1>3 DEF State
  <2>2. T.c = k /\ T.task[t] = r /\ \A u \in Tasks \ {t} : T.task[u] = S.task[u]
      BY <1>1
  <2> HIDE DEF T
  <2> QED BY <1>2, <1>3, <2>1, <2>2 DEF Good, GoodBut, Opening
<1>5. T = [c |-> [S.c EXCEPT !.reopening = IF @ = t THEN None ELSE @],
           task |-> [S.task EXCEPT ![t] = AfterReopen(@)]]
    BY <1>1
<1>6. ReopenSettles(S, t) = IF S.c.reopening # t THEN T
                            ELSE Wake(Wake(T, "joinReopen", "reopened"), "queueReopen", "wakeReopen")
  <2> HIDE DEF T
  <2> QED BY <1>5 DEF ReopenSettles
<1> HIDE DEF T
<1>7. Good(Wake(Wake(T, "joinReopen", "reopened"), "queueReopen", "wakeReopen"), att)
  <2>1. Good(Wake(T, "joinReopen", "reopened"), att) BY <1>4, WakeGood
  <2> QED BY <2>1, WakeGood
<1> QED BY <1>4, <1>6, <1>7

-----------------------------------------------------------------------------
(* The steps                                                               *)

\* What a step needs of the state it starts from.
LEMMA NowFacts ==
    ASSUME IInv
    PROVE  /\ Good(Now, attached) /\ Now \in State /\ Now.c = c /\ Now.task = task
           /\ c \in Controller /\ task \in [Tasks -> Pipeline] /\ attached \in BOOLEAN
           /\ \A t \in Tasks : task[t].pc # "free" => task[t].mac \in Macs
BY DEF IInv, Good, Now, PanelTypeOK, Controller, Pipeline, State

\* A state that is reached with the rest of the panel's variables well typed.
LEMMA Reached ==
    ASSUME NEW S, Becomes(S), Good(S, attached'), ShownIsLoaded',
           up' \in BOOLEAN, attached' \in BOOLEAN, dirty' \in BOOLEAN,
           dev' \in [Macs -> {"gone", "off", "on"}],
           sel' \in Macs, ctl' \in Macs, stored' \in Macs \cup {None},
           loaded' \in Macs \cup {None}, shown' \in Macs \cup {None}
    PROVE  IInv'
<1>1. Now' = [c |-> S.c, task |-> S.task] BY DEF Now, Becomes
<1>2. S \in State BY DEF Good
<1>3. Now' = S BY <1>1, <1>2 DEF State
<1>4. c' \in Controller /\ task' \in [Tasks -> Pipeline] BY <1>2 DEF Becomes, State
<1>5. PanelTypeOK' BY <1>4 DEF PanelTypeOK, Controller, Pipeline
<1> QED BY <1>3, <1>5 DEF IInv

\* A step inside the controller.
LEMMA InsideStep ==
    ASSUME IInv, NEW S, Good(S, attached), Inside(S)
    PROVE  IInv'
BY Reached DEF Inside, PanelKept, IInv, PanelTypeOK, ShownIsLoaded

\* Pipeline t goes on with another record; it opens nothing it did not open before.
LEMMA PutStep ==
    ASSUME IInv, NEW t \in Tasks, NEW r \in Pipeline, Inside(Put(Now, t, r)),
           r.pc # "free" => r.mac \in Macs, r.fresh => attached \/ task[t].fresh,
           r.pc # "opening"
    PROVE  IInv'
<1> DEFINE T == Put(Now, t, r)
<1>1. T = [c |-> Now.c, task |-> [Now.task EXCEPT ![t] = r]] BY DEF Put
<1>2. Good(T, attached)
  <2> HIDE DEF T
  <2> QED BY <1>1, NowFacts, PutGood
<1> QED BY <1>2, InsideStep

\* A queued load.
LEMMA LoadWakesStep ==
    ASSUME IInv, NEW t \in Tasks, LoadWakes(t)
    PROVE  IInv'
<1>1. task[t] \in Pipeline /\ task[t].mac \in Macs BY NowFacts DEF LoadWakes
<1>2. CASE attached
  <2>1. Inside(StartLoad(Now, t)) BY <1>2 DEF LoadWakes
  <2>2. Good(StartLoad(Now, t), attached) BY <1>1, <1>2, NowFacts, StartLoadGood
  <2> QED BY <2>1, <2>2, InsideStep
<1>3. CASE ~attached
  <2> DEFINE r == [task[t] EXCEPT !.pc = "resumed"]
  <2>1. Inside(Put(Now, t, r)) BY <1>3 DEF LoadWakes
  <2>2. r \in Pipeline /\ r.mac = task[t].mac /\ r.fresh = task[t].fresh /\ r.pc = "resumed"
      BY <1>1 DEF Pipeline
  <2> HIDE DEF r
  <2> QED BY <1>1, <2>1, <2>2, PutStep
<1> QED BY <1>2, <1>3

\* The configuration is there.
LEMMA ConfigArrivesStep ==
    ASSUME IInv, NEW t \in Tasks, ConfigArrives(t)
    PROVE  IInv'
<1>1. task[t] \in Pipeline /\ task[t].mac \in Macs /\ task[t].pc = "config"
    BY NowFacts DEF ConfigArrives
<1>2. PICK ok \in {up, FALSE} :
         LET p == [task[t] EXCEPT !.config = ok]
         IN  Inside(IF p.fresh THEN Reopen(Put(Now, t, p), t)
                    ELSE Put(Now, t, [p EXCEPT !.pc = "reopened"]))
    BY DEF ConfigArrives
<1> DEFINE p == [task[t] EXCEPT !.config = ok]
           q == [p EXCEPT !.pc = "reopened"]
<1>3. ok \in BOOLEAN BY <1>2 DEF IInv, PanelTypeOK
<1>4. p \in Pipeline /\ p.mac = task[t].mac /\ p.fresh = task[t].fresh /\ p.pc = "config"
    BY <1>1, <1>3 DEF Pipeline
<1>5. q \in Pipeline /\ q.mac = task[t].mac /\ q.fresh = task[t].fresh /\ q.pc = "reopened"
    BY <1>1, <1>3 DEF Pipeline
<1>6. Inside(IF p.fresh THEN Reopen(Put(Now, t, p), t) ELSE Put(Now, t, q)) BY <1>2
<1> HIDE DEF p, q
<1>7. CASE p.fresh
  <2>1. attached BY <1>4, <1>7, NowFacts DEF Good
  <2> DEFINE S == Put(Now, t, p)
  <2>2. S = [c |-> Now.c, task |-> [Now.task EXCEPT ![t] = p]] BY DEF Put
  <2> HIDE DEF S
  <2>3. Good(S, attached) BY <1>1, <1>4, <2>2, NowFacts, PutGood
  <2>4. S.task[t] = p BY <2>2, NowFacts
  <2>5. Good(Reopen(S, t), attached) BY <1>1, <1>4, <2>1, <2>3, <2>4, ReopenGood
  <2> QED BY <1>6, <1>7, <2>5, InsideStep DEF S
<1>8. CASE ~p.fresh BY <1>1, <1>4, <1>5, <1>6, <1>8, PutStep
<1> QED BY <1>7, <1>8

\* A queued re-open.
LEMMA ReopenWakesStep ==
    ASSUME IInv, NEW t \in Tasks, ReopenWakes(t)
    PROVE  IInv'
<1>1. task[t] \in Pipeline /\ task[t].mac \in Macs BY NowFacts DEF ReopenWakes
<1>2. CASE attached
  <2>1. Inside(Open(Now, t)) BY <1>2 DEF ReopenWakes
  <2>2. Good(Open(Now, t), attached) BY <1>1, <1>2, NowFacts, OpenGood
  <2> QED BY <2>1, <2>2, InsideStep
<1>3. CASE ~attached
  <2>1. Inside(Put(Now, t, AfterReopen(task[t]))) BY <1>3 DEF ReopenWakes
  <2> QED BY <1>1, <2>1, AfterReopenRecord, PutStep
<1> QED BY <1>2, <1>3

\* The streams are subscribed for a device, if there is a session.
LEMMA WithStreamsRecord ==
    ASSUME NEW k \in Controller, NEW m \in Macs
    PROVE  LET q == WithStreams(k, m)
           IN  q \in Controller /\ q.session = k.session /\ q.held = k.held
               /\ (k.session = None => q = k)
BY DEF WithStreams, Controller

\* The open is answered: its session is stored if the token is still current.
LEMMA OpenedStep ==
    ASSUME IInv, NEW t \in Tasks, Opened(t)
    PROVE  IInv'
<1>1. /\ task[t] \in Pipeline /\ task[t].mac \in Macs /\ task[t].pc = "opening"
      /\ Good(Now, attached) /\ Now.c = c /\ Now.task = task /\ c \in Controller
      /\ task \in [Tasks -> Pipeline] /\ attached \in BOOLEAN
    BY NowFacts DEF Opened
<1> DEFINE k == IF task[t].fresh THEN [c EXCEPT !.session = task[t].mac, !.held = @ + 1] ELSE c
           S == [c |-> WithStreams(k, task[t].mac), task |-> task]
<1>2. /\ k \in Controller
      /\ k.session = IF task[t].fresh THEN task[t].mac ELSE c.session
      /\ k.held = IF k.session = None THEN 0 ELSE 1
      /\ ~task[t].fresh => k = c
  <2>1. CASE task[t].fresh
    <3>1. c.session = None /\ c.held = 0 BY <1>1, <2>1 DEF Good, Opening
    <3>2. task[t].mac # None BY <1>1, PanelAssumption
    <3> DEFINE j == [c EXCEPT !.session = task[t].mac]
    <3>3. j \in Controller /\ j.session = task[t].mac BY <1>1 DEF Controller
    <3>4. k = [j EXCEPT !.held = 1] BY <1>1, <2>1, <3>1 DEF Controller
    <3> HIDE DEF j, k
    <3>5. k \in Controller /\ k.session = task[t].mac /\ k.held = 1
        BY <3>3, <3>4 DEF Controller
    <3> QED BY <2>1, <3>2, <3>5
  <2>2. CASE ~task[t].fresh
    <3>1. k = c BY <2>2
    <3>2. c.held = IF c.session = None THEN 0 ELSE 1 BY <1>1 DEF Good
    <3> HIDE DEF k
    <3> QED BY <1>1, <2>2, <3>1, <3>2
  <2> QED BY <2>1, <2>2
<1>3. Inside(ReopenSettles(S, t)) BY DEF Opened
<1> HIDE DEF k
<1>4. /\ S.c \in Controller /\ S.c.session = k.session /\ S.c.held = k.held
      /\ k.session = None => S.c = k
      /\ S.task = task /\ S \in State
    BY <1>1, <1>2, WithStreamsRecord DEF State
<1> HIDE DEF S
<1>5. \A u \in Tasks \ {t} : Opening(S, u) =>
         S.c.session = None /\ \A v \in Tasks \ {t} : Opening(S, v) => v = u
  <2>1. ASSUME NEW u \in Tasks \ {t}, Opening(S, u)
        PROVE  S.c.session = None /\ \A v \in Tasks \ {t} : Opening(S, v) => v = u
    <3>1. Opening(Now, u) BY <1>1, <1>4, <2>1 DEF Opening
    <3>2. \A v \in Tasks : Opening(Now, v) => v = u BY <1>1, <3>1 DEF Good
    <3>3. ~task[t].fresh BY <1>1, <3>2 DEF Opening
    <3>4. S.c.session = None BY <1>1, <1>2, <1>4, <3>1, <3>3 DEF Good
    <3> QED BY <1>1, <1>4, <3>2, <3>4 DEF Opening
  <2> QED BY <2>1
<1>6. ~attached => S.c.session = None /\ S.c.streams = None /\ \A u \in Tasks : ~S.task[u].fresh
    BY <1>1, <1>2, <1>4 DEF Good
<1>7. \A u \in Tasks : S.task[u].pc # "free" => S.task[u].mac \in Macs
    BY <1>1, <1>4 DEF Good
<1>8. S.c.held = IF S.c.session = None THEN 0 ELSE 1 BY <1>2, <1>4
<1>9. GoodBut(S, attached, t) BY <1>4, <1>5, <1>6, <1>7, <1>8 DEF GoodBut
<1>10. Good(ReopenSettles(S, t), attached) BY <1>1, <1>4, <1>9, ReopenSettlesGood
<1> QED BY <1>3, <1>10, InsideStep

\* The open is rejected.
LEMMA OpenFailsStep ==
    ASSUME IInv, NEW t \in Tasks, OpenFails(t)
    PROVE  IInv'
<1>1. /\ task[t].mac \in Macs /\ Good(Now, attached) /\ Now.c = c /\ Now.task = task
      /\ c \in Controller /\ task \in [Tasks -> Pipeline] /\ attached \in BOOLEAN
    BY NowFacts DEF OpenFails
<1> DEFINE S == [c |-> WithStreams(c, task[t].mac), task |-> task]
<1>2. Inside(ReopenSettles(S, t)) BY DEF OpenFails
<1>3. /\ S.c \in Controller /\ S.c.session = c.session /\ S.c.held = c.held
      /\ c.session = None => S.c = c
      /\ S.task = task /\ S \in State
    BY <1>1, WithStreamsRecord DEF State
<1> HIDE DEF S
<1>4. GoodBut(S, attached, t) BY <1>1, <1>3 DEF Good, GoodBut, Opening
<1>5. Good(ReopenSettles(S, t), attached) BY <1>1, <1>3, <1>4, ReopenSettlesGood
<1> QED BY <1>2, <1>5, InsideStep

\* Who shares a load gets its answer.
LEMMA AnswerGood ==
    ASSUME NEW att \in BOOLEAN, NEW S, Good(S, att), NEW ok \in BOOLEAN
    PROVE  Good(Answer(S, ok), att)
<1> DEFINE T == Answer(S, ok)
<1>1. S \in State /\ S.c \in Controller /\ S.task \in [Tasks -> Pipeline]
    BY DEF Good, State
<1>2. \A u \in Tasks : T.task[u] = IF S.task[u].pc = "joined" THEN [S.task[u] EXCEPT !.config = ok]
                                   ELSE S.task[u]
    BY DEF Answer
<1>3. T.c = S.c /\ T = [c |-> T.c, task |-> T.task] /\ DOMAIN T.task = Tasks
      /\ T.task = [u \in Tasks |-> T.task[u]]
    BY DEF Answer
<1> HIDE DEF T
<1>4. ASSUME NEW u \in Tasks
      PROVE  /\ T.task[u] \in Pipeline /\ T.task[u].mac = S.task[u].mac
             /\ T.task[u].fresh = S.task[u].fresh /\ T.task[u].pc = S.task[u].pc
  <2>1. S.task[u] \in Pipeline BY <1>1
  <2>2. CASE S.task[u].pc = "joined"
    <3>1. T.task[u] = [S.task[u] EXCEPT !.config = ok] BY <1>2, <2>2
    <3> QED BY <2>1, <3>1 DEF Pipeline
  <2>3. CASE S.task[u].pc # "joined" BY <1>2, <2>1, <2>3
  <2> QED BY <2>2, <2>3
<1>5. T \in State BY <1>1, <1>3, <1>4 DEF State
<1>6. \A u \in Tasks : /\ T.task[u].pc # "free" => T.task[u].mac \in Macs
                       /\ T.task[u].fresh => S.task[u].fresh
                       /\ T.task[u].pc = "opening" => S.task[u].pc = "opening"
    BY <1>4 DEF Good
<1>7. Good(T, att) BY <1>3, <1>5, <1>6, CalmGood
<1> QED BY <1>7 DEF T

\* A load is over.
LEMMA LoadEndsStep ==
    ASSUME IInv, NEW t \in Tasks, LoadEnds(t)
    PROVE  IInv'
<1>1. /\ task[t] \in Pipeline /\ task[t].mac \in Macs /\ Good(Now, attached)
      /\ Now.c = c /\ Now.task = task /\ c \in Controller
      /\ task \in [Tasks -> Pipeline] /\ attached \in BOOLEAN
    BY NowFacts DEF LoadEnds
<1> DEFINE k == [c EXCEPT !.reconnecting = FALSE, !.loading = IF @ = t THEN None ELSE @]
           r == [task[t] EXCEPT !.pc = "resumed"]
           S == [c |-> k, task |-> [task EXCEPT ![t] = r]]
           J == Answer(S, task[t].config)
<1>2. k \in Controller /\ k.session = c.session /\ k.streams = c.streams /\ k.held = c.held
  <2> DEFINE l == IF c.loading = t THEN None ELSE c.loading
  <2>1. l \in Tasks \cup {None} BY <1>1 DEF Controller
  <2>2. k = [[c EXCEPT !.reconnecting = FALSE] EXCEPT !.loading = l] BY <1>1 DEF Controller
  <2> HIDE DEF l
  <2> QED BY <1>1, <2>1, <2>2 DEF Controller
<1>3. r \in Pipeline /\ r.mac = task[t].mac /\ r.fresh = task[t].fresh /\ r.pc = "resumed"
    BY <1>1 DEF Pipeline
<1>4. S = [c |-> k, task |-> [Now.task EXCEPT ![t] = r]] BY <1>1
<1>5. Inside(IF c.loading = t THEN Wake(Wake(J, "joined", "resumed"), "queued", "wakeLoad") ELSE S)
    BY <1>1 DEF LoadEnds
<1> HIDE DEF k, r, S
<1>6. Good(S, attached) BY <1>1, <1>2, <1>3, <1>4, PutGood
<1>7. Good(J, attached)
  <2>1. task[t].config \in BOOLEAN BY <1>1 DEF Pipeline
  <2> QED BY <1>1, <1>6, <2>1, AnswerGood
<1> HIDE DEF J
<1>8. Good(Wake(Wake(J, "joined", "resumed"), "queued", "wakeLoad"), attached)
  <2>1. Good(Wake(J, "joined", "resumed"), attached) BY <1>1, <1>7, WakeGood
  <2> QED BY <1>1, <2>1, WakeGood
<1> QED BY <1>5, <1>6, <1>8, InsideStep

\* The panel takes the configuration of the device it still shows, or closes.
LEMMA ResumesStep ==
    ASSUME IInv, NEW t \in Tasks, Resumes(t)
    PROVE  IInv'
<1>1. /\ task[t] \in Pipeline /\ task[t].mac \in Macs /\ Good(Now, attached)
      /\ Now.c = c /\ Now.task = task /\ c \in Controller
      /\ task \in [Tasks -> Pipeline] /\ attached \in BOOLEAN
    BY NowFacts DEF Resumes
<1> DEFINE S == Put(Now, t, NoTask)
           ours == attached /\ sel = task[t].mac
           T == IF ours THEN S ELSE CloseSession(S)
<1>2. Good(S, attached)
  <2>1. S = [c |-> Now.c, task |-> [Now.task EXCEPT ![t] = NoTask]] BY DEF Put
  <2>2. NoTask \in Pipeline /\ NoTask.pc = "free" /\ ~NoTask.fresh BY DEF NoTask, Pipeline
  <2> HIDE DEF S
  <2> QED BY <1>1, <2>1, <2>2, PutGood
<1> HIDE DEF S
<1>3. Good(T, attached) BY <1>1, <1>2, CloseSessionGood
<1>4. /\ Becomes(T) /\ UNCHANGED <<up, dev, attached, sel, ctl, stored, dirty>>
      /\ loaded' = IF ours /\ task[t].config THEN sel ELSE loaded
      /\ shown' = IF ours /\ task[t].config THEN task[t].mac ELSE shown
    BY DEF Resumes, S
<1> HIDE DEF T
<1>5. ShownIsLoaded' BY <1>4 DEF IInv, ShownIsLoaded
<1>6. loaded' \in Macs \cup {None} /\ shown' \in Macs \cup {None}
    BY <1>1, <1>4 DEF IInv, PanelTypeOK
<1> QED BY <1>3, <1>4, <1>5, <1>6, Reached DEF IInv, PanelTypeOK

\* The rest of the state, as IInv types it.
LEMMA RestFacts ==
    ASSUME IInv
    PROVE  /\ up \in BOOLEAN /\ attached \in BOOLEAN /\ dirty \in BOOLEAN
           /\ dev \in [Macs -> {"gone", "off", "on"}]
           /\ sel \in Macs /\ ctl \in Macs /\ stored \in Macs \cup {None}
           /\ loaded \in Macs \cup {None} /\ shown \in Macs \cup {None}
           /\ shown = loaded
BY DEF IInv, PanelTypeOK, ShownIsLoaded

\* Picking another device.
LEMMA PickStep ==
    ASSUME IInv, NEW m \in Macs, Pick(m)
    PROVE  IInv'
<1> DEFINE S == CloseSession(Now)
           T == Load(S, m)
<1>1. attached = TRUE /\ attached' = TRUE BY RestFacts DEF Pick
<1>2. /\ Becomes(T) /\ FreeTasks # {} /\ sel' = m /\ stored' = m /\ dirty' = FALSE
      /\ UNCHANGED <<up, dev, ctl, loaded, shown>>
    BY DEF Pick
<1>3. Good(S, TRUE) /\ \A t \in Tasks : S.task[t].pc = task[t].pc
  <2>1. Good(Now, attached) /\ Now.task = task /\ attached \in BOOLEAN BY NowFacts
  <2>2. Good(S, TRUE) /\ \A t \in Tasks : S.task[t].pc = Now.task[t].pc
      BY <2>1, CloseSessionGood
  <2> QED BY <2>1, <2>2
<1> HIDE DEF S
<1>4. \E u \in Tasks : S.task[u].pc = "free" BY <1>2, <1>3 DEF FreeTasks
<1>5. Good(T, TRUE) BY <1>3, <1>4, LoadGood
<1> HIDE DEF T
<1> QED BY <1>1, <1>2, <1>5, RestFacts, Reached DEF ShownIsLoaded

\* Home Assistant's pushes of hass, and its return.
LEMMA EnsureStep ==
    ASSUME IInv, HassPush \/ HaReady
    PROVE  IInv'
<1>1. attached = TRUE /\ FreeTasks # {} /\ Inside(Ensure(Now, sel))
    BY RestFacts DEF HassPush, HaReady
<1>2. Good(Now, TRUE) /\ \E u \in Tasks : Now.task[u].pc = "free"
    BY <1>1, NowFacts DEF FreeTasks
<1>3. Good(Ensure(Now, sel), attached) BY <1>1, <1>2, RestFacts, EnsureGood
<1> QED BY <1>1, <1>3, InsideStep

\* Two pipelines are free.
LEMMA TwoFree ==
    ASSUME Cardinality(FreeTasks) >= 2
    PROVE  \E u, v \in FreeTasks : u # v
<1>1. FreeTasks # {} BY FS_EmptySet
<1>2. PICK u \in FreeTasks : TRUE BY <1>1
<1>3. FreeTasks # {u}
  <2>1. Cardinality({u}) = 1 BY FS_Singleton
  <2> QED BY <2>1
<1> QED BY <1>2, <1>3

\* A load takes one pipeline only.
LEMMA LoadKeepsFree ==
    ASSUME NEW S, Good(S, TRUE), NEW u \in Tasks, NEW v \in Tasks, u # v, NEW m \in Macs,
           S.task[u].pc = "free", S.task[v].pc = "free"
    PROVE  \E w \in Tasks : Load(S, m).task[w].pc = "free"
<1> DEFINE t == NewTask(S)
           B(pc) == Begin(S, t, "load", m, pc)
<1>1. S.task \in [Tasks -> Pipeline] BY DEF Good, State
<1>2. PICK w \in Tasks : w # t /\ S.task[w].pc = "free" OBVIOUS
<1>3. \A pc : B(pc).task[w] = S.task[w] /\ DOMAIN B(pc).task = Tasks
    BY <1>1, <1>2 DEF Begin
<1>4. CASE S.c.loading = None
  <2>1. Load(S, m) = StartLoad(B("free"), t) BY <1>4 DEF Load
  <2> HIDE DEF t, B
  <2>2. StartLoad(B("free"), t).task[w] = B("free").task[w] BY <1>2, <1>3 DEF StartLoad
  <2> QED BY <1>2, <1>3, <2>1, <2>2
<1>5. CASE S.c.loading # None
  <2>1. Load(S, m) = B("joined") \/ Load(S, m) = B("queued") BY <1>5 DEF Load
  <2> HIDE DEF t, B
  <2> QED BY <1>2, <1>3, <2>1
<1> QED BY <1>4, <1>5

\* A device list.
LEMMA PushStep ==
    ASSUME IInv, NEW d \in [Macs -> {"gone", "off", "on"}], Push(d)
    PROVE  IInv'
<1>1. attached = TRUE /\ Good(Now, TRUE) /\ Now.task = task
    BY NowFacts, RestFacts DEF Push
<1>2. PICK u \in Tasks, v \in Tasks : u # v /\ task[u].pc = "free" /\ task[v].pc = "free"
    BY TwoFree DEF Push, FreeTasks
<1>3. PICK next \in Choices(d) :
         LET S == IF ctl \in Listed(d) THEN Now ELSE CloseSession(Now)
             T == IF next # sel /\ d[next] = "on" THEN Load(S, next) ELSE S
         IN  /\ ctl' = next /\ sel' = next /\ dev' = d
             /\ stored' = IF next # sel THEN next ELSE stored
             /\ Becomes(IF Bootable(T, next, d) THEN Ensure(T, next) ELSE T)
    BY DEF Push
<1>4. next \in Macs BY RestFacts DEF Choices, Listed
<1> DEFINE S == IF ctl \in Listed(d) THEN Now ELSE CloseSession(Now)
           T == IF next # sel /\ d[next] = "on" THEN Load(S, next) ELSE S
           R == IF Bootable(T, next, d) THEN Ensure(T, next) ELSE T
<1>5. /\ ctl' = next /\ sel' = next /\ dev' = d
      /\ stored' = IF next # sel THEN next ELSE stored
      /\ Becomes(R) /\ UNCHANGED <<up, attached, loaded, shown, dirty>>
    BY <1>3 DEF Push
<1>6. Good(S, TRUE) /\ S.task[u].pc = "free" /\ S.task[v].pc = "free"
    BY <1>1, <1>2, CloseSessionGood
<1> HIDE DEF S
<1>7. Good(T, TRUE) /\ \E w \in Tasks : T.task[w].pc = "free"
    BY <1>2, <1>4, <1>6, LoadGood, LoadKeepsFree
<1> HIDE DEF T
<1>8. Good(R, TRUE) BY <1>4, <1>7, EnsureGood
<1> HIDE DEF R
<1> QED BY <1>1, <1>4, <1>5, <1>8, RestFacts, Reached DEF ShownIsLoaded

\* The panel leaves the document.
LEMMA DetachStep ==
    ASSUME IInv, Detach
    PROVE  IInv'
<1> DEFINE T == CloseSession(Now)
<1>1. /\ Becomes(T) /\ attached' = FALSE
      /\ UNCHANGED <<up, dev, sel, ctl, stored, loaded, shown, dirty>>
    BY DEF Detach
<1>2. Good(T, FALSE) BY NowFacts, CloseSessionGood
<1> HIDE DEF T
<1> QED BY <1>1, <1>2, RestFacts, Reached DEF ShownIsLoaded

\* A fresh connection: the old session is gone on both ends.
LEMMA SwapConnectionStep ==
    ASSUME IInv, SwapConnection
    PROVE  IInv'
<1>1. /\ Good(Now, attached) /\ Now.c = c /\ Now.task = task
      /\ c \in Controller /\ task \in [Tasks -> Pipeline]
    BY NowFacts
<1> DEFINE k == [c EXCEPT !.session = None, !.streams = None, !.held = 0]
           f == [t \in Tasks |-> [task[t] EXCEPT !.fresh = FALSE]]
           T == [c |-> k, task |-> f]
<1>2. k = [c EXCEPT !.held = 0, !.session = None, !.streams = None] BY <1>1 DEF Controller
<1>3. k \in Controller /\ k.held = 0 /\ k.session = None /\ k.streams = None
    BY <1>1, <1>2, ClosedRecords
<1>4. \A t \in Tasks : f[t] \in Pipeline /\ ~f[t].fresh /\ f[t].pc = task[t].pc
                       /\ f[t].mac = task[t].mac
  <2>1. \A t \in Tasks : task[t] \in Pipeline /\ f[t] = [task[t] EXCEPT !.fresh = FALSE]
      BY <1>1
  <2> QED BY <2>1, ClosedRecords
<1>5. f = [t \in Tasks |-> f[t]] OBVIOUS
<1>6. Inside(T) BY DEF SwapConnection, Inside, Becomes
<1> HIDE DEF k, f
<1>7. f \in [Tasks -> Pipeline] BY <1>4, <1>5
<1>8. T \in State BY <1>3, <1>7 DEF State
<1>9. T.c = k /\ T.task = f OBVIOUS
<1> HIDE DEF T
<1>10. Good(T, attached) BY <1>1, <1>3, <1>4, <1>8, <1>9 DEF Good, Opening
<1> QED BY <1>6, <1>10, InsideStep

\* A step that leaves controller and pipelines alone.
LEMMA RestStep ==
    ASSUME IInv, Edit \/ Save \/ Attach \/ Reload
    PROVE  IInv'
<1>1. Becomes(Now) BY NowFacts DEF Edit, Save, Attach, Reload, Becomes
<1>2. Good(Now, attached') BY NowFacts DEF Edit, Save, Attach, Reload, Good, PanelKept
<1>3. /\ up' \in BOOLEAN /\ attached' \in BOOLEAN /\ dirty' \in BOOLEAN
      /\ UNCHANGED <<dev, sel, ctl, stored, loaded, shown>>
    BY RestFacts DEF Edit, Save, Attach, Reload, PanelKept
<1> QED BY <1>1, <1>2, <1>3, RestFacts, Reached DEF ShownIsLoaded

\* The panel starts without session and pipelines.
LEMMA InitIInv ==
    ASSUME Init PROVE IInv
<1>1. sel \in Macs /\ stored \in Macs \cup {None} BY DEF Init, Listed
<1>2. NoTask \in Pipeline /\ NoTask.pc = "free" /\ ~NoTask.fresh BY DEF NoTask, Pipeline
<1>3. task \in [Tasks -> Pipeline] /\ \A t \in Tasks : task[t] = NoTask BY <1>2 DEF Init
<1>4. c \in Controller /\ c.session = None /\ c.held = 0 BY DEF Init, Controller
<1>5. PanelTypeOK BY <1>1, <1>3, <1>4 DEF Init, PanelTypeOK, Controller, Pipeline
<1>6. Now \in State /\ Now.c = c /\ Now.task = task BY <1>3, <1>4 DEF Now, State
<1>7. Good(Now, attached) BY <1>2, <1>3, <1>4, <1>6 DEF Good, Opening, Init
<1> QED BY <1>5, <1>7 DEF Init, IInv, ShownIsLoaded

\* Every step keeps the invariant.
LEMMA NextIInv ==
    ASSUME IInv, [Next]_vars PROVE IInv'
<1>1. ASSUME NEW t \in Tasks, Advance(t) PROVE IInv'
    BY <1>1, LoadWakesStep, ConfigArrivesStep, ReopenWakesStep, OpenedStep, OpenFailsStep,
       LoadEndsStep, ResumesStep DEF Advance
<1>2. CASE UNCHANGED vars
  <2>1. Becomes(Now) BY <1>2, NowFacts DEF vars, Becomes
  <2> QED BY <1>2, <2>1, NowFacts, RestFacts, Reached DEF vars, ShownIsLoaded
<1> QED BY <1>1, <1>2, PickStep, EnsureStep, PushStep, DetachStep, SwapConnectionStep, RestStep
    DEF Next

-----------------------------------------------------------------------------
(* The theorems                                                            *)

\* Good is an invariant of the panel, with its types.
THEOREM Invariance == Spec => []IInv
BY InitIInv, NextIInv, PTL DEF Spec

\* Every variable keeps its type, for any devices and any number of pipelines.
THEOREM TypeCorrect == Spec => []PanelTypeOK
<1>1. IInv => PanelTypeOK BY DEF IInv
<1> QED BY <1>1, Invariance, PTL

\* The backend holds the one session reference the controller will give back,
\* and none without, however pipelines overtake each other.
THEOREM LeaksNoSession == Spec => []NoLeakedSession
<1>1. IInv => NoLeakedSession BY NowFacts DEF Good, NoLeakedSession
<1> QED BY <1>1, Invariance, PTL

\* A panel that left the document has no session and no streams, whatever was
\* under way when it left.
THEOREM DeadPanelIsEmpty == Spec => []DeadPanelHoldsNothing
<1>1. IInv => DeadPanelHoldsNothing BY NowFacts DEF Good, DeadPanelHoldsNothing
<1> QED BY <1>1, Invariance, PTL

\* The editor never holds the configuration of another device than the one it
\* was loaded for.
THEOREM ShowsWhatItLoaded == Spec => []ShownIsLoaded
<1>1. IInv => ShownIsLoaded BY DEF IInv
<1> QED BY <1>1, Invariance, PTL

=============================================================================
