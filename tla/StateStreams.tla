---------------------------- MODULE StateStreams ----------------------------
(***************************************************************************)
(* The durable state streams of one device (DeviceManager in               *)
(* device_manager/__init__.py, StateStream in _streams.py, and the         *)
(* subscribe command in websocket_api/_durable_stream.py).  A client       *)
(* subscribes once; the manager arms its stream on whatever connection the *)
(* device has, in passes under a lock, and retries with a backoff.         *)
(*                                                                         *)
(* An action is the code between two awaits.  A pass (_ensure_streams)     *)
(* runs in the task of the client that adds a stream, in the retry task,   *)
(* or in a task spawned for a lost session or a returning device; it       *)
(* awaits the lock and the opening of a session.  The session is           *)
(* DeviceSession's, reduced to what it gives the streams: a reference that *)
(* an open takes, a close once the last one is released, a close for a     *)
(* device that leaves, on_stop when a connection ends.  lock is the FIFO   *)
(* queue of the asyncio.Lock.  A pass takes its streams in any order       *)
(* (theirs is the order of registration).                                  *)
(* A callback stays on its connection until it is removed; that _fan_out   *)
(* in _connection.py drops one that raises is left out.                    *)
(***************************************************************************)
EXTENDS Naturals, Sequences, FiniteSets

CONSTANTS
    Streams,    \* the clients' subscriptions, each with the task that adds it
    Retries,    \* bound: retry tasks that exist at one time
    Spawns,     \* bound: spawned passes that exist at one time
    Conns,      \* bound: connections that exist at one time
    None,
    MayStop,    \* the config entry may be unloaded
    ReaddEarly  \* a removed device may be added again while passes of its former life go on

Tasks == Streams \cup Retries \cup Spawns

ASSUME StreamsAssumption ==
    /\ IsFiniteSet(Streams) /\ None \notin Tasks \cup Conns
    /\ Streams \cap Retries = {} /\ Streams \cap Spawns = {} /\ Retries \cap Spawns = {}
    /\ MayStop \in BOOLEAN /\ ReaddEarly \in BOOLEAN

VARIABLES
    available,  \* some entity of the device is live
    managed,    \* the device is in manager.devices
    phase,      \* of async_stop: "running", "draining", "stopped"
    session,    \* the active connection, its link, its references, and a close under way
    feeds,      \* callbacks (or pollers) per connection and stream
    stream,     \* the StateStream records, and what each client was told
    left,       \* clients that unsubscribed while their stream was being added
    count,      \* _target_subs[mac]
    slot,       \* _stream_retry_tasks[mac]
    pass,       \* where each task is in _ensure_streams
    lock,       \* _stream_locks[mac]
    old         \* the lock of the device's former life, until its last task is through

vars == <<available, managed, phase, session, feeds, stream, left, count, slot, pass, lock, old>>

\* What a task reads and writes between two awaits.
Now == [live |-> managed /\ available, session |-> session, feeds |-> feeds, stream |-> stream,
        left |-> left, count |-> count, slot |-> slot, pass |-> pass, lock |-> lock, old |-> old]
Becomes(S) ==
    /\ session' = S.session /\ feeds' = S.feeds /\ stream' = S.stream /\ left' = S.left
    /\ count' = S.count /\ slot' = S.slot /\ pass' = S.pass /\ lock' = S.lock /\ old' = S.old

Running == phase = "running"
\* A device nobody manages is worth a try.
IsAvailable == ~managed \/ available

NoSession == [conn |-> None, up |-> FALSE, refs |-> 0, closing |-> FALSE]
NewStream == [st |-> "out", conn |-> None, told |-> "nothing", closed |-> FALSE]
IdleTask == [pc |-> "idle", at |-> None, todo |-> {}, cancelled |-> FALSE]
NoFeeds == [s \in Streams |-> 0]

\* _state_streams[mac]: the streams the manager holds.
Held(S) == {s \in Streams : S.stream[s].st = "open"}
Unarmed(S) == {s \in Held(S) : S.stream[s].conn = None}

Init ==
    /\ available \in BOOLEAN /\ managed = TRUE /\ phase = "running"
    /\ session = NoSession /\ feeds = [c \in Conns |-> NoFeeds]
    /\ stream = [s \in Streams |-> NewStream] /\ left = {} /\ count = 0
    /\ slot = None /\ pass = [t \in Tasks |-> IdleTask] /\ lock = <<>> /\ old = <<>>

-----------------------------------------------------------------------------
(* One stream                                                              *)

\* release_session, n times: only the active connection's references count.
Released(k, c, n) ==
    IF ~Running \/ k.conn # c \/ n = 0 THEN k
    ELSE IF k.refs > n THEN [k EXCEPT !.refs = @ - n]
    ELSE [k EXCEPT !.refs = 0, !.closing = TRUE]

Silenced(line, U) == [s \in Streams |-> IF s \in U THEN [line[s] EXCEPT !.conn = None] ELSE line[s]]
Unfed(fed, U) == [s \in Streams |-> IF s \in U /\ fed[s] > 0 THEN fed[s] - 1 ELSE fed[s]]

\* _disarm_stream, for the streams U that are armed on connection c.
Disarm(S, U, c) ==
    [S EXCEPT !.stream = Silenced(@, U), !.feeds[c] = Unfed(@, U),
              !.session = Released(@, c, Cardinality(U))]

\* The queue q once task t has left it.
Leave(q, t) ==
    IF \A i \in DOMAIN q : q[i] # t THEN q
    ELSE [i \in 1..(Len(q) - 1) |-> IF \E j \in 1..i : q[j] = t THEN q[i + 1] ELSE q[i]]

\* The retry task t is cancelled: at once if it sleeps or waits, else at its await.
CancelRetry(S, t) ==
    IF t = None THEN S
    ELSE IF S.pass[t].pc = "opening"
    THEN [S EXCEPT !.slot = None, !.pass[t].cancelled = TRUE]
    ELSE [S EXCEPT !.slot = None, !.pass[t] = IdleTask, !.lock = Leave(@, t), !.old = Leave(@, t)]

\* Stream s is off its connection and out of the books.
Forget(S, s) ==
    LET c == S.stream[s].conn
    IN  [(IF c = None THEN S ELSE Disarm(S, {s}, c)) EXCEPT
            !.stream[s].st = "shut", !.count = IF @ = 0 THEN 0 ELSE @ - 1]

\* The client closes its stream; the last one takes the retry task with it.
CloseStream(S, s) ==
    IF S.stream[s].st # "open" THEN S
    ELSE LET T == Forget(S, s)
         IN  IF Held(T) = {} THEN CancelRetry(T, T.slot) ELSE T

\* The manager drops the streams it holds: each client is told, and told why.
MarkClosed(S) ==
    [S EXCEPT !.stream = [s \in Streams |->
        IF S.stream[s].st = "open"
        THEN [st |-> "shut", conn |-> None, told |-> "off", closed |-> TRUE] ELSE S.stream[s]]]

Notify(S, U, what) ==
    [S EXCEPT !.stream = [s \in Streams |-> IF s \in U THEN [@[s] EXCEPT !.told = what] ELSE @[s]]]

-----------------------------------------------------------------------------
(* A pass of _ensure_streams                                               *)

\* _schedule_stream_retry, which no-ops while a retry task lives.
Schedule(S) ==
    IF ~Running \/ S.slot # None THEN S
    ELSE LET r == CHOOSE r \in Retries : S.pass[r].pc = "idle"
         IN  [S EXCEPT !.slot = r, !.pass[r] = [IdleTask EXCEPT !.pc = "asleep"]]

MayRetry == slot # None \/ \E r \in Retries : pass[r].pc = "idle"

\* Task t is through with its pass, or cancelled in it: a client's task hands over
\* the means to close, or closes a stream nobody wants by now; a retry task ends
\* or goes back to sleep.
EndPass(S, t, cancelled) ==
    LET T == [S EXCEPT !.pass[t] = IdleTask, !.lock = Leave(@, t), !.old = Leave(@, t)]
    IN  IF t \in Streams
        THEN IF cancelled \/ t \in T.left THEN [CloseStream(T, t) EXCEPT !.left = @ \ {t}] ELSE T
        ELSE IF t \in Retries /\ ~cancelled /\ Unarmed(T) # {}
        THEN [T EXCEPT !.pass[t].pc = "asleep"]
        ELSE IF T.slot = t THEN [T EXCEPT !.slot = None] ELSE T

\* Fault: one stream that is armed does for all.
FinishIfAnyArmed(S, t, cancelled) ==
    EndPass(IF Unarmed(S) = Held(S) THEN Schedule(S)
            ELSE IF S.slot # t THEN CancelRetry(S, S.slot) ELSE S, t, cancelled)

\* The pass's finally: what is still unarmed gets a retry, else a parked one goes.
Finish(S, t, cancelled) ==
    EndPass(IF Unarmed(S) # {} THEN Schedule(S)
            ELSE IF S.slot # t THEN CancelRetry(S, S.slot) ELSE S, t, cancelled)

\* The next stream of the pass, or its end.
GoOn(S, t) ==
    IF S.pass[t].todo = {} THEN {Finish(S, t, FALSE)}
    ELSE {[S EXCEPT !.pass[t].at = s, !.pass[t].todo = @ \ {s}] : s \in S.pass[t].todo}

\* Task t holds the lock.
Enter(S, t) ==
    LET U == Unarmed(S)
    IN  IF ~Running \/ U = {} THEN {EndPass(S, t, FALSE)}
        ELSE IF ~S.live THEN {EndPass(Notify(S, U, "off"), t, FALSE)}
        ELSE GoOn([S EXCEPT !.pass[t] = [IdleTask EXCEPT !.pc = "opening", !.todo = U]], t)

\* Fault: two passes may run at one time.
EnsureUnlocked(S, t) ==
    IF ~Running \/ Held(S) = {} THEN {EndPass(S, t, FALSE)} ELSE Enter(S, t)

EnsureStreams(S, t) ==
    IF ~Running \/ Held(S) = {} THEN {EndPass(S, t, FALSE)}
    ELSE IF S.lock = <<>> THEN Enter([S EXCEPT !.lock = <<t>>], t)
    ELSE {[S EXCEPT !.lock = Append(@, t), !.pass[t] = [IdleTask EXCEPT !.pc = "waiting"]]}

\* Spawned for whoever wants the streams armed; nobody does when there are none.
SpawnPass(S) ==
    IF ~Running \/ Held(S) = {} THEN {S}
    ELSE EnsureStreams(S, CHOOSE t \in Spawns : S.pass[t].pc = "idle")

MaySpawn == \E t \in Spawns : pass[t].pc = "idle"

\* Fault: the clients are not told that their streams are off the air.
SessionLostSilently(S, c) ==
    LET On == {s \in Held(S) : S.stream[s].conn = c}
    IN  SpawnPass(Disarm(S, On, c))

\* on_stop of connection c: its streams are disarmed, and a pass is spawned.
SessionLost(S, c) ==
    LET On == {s \in Held(S) : S.stream[s].conn = c}
    IN  SpawnPass(Notify(Disarm(S, On, c), On, "off"))

Granted(t) ==
    /\ pass[t].pc = "waiting"
    /\ \/ lock # <<>> /\ Head(lock) = t
       \/ old # <<>> /\ Head(old) = t
    /\ MayRetry
    /\ \E S \in Enter(Now, t) : Becomes(S)
    /\ UNCHANGED <<available, managed, phase>>

\* A connection for the stream that task t arms: the one there is, or a new one.
Opened(S) ==
    IF S.session.conn # None /\ S.session.up
    THEN {[S EXCEPT !.session.refs = @ + 1]}
    ELSE {[S EXCEPT !.session = [conn |-> c, up |-> TRUE, refs |-> 1, closing |-> @.closing],
                    !.feeds[c] = NoFeeds] :
             c \in {d \in Conns : d # S.session.conn /\ \A s \in Streams : S.stream[s].conn # d}}

CanOpen == Running /\ IsAvailable

\* The session opens, and the stream is fed by it if its client is still there.
ArmOk(t) ==
    /\ pass[t].pc = "opening" /\ ~pass[t].cancelled /\ CanOpen /\ MayRetry
    /\ LET s == pass[t].at
       IN  /\ stream[s].st = "open"
           /\ \E S \in Opened(Now) :
                LET c == S.session.conn
                IN \E T \in GoOn([S EXCEPT !.stream[s] = [@ EXCEPT !.conn = c, !.told = "on"],
                                           !.feeds[c][s] = @ + 1], t) : Becomes(T)
    /\ UNCHANGED <<available, managed, phase>>

\* Fault: an arm that is given up keeps its reference.
AbandonKeepsRef(t) ==
    /\ pass[t].pc = "opening" /\ ~pass[t].cancelled /\ CanOpen /\ MayRetry
    /\ LET s == pass[t].at
       IN  \E S \in Opened(Now) : \E U \in GoOn(S, t) : Becomes(U)
    /\ UNCHANGED <<available, managed, phase>>

\* The client went away meanwhile, or the connection refuses the subscription.
Abandon(t) ==
    /\ pass[t].pc = "opening" /\ ~pass[t].cancelled /\ CanOpen /\ MayRetry
    /\ LET s == pass[t].at
       IN  \E S \in Opened(Now) :
             LET T == [S EXCEPT !.session = Released(@, @.conn, 1)]
             IN \E U \in GoOn(IF stream[s].st = "open" THEN Notify(T, {s}, "off") ELSE T, t) : Becomes(U)
    /\ UNCHANGED <<available, managed, phase>>

\* No session: the device is not reachable, or the connect failed.
OpenFailed(t) ==
    /\ pass[t].pc = "opening" /\ ~pass[t].cancelled /\ MayRetry
    /\ LET s == pass[t].at
       IN  \E S \in GoOn(IF stream[s].st = "open" THEN Notify(Now, {s}, "off") ELSE Now, t) : Becomes(S)
    /\ UNCHANGED <<available, managed, phase>>

\* A retry task that was cancelled in its pass gets the cancellation.
Unwind(r) ==
    /\ pass[r].cancelled /\ MayRetry
    /\ Becomes(Finish(Now, r, TRUE))
    /\ UNCHANGED <<available, managed, phase>>

\* Fault: a retry task that ends leaves its slot taken.
RetryTickKeepsSlot(r) ==
    /\ pass[r].pc = "asleep"
    /\ IF Unarmed(Now) = {} \/ ~Running \/ ~managed \/ ~available
       THEN Becomes([Now EXCEPT !.pass[r] = IdleTask])
       ELSE \E S \in EnsureStreams(Now, r) : Becomes(S)
    /\ UNCHANGED <<available, managed, phase>>

\* The backoff's delay is over; a task that can do nothing ends.
RetryTick(r) ==
    /\ pass[r].pc = "asleep"
    /\ IF Unarmed(Now) = {} \/ ~Running \/ ~managed \/ ~available
       THEN Becomes([Now EXCEPT !.pass[r] = IdleTask, !.slot = IF @ = r THEN None ELSE @])
       ELSE \E S \in EnsureStreams(Now, r) : Becomes(S)
    /\ UNCHANGED <<available, managed, phase>>

-----------------------------------------------------------------------------
(* The client                                                              *)

\* A subscribe command; an identity is used again when nothing refers to it.
AddStream(s) ==
    /\ Running /\ managed
    /\ stream[s].st # "open" /\ pass[s].pc = "idle"
    /\ \A t \in Tasks : s # pass[t].at /\ s \notin pass[t].todo
    /\ \E S \in EnsureStreams([Now EXCEPT !.stream[s] = [NewStream EXCEPT !.st = "open"],
                                          !.count = @ + 1], s) : Becomes(S)
    /\ UNCHANGED <<available, managed, phase>>

\* The client unsubscribes, possibly while its stream is still being added.
Unsubscribe(s) ==
    /\ stream[s].st = "open"
    /\ IF pass[s].pc = "idle" THEN Becomes(CloseStream(Now, s))
       ELSE s \notin left /\ Becomes([Now EXCEPT !.left = @ \cup {s}])
    /\ UNCHANGED <<available, managed, phase>>

\* The task that adds the stream is cancelled: the registration is rolled back.
CancelAdd(s) ==
    /\ pass[s].pc \in {"waiting", "opening"} /\ MayRetry
    /\ Becomes(IF pass[s].pc = "opening" THEN Finish(Now, s, TRUE) ELSE EndPass(Now, s, TRUE))
    /\ UNCHANGED <<available, managed, phase>>

-----------------------------------------------------------------------------
(* The device and its session                                              *)

\* The close that the last release, or the leaving device, has scheduled.
CloseSession ==
    /\ session.closing /\ MaySpawn
    /\ LET S == [Now EXCEPT !.session = NoSession]
       IN  IF session.conn # None /\ session.up
           THEN \E T \in SessionLost([S EXCEPT !.feeds[session.conn] = NoFeeds], session.conn) : Becomes(T)
           ELSE Becomes(S)
    /\ UNCHANGED <<available, managed, phase>>

\* The connection dies.
Drop ==
    /\ session.conn # None /\ session.up /\ MaySpawn
    /\ \E S \in SessionLost([Now EXCEPT !.session.up = FALSE, !.feeds[session.conn] = NoFeeds],
                            session.conn) : Becomes(S)
    /\ UNCHANGED <<available, managed, phase>>

\* An entity goes offline, perhaps the last one: the session is closed in any case.
EntityOffline ==
    /\ Running /\ managed /\ available
    /\ available' \in BOOLEAN
    /\ session' = IF session.conn = None THEN session ELSE [session EXCEPT !.closing = TRUE]
    /\ UNCHANGED <<managed, phase, feeds, stream, left, count, slot, pass, lock, old>>

\* An entity comes back: the device is online, and a pass is spawned.
GoOnline ==
    /\ Running /\ managed /\ ~available /\ MaySpawn
    /\ available' = TRUE
    /\ \E S \in SpawnPass([Now EXCEPT !.live = TRUE]) : Becomes(S)
    /\ UNCHANGED <<managed, phase>>

\* The device is deleted, once its session is closed (which EntityOffline starts).
Remove ==
    /\ Running /\ managed /\ session.conn = None /\ old = <<>>
    /\ managed' = FALSE
    /\ LET S == MarkClosed(CancelRetry(Now, slot))
       IN  Becomes([S EXCEPT !.count = 0, !.old = S.lock, !.lock = <<>>])
    /\ UNCHANGED <<available, phase>>

\* The device is discovered again.
Readd ==
    /\ Running /\ ~managed
    /\ ReaddEarly \/ \A t \in Tasks : pass[t].pc = "idle"
    /\ managed' = TRUE /\ available' \in BOOLEAN
    /\ UNCHANGED <<phase, session, feeds, stream, left, count, slot, pass, lock, old>>

\* Phases 1 and 2 of async_stop: the retry is cancelled, and the tasks are drained.
StopBegin ==
    /\ MayStop /\ Running
    /\ phase' = "draining"
    /\ Becomes(CancelRetry(Now, slot))
    /\ UNCHANGED <<available, managed>>

\* Phase 3: the streams are dropped, then the connection.
StopDrop ==
    /\ phase = "draining"
    /\ \A t \in Retries \cup Spawns : pass[t].pc = "idle"
    /\ phase' = "stopped"
    /\ Becomes([MarkClosed(Now) EXCEPT !.session = NoSession, !.feeds = [c \in Conns |-> NoFeeds],
                                       !.count = 0, !.old = old \o lock, !.lock = <<>>])
    /\ UNCHANGED <<available, managed>>

Work(t) ==
    \/ Granted(t) \/ ArmOk(t) \/ Abandon(t) \/ OpenFailed(t)
    \/ t \in Retries /\ (Unwind(t) \/ RetryTick(t))

Next ==
    \/ \E s \in Streams : AddStream(s) \/ Unsubscribe(s) \/ CancelAdd(s)
    \/ \E t \in Tasks : Work(t)
    \/ CloseSession \/ Drop \/ EntityOffline \/ GoOnline
    \/ Remove \/ Readd \/ StopBegin \/ StopDrop

Feed(s) == \E t \in Tasks : pass[t].at = s /\ ArmOk(t)

\* Tasks run, delays pass and closes end.  A device that is asked for a stream
\* again and again accepts a connection at last.
Fairness ==
    /\ \A t \in Tasks : WF_vars(Work(t))
    /\ WF_vars(CloseSession)
    /\ \A s \in Streams : SF_vars(Feed(s))

Spec == Init /\ [][Next]_vars
FairSpec == Spec /\ Fairness

-----------------------------------------------------------------------------
(* What the manager owes its clients                                       *)

Armed(s) == stream[s].conn # None

\* A stream is fed by one callback, on the connection it is armed on, and by none
\* anywhere else, whatever passes, losses and departures come together.
ArmedOnce ==
    \A c \in Conns, s \in Streams : feeds[c][s] = IF stream[s].conn = c THEN 1 ELSE 0

\* The accounts agree with the streams: every reference to the session belongs to a
\* stream that is armed on it, and the device counts one subscriber for each stream
\* that is held.  A client that leaves in the middle of an open, a refused
\* subscription, a cancelled registration or a removed device leaks none.
NothingLeaks ==
    Running =>
        /\ session.conn # None
               => session.refs = Cardinality({s \in Streams : stream[s].conn = session.conn})
        /\ count = Cardinality(Held(Now))

\* A stream that is off the air while its device is there has somebody working on
\* it: a pass that is under way, or a retry (the frozen card of issue #334).
NeverForgotten ==
    Running /\ Now.live /\ Unarmed(Now) # {}
        => slot # None \/ \E t \in Tasks : pass[t].pc \in {"waiting", "opening"}

\* What a client was told last is so: "on" just while its stream is armed; the streams
\* of a deleted device are dropped; and the client whose stream the manager dropped
\* was told so, and knows that it has to subscribe again.
ToldTruth ==
    \A s \in Streams :
        /\ stream[s].st = "open" => (Armed(s) <=> stream[s].told = "on")
        /\ stream[s].st = "open" => managed
        /\ stream[s].closed => stream[s].st = "shut" /\ stream[s].told = "off" /\ ~Armed(s)

Wanted(s) == Running /\ Now.live /\ stream[s].st = "open"

\* A stream that stays wanted on a device that stays available is armed again and again.
Rearms == \A s \in Streams : []<>(Wanted(s) => Armed(s))

=============================================================================
