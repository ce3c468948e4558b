---------------------------- MODULE DeviceSession ----------------------------
(***************************************************************************)
(* The integration's session with one device: a reference-counted          *)
(* connection shared by the panels and by the durable streams              *)
(* (DeviceManager.async_open_session, release_session, async_close_session *)
(* in device_manager/__init__.py), under Home Assistant's event loop.      *)
(*                                                                         *)
(* A task runs alone until it awaits, so one action is the code between    *)
(* two awaits; where the code goes on with the next step of a task without *)
(* awaiting, Busy keeps the other tasks out.  lock is the FIFO queue of    *)
(* asyncio.Lock: its head holds the lock or has just been woken to take    *)
(* it, and a newcomer never overtakes a waiter.                            *)
(*                                                                         *)
(* A DeviceConnection is an identity in Conns and the state of its link    *)
(* ("up" is its `connected` flag); an identity is used again only when its *)
(* link is down and nobody refers to it.                                   *)
(***************************************************************************)
EXTENDS Naturals, Sequences, FiniteSets

CONSTANTS
    Openers,        \* whoever calls async_open_session; one reference each
    Streams,        \* the openers that are durable streams (StateStreams)
    Cancellable,    \* the openers whose task may be cancelled while it opens
    Conns,          \* bound: connection identities
    None,           \* no connection
    MayRemove,      \* the device may be removed from the registry
    MayStop,        \* the config entry may be unloaded
    MayOverrun,     \* unloading may run into its drain timeout
    MaxLeft         \* bound: connections left behind at a time

ASSUME ConnsAssumption ==
    /\ IsFiniteSet(Conns) /\ Conns \subseteq Nat /\ None \notin Conns
    /\ IsFiniteSet(Openers) /\ Streams \subseteq Openers /\ Cancellable \subseteq Openers

\* The tasks that run async_close_session: the tracked one of
\* schedule_close_session, a direct call (host change, failed push), a removal.
Closers == {"scheduled", "forced", "removal"}

ASSUME OpenersAssumption == Openers \cap Closers = {}
ASSUME InputsAssumption ==
    /\ MayRemove \in BOOLEAN /\ MayStop \in BOOLEAN /\ MayOverrun \in BOOLEAN
    /\ MaxLeft \in Nat

VARIABLES
    available,  \* some entity of the device is live in Home Assistant
    managed,    \* the device is in manager.devices
    phase,      \* of async_stop: "running", "draining", "closing", "stopped"
    active,     \* _active_connections[mac]
    refs,       \* _session_refcounts[mac]; 0 when there is no entry
    link,       \* per connection: "down", "connecting", "up"
    lock,       \* _session_locks[mac]
    opener,     \* where each opener is, and the connection it got
    closer,     \* where each closer is, and the connection it closes
    cut,        \* history: a cancellation has cut a close short
    left        \* history: the connections that a disconnect cut short left as
                \* they were, and that no task will close any more

svars == <<available, managed, phase, active, refs, link, lock, opener, closer, cut,
           left>>

Stopping == phase # "running"

\* Where an open that holds the lock may be; it has a connection then.
Holding == {"connecting", "failing", "backout"}

\* _is_device_available: a device nobody manages is worth a try.
IsAvailable == ~managed \/ available

IdleOpener == [pc |-> "idle", conn |-> None]
IdleCloser == [pc |-> "idle", conn |-> None, last |-> FALSE]

Init ==
    /\ available \in BOOLEAN
    /\ managed = TRUE
    /\ phase = "running"
    /\ active = None
    /\ refs = 0
    /\ link = [c \in Conns |-> "down"]
    /\ lock = <<>>
    /\ opener = [o \in Openers |-> IdleOpener]
    /\ closer = [k \in Closers |-> IdleCloser]
    /\ cut = FALSE
    /\ left = {}

Free(c) ==
    /\ link[c] = "down" /\ c # active
    /\ \A o \in Openers : opener[o].conn # c
    /\ \A k \in Closers : closer[k].conn # c

FreshConn == CHOOSE c \in Conns : Free(c) /\ \A d \in Conns : Free(d) => c <= d

\* With links lk, the active connection is connected.
Live(lk) == active # None /\ lk[active] = "up"

\* The queue once task t has left it.
Leave(t) ==
    IF \A i \in DOMAIN lock : lock[i] # t THEN lock
    ELSE [i \in 1..(Len(lock) - 1) |-> IF \E j \in 1..i : lock[j] = t THEN lock[i + 1] ELSE lock[i]]

\* The streams that connection c carries: on_stop takes it away from them.
Carried(c) == {s \in Streams : opener[s].pc = "has" /\ opener[s].conn = c}
Without(S) == [o \in Openers |-> IF o \in S THEN IdleOpener ELSE opener[o]]

-----------------------------------------------------------------------------
(* async_open_session                                                      *)

Refused == Stopping \/ ~managed \/ ~available

Reuse(o, rest) ==
    /\ ~Stopping /\ Live(link)
    /\ refs' = refs + 1
    /\ opener' = [opener EXCEPT ![o] = [pc |-> "has", conn |-> active]]
    /\ lock' = rest
    /\ UNCHANGED <<active, link>>

\* A dead connection found in the active slot goes, with its references.
Connect(o, rest) ==
    /\ ~Stopping /\ ~Live(link)
    /\ \E c \in Conns : Free(c)
    /\ active' = None /\ refs' = 0
    /\ opener' = [opener EXCEPT ![o] = [pc |-> "connecting", conn |-> FreshConn]]
    /\ link' = [link EXCEPT ![FreshConn] = "connecting"]
    /\ lock' = <<o>> \o rest

GiveUp(o, rest) ==
    /\ Stopping
    /\ opener' = [opener EXCEPT ![o] = IdleOpener]
    /\ lock' = rest
    /\ UNCHANGED <<active, refs, link>>

\* Opener o has the lock; rest waits behind it.
Admit(o, rest) ==
    /\ Reuse(o, rest) \/ Connect(o, rest) \/ GiveUp(o, rest)
    /\ UNCHANGED <<available, managed, phase, closer, cut, left>>

Arrive(o) ==
    \/ lock = <<>> /\ Admit(o, <<>>)
    \/ /\ lock # <<>>
       /\ lock' = Append(lock, o)
       /\ opener' = [opener EXCEPT ![o] = [pc |-> "queued", conn |-> None]]
       /\ UNCHANGED <<available, managed, phase, active, refs, link, closer, cut, left>>

\* The open starts; a close in flight is awaited before the lock is taken.
OpenSession(o) ==
    /\ opener[o].pc = "idle" /\ ~Refused
    /\ \/ closer["scheduled"].pc = "idle" /\ Arrive(o)
       \/ /\ closer["scheduled"].pc # "idle"
          /\ opener' = [opener EXCEPT ![o] = [pc |-> "draining", conn |-> None]]
          /\ UNCHANGED <<available, managed, phase, active, refs, link, lock, closer, cut, left>>

Drained(o) ==
    /\ opener[o].pc = "draining" /\ closer["scheduled"].pc = "idle"
    /\ \/ ~Stopping /\ Arrive(o)
       \/ /\ Stopping
          /\ opener' = [opener EXCEPT ![o] = IdleOpener]
          /\ UNCHANGED <<available, managed, phase, active, refs, link, lock, closer, cut, left>>

\* Fault: the close in flight is awaited while the lock is held.
GrantedDrains(o) ==
    /\ lock # <<>> /\ Head(lock) = o /\ opener[o].pc = "queued"
    /\ closer["scheduled"].pc = "idle"
    /\ Admit(o, Tail(lock))

Granted(o) ==
    /\ lock # <<>> /\ Head(lock) = o /\ opener[o].pc = "queued"
    /\ Admit(o, Tail(lock))

\* Fault: the connection is stored without looking again at what changed.
ConnectOkBlind(o) ==
    /\ opener[o].pc = "connecting"
    /\ link' = [link EXCEPT ![opener[o].conn] = "up"]
    /\ active' = opener[o].conn /\ refs' = refs + 1
    /\ opener' = [opener EXCEPT ![o].pc = "has"]
    /\ lock' = Tail(lock)
    /\ UNCHANGED <<available, managed, phase, closer, cut, left>>

\* Connected: keep the connection, unless the device left or we are stopping.
ConnectOk(o) ==
    /\ opener[o].pc = "connecting"
    /\ link' = [link EXCEPT ![opener[o].conn] = "up"]
    /\ \/ /\ Stopping \/ ~IsAvailable
          /\ opener' = [opener EXCEPT ![o].pc = "backout"]
          /\ UNCHANGED <<active, refs, lock>>
       \/ /\ ~Stopping /\ IsAvailable
          /\ active' = opener[o].conn /\ refs' = refs + 1
          /\ opener' = [opener EXCEPT ![o].pc = "has"]
          /\ lock' = Tail(lock)
    /\ UNCHANGED <<available, managed, phase, closer, cut, left>>

\* The connect failed with its socket open: it disconnects before it fails.
ConnectFailed(o) ==
    /\ opener[o].pc = "connecting"
    /\ opener' = [opener EXCEPT ![o].pc = "failing"]
    /\ UNCHANGED <<available, managed, phase, active, refs, link, lock, closer, cut, left>>

\* The connect failed without a socket or took more than 30 s, which closes it
\* by force, or the failed connect or the back-out has disconnected.
OpenFailed(o) ==
    /\ opener[o].pc \in Holding
    /\ link' = [link EXCEPT ![opener[o].conn] = "down"]
    /\ opener' = [opener EXCEPT ![o] = IdleOpener]
    /\ lock' = Tail(lock)
    /\ UNCHANGED <<available, managed, phase, active, refs, closer, cut, left>>

\* A disconnect of connection c is cut short: on_stop has not run, the link is as
\* it was, and the task that would have closed it is gone.
LeaveBehind(c) ==
    /\ left' = left \cup {d \in Conns : d = c /\ link[d] # "down"}
    /\ Cardinality(left') <= MaxLeft
    /\ UNCHANGED link

\* The 30 s were over while the failed connect was disconnecting.
FailTimeout(o) ==
    /\ opener[o].pc = "failing"
    /\ LeaveBehind(opener[o].conn)
    /\ opener' = [opener EXCEPT ![o] = IdleOpener]
    /\ lock' = Tail(lock)
    /\ UNCHANGED <<available, managed, phase, active, refs, closer, cut>>

-----------------------------------------------------------------------------
(* async_close_session, schedule_close_session, release_session            *)

\* Closer k has the lock: pop the session, then disconnect it if it is live.
\* held and rest are the queue during and after the disconnect.
Pop(k, lk, held, rest) ==
    /\ active' = None /\ refs' = 0
    /\ IF Live(lk)
       THEN /\ closer' = [closer EXCEPT ![k].pc = "disconnecting", ![k].conn = active]
            /\ lock' = held
       ELSE /\ closer' = [closer EXCEPT ![k] =
                            [IdleCloser EXCEPT !.pc = IF k = "removal" THEN "closed" ELSE "idle"]]
            /\ lock' = rest

\* Fault: the close does not wait for the lock.
StartCloseAtOnce(k, lk, r, last) ==
    IF closer[k].pc # "idle"
    THEN refs' = r /\ UNCHANGED <<active, lock, closer>>
    ELSE Pop(k, lk, lock, lock)

\* Start closer k, with links lk; r is the count while it waits, and last says
\* that the last reference was released.  After a removal the device has a
\* fresh lock that no opener uses.
StartClose(k, lk, r, last) ==
    IF closer[k].pc # "idle"
    THEN refs' = r /\ UNCHANGED <<active, lock, closer>>
    ELSE IF lock = <<>> \/ ~managed
    THEN Pop(k, lk, IF managed THEN <<k>> ELSE lock, lock)
    ELSE /\ closer' = [closer EXCEPT ![k] = [pc |-> "queued", conn |-> None, last |-> last]]
         /\ lock' = Append(lock, k)
         /\ refs' = r
         /\ UNCHANGED active

\* Fault: the release does not ask whether its connection is still the active one.
GiveBackBlind(S, c, lk) ==
    /\ opener' = Without(S)
    /\ IF S = {} \/ Stopping
       THEN UNCHANGED <<active, refs, lock, closer>>
       ELSE IF refs > Cardinality(S)
       THEN refs' = refs - Cardinality(S) /\ UNCHANGED <<active, lock, closer>>
       ELSE StartClose("scheduled", lk, 0, TRUE)

\* Fault: the last reference is counted down like the others.
GiveBackUncounted(S, c, lk) ==
    /\ opener' = Without(S)
    /\ IF S = {} \/ Stopping \/ active # c
       THEN UNCHANGED <<active, refs, lock, closer>>
       ELSE IF refs >= Cardinality(S)
       THEN refs' = refs - Cardinality(S) /\ UNCHANGED <<active, lock, closer>>
       ELSE StartClose("scheduled", lk, 0, TRUE)

\* The openers in S give back their references to c, one after the other.
GiveBack(S, c, lk) ==
    /\ opener' = Without(S)
    /\ IF S = {} \/ Stopping \/ active # c
       THEN UNCHANGED <<active, refs, lock, closer>>
       ELSE IF refs > Cardinality(S)
       THEN refs' = refs - Cardinality(S) /\ UNCHANGED <<active, lock, closer>>
       ELSE StartClose("scheduled", lk, 0, TRUE)

ReleaseSession(o) ==
    /\ opener[o].pc = "has"
    /\ GiveBack({o}, opener[o].conn, link)
    /\ UNCHANGED <<available, managed, phase, link, cut, left>>

CloseGranted(k) ==
    /\ lock # <<>> /\ Head(lock) = k /\ closer[k].pc = "queued"
    /\ Pop(k, link, lock, Tail(lock))
    /\ UNCHANGED <<available, managed, phase, link, opener, cut, left>>

\* The queue once closer k is out of it.
AfterCloser(k) == IF lock # <<>> /\ Head(lock) = k THEN Tail(lock) ELSE lock

CloseDone(k) ==
    /\ closer[k].pc = "disconnecting"
    /\ link' = [link EXCEPT ![closer[k].conn] = "down"]
    /\ closer' = [closer EXCEPT ![k] =
                    [IdleCloser EXCEPT !.pc = IF k = "removal" THEN "closed" ELSE "idle"]]
    /\ lock' = AfterCloser(k)
    /\ opener' = Without(Carried(closer[k].conn))
    /\ UNCHANGED <<available, managed, phase, active, refs, cut, left>>

\* Host change, rediscovery under another entry, failed push.  All are closes by
\* MAC: they take whatever session the device has by now.
ForceClose ==
    /\ phase \in {"running", "draining"} /\ closer["forced"].pc = "idle"
    /\ StartClose("forced", link, refs, FALSE)
    /\ UNCHANGED <<available, managed, phase, link, opener, cut, left>>

-----------------------------------------------------------------------------
(* Cancellation.  Awaiting a task passes a cancellation on to it: an open   *)
(* cancelled while it awaits the close in flight cancels that close too,    *)
(* and with it every other open that awaits it.                             *)

Draining == {o \in Openers : opener[o].pc = "draining"}

\* The task of closer k is cancelled.  Bound: once in a behaviour.
CutClose(k) ==
    /\ ~cut
    /\ LeaveBehind(closer[k].conn)
    /\ closer' = [closer EXCEPT ![k] = IdleCloser]
    /\ lock' = Leave(k)
    /\ cut' = TRUE

\* A connect closes its socket by force when it is cancelled; the two disconnects
\* of an open that fails or backs out do not.
Cancel(o) ==
    \/ /\ opener[o].pc = "draining"
       /\ CutClose("scheduled")
       /\ opener' = Without(Draining)
    \/ /\ opener[o].pc \in Holding \cup {"queued"}
       /\ \/ /\ opener[o].pc = "connecting"
             /\ link' = [link EXCEPT ![opener[o].conn] = "down"]
             /\ UNCHANGED left
          \/ opener[o].pc # "connecting" /\ LeaveBehind(opener[o].conn)
       /\ lock' = Leave(o)
       /\ opener' = [opener EXCEPT ![o] = IdleOpener]
       /\ UNCHANGED <<closer, cut>>

CancelOpen(o) == Cancel(o) /\ UNCHANGED <<available, managed, phase, active, refs>>

-----------------------------------------------------------------------------
(* The device, its removal, and async_stop                                 *)

\* The connection dies under its users; on_stop disarms what it carried.
Drop(c) ==
    /\ link[c] = "up" \/ c \in left
    /\ link' = [link EXCEPT ![c] = "down"]
    /\ left' = left \ {c}
    /\ GiveBack(Carried(c), c, link')
    /\ UNCHANGED <<available, managed, phase, cut>>

GoOffline ==
    /\ managed /\ available /\ ~Stopping
    /\ available' = FALSE
    /\ IF active # None THEN StartClose("scheduled", link, refs, FALSE)
       ELSE UNCHANGED <<active, refs, lock, closer>>
    /\ UNCHANGED <<managed, phase, link, opener, cut, left>>

GoOnline ==
    /\ managed /\ ~available /\ ~Stopping
    /\ available' = TRUE
    /\ UNCHANGED <<managed, phase, active, refs, link, lock, opener, closer, cut, left>>

Remove ==
    /\ MayRemove /\ managed /\ ~Stopping /\ closer["removal"].pc = "idle"
    /\ StartClose("removal", link, refs, FALSE)
    /\ UNCHANGED <<available, managed, phase, link, opener, cut, left>>

\* _on_device_removed after its close.
Removed ==
    /\ closer["removal"].pc = "closed"
    /\ closer' = [closer EXCEPT !["removal"] = IdleCloser]
    /\ managed' = FALSE
    /\ opener' = Without({s \in Streams : opener[s].pc = "has"})
    /\ UNCHANGED <<available, phase, active, refs, link, lock, cut, left>>

StopBegin ==
    /\ MayStop /\ ~Stopping
    /\ phase' = "draining"
    /\ UNCHANGED <<available, managed, active, refs, link, lock, opener, closer, cut, left>>

\* The drain ran into its timeout: the close or the removal in flight is cancelled.
StopOverrun(k) ==
    /\ MayOverrun /\ phase = "draining"
    /\ k \in {"scheduled", "removal"} /\ closer[k].pc \in {"queued", "disconnecting"}
    /\ CutClose(k)
    /\ opener' = IF k = "scheduled" THEN Without(Draining) ELSE opener
    /\ UNCHANGED <<available, managed, phase, active, refs>>

StopDrop ==
    /\ phase = "draining"
    /\ closer["scheduled"].pc = "idle" /\ closer["removal"].pc = "idle"
    /\ phase' = "closing"
    /\ opener' = Without({s \in Streams : opener[s].pc = "has"})
    /\ UNCHANGED <<available, managed, active, refs, link, lock, closer, cut, left>>

StopDone ==
    /\ phase = "closing"
    /\ phase' = "stopped"
    /\ active' = None /\ refs' = 0
    /\ link' = [c \in Conns |-> IF c = active THEN "down" ELSE link[c]]
    /\ UNCHANGED <<available, managed, lock, opener, closer, cut, left>>

Busy == closer["removal"].pc = "closed"

OpenerStep(o) ==
    \/ OpenSession(o) \/ Drained(o) \/ Granted(o)
    \/ ConnectOk(o) \/ ConnectFailed(o) \/ OpenFailed(o) \/ FailTimeout(o)
    \/ ReleaseSession(o)

SNext ==
    \/ Removed
    \/ /\ ~Busy
       /\ \/ \E o \in Openers : OpenerStep(o)
          \/ \E o \in Cancellable : CancelOpen(o)
          \/ \E k \in Closers : CloseGranted(k) \/ CloseDone(k) \/ StopOverrun(k)
          \/ \E c \in Conns : Drop(c)
          \/ ForceClose \/ GoOffline \/ GoOnline \/ Remove
          \/ StopBegin \/ StopDrop \/ StopDone

\* Fairness: the event loop resumes every task that can go on, in the order in
\* which the tasks became ready; a connect ends within its 30 s timeout and a
\* disconnect within the client's own.
SFair ==
    /\ \A o \in Openers :
          /\ SF_svars(~Busy /\ Drained(o))
          /\ WF_svars(~Busy /\ Granted(o))
          /\ WF_svars(~Busy /\ (ConnectOk(o) \/ OpenFailed(o)))
    /\ \A k \in Closers : WF_svars(~Busy /\ (CloseGranted(k) \/ CloseDone(k)))
    /\ WF_svars(Removed)

SessionSpec == Init /\ [][SNext]_svars /\ SFair

-----------------------------------------------------------------------------
(* Properties                                                              *)

InFlight == Holding \cup {"draining", "queued"}
Holders(c) == {o \in Openers : opener[o].pc = "has" /\ opener[o].conn = c}

\* Every variable holds a value of its type; a task is in the lock's queue once
\* and only while it waits for the lock or holds it.
SessionTypeOK ==
    /\ available \in BOOLEAN /\ managed \in BOOLEAN
    /\ phase \in {"running", "draining", "closing", "stopped"}
    /\ active \in Conns \cup {None}
    /\ refs \in 0..Cardinality(Openers)
    /\ link \in [Conns -> {"down", "connecting", "up"}]
    /\ opener \in [Openers -> [pc : InFlight \cup {"idle", "has"}, conn : Conns \cup {None}]]
    /\ closer \in [Closers -> [pc : {"idle", "queued", "disconnecting", "closed"},
                               conn : Conns \cup {None}, last : BOOLEAN]]
    /\ cut \in BOOLEAN /\ left \subseteq Conns
    /\ lock \in Seq(Openers \cup Closers)
    /\ \A i, j \in DOMAIN lock : lock[i] = lock[j] => i = j
    /\ \A o \in Openers : opener[o].pc \in Holding \cup {"queued"}
                            <=> \E i \in DOMAIN lock : lock[i] = o

\* The count is the number of references to the active connection: a release of
\* a connection that was replaced never takes a reference of its successor, and
\* an open that reuses, replaces or makes a connection counts itself once.
RefsMatchHolders ==
    ~Stopping => refs = IF active = None THEN 0 ELSE Cardinality(Holders(active))

\* A session that lost its last reference is never forgotten: its close waits
\* for the lock or runs.  (Not so for a removed device, whose close may be busy
\* with an earlier connection, on another lock than the one the open used.)
NoForgottenSession ==
    managed /\ ~Stopping /\ ~cut /\ active # None /\ refs = 0 => closer["scheduled"].pc # "idle"

\* One session connection at a time, connecting or connected, however many panels,
\* streams and closes there are: a device accepts only few.  What is beyond it was
\* left behind by a disconnect that was cut short.
OneSocket == managed => Cardinality({c \in Conns \ left : link[c] # "down"}) <= 1

\* No session is stranded: a connection becomes the active one only while its
\* device is reachable and the manager is running, even if either changed while
\* the connect was under way.
NoStrandedSession ==
    [][active' # None /\ active' # active => IsAvailable /\ ~Stopping]_svars

\* Documented: the session closes only when its last reference is released.
\* (While the device is reachable, a close that a release scheduled takes no
\* connection that somebody refers to.)
ClosesWhenUnreferenced ==
    [][closer["scheduled"].last /\ available /\ managed
       /\ closer'["scheduled"].pc = "disconnecting" => refs = 0]_svars

\* Every call of async_open_session comes to an end, whatever closes, removals
\* and other opens it meets: nobody waits for a task that waits for him.
OpenSettles ==
    \A o \in Openers : opener[o].pc \in InFlight ~> opener[o].pc \in {"idle", "has"}

\* Once async_stop is over, no connection is left but those of opens and closes
\* still under way, which disconnect them, and those left behind before.
StoppedIsClosed ==
    phase = "stopped" =>
        \A c \in Conns \ left : link[c] # "down" =>
            \/ \E o \in Openers : opener[o].pc \in Holding /\ opener[o].conn = c
            \/ \E k \in Closers : closer[k].conn = c

=============================================================================
