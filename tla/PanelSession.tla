---------------------------- MODULE PanelSession ----------------------------
(***************************************************************************)
(* Which device the panel shows, and how it gets a live session with it:   *)
(* the picker, the device list and the session pipelines of the panel      *)
(* (eppgrid-panel.ts) and of its controller                                *)
(* (controllers/device-controller.ts).                                     *)
(*                                                                         *)
(* A pipeline is an async function under way: it loads a configuration and *)
(* opens the session, or only re-opens the session.  Pipelines for the     *)
(* same device share one promise, those for another device queue.  A step  *)
(* runs from one await to the next.  A promise that settles wakes those who *)
(* wait for it, and they all go on before the next message, timer or click *)
(* (Quiet), in an order that is left open.  The streams themselves are in  *)
(* LiveStreams: here they are the device they were subscribed for.         *)
(*                                                                         *)
(* _sessionGen only tells whether something closed or opened a session     *)
(* since a pipeline took its token: `fresh`.                               *)
(***************************************************************************)
EXTENDS Naturals, FiniteSets

CONSTANTS
    Macs,       \* the devices
    Tasks,      \* bound: pipelines that exist at one time
    None

ASSUME PanelAssumption ==
    None \notin Macs \cup Tasks /\ Tasks \subseteq Nat /\ IsFiniteSet(Tasks) /\ Macs # {}

VARIABLES
    up,         \* the integration is set up
    dev,        \* the device list: per device "gone", "off" or "on"
    attached,   \* the panel is in the document
    sel, ctl,   \* the selection of the panel, and of its controller
    stored,     \* the selection in localStorage
    loaded,     \* _loadedConfigMac
    shown,      \* the device whose configuration the editor holds
    dirty,      \* unsaved edits
    c,          \* the controller: session, streams, in-flight entries
    task        \* the pipelines

vars == <<up, dev, attached, sel, ctl, stored, loaded, shown, dirty, c, task>>

NoTask == [kind |-> "load", mac |-> None, pc |-> "free", fresh |-> FALSE, config |-> FALSE]

Now == [c |-> c, task |-> task]
FreeTasks == {t \in Tasks : task[t].pc = "free"}
Least(K) == CHOOSE k \in K : \A j \in K : k <= j
Listed(d) == {m \in Macs : d[m] # "gone"}

\* No continuation is due: the event loop takes the next event.
Quiet == \A t \in Tasks : task[t].pc \notin {"wakeLoad", "wakeReopen", "reopened", "resumed"}

-----------------------------------------------------------------------------
(* The controller, on a state S of c and task                              *)

\* closeDeviceSession: supersede every token, stop the streams, release.
CloseSession(S) ==
    [c |-> [S.c EXCEPT !.held = IF S.c.session = None THEN @ ELSE @ - 1,
                       !.session = None, !.streams = None],
     task |-> [t \in Tasks |-> [S.task[t] EXCEPT !.fresh = FALSE]]]

\* openDeviceSession, up to its await.
Open(S, t) ==
    LET T == CloseSession(S)
    IN  [c |-> [T.c EXCEPT !.reopening = t],
         task |-> [T.task EXCEPT ![t] = [@ EXCEPT !.pc = "opening", !.fresh = TRUE]]]

\* reopenSession by pipeline t.
Reopen(S, t) ==
    IF S.c.reopening = None THEN Open(S, t)
    ELSE [c |-> S.c,
          task |-> [S.task EXCEPT ![t].pc =
             IF S.task[S.c.reopening].mac = S.task[t].mac THEN "joinReopen" ELSE "queueReopen"]]

\* The entry of loadDeviceConfig, up to its await.
StartLoad(S, t) ==
    [c |-> [S.c EXCEPT !.loading = t, !.reconnecting = TRUE],
     task |-> [S.task EXCEPT ![t] = [@ EXCEPT !.pc = "config", !.fresh = TRUE]]]

\* A pipeline of this kind for device m begins in state pc.
Begin(S, t, kind, m, pc) ==
    [c |-> S.c, task |-> [S.task EXCEPT ![t] = [NoTask EXCEPT !.kind = kind, !.mac = m, !.pc = pc]]]
NewTask(S) == Least({u \in Tasks : S.task[u].pc = "free"})

\* loadDeviceConfig(m), in a pipeline of its own.
Load(S, m) ==
    LET t == NewTask(S)
    IN  IF S.c.loading = None THEN StartLoad(Begin(S, t, "load", m, "free"), t)
        ELSE Begin(S, t, "load", m, IF S.task[S.c.loading].mac = m THEN "joined" ELSE "queued")

\* A bare reopenSession(m): nobody waits for a shared one.
BareReopen(S, m) ==
    IF S.c.reopening # None /\ S.task[S.c.reopening].mac = m THEN S
    ELSE LET t == NewTask(S) IN Reopen(Begin(S, t, "reopen", m, "free"), t)

\* _ensureSession.
Ensure(S, m) == IF loaded = m THEN BareReopen(S, m) ELSE Load(S, m)

\* Pipeline t goes on with record p.
Put(S, t, p) == [c |-> S.c, task |-> [S.task EXCEPT ![t] = p]]

\* The pipelines that wait on an entry go on.
Wake(S, from, to) ==
    [c |-> S.c, task |-> [t \in Tasks |-> IF S.task[t].pc = from THEN [S.task[t] EXCEPT !.pc = to]
                                          ELSE S.task[t]]]

\* What a pipeline does once its session was re-opened.
AfterReopen(p) == IF p.kind = "load" THEN [p EXCEPT !.pc = "reopened"] ELSE NoTask

\* The reopen entry of pipeline t settles.
ReopenSettles(S, t) ==
    LET T == [c |-> [S.c EXCEPT !.reopening = IF @ = t THEN None ELSE @],
              task |-> [S.task EXCEPT ![t] = AfterReopen(@)]]
    IN  IF S.c.reopening # t THEN T
        ELSE Wake(Wake(T, "joinReopen", "reopened"), "queueReopen", "wakeReopen")

-----------------------------------------------------------------------------
(* The steps of a pipeline                                                 *)

Becomes(S) == c' = S.c /\ task' = S.task
PanelKept == UNCHANGED <<attached, sel, ctl, stored, loaded, shown, dirty>>
Inside(S) == Becomes(S) /\ PanelKept /\ UNCHANGED <<up, dev>>

\* A queued load goes on; a panel that is gone loads nothing.
LoadWakes(t) ==
    /\ task[t].pc = "wakeLoad"
    /\ Inside(IF attached THEN StartLoad(Now, t)
              ELSE Put(Now, t, [task[t] EXCEPT !.pc = "resumed"]))

\* get_config is answered, or fails; go on unless the session was closed since.
ConfigArrives(t) ==
    /\ Quiet /\ task[t].pc = "config"
    /\ \E ok \in {up, FALSE} :
         LET p == [task[t] EXCEPT !.config = ok]
         IN  Inside(IF p.fresh THEN Reopen(Put(Now, t, p), t)
                    ELSE Put(Now, t, [p EXCEPT !.pc = "reopened"]))

ReopenWakes(t) ==
    /\ task[t].pc = "wakeReopen"
    /\ Inside(IF attached THEN Open(Now, t) ELSE Put(Now, t, AfterReopen(task[t])))

Reachable(m) == up /\ dev[m] = "on"

\* Fault: a superseded session is kept.
OpenedKeepsStale(t) ==
    /\ Quiet /\ task[t].pc = "opening" /\ Reachable(task[t].mac)
    /\ LET S == [Now EXCEPT !.c.session = task[t].mac, !.c.held = @ + 1]
       IN  Inside(ReopenSettles([S EXCEPT !.c.streams = S.c.session], t))

\* reopenSession subscribes the streams of m if there is a session.
WithStreams(k, m) == IF k.session = None THEN k ELSE [k EXCEPT !.streams = m]

\* subscribe_device resolves: kept, or released when superseded.
Opened(t) ==
    /\ Quiet /\ task[t].pc = "opening" /\ Reachable(task[t].mac)
    /\ LET k == IF task[t].fresh THEN [c EXCEPT !.session = task[t].mac, !.held = @ + 1] ELSE c
           S == [c |-> WithStreams(k, task[t].mac), task |-> task]
       IN  Inside(ReopenSettles(S, t))

\* Fault: the streams are subscribed without a look at the session.
OpenFailsBlind(t) ==
    /\ Quiet /\ task[t].pc = "opening" /\ ~Reachable(task[t].mac)
    /\ Inside(ReopenSettles([Now EXCEPT !.c.streams = task[t].mac], t))

\* It is rejected.
OpenFails(t) ==
    /\ Quiet /\ task[t].pc = "opening" /\ ~Reachable(task[t].mac)
    /\ Inside(ReopenSettles([c |-> WithStreams(c, task[t].mac), task |-> task], t))

\* Who shares the load gets its answer.
Answer(S, ok) ==
    [c |-> S.c, task |-> [u \in Tasks |->
        IF S.task[u].pc = "joined" THEN [S.task[u] EXCEPT !.config = ok] ELSE S.task[u]]]

\* The load is over; whoever waits for it goes on.
LoadEnds(t) ==
    /\ task[t].pc = "reopened"
    /\ LET S == [c |-> [c EXCEPT !.reconnecting = FALSE, !.loading = IF @ = t THEN None ELSE @],
                 task |-> [task EXCEPT ![t] = [@ EXCEPT !.pc = "resumed"]]]
           J == Answer(S, task[t].config)
       IN  Inside(IF c.loading = t THEN Wake(Wake(J, "joined", "resumed"), "queued", "wakeLoad") ELSE S)

\* Fault: the configuration is applied to whatever is selected now.
ResumesBlind(t) ==
    /\ task[t].pc = "resumed"
    /\ Becomes([Now EXCEPT !.task[t] = NoTask])
    /\ loaded' = IF task[t].config THEN sel ELSE loaded
    /\ shown' = IF task[t].config THEN task[t].mac ELSE shown
    /\ UNCHANGED <<up, dev, attached, sel, ctl, stored, dirty>>

\* _loadDeviceConfig after its await: a panel that is gone or has moved on
\* closes the session; otherwise the configuration is applied.
Resumes(t) ==
    /\ task[t].pc = "resumed"
    /\ LET S == Put(Now, t, NoTask)
           ours == attached /\ sel = task[t].mac
       IN  /\ Becomes(IF ours THEN S ELSE CloseSession(S))
           /\ loaded' = IF ours /\ task[t].config THEN sel ELSE loaded
           /\ shown' = IF ours /\ task[t].config THEN task[t].mac ELSE shown
    /\ UNCHANGED <<up, dev, attached, sel, ctl, stored, dirty>>

-----------------------------------------------------------------------------
(* The panel                                                               *)

\* The picker, once unsaved edits are discarded.
Pick(m) ==
    /\ Quiet /\ attached /\ m \in Listed(dev) \ {sel} /\ FreeTasks # {}
    /\ Becomes(Load(CloseSession(Now), m))
    /\ sel' = m /\ stored' = m /\ dirty' = FALSE
    /\ UNCHANGED <<up, dev, attached, ctl, loaded, shown>>

\* The editor is open to the user while the session stands.
Edit ==
    /\ Quiet /\ attached /\ ~dirty /\ c.session = sel /\ ~c.reconnecting /\ dirty' = TRUE
    /\ UNCHANGED <<up, dev, attached, sel, ctl, stored, loaded, shown, c, task>>

Save ==
    /\ Quiet /\ dirty /\ dirty' = FALSE
    /\ UNCHANGED <<up, dev, attached, sel, ctl, stored, loaded, shown, c, task>>

Bootable(S, m, d) == m # None /\ d[m] = "on" /\ S.c.session = None /\ ~S.c.reconnecting

\* Fault: a configuration that was loaded before counts as a session.
HassPushLoaded ==
    /\ Quiet /\ attached /\ Bootable(Now, sel, dev) /\ FreeTasks # {} /\ loaded # sel
    /\ Inside(Ensure(Now, sel))

\* updated(): Home Assistant pushes `hass`, on every state change of anything.
HassPush ==
    /\ Quiet /\ attached /\ Bootable(Now, sel, dev) /\ FreeTasks # {}
    /\ Inside(Ensure(Now, sel))

\* _onHaReady: the websocket is back; the panel initializes again.
HaReady ==
    /\ Quiet /\ attached /\ up /\ dev[sel] = "on" /\ FreeTasks # {}
    /\ Inside(Ensure(Now, sel))

\* _applyDeviceList: the selection the controller makes of list d.
Choices(d) ==
    IF Listed(d) = {} \/ (dirty /\ ctl \notin Listed(d)) THEN {ctl}
    ELSE IF stored \in Listed(d) THEN {stored}
    ELSE Listed(d)

\* A device list: _applyDeviceList, then onDeviceListChanged of the panel.
Push(d) ==
    /\ Quiet /\ attached /\ up /\ d # dev /\ Cardinality(FreeTasks) >= 2
    /\ \E next \in Choices(d) :
         LET S == IF ctl \in Listed(d) THEN Now ELSE CloseSession(Now)
             T == IF next # sel /\ d[next] = "on" THEN Load(S, next) ELSE S
         IN  /\ ctl' = next /\ sel' = next /\ dev' = d
             /\ stored' = IF next # sel THEN next ELSE stored
             /\ Becomes(IF Bootable(T, next, d) THEN Ensure(T, next) ELSE T)
    /\ UNCHANGED <<up, attached, loaded, shown, dirty>>

Detach ==
    /\ Quiet /\ attached /\ attached' = FALSE
    /\ Becomes(CloseSession(Now))
    /\ UNCHANGED <<up, dev, sel, ctl, stored, loaded, shown, dirty>>

Attach ==
    /\ Quiet /\ ~attached /\ attached' = TRUE
    /\ UNCHANGED <<up, dev, sel, ctl, stored, loaded, shown, dirty, c, task>>

\* A fresh connection object: what went over the old one is over, and the
\* backend has dropped it.
SwapConnection ==
    /\ Quiet
    /\ c' = [c EXCEPT !.session = None, !.streams = None, !.held = 0]
    /\ task' = [t \in Tasks |-> [task[t] EXCEPT !.fresh = FALSE]]
    /\ PanelKept /\ UNCHANGED <<up, dev>>

\* External: the integration is unloaded and loaded again.
Reload ==
    /\ Quiet /\ up' = ~up
    /\ PanelKept /\ UNCHANGED <<dev, c, task>>

-----------------------------------------------------------------------------
Init ==
    /\ up = TRUE /\ attached = TRUE
    /\ dev \in [Macs -> {"gone", "off", "on"}]
    /\ sel \in Listed(dev) /\ ctl = sel
    /\ stored \in {sel, None} \cup (Macs \ Listed(dev))
    /\ loaded = None /\ shown = None /\ dirty = FALSE
    /\ c = [session |-> None, streams |-> None, held |-> 0,
            reconnecting |-> FALSE, loading |-> None, reopening |-> None]
    /\ task = [t \in Tasks |-> NoTask]

Advance(t) ==
    LoadWakes(t) \/ ConfigArrives(t) \/ ReopenWakes(t) \/ Opened(t) \/ OpenFails(t)
        \/ LoadEnds(t) \/ Resumes(t)

Next ==
    \/ \E t \in Tasks : Advance(t)
    \/ \E m \in Macs : Pick(m)
    \/ Edit \/ Save \/ HassPush \/ HaReady
    \/ \E d \in [Macs -> {"gone", "off", "on"}] : Push(d)
    \/ Detach \/ Attach \/ SwapConnection \/ Reload

\* Home Assistant pushes `hass` whenever any entity changes, and what a pipeline
\* waits for is answered; nothing else is promised.
Spec == Init /\ [][Next]_vars /\ WF_vars(HassPush) /\ WF_vars(\E t \in Tasks : Advance(t))

-----------------------------------------------------------------------------
(* Properties                                                              *)

PanelTypeOK ==
    /\ up \in BOOLEAN /\ attached \in BOOLEAN /\ dirty \in BOOLEAN
    /\ dev \in [Macs -> {"gone", "off", "on"}]
    /\ sel \in Macs /\ ctl \in Macs /\ stored \in Macs \cup {None}
    /\ loaded \in Macs \cup {None} /\ shown \in Macs \cup {None}
    /\ c \in [session : Macs \cup {None}, streams : Macs \cup {None}, held : 0..1,
              reconnecting : BOOLEAN, loading : Tasks \cup {None}, reopening : Tasks \cup {None}]
    /\ task \in [Tasks -> [kind : {"load", "reopen"}, mac : Macs \cup {None},
                           pc : {"free", "joined", "queued", "wakeLoad", "config", "joinReopen",
                                 "queueReopen", "wakeReopen", "opening", "reopened", "resumed"},
                           fresh : BOOLEAN, config : BOOLEAN]]

\* The backend holds the one session reference the controller will give back,
\* and none without: an ESP32 has few slots, and a late open that was
\* superseded frees its own (the comment on _sessionGen).
NoLeakedSession == c.held = IF c.session = None THEN 0 ELSE 1

\* A panel that has left the document has neither session nor streams, however
\* its pipelines end (the comment on _disposed).
DeadPanelHoldsNothing == ~attached => c.session = None /\ c.streams = None

\* The editor holds the configuration of the device it was last loaded for: no
\* load is applied to a device that was selected while it ran.
ShownIsLoaded == shown = loaded

\* A panel that stays with a reachable device has a session again and again,
\* whatever was picked, queued, closed and superseded before: no overtaken
\* pipeline leaves it without one and without anything that opens one.
SessionComesBack ==
    \A m \in Macs :
        <>[](attached /\ up /\ sel = m /\ dev[m] = "on") /\ <>[][~SwapConnection]_vars
            => []<>(c.session # None)

=============================================================================
