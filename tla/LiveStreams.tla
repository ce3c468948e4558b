---------------------------- MODULE LiveStreams -----------------------------
(***************************************************************************)
(* The panel's live view: the streams of the open device session           *)
(* (controllers/device-controller.ts: grid targets, raw targets and the    *)
(* optional heatmap) and the offline banner they drive (eppgrid-panel.ts). *)
(*                                                                         *)
(* The session itself is here an event: it opens for the selected device,  *)
(* fails to open, or is closed; PanelSession says when.  An action is one  *)
(* JavaScript callback.  The websocket and the backend are external, as in *)
(* SubscriptionStore: a subscribe call is asked, granted and resolves, or  *)
(* is rejected; a message may overtake the resolution, and a stream that   *)
(* was given up still delivers until the backend has seen that.  A call    *)
(* for a device that the backend does not know is granted too: one message *)
(* says that the device is away, and nothing is behind the subscription    *)
(* (_durable_stream.py).                                                   *)
(*                                                                         *)
(* Device lists arrive in the order they were sent, and each is a whole    *)
(* one: what matters of those on their way is which devices one of them    *)
(* lacks.  The list's own subscription is taken to be live.                *)
(*                                                                         *)
(* A generation token is only compared with that of one open: `cur` is the *)
(* call that claimed the current generation.  Backoff delays are not       *)
(* modelled: a timer is armed, and fires.                                  *)
(***************************************************************************)
EXTENDS Naturals, FiniteSets

CONSTANTS
    Macs,           \* the devices
    Removable,      \* bound: those that may be removed
    Streams,        \* the live streams
    Overlay,        \* the heatmap, an optional one of them
    RetryLimit,     \* SUBSCRIBE_RETRY_LIMIT
    Slots,          \* bound: per stream, the calls that exist at one time
    Spot,           \* the stream compared with SharedStream
    None

ASSUME LiveAssumption ==
    /\ None \notin Macs \cup Nat /\ Removable \subseteq Macs
    /\ Overlay \in Streams /\ Spot \in Streams \ {Overlay}
    /\ RetryLimit \in Nat \ {0} /\ Slots \in [Streams -> SUBSET Nat]

VARIABLES
    up,         \* the integration is set up
    known,      \* the devices the integration has
    gone,       \* the devices that a list on its way lacks
    sel,        \* the panel's _selectedMac
    ctl,        \* the controller's selectedMac
    session,    \* the device of the open session, None without one
    overlayOn,  \* _heatmapEnabled
    live        \* the controller's and the panel's state of the streams, below

registry == <<up, known, gone>>
panel == <<sel, ctl, session, overlayOn>>
vars == <<up, known, gone, sel, ctl, session, overlayOn, live>>

Core == Streams \ {Overlay}

\* A stream: its device, the subscription held, the call whose claim is
\* current, the timer armed and the attempt it is at; `again` is a re-open
\* count above zero.  Behind the current call: a stream of the backend, and the
\* message the backend has left for it.
NoStream == [mac |-> None, unsub |-> None, cur |-> None, timer |-> "none", n |-> 0,
             again |-> FALSE, back |-> FALSE, due |-> "none"]

FreeSlots(L, s) == {i \in Slots[s] : L.call[s][i] = "free"}
Least(K) == CHOOSE k \in K : \A j \in K : k <= j
Up(L) == \E s \in Streams : L.vote[s] = "up"

-----------------------------------------------------------------------------
(* The controller's steps, on a value L of live                            *)

\* safeUnsub: the calls of a stream once what it holds is given up; the backend
\* will hear of it.
Released(L, s) ==
    IF L.stream[s].unsub = None THEN L.call[s]
    ELSE [L.call[s] EXCEPT ![L.stream[s].unsub] = "leaving"]

\* Fault: the pending re-open survives.
SilenceTimer(L, S) ==
    [L EXCEPT !.call = [s \in Streams |-> IF s \in S THEN Released(L, s) ELSE @[s]],
              !.stream = [s \in Streams |-> IF s \in S THEN [NoStream EXCEPT !.timer = L.stream[s].timer]
                                            ELSE @[s]],
              !.vote = [s \in Streams |-> IF s \in S THEN "down" ELSE @[s]]]

\* unsubscribeTargets, unsubscribeDisplay, _unsubscribeHeatmap: nothing of the
\* streams S is left, and no vote counts as one for "down".
Silence(L, S) ==
    [L EXCEPT !.call = [s \in Streams |-> IF s \in S THEN Released(L, s) ELSE @[s]],
              !.stream = [s \in Streams |-> IF s \in S THEN NoStream ELSE @[s]],
              !.vote = [s \in Streams |-> IF s \in S THEN "down" ELSE @[s]]]

\* _subscribeStream for each of S: claim the generation and ask.
Subscribe(L, S, m, n) ==
    LET claim == [s \in S |-> Least(FreeSlots(L, s))]
    IN  [L EXCEPT
           !.stream = [s \in Streams |-> IF s \in S
                                         THEN [@[s] EXCEPT !.mac = m, !.cur = claim[s], !.n = n]
                                         ELSE @[s]],
           !.call = [s \in Streams |-> IF s \in S
                                       THEN [@[s] EXCEPT ![claim[s]] = "asked"] ELSE @[s]]]

\* _subscribeHeatmap, on the controller's own selection.
SubscribeOverlay(L, on) ==
    LET M == Silence(L, {Overlay})
    IN  IF on /\ ctl # None THEN Subscribe(M, {Overlay}, ctl, 1) ELSE M

\* subscribeTargets: votes and the last report are forgotten.
SubscribeTargets(L, m) ==
    LET M == [Silence(L, Core) EXCEPT !.vote = [s \in Streams |-> "down"], !.reported = "none"]
        C == Subscribe(M, Core, m, 1)
    IN  IF overlayOn THEN SubscribeOverlay(C, TRUE) ELSE C

\* Fault: each stream speaks for the device.
ReportLone(L, s, v) ==
    [L EXCEPT !.vote[s] = v, !.reported = v,
              !.offline = IF L.stream[s].mac = sel THEN v = "down" ELSE @]

\* _reportStreamAvailability, and onAvailability of the panel: an edge of "is
\* any stream up" moves the banner, for the device that is selected.
Report(L, s, v) ==
    LET M   == [L EXCEPT !.vote[s] = v]
        any == IF Up(M) THEN "up" ELSE "down"
    IN  IF any = L.reported THEN M
        ELSE [M EXCEPT !.reported = any,
                       !.offline = IF L.stream[s].mac = sel THEN any = "down" ELSE @]

\* What a stream that waits to re-open keeps: its device.
Reopening(L, s) == [NoStream EXCEPT !.mac = L.stream[s].mac, !.timer = "reopen", !.again = TRUE]

\* Fault: the subscription that was closed is not given up.
ReopenLeaks(L, s) == [L EXCEPT !.stream[s] = Reopening(L, s)]

\* Fault: no timer is armed.
ReopenForgets(L, s) ==
    [L EXCEPT !.call[s] = Released(L, s), !.stream[s] = [Reopening(L, s) EXCEPT !.timer = "none"]]

\* _reopenStream.
Reopen(L, s) == [L EXCEPT !.call[s] = Released(L, s), !.stream[s] = Reopening(L, s)]

CloseSession(L) == Silence(L, Streams)

-----------------------------------------------------------------------------
(* The panel and the session                                               *)

\* The picker: the session is closed, and the panel selects a listed device; the
\* controller's selection waits for the next device list.
Pick(m) ==
    /\ m # sel /\ m \in known \cup gone
    /\ live' = [CloseSession(live) EXCEPT !.offline = FALSE]
    /\ sel' = m /\ session' = None
    /\ UNCHANGED <<registry, ctl, overlayOn>>

\* The device the controller selects from list L: the stored one if it is listed,
\* else the first by name.  An empty list changes nothing, and unsaved edits keep
\* a device that is not listed.
Selects(L) ==
    IF L = {} THEN {ctl}
    ELSE {m \in L : sel \in L => m = sel} \cup ({ctl} \ L)

\* _applyDeviceList and the panel's onDeviceListChanged.  The session is closed when
\* the controller's device is not listed; the panel selects what the controller does.
Push(L) ==
    /\ known \ gone \subseteq L /\ L \subseteq known \cup gone
    /\ gone' = gone \cap L
    /\ ctl' \in Selects(L) /\ sel' = ctl'
    /\ IF ctl \in L THEN UNCHANGED <<session, live>>
       ELSE session' = None /\ live' = CloseSession(live)
    /\ UNCHANGED <<up, known, overlayOn>>

\* openDeviceSession has resolved; reopenSession subscribes the streams.
SessionOpens ==
    /\ up /\ sel \in known /\ session = None
    /\ \A s \in Streams : FreeSlots(live, s) # {} \/ (s = Overlay /\ ~overlayOn)
    /\ session' = sel
    /\ live' = SubscribeTargets(live, sel)
    /\ UNCHANGED <<registry, sel, ctl, overlayOn>>

\* closeDeviceSession: a re-open begins.
SessionCloses ==
    /\ session # None
    /\ session' = None /\ live' = CloseSession(live)
    /\ UNCHANGED <<registry, sel, ctl, overlayOn>>

\* The overlay's toggle, and the preference restored with the configuration.
SetOverlay(b) ==
    /\ overlayOn' = b
    /\ b => FreeSlots(live, Overlay) # {}
    /\ live' = SubscribeOverlay(live, b)
    /\ UNCHANGED <<registry, sel, ctl, session>>

\* A fresh connection object: subscriptions, timers and claims are dropped, and
\* what went over the old connection is over; the new one sends its first list.
SwapConnection ==
    /\ session' = None /\ gone' = Macs \ known
    /\ live' = [live EXCEPT
           !.stream = [s \in Streams |-> [NoStream EXCEPT !.again = live.stream[s].again]],
           !.call = [s \in Streams |-> [i \in Slots[s] |->
               IF @[s][i] \in {"asked", "granted"} THEN "leaving" ELSE "free"]]]
    /\ UNCHANGED <<up, known, sel, ctl, overlayOn>>

-----------------------------------------------------------------------------
(* The controller's callbacks                                              *)

Becomes(L) == live' = L /\ UNCHANGED <<registry, panel>>

TimerFires(s) ==
    /\ live.stream[s].timer # "none" /\ FreeSlots(live, s) # {}
    /\ LET t == live.stream[s]
       IN  Becomes(Subscribe([live EXCEPT !.stream[s].timer = "none"], {s}, t.mac,
                             IF t.timer = "retry" THEN t.n + 1 ELSE 1))

\* subscribeMessage resolves: held, or given up at once when superseded.
Resolve(s, i) ==
    /\ live.call[s][i] = "granted"
    /\ Becomes(IF live.stream[s].cur # i THEN [live EXCEPT !.call[s][i] = "leaving"]
               ELSE [live EXCEPT !.call[s][i] = "open",
                                 !.stream[s] = [@ EXCEPT !.unsub = i, !.n = 0, !.again = FALSE]])

\* A re-open never gives up; a first subscription is tried RetryLimit times.
Failed(L, s) ==
    IF L.stream[s].again THEN Reopen(L, s)
    ELSE IF L.stream[s].n >= RetryLimit
    THEN [L EXCEPT !.stream[s] = [@ EXCEPT !.cur = None, !.n = 0]]
    ELSE [L EXCEPT !.stream[s] = [@ EXCEPT !.cur = None, !.timer = "retry"]]

Reject(s, i) ==
    /\ live.call[s][i] = "asked" /\ ~up
    /\ LET L == [live EXCEPT !.call[s][i] = "free"]
       IN  Becomes(IF live.stream[s].cur = i THEN Failed(L, s) ELSE L)

\* Fault: `closed` is taken for a device that is away.
HandleAway(L, s, m) == Report(L, s, IF m = "up" THEN "up" ELSE "down")

\* handleMsg: only the current claim listens.
Handle(L, s, m) ==
    IF m = "closed" THEN Reopen(Report(L, s, "down"), s) ELSE Report(L, s, m)

HandleMsg(L, s, i, m) ==
    /\ live.call[s][i] \in {"granted", "open", "leaving"}
    /\ Becomes(IF live.stream[s].cur = i THEN Handle(L, s, m) ELSE L)

\* available: true or false.  What comes of a call that was given up is not told
\* apart: anything may.
Hear(s, i, m) ==
    /\ live.stream[s].cur = i => live.stream[s].back
    /\ HandleMsg(live, s, i, m)

\* What the backend had left to say: `closed` of a stream that ended, or that the
\* device is away.
HearLast(s, i) ==
    /\ live.stream[s].cur = i /\ live.stream[s].due # "none"
    /\ HandleMsg([live EXCEPT !.stream[s].due = "none"], s, i, live.stream[s].due)

-----------------------------------------------------------------------------
(* External: the backend                                                   *)

\* A stream is behind the subscription where the device is known.
Grant(s, i) ==
    /\ live.call[s][i] = "asked" /\ up
    /\ Becomes([live EXCEPT
           !.call[s][i] = "granted",
           !.stream[s] = IF @.cur # i THEN @
                         ELSE IF @.mac \in known THEN [@ EXCEPT !.back = TRUE]
                         ELSE [@ EXCEPT !.due = "down"]])

Unsubscribed(s, i) ==
    /\ live.call[s][i] = "leaving"
    /\ Becomes([live EXCEPT !.call[s][i] = "free"])

\* Every stream of the devices M ends: mark_closed, and on_closed.
Ended(L, M) ==
    [L EXCEPT !.stream = [s \in Streams |->
        IF @[s].back /\ @[s].mac \in M THEN [@[s] EXCEPT !.back = FALSE, !.due = "closed"]
        ELSE @[s]]]

\* The session's subscription has no events: the controller keeps it.
Unload ==
    /\ up /\ up' = FALSE
    /\ live' = Ended(live, Macs)
    /\ UNCHANGED <<known, gone, panel>>

\* The integration is set up with the devices K that it finds.
Load(K) ==
    /\ ~up /\ up' = TRUE
    /\ Macs \ Removable \subseteq K /\ known' = K
    /\ gone' = gone \cup (Macs \ K)
    /\ UNCHANGED <<panel, live>>

\* _on_device_removed: its streams end, and the list is sent.
RemoveDevice(m) ==
    /\ up /\ m \in known \cap Removable
    /\ known' = known \ {m} /\ gone' = gone \cup {m}
    /\ live' = Ended(live, {m})
    /\ UNCHANGED <<up, panel>>

\* async_discover finds a device (again).
AddDevice(m) ==
    /\ up /\ m \notin known
    /\ known' = known \cup {m}
    /\ UNCHANGED <<up, gone, panel, live>>

-----------------------------------------------------------------------------
Init ==
    /\ up = TRUE /\ gone = {}
    /\ known \in SUBSET Macs /\ Macs \ Removable \subseteq known
    /\ sel \in known /\ ctl = sel
    /\ session = None /\ overlayOn = FALSE
    /\ live = [stream |-> [s \in Streams |-> NoStream],
               call |-> [s \in Streams |-> [i \in Slots[s] |-> "free"]],
               vote |-> [s \in Streams |-> "down"],
               reported |-> "none", offline |-> FALSE]

Settle(s, i) ==
    Grant(s, i) \/ Resolve(s, i) \/ Reject(s, i) \/ Unsubscribed(s, i) \/ HearLast(s, i)

Next ==
    \/ \E m \in Macs : Pick(m)
    \/ \E L \in SUBSET Macs : Push(L)
    \/ SessionOpens \/ SessionCloses
    \/ \E b \in BOOLEAN : SetOverlay(b)
    \/ SwapConnection
    \/ \E s \in Streams : TimerFires(s)
    \/ \E s \in Streams : \E i \in Slots[s] : Settle(s, i) \/ Hear(s, i, "up") \/ Hear(s, i, "down")
    \/ Unload \/ \E K \in SUBSET Macs : Load(K)
    \/ \E m \in Macs : RemoveDevice(m) \/ AddDevice(m)

\* Timers fire, calls settle and a last message arrives; nothing else is
\* promised.
Fairness ==
    \A s \in Streams : WF_vars(TimerFires(s)) /\ \A i \in Slots[s] : WF_vars(Settle(s, i))

Spec == Init /\ [][Next]_vars /\ Fairness

-----------------------------------------------------------------------------
(* Properties                                                              *)

LiveTypeOK ==
    /\ up \in BOOLEAN /\ known \subseteq Macs /\ gone \subseteq Macs
    /\ sel \in Macs /\ ctl \in Macs /\ session \in Macs \cup {None}
    /\ overlayOn \in BOOLEAN
    /\ DOMAIN live.stream = Streams /\ DOMAIN live.call = Streams
    /\ \A s \in Streams :
          /\ live.stream[s] \in [mac : Macs \cup {None}, unsub : Slots[s] \cup {None},
                                cur : Slots[s] \cup {None}, timer : {"none", "retry", "reopen"},
                                n : 0..RetryLimit, again : BOOLEAN, back : BOOLEAN,
                                due : {"none", "closed", "down"}]
          /\ live.call[s] \in [Slots[s] -> {"free", "asked", "granted", "open", "leaving"}]
    /\ live.vote \in [Streams -> {"up", "down"}]
    /\ live.reported \in {"none", "up", "down"}
    /\ live.offline \in BOOLEAN

\* A subscription that was resolved and not given up is the one its stream
\* holds: late opens and teardowns leak no stream of the backend (the comment
\* on the generation tokens).
NoOrphanStream ==
    \A s \in Streams : \A i \in Slots[s] :
        live.call[s][i] = "open" => live.stream[s].unsub = i

\* The claim of the stream was answered, nothing is behind it, and it will not hear
\* that it should ask again: only a new session ends that.
Deaf(L, s) ==
    LET t == L.stream[s]
    IN  t.cur # None /\ L.call[s][t.cur] # "asked" /\ ~t.back /\ t.due # "closed"

\* Behind a core stream that was granted there is a stream of the backend, or the
\* message that it is closed is on its way (#334).  A stream of a removed device is
\* the exception, and passes: the list that lacks the device is on its way, or
\* panel and controller have gone over to another one.
NoDeafStream ==
    \A s \in Core : Deaf(live, s) => session \in gone \/ (sel = ctl /\ sel # session)

Ways(s) == {w \in {"unsub", "opening", "timer"} :
    CASE w = "unsub" -> live.stream[s].unsub # None
      [] w = "opening" -> live.stream[s].cur # None /\ live.stream[s].unsub = None
      [] OTHER -> live.stream[s].timer # "none"}

\* A stream is held, asked for or waited for, one of these at a time: no
\* teardown, swap or `closed` leaves a timer beside a live subscription.  A
\* core stream that has any of them is of the device of the open session.
OneWayOn ==
    \A s \in Streams :
        /\ Cardinality(Ways(s)) <= 1
        /\ s \in Core /\ Ways(s) # {} => session # None /\ live.stream[s].mac = session

\* The banner rises only when no stream is up: one stream that is armed after
\* another does not clear the live view of the device (#336).
BannerOnlyOnOutage == [][~live.offline /\ live'.offline => ~Up(live')]_vars

\* What the panel is to a core stream: one watcher, while the session is open.
Feed(s) ==
    IF session = None THEN "off"
    ELSE IF Deaf(live, s) THEN "parked"
    ELSE IF live.stream[s].unsub # None THEN "held"
    ELSE IF Ways(s) # {} THEN "seeking"
    ELSE "parked"

Shared == INSTANCE SharedStream WITH
    Cards <- {"panel"}, watchers <- IF session = None THEN {} ELSE {"panel"},
    feed <- Feed(Spot), serving <- up /\ session \in known

\* A core stream of the panel is held only while the session is open, looked
\* for as long as it is, and found once the integration stays up and has the
\* device; only an integration that is down while the session opens, or has lost
\* the device, parks it.
KeepsPromise == Shared!Spec
=============================================================================
