------------------------- MODULE SubscriptionStore --------------------------
(***************************************************************************)
(* The dashboard card's live streams: the store that shares one websocket  *)
(* subscription per device among all cards (card/subscription-store.ts,    *)
(* with the overview's reducer of card/overview-store.ts), and the         *)
(* DeviceSubscription through which a card uses it                         *)
(* (card/device-subscription.ts, eppgrid-card.ts).                         *)
(*                                                                         *)
(* JavaScript runs one callback at a time, so an action is one callback:   *)
(* a card's lifecycle hook, a timer, a settled promise or a message.  The  *)
(* websocket and the backend behind it are external: a subscribe call is   *)
(* asked, granted and resolves, or is rejected; a message may overtake the *)
(* resolution of its own call (both arrive in one batch), and a            *)
(* subscription that was given up still delivers until the backend has     *)
(* seen that.                                                              *)
(*                                                                         *)
(* openGen is only ever compared with the token of an open in flight;      *)
(* `opening` names the call whose token is the current one, if any.  The   *)
(* delay of the backoff is abstracted: a timer is armed, and fires.        *)
(***************************************************************************)
EXTENDS Naturals, FiniteSets

CONSTANTS
    Cards, Devices,
    Dashboards,     \* which devices each card may be configured for: some functions
    Spot,           \* the device whose stream is compared with SharedStream: any one
    Calls,          \* bound: subscribe calls that exist at one time
    Timers,         \* bound: timers armed at one time
    MaxConn,        \* bound: connections Home Assistant goes through
    None

ASSUME StoreAssumption ==
    /\ None \notin Cards \cup Devices \cup Calls \cup Timers
    /\ Dashboards \subseteq [Cards -> SUBSET Devices] /\ Dashboards # {}
    /\ Spot \in Devices
    /\ Calls \subseteq Nat /\ Timers \subseteq Nat \ {0}
    /\ IsFiniteSet(Devices) /\ IsFiniteSet(Timers)
    /\ Cardinality(Devices) <= Cardinality(Timers)     \* an entry arms one at most
    /\ MaxConn \in Nat \ {0}

VARIABLES
    conn,       \* hass.connection, as Home Assistant hands it out now
    up,         \* the integration is set up
    known,      \* the devices in the registry
    shows,      \* the dashboard's cards, one of Dashboards
    card,       \* per card: mounted, the device configured, its hass and its subscription
    entry,      \* the registry, per device (nobody listens: there is no entry)
    call,       \* the subscribe calls: external state, and whose entry they are for
    armed       \* per timer: the device whose entry armed it, or None

vars == <<conn, up, known, shows, card, entry, call, armed>>
Now == [entry |-> entry, call |-> call, armed |-> armed]

NoEntry == [on |-> {}, ws |-> None, opening |-> None, conn |-> 0, timer |-> None,
            dead |-> FALSE, available |-> TRUE]
NoCall == [st |-> "free", dev |-> None, mine |-> FALSE, conn |-> 0,
           back |-> FALSE, closing |-> FALSE]

Registered(S, d) == S.entry[d].on # {}

FreeCalls == {k \in Calls : call[k].st = "free"}
Least(K) == CHOOSE k \in K : \A j \in K : k <= j

-----------------------------------------------------------------------------
(* The store's own steps, on a state S of entry, call and armed            *)

\* safeUnsub: the call is given up; the backend will hear of it.
Unsub(S, k) == [S EXCEPT !.call[k].st = "leaving"]

ClearTimer(S, d) ==
    IF S.entry[d].timer = None THEN S
    ELSE [S EXCEPT !.armed[S.entry[d].timer] = None, !.entry[d].timer = None]

\* closeWs: cancel the timer, supersede the open in flight, drop the subscription.
CloseWs(S, d) ==
    LET T == [ClearTimer(S, d) EXCEPT !.entry[d].opening = None]
    IN  IF T.entry[d].ws = None THEN T
        ELSE [Unsub(T, T.entry[d].ws) EXCEPT !.entry[d].ws = None]

\* openWs on connection h.
OpenWs(S, d, h) ==
    LET k == Least({j \in Calls : S.call[j].st = "free"})
    IN  [S EXCEPT !.entry[d] = [@ EXCEPT !.conn = h, !.dead = FALSE, !.opening = k],
                  !.call[k] = [st |-> "asked", dev |-> d, mine |-> TRUE, conn |-> h,
                               back |-> FALSE, closing |-> FALSE]]

\* scheduleReopen: one timer per entry, none for an entry that is gone.
Schedule(S, d) ==
    IF ~Registered(S, d) \/ S.entry[d].timer # None THEN S
    ELSE LET t == Least({u \in Timers : S.armed[u] = None})
         IN  [S EXCEPT !.armed[t] = d, !.entry[d].timer = t]

\* Fault: the unsubscribe throws, and nothing is scheduled.
ReopenThrows(S, d) == IF S.entry[d].timer # None THEN S ELSE CloseWs(S, d)

\* reopen, on a `closed` message.
Reopen(S, d) == IF S.entry[d].timer # None THEN S ELSE Schedule(CloseWs(S, d), d)

\* Cards W listen to the entry of d.
Listen(S, d, W) == [S EXCEPT !.entry[d].on = W]

\* The function subscribe returns: the last listener takes the entry with it.
Leave(S, c, d) ==
    LET T == Listen(S, d, S.entry[d].on \ {c})
    IN  IF Registered(T, d) \/ ~Registered(S, d) THEN T
        ELSE LET U == CloseWs(T, d)
             IN  [U EXCEPT !.entry[d] = NoEntry,
                           !.call = [k \in Calls |-> IF @[k].dev = d
                                                     THEN [@[k] EXCEPT !.mine = FALSE] ELSE @[k]]]

\* subscribe: open, swap connections, restart the backoff, revive, or just join.
Join(S, c, d, h) ==
    LET e == S.entry[d]
        T == IF ~Registered(S, d) THEN OpenWs(S, d, h)
             ELSE IF e.conn # h THEN OpenWs(CloseWs(S, d), d, h)
             ELSE IF e.ws = None /\ e.timer # None THEN Schedule(ClearTimer(S, d), d)
             ELSE IF e.dead THEN OpenWs(S, d, h)
             ELSE S
    IN  Listen(T, d, T.entry[d].on \cup {c})

Becomes(S) == entry' = S.entry /\ call' = S.call /\ armed' = S.armed

-----------------------------------------------------------------------------
(* A card                                                                  *)

NewCard == [up |-> FALSE, dev |-> None, hass |-> 0, sub |-> None, conn |-> 0]

\* ensure(): nothing to do, or give up the old subscription and take a new one.
Ensure(S, k, c) ==
    IF k.sub = k.dev /\ k.conn = k.hass THEN S
    ELSE Join(IF k.sub = None THEN S ELSE Leave(S, c, k.sub), c, k.dev, k.hass)

\* Card c goes on as record k, subscribed to its device.
Subscribed(c, k) ==
    /\ FreeCalls # {}
    /\ Becomes(Ensure(Now, k, c))
    /\ card' = [card EXCEPT ![c] = [k EXCEPT !.sub = k.dev, !.conn = k.hass]]
    /\ UNCHANGED <<conn, up, known, shows>>

\* Home Assistant gives a new card its configuration and hass, then attaches it.
Mount(c, d) ==
    /\ ~card[c].up /\ d \in shows[c]
    /\ Subscribed(c, [card[c] EXCEPT !.up = TRUE, !.dev = d, !.hass = conn])

\* disconnectedCallback -> dispose: the card keeps its configuration and its hass.
Unmount(c) ==
    /\ card[c].up
    /\ Becomes(Leave(Now, c, card[c].sub))
    /\ card' = [card EXCEPT ![c] = [@ EXCEPT !.up = FALSE, !.sub = None, !.conn = 0]]
    /\ UNCHANGED <<conn, up, known, shows>>

\* setConfig with another device, once the card has the hass of the day; on the page
\* or not, the card subscribes.
SetConfig(c, d) ==
    /\ card[c].dev # None /\ d \in shows[c] \ {card[c].dev} /\ card[c].hass = conn
    /\ Subscribed(c, [card[c] EXCEPT !.dev = d])

\* set hass: so it does on the next state update after it left the page, if Home
\* Assistant still hands it one.
SetHass(c) ==
    /\ card[c].dev # None /\ (card[c].hass # conn \/ card[c].sub = None)
    /\ Subscribed(c, [card[c] EXCEPT !.hass = conn])

-----------------------------------------------------------------------------
(* The store's callbacks                                                   *)

TimerFires(t) ==
    /\ armed[t] # None /\ FreeCalls # {}
    /\ LET d == armed[t]
       IN  Becomes(OpenWs([Now EXCEPT !.armed[t] = None, !.entry[d].timer = None], d, entry[d].conn))
    /\ UNCHANGED <<conn, up, known, shows, card>>

\* External: the call went over a connection that is gone; the backend would
\* register a stream for it.
Lost(k) == call[k].conn # conn
Accepts(k) == ~Lost(k) /\ up /\ call[k].dev \in known

\* The token an open took is still the current one.
Current(k) == call[k].mine /\ entry[call[k].dev].opening = k

\* Fault: a resolved open is stored although it was superseded.
ResolveStores(k) ==
    /\ call[k].st = "granted"
    /\ Becomes([Now EXCEPT !.call[k].st = "open",
                           !.entry[call[k].dev] = [@ EXCEPT !.ws = k, !.opening = None]])
    /\ UNCHANGED <<conn, up, known, shows, card>>

\* subscribeMessage resolves: keep the subscription, or drop a superseded one.
Resolve(k) ==
    /\ call[k].st = "granted"
    /\ Becomes(IF Current(k)
               THEN [Now EXCEPT !.call[k].st = "open",
                                !.entry[call[k].dev] = [@ EXCEPT !.ws = k, !.opening = None]]
               ELSE Unsub(Now, k))
    /\ UNCHANGED <<conn, up, known, shows, card>>

\* onError: the banner; on to the next attempt, or parked for good.
Failed(S, d, terminal) ==
    LET T == [S EXCEPT !.entry[d] = [@ EXCEPT !.opening = None, !.available = FALSE]]
    IN  IF terminal THEN [T EXCEPT !.entry[d].dead = TRUE] ELSE Schedule(T, d)

\* Fault: every rejection is final.
RejectParks(k) ==
    /\ call[k].st = "asked" /\ ~Accepts(k)
    /\ LET S == [Now EXCEPT !.call[k] = NoCall]
       IN  Becomes(IF Current(k) THEN Failed(S, call[k].dev, TRUE) ELSE S)
    /\ UNCHANGED <<conn, up, known, shows, card>>

\* Fault: a superseded open reports its failure too.
RejectStale(k) ==
    /\ call[k].st = "asked" /\ ~Accepts(k)
    /\ LET S == [Now EXCEPT !.call[k] = NoCall]
       IN  Becomes(IF call[k].mine THEN Failed(S, call[k].dev, up /\ ~Lost(k)) ELSE S)
    /\ UNCHANGED <<conn, up, known, shows, card>>

\* subscribeMessage rejects, with device_not_found where the integration is up;
\* a superseded open changes nothing.
Reject(k) ==
    /\ call[k].st = "asked" /\ ~Accepts(k)
    /\ LET S == [Now EXCEPT !.call[k] = NoCall]
       IN  Becomes(IF Current(k) THEN Failed(S, call[k].dev, up /\ ~Lost(k)) ELSE S)
    /\ UNCHANGED <<conn, up, known, shows, card>>

\* What the overview's reducer keeps of a message.
Reduce(S, d, m) == [S EXCEPT !.entry[d].available = (m = "frame")]

\* Fault: a closed stream is taken for a device that is away.
HandleAway(S, d, m) == Reduce(S, d, m)

\* handleMsg: reduce, and re-open what the manager has closed.
Handle(S, d, m) ==
    IF m = "closed" THEN Reopen(Reduce(S, d, m), d) ELSE Reduce(S, d, m)

\* A message for an entry that is gone reaches no listener and re-opens nothing.
HandleMsg(S, k, m) ==
    /\ call[k].st \in {"granted", "open", "leaving"}
    /\ Becomes(IF call[k].mine THEN Handle(S, call[k].dev, m) ELSE S)
    /\ UNCHANGED <<conn, up, known, shows, card>>

\* A frame, or available: false, from the stream behind the call.
Hear(k, m) == call[k].back /\ HandleMsg(Now, k, m)

HearClosed(k) == call[k].closing /\ HandleMsg([Now EXCEPT !.call[k].closing = FALSE], k, "closed")

-----------------------------------------------------------------------------
(* External: the websocket connection and the backend                      *)

\* The command is accepted: a stream is registered.
Grant(k) ==
    /\ call[k].st = "asked" /\ Accepts(k)
    /\ call' = [call EXCEPT ![k].st = "granted", ![k].back = TRUE]
    /\ UNCHANGED <<conn, up, known, shows, card, entry, armed>>

\* The backend has handled the unsubscribe, or the connection is gone.
Unsubscribed(k) ==
    /\ call[k].st = "leaving"
    /\ call' = [call EXCEPT ![k] = NoCall]
    /\ UNCHANGED <<conn, up, known, shows, card, entry, armed>>

\* Streams K end with on_closed.
Close(K) ==
    call' = [k \in Calls |-> IF k \in K THEN [call[k] EXCEPT !.back = FALSE, !.closing = TRUE]
                             ELSE call[k]]

\* The config entry is unloaded; the manager drops its streams.
Unload ==
    /\ up /\ up' = FALSE
    /\ Close({k \in Calls : call[k].back})
    /\ UNCHANGED <<conn, known, shows, card, entry, armed>>

Load == ~up /\ up' = TRUE /\ UNCHANGED <<conn, known, shows, card, entry, call, armed>>

RemoveDevice(d) ==
    /\ up /\ d \in known /\ known' = known \ {d}
    /\ Close({k \in Calls : call[k].back /\ call[k].dev = d})
    /\ UNCHANGED <<conn, up, shows, card, entry, armed>>

AddDevice(d) ==
    /\ d \notin known /\ known' = known \cup {d}
    /\ UNCHANGED <<conn, up, shows, card, entry, call, armed>>

\* A fresh connection object; whatever went over the old one is over.
SwapConnection ==
    /\ conn < MaxConn /\ conn' = conn + 1
    /\ call' = [k \in Calls |-> [call[k] EXCEPT !.back = FALSE, !.closing = FALSE]]
    /\ UNCHANGED <<up, known, shows, card, entry, armed>>

-----------------------------------------------------------------------------
Init ==
    /\ conn = 1 /\ up = TRUE /\ known = Devices
    /\ shows \in Dashboards
    /\ card = [c \in Cards |-> NewCard]
    /\ entry = [d \in Devices |-> NoEntry]
    /\ call = [k \in Calls |-> NoCall]
    /\ armed = [t \in Timers |-> None]

Settle(k) == Grant(k) \/ Resolve(k) \/ Reject(k) \/ Unsubscribed(k) \/ HearClosed(k)

Next ==
    \/ \E c \in Cards, d \in Devices : Mount(c, d) \/ SetConfig(c, d)
    \/ \E c \in Cards : Unmount(c) \/ SetHass(c)
    \/ \E t \in Timers : TimerFires(t)
    \/ \E k \in Calls : Settle(k)
    \/ \E k \in Calls, m \in {"frame", "away"} : Hear(k, m)
    \/ Unload \/ Load \/ SwapConnection
    \/ \E d \in Devices : RemoveDevice(d) \/ AddDevice(d)

\* Home Assistant hands the new hass to the cards that took the last one, timers
\* fire, a call settles and a `closed` message arrives; nothing else is promised.
Fairness ==
    /\ WF_vars(\E c \in Cards : card[c].sub # None /\ SetHass(c))
    /\ WF_vars(\E t \in Timers : TimerFires(t))
    /\ \A k \in Calls : WF_vars(Settle(k))

Spec == Init /\ [][Next]_vars /\ Fairness

-----------------------------------------------------------------------------
(* Properties                                                              *)

StoreTypeOK ==
    /\ conn \in 1..MaxConn /\ up \in BOOLEAN /\ known \subseteq Devices
    /\ shows \in Dashboards
    /\ card \in [Cards -> [up : BOOLEAN, dev : Devices \cup {None}, hass : 0..MaxConn,
                           sub : Devices \cup {None}, conn : 0..MaxConn]]
    /\ entry \in [Devices -> [on : SUBSET Cards, ws : Calls \cup {None}, opening : Calls \cup {None},
                              conn : 0..MaxConn, timer : Timers \cup {None},
                              dead : BOOLEAN, available : BOOLEAN]]
    /\ call \in [Calls -> [st : {"free", "asked", "granted", "open", "leaving"},
                           dev : Devices \cup {None}, mine : BOOLEAN, conn : 0..MaxConn,
                           back : BOOLEAN, closing : BOOLEAN]]
    /\ armed \in [Timers -> Devices \cup {None}]
    /\ \A d \in Devices : entry[d].on # {} => entry[d].conn # 0

\* A subscription that was resolved and not given up is the one its entry
\* holds, and somebody watches that entry: superseded opens, swaps and
\* teardowns leak no backend stream (the comment on Entry.openGen).
NoOrphanStream ==
    \A k \in Calls : call[k].st = "open" =>
        call[k].mine /\ entry[call[k].dev].ws = k /\ entry[call[k].dev].on # {}

\* Behind the subscription an entry holds there is a stream, or the message
\* that it is closed is on its way, or its connection has been replaced:
\* no card sits on a subscription that nothing will ever speak on (#334).
NoDeafEntry ==
    \A d \in Devices : entry[d].ws # None =>
        LET k == call[entry[d].ws]
        IN  k.st = "open" /\ (k.back \/ k.closing \/ k.conn # conn)

\* An entry that is watched holds a subscription, has an open in flight, or
\* has a re-open armed, and never two of these; only a terminal rejection
\* leaves it with none.
NeverStranded ==
    \A d \in Devices : entry[d].on # {} =>
        LET n == Cardinality({f \in {"ws", "opening", "timer"} : entry[d][f] # None})
        IN  n <= 1 /\ (n = 0 => entry[d].dead)

\* A healthy live card is shown as offline by a message only, never by the
\* rejection of an open that something else has overtaken (the comment in
\* openWs' catch).
HealthyStaysOnline ==
    [][\A d \in Devices :
         entry[d].ws # None /\ entry[d].available /\ ~entry'[d].available =>
             \A k \in Calls : call[k].st = "asked" => call'[k].st # "free"]_vars

\* The store keeps the promise of SharedStream.
Feed(d) ==
    IF entry[d].on = {} THEN "off"
    ELSE IF entry[d].ws # None THEN "held"
    ELSE IF entry[d].opening = None /\ entry[d].timer = None THEN "parked"
    ELSE "seeking"

Shared == INSTANCE SharedStream WITH
    watchers <- entry[Spot].on, feed <- Feed(Spot), serving <- up /\ Spot \in known

\* A device has one stream, held only while it is watched, looked for as long
\* as it is watched, and found once the backend stays ready (#334).
KeepsPromise == Shared!Spec
=============================================================================
