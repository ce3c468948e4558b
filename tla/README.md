# Everything Presence Pro Grid: a TLA+ model

The product turns a millimetre-wave radar into room zones. A firmware component
on an ESP32 tracks at most three radar targets on a grid of cells and decides
which zones are occupied; a Home Assistant integration keeps one connection to
each device, pushes its configuration and streams its state to browsers; a panel
and a dashboard card are the user interface. This directory specifies the parts
of that system where order, time and failure decide whether it is correct.

## The system

| Part | State | Operations | Talks to |
|---|---|---|---|
| zone engine (`firmware/lib/epp_zone_engine`) | per zone: state, timer, which slots confirm it; per slot: last cell and position, gate count, dismissal, stuck reference; presence sensors; assisted-clear timer | `tick`, `dismiss_target`, `set_grid`, `set_zones`, `set_stuck_target_timeout`, `set_assisted_clear` | called by the component's loop and API services, one at a time |
| rolling window, calibration (same library) | last frames of each slot | `feed`, transform | feeds the zone engine |
| component (`firmware/components/epp`) | frame buffer, staleness watchdog, event queue, flash caches, emission pipeline | `loop`, API services, restore and save | radar driver, zone engine, flash, Home Assistant |
| device sessions (`device_manager/__init__.py`, `_connection.py`) | per MAC: active connection, reference count, session lock, close in flight | `async_open_session`, `release_session`, `async_close_session`, `schedule_close_session`, `async_stop`, handlers of availability and removal | websocket commands, durable streams, OTA; `aioesphomeapi` |
| durable streams (`_streams.py`, `device_manager`) | per stream: connection, last notice, closed; per MAC: stream lock, retry task | `async_add_state_stream`, `_ensure_streams`, `_on_session_lost`, `_schedule_stream_retry` | device sessions below, websocket subscriptions above |
| configuration push, pipeline | push lock, debounce tasks, skip caches | `_push_config_to_device`, `_on_device_available`, `push_pipeline` | device sessions or a temporary connection |
| firmware updates, repairs | OTA lock, held session, expected flash | `async_trigger_ota`, resend, progress | device sessions, release server |
| device groups (`device_groups/`) | stored groups, one aggregator per group | create, update, delete, aggregate | store, device manager, entity states |
| websocket commands | live subscriptions | one handler per command | panel, card |
| card stores (`frontend/src/card`) | one shared subscription per device, retry timer, generation | `subscribe`, unsubscribe, reopen | websocket connection |
| panel and device controller (`eppgrid-panel.ts`, `controllers/device-controller.ts`) | selected device, session pipelines in flight, live streams with retry timers and generations, offline banner | `loadDeviceConfig`, `reopenSession`, `closeDeviceSession`, `_subscribeStream`, picker, device list and `hass` pushes | websocket commands |
| TypeScript zone engine (`lib/zone-engine.ts`, `controllers/target-controller.ts`) | a replica of the zone engine's state | a run per frame, dismissal, resets | previews unsaved edits in the panel's editor |
| browser flasher (`controllers/usb-flash-flow.ts`, `flasher-controller.ts`, `lib/usb-flash-service.ts`) | screen, operation number, "running" flag, serial port with its two stream locks | detect, flash, check, scan, provision, add to Home Assistant, cancel, retry | serial port, websocket commands, panel |
| layout editor, wizard, settings | user interface state | event handlers | websocket commands |

What makes these parts hard:

* **zone engine** - three slots that the radar reassigns at will, five timers on
  one clock, and many ways to leave a zone (timeout, handoff, overlay exit,
  dismissal by hand or by the stuck rule, forced clear, reconfiguration) that all
  have to leave it in the same condition;
* **sessions and streams** - one event loop on which every `await` lets others
  in: opens, releases, drops, offline and online transitions, removal,
  cancellation and unload interleave around a lock and a count;
* **component** - a watchdog, a wrapping counter, a bounded event list and flash
  writes that may fail or be cut off;
* **groups, OTA** - state read before an `await` and used after it;
* **card stores, live streams** - a subscription that is torn down while it is
  being made, a message that overtakes the answer it belongs to, a stream the
  backend closes for good;
* **panel** - several loads and re-opens of a session in flight, for devices that
  the user picks and leaves meanwhile;
* **replica** - two engines in two languages kept the same by hand;
* **flasher** - operations of minutes, on one port, that are cancelled by a number
  they compare after each await, and a port that cannot be closed while any of them
  holds a lock on its streams.

What each must do to be correct, in short: zones are occupied only on live
evidence, clear in time and not too early, and report what they hold; a session
lives exactly as long as somebody refers to it and there is one per device; a
stream that a client holds is armed whenever the device can be reached, once; a
configuration that was acknowledged is the one in force after a restart; a group
shows what its members show; a card that is mounted has one live subscription; a
panel shows the configuration of the device that is selected and holds one session
while it is on the page; the editor's preview does what the device would do; the
flasher's screen tells the truth and the port is usable after every operation.

## Modules

| Module | Models | State and actions |
|---|---|---|
| `ZoneEngine` | class `ZoneEngine` | Variables are the members of the class, grouped per zone (`zone`), slot (`tgt`) and sensor (`sens`). One action per public call. `Tick` runs the steps of `tick()` in their order on a scratch record: relocation, evaluation of each slot, handoff, overlay exit, zone state machine, cleanup, sensors, assisted clear, outputs. |
| `ZoneHistory` | nothing of the code | Three observers that measure, independently of the engine's own timers, how long a zone has waited, how long the room has been empty and how long a slot has stood still. |
| `MCZones`, `MCZoneHistory` | small rooms | Grids, settings, windows and sensor inputs of the runs. |
| `ZoneEngine_proofs`, `ZoneParity_proofs`, `DeviceSession_proofs`, `StateStreams_proofs`, `SubscriptionStore_proofs`, `LiveStreams_proofs`, `PanelSession_proofs`, `UsbFlash_proofs` | - | The theorems about the module of that name, in `ZoneEngine_proofs` those about `ZoneHistory`, too (see Proofs). |
| `DeviceSession` | `DeviceManager`'s session of one device | `active`, `refs` and `lock` are `_active_connections[mac]`, `_session_refcounts[mac]` and the waiters of `_session_locks[mac]`; `opener` and `closer` say where each caller of `async_open_session` and each run of `async_close_session` is. An action is the code between two awaits. |
| `StateStreams` | the durable streams of one device | `stream` holds the `StateStream` records, `count` is `_target_subs[mac]`, `slot` is `_stream_retry_tasks[mac]`, `lock` the waiters of `_stream_locks[mac]`; `pass` says where each task is in `_ensure_streams`; `feeds` counts the callbacks or pollers on each connection. An action is the code between two awaits. |
| `SharedStream` | nothing of the code | The abstract promise of a client of such a stream: one stream, shared by those who watch, held only while somebody does, looked for as long as somebody does. |
| `SubscriptionStore` | the card's registry of subscriptions, its reducer, `DeviceSubscription` and the card's lifecycle hooks | `entry` is the registry per device, `card` the mounted cards, `call` the subscribe calls in flight or open, `armed` the timers. An action is one JavaScript callback. Implements `SharedStream` for a device (`Spot`). |
| `LiveStreams` | the streams of the panel's open session | `live` holds the controller's streams with their generation, timer and attempts, their calls, and the votes behind the offline banner. Implements `SharedStream` for a core stream. |
| `PanelSession` | selection, session and load pipelines of panel and controller | `c` is the controller, `task` the async functions under way, `sel`, `ctl`, `stored`, `loaded`, `shown`, `dirty` the fields of the two. A step runs from one await to the next. |
| `LocalZoneEngine` | `zone-engine.ts` and the target controller's calls into it | `eng` is `ZoneEngineState`, `res` the result of the last run; the steps of a run are operators in their order. |
| `ZoneParity` | `ZoneEngine` and `LocalZoneEngine` side by side | One action per input both get: frame, dismissal, edit of grid, zones or settings, and a fresh replica. |
| `UsbFlash` | flashing and Wi-Fi setup over USB | `flow` says where each operation under way is, and whether it has been superseded since it began (`live`, the comparison of `opId`); `ctrl` is the screen and the fields of flow and controller, `port` the serial port, who holds its streams and whether `close` is stubbed. A step runs from one await to the next. |
| `MCDeviceSession`, `MCStateStreams`, `MCSubscriptionStore`, `MCLiveStreams`, `MCPanelSession`, `MCZoneParity`, `MCUsbFlash` | - | Instances for model checking. |

How they hang together: `StateStreams` uses the session that `DeviceSession`
models in detail; what it does to a client (it grants, closes, tells whether the
device is there) is the backend that `SubscriptionStore` and `LiveStreams` treat
as external, and these two implement the same `SharedStream`. `PanelSession` says
when the session opens and closes on which `LiveStreams` depends. `ZoneParity`
extends `ZoneEngine` and adds the replica as an instance.

Operators marked "Fault" in a module are deliberately wrong variants of the
definition below them; each shows that a property notices that mistake.

### What the zone engine's model abstracts

A position is a member of `Points` and the grid says which cell it is in, but
distances between cells are the real ones, because "did this target walk here"
depends on them. Times are whole ticks of a clock that wraps at `ClockWrap`. A
flag and the value it guards are one field with a "none" value. Log lines, the
event list, the reason of a clear and the target counts are left out: nothing
else in the engine reads them. The inputs of a tick are any windows of the given
set; `WindowsAssumption` is what the rolling window guarantees of them.

### What the session's model abstracts

One device. A connection is an identity and the state of its link; the traffic
on it is left out. `asyncio.Lock` is a FIFO queue that a newcomer never
overtakes. Closers are the tracked close (`scheduled`), a direct one (host
change, rediscovery, failed push: `forced`) and the one of a removal. A device
that was removed gets a fresh lock that no open uses. A stream takes part as an
opener whose references go when its connection stops; what its client is told is
not in this module. `Cancellable` openers are those whose task may be cancelled:
of the code's callers, the streams, whose retry task is cancelled when the last
stream closes, on removal and on unload. An open that holds the lock connects, or
disconnects again: after a connect that failed with its socket open (`failing`,
`_connection.py:197`), or one that succeeded too late (`backout`,
`__init__.py:2907`). A connect that is cancelled closes its socket by force
(`_connection.py:180`); a disconnect that is cancelled, or runs into the connect's
30 s, leaves the link as it is, and its connection to nobody. `left` is the set of
these, until their links drop by themselves; `MaxLeft` bounds how many there are at
a time. `cut` records that a cancellation ended a close early; such a close happens
at most once in a behaviour (a bound).

### What the streams' model abstracts

The session is reduced to a connection, its link, its references and whether a
close is under way. A close runs to its end in one step, and may take a session
that was opened after it was scheduled (`session_late_close` shows that it can).
An open of a device that nobody manages any more may still succeed: the code looks
the device up before its awaits. Availability is read where a pass starts.
`subscribe_states` is one step with the opening, so that push streams and polled
ones (the heatmap) behave alike. A callback stays until it is removed: that
`_fan_out` (`_connection.py:58`) drops one that raises, and leaves its stream armed
but not fed, is outside the model. A pass takes its streams in any order, which
covers the order of registration. A client's answer to a notice is not modelled:
the clients are websocket handlers, which only send a message. Panels without
streams take no part; their references are in `DeviceSession`. Streams are added
only while the manager runs, because the entry's data is removed before
`async_stop`. A removed device is added again only when the passes of its former
life are through, unless `ReaddEarly` (see below).

### What the frontend's models abstract

The websocket keeps the order of its messages, but a message of a new subscription
may be delivered before the promise of its call resolves, and a subscription that
was given up delivers until the backend has seen that. Generation counters are
compared for equality only, so a model says which call owns the current one.
Delays of backoffs are left out: a timer is armed, and fires. In
`SubscriptionStore` Home Assistant configures a card with the connection it has at
that time, whether the card is on the page or not. In `PanelSession` promises that have
settled run before the next click, message or timer (`Quiet`, JavaScript's microtasks),
and the device list the panel is pushed is the backend's truth. Saving is one step.

`LiveStreams` tells the devices the backend knows (`known`) from those the panel has
heard of: a list that lacks a device is on its way while the device is in `gone`, and
lists arrive in order. The subscription of the list itself (`device-controller.ts:427`
on), its loss in a reload and the one-shot load beside it are left out, and so is a
browser that does not store the selection. The backend grants every call; where it does
not know the device it says once that the device is away and has nothing behind the
subscription (`_durable_stream.py:196`), and a device that comes back under the same
name does not revive it. That a registration which raises is answered in the same way
for a device that is there (`:193`) is not modelled. Calls that a reconnect took are
told from those given up no further (`leaving`). The session opens for the device that
is selected then; an open that queues behind the close of a removal is `PanelSession`'s.

In `UsbFlash` there is one device on the cable; opening the port succeeds, and
closing it is one step with what asks for it. An operation takes and releases reader and
writer together: in between, while the device boots, a scan or check holds neither.
Who holds them is an operation, the controller between two operations (`kept`), or nobody
who could release them (`lost`). Which errors happen where is free; the time they take,
the attempts of a handshake and the device's answers are left out. `MaxAttempts` is 2
instead of 6. Two things follow: the code takes a fresh operation number after the close
of a provisioned port (`usb-flash-flow.ts:530`, `:611`), so a cancel that falls into that
close is lost, which the model has no step for; and a check that gets the writer but
fails to get the reader (`usb-flash-service.ts:395`-`:396`, outside the `try` that would
release them) is taken to have freed both.

### How the two engines are compared

Both get the same frames, in the same order, with the same grid, zones and
settings; whether a target touched an entry overlay since the last tick is an
input of both. The editor previews nothing before there is a configuration. A
replica that is started anew knows nothing of what the firmware does, so the two
are compared (`inStep`) from the next zone configuration on, which resets both. The
replica has no guard for a clock that wraps, and forgets at once a zone whose last
cell is painted away, where the firmware lets it time out: the clock of the run
stays below a wrap, and every grid of it shows every zone.

## Runs

All runs are exhaustive for the values in their cfg.

| Run | Configuration | Shows |
|---|---|---|
| `zone_walk` (25 thousand states) | one person; entrance, plain zone, noisy corner; two configurations, dismissal; hold 3, handoff 2 ticks; clock 10..16 | `TypeOK`, `ClearForgets`, `DisabledZonesClear`, `HoldBound`, `NoGhostEntry` |
| `zone_crowd` (10 thousand) | up to three targets over two zones, two grids edited under them, backlog frames (a step of 0) | `OccupiedHasLiveEvidence`, `DismissedStaysSilent`, `PendingAges` |
| `zone_sensors` (74 thousand) | one person, both sensors with different timeouts, assisted clear off, at once and delayed, stuck rule | `ReportedIsActual`, `NoEarlyClear`, `StuckNeedsDwell` |
| `sessions` (5.1 million up to swapping the panels) | two panels, one stream, failed connects, removal, unload with and without overrun, one close cut short, one connection left behind | `RefsMatchHolders`, `NoForgottenSession`, `OneSocket`, `StoppedIsClosed`, `NoStrandedSession` |
| `session_progress` (530 thousand) | one panel, one stream, the same faults | `OpenSettles` |
| `state_streams` (144 thousand) | two clients, two retry tasks, one spawned pass, two connections; drops, offline and online, removal and return, unload, cancelled registrations | `ArmedOnce`, `NothingLeaks`, `NeverForgotten`, `ToldTruth`, `Rearms` |
| `card_store` (119 thousand) | two cards on one device, or one card moved between two; two calls and two timers at a time; one reconnect, reloads, removal and return | `NoOrphanStream`, `NoDeafEntry`, `NeverStranded`, `HealthyStaysOnline`, `KeepsPromise` |
| `live_view` (760 thousand) | two devices, one of which is removed and comes back, a core stream with two calls at a time, the overlay with one, two retries | `NoOrphanStream`, `NoDeafStream`, `OneWayOn`, `BannerOnlyOnOutage`, `KeepsPromise` |
| `panel_session` (991 thousand) | two devices, three pipelines | `NoLeakedSession`, `DeadPanelHoldsNothing`, `ShownIsLoaded`, `SessionComesBack` |
| `zone_parity` (83 thousand) | one person, or two of whom one takes over; entrance, noisy corner, suppressed cell; two grids, two zones with their own timing and a painted one without, one sensor, stuck rule, assisted clear; clock 10..13 | `MirrorsFirmware`, `ReportsAlike` |
| `usb_flash` (792 thousand up to renaming) | one device, three operations under way at once, two attempts to add it | `ProgressHasFlow`, `OnlyScansLoseLocks` |
| `session_late_close` | two panels, one stream, no faults | the disagreement below |

Why the bounds are enough. The zone engine compares cells only by distance and
identity, so four kinds of place (home, a walk away, a jump away, outside)
give every answer the code can get; signals are chosen on both sides of every
threshold in use (1, trigger 3, renew 2, raised threshold 5, 9). A zone's whole life
(gate, occupied, pending, clear) fits in six ticks at these timeouts, and the
run has them; the crowd's runs are shorter because relocation, the case they
are for, needs two. Three slots are the real number. In `sessions` a count of
two with a third caller in the queue is the smallest case in which a wrong
release, a wrong reuse and a wrong order differ, and six identities are never all
in use. A connection left behind takes no part in what follows but to drop, so that
one at a time (`MaxLeft`) is enough; `session_late_close` needs none. In `live_view`
one device may go (`Removable`): the other is the one that panel and controller go
over to. In `state_streams` at most one retry task is cancelled while another one
is scheduled, so two are never short; one spawned pass meets up to three others,
of the clients and the retry (the safety properties hold with two of them, too,
in 670 thousand states, which is too many for `Rearms`). A subscribe call that
has been overtaken by the next one is two calls (`card_store`, `live_view`), and a
third waits for one to be gone; a pipeline that runs, one that queues on it and
one that is started anew are three (`panel_session`); an operation of the flasher that is
left, the one that follows it and one that is begun while both end are three
(`usb_flash`, where operations are interchangeable). `CHECK_DEADLOCK FALSE` is set
for the sessions and streams because `async_stop` really ends the manager; the
zone runs stop at `MaxTime` only for lack of ticks, reconfiguration and dismissal
stay possible.

Fairness is stated where a run checks liveness. In `SessionSpec`: the event loop
resumes a task that can go on, connects and disconnects end because of their timeouts (30 s, and the
client's own), and a removal runs to its end. Nothing is assumed of panels,
drops, availability or unload. An open that waits for a close gets strong
fairness: when a close ends, its waiters are made ready at once, in order, so a
close scheduled later cannot keep the first of them out for ever.

In `StateStreams`: tasks run, the backoff's delays pass and closes end (weak
fairness of each task's `Work` and of `CloseSession`), and a device that is asked
for a stream again and again accepts a connection at last (strong fairness of
`Feed`), without which nothing could arm it. Flaps, clients, removal and unload
are free. In `SubscriptionStore` and `LiveStreams`: timers fire, a call is answered
and a `closed` message arrives, and Home Assistant hands a new `hass` to the
cards that took the last one; that the integration comes up or a device returns is not assumed, and
`SharedStream` promises a stream only where it stays ready. In `PanelSession`: Home
Assistant pushes `hass` whenever an entity changes, and what a pipeline waits for is
answered, well or badly.

### What the code does differently from what is said about it

* `session_late_close`: the close scheduled by the last release runs after an
  open that was already waiting for the lock and disconnects it.

Found while modelling, and not shown by a run of their own:

* A handoff or overlay exit soon after boot computes a negative `pending_since`
  (`epp_zone_engine.cpp:657`), which `pending_since >= 0.0f` then reads as "no
  timer"; the zone stays pending until somebody enters it again. With the
  shipped settings "soon" is less than the difference of the two timeouts. In
  `zone_walk` with `StartTime = 0`, a timeout of 5 and a handoff of 1, `HoldBound` breaks.
* A scan, or a check that finds the device on the network, which was cancelled while it
  ran returns with the streams locked and keeps no reference to them
  (`usb-flash-flow.ts:162`, `:390`, `:412`); the second scan releases them
  (`:714`). The cancel has tried to close the port meanwhile, in vain, and forgotten it:
  the port stays "open + unusable for the next flash attempt", which the comment at
  `:689` says the cancel avoids. A scan that fails after it was cancelled, and a flash
  that was left by another tab, leave the port open too, though unlocked.
* The progress of a flash that was left is shown all the same: the screen
  "flashing" comes back, which has no cancel button (`usb-flash-flow.ts:301`).
* An operation that has been superseded clears `opRunning`, which by then is another
  operation's (`usb-flash-flow.ts:155`), so that a third may begin beside that one; a
  dismissed chooser in `handleUsbFlash` leaves it set (`:428`), and the next attempt is
  told that the port is busy. Two resets in a row (a tab clicked twice) do not wait for
  the same probe: the first to be done may clear a screen that is already the next
  operation's.
* Two flashes that overlap may put each other's stub of `close` back in force when they
  end (`usb-flash-service.ts:49`, `:169`).
* When the millisecond counter wraps, after 49.7 days, pending zones and sensors
  wait for another turn of it (`ClockWrap` in `ZoneEngine`; `HoldBound` breaks).
* The stuck rule keeps its reference point while it is switched off:
  `set_stuck_target_timeout(0)` leaves `stuck_has_ref_` (`epp_zone_engine.cpp:205`), and
  the code that would move the reference is skipped (`:415`). A target that walks away
  and comes back to the same point while the rule is off is dismissed as soon as it is
  on again, though it has not dwelt there "for stuck_target_timeout_s_ seconds"
  (`epp_zone_engine.cpp:412`, `epp_zone_engine.h:137`). In `zone_sensors` with
  `StuckTimeouts = {0, 2}`, `StuckNeedsDwell` breaks.
* The two ticks of the entry gate need not be consecutive, as the comment at
  `epp_zone_engine.cpp:537` says: a weak tick in an occupied zone between them
  leaves the count of one (`Judge`).
* A disconnect that is cut short leaves a connection that is up and belongs to nobody:
  no later open, close or unload ends it, and the next open connects beside it
  (`LeaveBehind` in `DeviceSession`). A close is cut by the cancellation of an open that
  waits for it, or by an unload that runs into its drain timeout
  (`__init__.py:2827`, `:662`); a back-out (`:2907`-`:2909`) by the cancellation of its
  open; and the disconnect of a failed connect (`_connection.py:197`) by that or by the
  end of the connect's 30 s, where the comment above it says that "only the cancel path
  above needs the synchronous force teardown". `OneSocket` and `StoppedIsClosed` hold of
  all other connections.
* `LiveStreams`: after a pick that no device list has followed yet, the panel's device and the
  controller's differ. If the picked one is removed then, its streams are closed and ask
  again, and are granted with nothing behind them. The list that lacks it closes the
  session only if the controller's device is the missing one (`device-controller.ts:531`);
  if not, both go over to the first device of the list, and the session of the removed
  one stays. Where that first device is offline, nothing is loaded for it:
  `hasDeviceSession` stays true and, when it comes back, neither bootstrap opens a
  session, which is what the comment at `:506`-`:523` says the close is there to prevent.
  `NoDeafStream` excepts these streams (`sel = ctl /\ sel # session`).
* A card that has left the page and is handed `hass` or a configuration
  (`eppgrid-card.ts:400`-`:427`) subscribes again and holds its stream though nobody sees
  it, until it is put back and leaves again.
* A device that is deleted and added again while a pass of its former life still
  runs: a pass that waits on the old lock reads the new list of streams and arms
  them beside the new lock's pass, against the comment at
  `device_manager/__init__.py:1816`. In `StateStreams` with `ReaddEarly = TRUE`,
  `ArmedOnce` breaks: two callbacks, two references.
* `PanelSession`: when a stored selection that was not in the device list appears
  in it offline, the selection moves to it while the session of the device that
  was shown stands; when the selected one comes back, both bootstraps see a session
  (`!hasDeviceSession`, `eppgrid-panel.ts:1397` and `:1547`) and open none for it.
  `SessionComesBack` says that there is a session, not whose.
* An overlay that is switched off while it delivers keeps its last vote "up", so
  an outage of the core streams raises no banner; a core stream that gives up is
  forgotten when another one succeeds (`_connectionFailed`,
  `device-controller.ts:956`).
* A stream registration that raises on the backend answers the subscribe command
  with success and one "not available", and leaves the client nothing that would
  ever speak again (`_durable_stream.py:193`).
* A person's dismissal in the replica clears the zone without an entry in its
  detection log.

`NoForgottenSession` and `OneSocket` speak of managed devices only. After a
removal an open that was queued still connects (a device nobody knows counts as
available), on a lock that later closes do not share; the model has those steps.

## Proofs

Every theorem holds for every value of the constants that satisfies the named
assumptions of its module. In each module the theorem `Invariance` says that an
inductive invariant `IInv` holds always (`Init => IInv`, `IInv /\ [Next]_vars =>
IInv'`, temporal logic), and the other theorems follow from it.

| Module | Theorem | States |
|---|---|---|
| `ZoneEngine_proofs` | `TypeCorrect`, `LiveEvidence`, `ClearZonesForget`, `DisabledZonesIdle`, `DismissalHolds` | `TypeOK`, `OccupiedHasLiveEvidence`, `ClearForgets`, `DisabledZonesClear`, `DismissedStaysSilent` |
| the same, on `ZoneHistory` | `ZonesClearInTime`, `NoZoneClearsEarly`, `OnlyStuckIsDismissed`, `PendingZonesAge`, `NoGhostsEnter`, `ReportsAreActual` | the invariant `HoldBound` and the action properties `NoEarlyClear`, `StuckNeedsDwell`, `PendingAges`, `NoGhostEntry`, `ReportedIsActual` |
| `ZoneParity_proofs` | `ReplicaMirrorsFirmware`, `ReplicaReportsAlike` | `MirrorsFirmware`, the action property `ReportsAlike` |
| `DeviceSession_proofs` | `CountsReferences`, `ClosesForgotten`, `OneConnection`, `StopLeavesNothing`, `StrandsNoSession` | `RefsMatchHolders`, `NoForgottenSession`, `OneSocket`, `StoppedIsClosed`, and the action property `NoStrandedSession` |
| `StateStreams_proofs` | `FeedsOnce`, `LeaksNothing`, `ForgetsNobody`, `TellsTheTruth` | `ArmedOnce`, `NothingLeaks`, `NeverForgotten`, `ToldTruth` |
| `SubscriptionStore_proofs` | `LeavesNoOrphan`, `HoldsNothingDeaf`, `StrandsNobody`, `KeepsHealthyOnline`, `ImplementsSharedStream` | `NoOrphanStream`, `NoDeafEntry`, `NeverStranded`, the action property `HealthyStaysOnline`, the safety half of `KeepsPromise` |
| `LiveStreams_proofs` | `LeavesNoOrphan`, `HoldsNothingDeaf`, `OneWayAtATime`, `BannerNeedsOutage`, `ImplementsSharedStream` | `NoOrphanStream`, `NoDeafStream`, `OneWayOn`, the action property `BannerOnlyOnOutage`, the safety half of `KeepsPromise` |
| `PanelSession_proofs` | `LeaksNoSession`, `DeadPanelIsEmpty`, `ShowsWhatItLoaded` | `NoLeakedSession`, `DeadPanelHoldsNothing`, `ShownIsLoaded` |
| `UsbFlash_proofs` | `PromisesWork`, `LosesNoOtherLock` | `ProgressHasFlow`, and the action property `OnlyScansLoseLocks` |

All but `StateStreams_proofs`, and `ZoneParity_proofs`, which builds on the invariant of
`ZoneEngine_proofs`, prove the type invariant of their module (`TypeCorrect`), too.

**Zone engine.** None of the five invariants is inductive
by itself: that an occupied zone has evidence depends on cleared zones having no
bits, on disabled zones being idle and on which slots were present; `IInv` is
their conjunction. A tick is too large for one step. Between its
steps the weaker `Mid` holds: the scratch record has its type, zones seen in
this tick have a bit of a present slot, and the bits of a slot already evaluated
agree with its dismissal; each of the four passes over the slots preserves it
(a lemma per case of relocation and evaluation), and the state machine, the
cleanup and the forced clear restore `IInv`. Every lemma is about one operator of
the module and is cited by name.

**Zone engine, step by step and in time.** What a tick does to one zone and one slot
is carried through its passes: from where a zone began the tick to where it is now
(`Went`, for all of them `Course`: it starts to wait, goes on waiting, or was cleared by
the stuck rule), by whom a clear zone was entered (`Earned`: by a slot tracked before or
on an entry cell), and what the stuck rule knows of each slot (`Checked`). The lemma
about each pass says that it keeps these; the state machine then enters a zone or clears
it when its time is up, and the properties that compare a state with the next one are
read off the whole. One fact of its own is needed: a slot that has passed the gate once
is tracked (`TrackedWell`, `TrackedAlways`).

The properties about times relate the engine's timers with the observers of
`ZoneHistory`, which only watch (`ObserversOnlyWatch`: `HSpec => Spec`). `Waits` says that
the timer of a waiting zone runs, has not run out, and shows no less than the zone has
waited; `NotLonger` that it shows no more, both but for what a handoff puts on or takes
off; `Grace` that the assisted clear has been counting no longer than the room has been
empty; `RefsFollow` that a stuck reference is where the slot was last seen, and not
older than its stand there.
What each theorem assumes is what the code needs:

* `ZonesClearInTime` and `PendingZonesAge`: the clock does not wrap
  (`MaxTime < ClockWrap`); across a wrap they are false, see above.
* `ZonesClearInTime`: `SaneTimeouts`, no handoff reaches back before the start
  (`timeout - handoff <= StartTime`) and no hold timeout is 0. The first is the boot
  disagreement above; the second is needed because a zone whose timeout is 0, which the
  parser accepts, still waits for the next tick.
* `OnlyStuckIsDismissed`: the stuck rule is never switched off
  (`0 \notin StuckTimeouts`), because of the reference that survives it, see above.

`NoZoneClearsEarly`, `NoGhostsEnter` and `ReportsAreActual` need none of these: with a
wrapping clock too a zone never clears early.

**Replica.** The firmware's tick and the replica's run go through the same passes, each on
a scratch record of its own. `Twin` says that the replica's record is the engine's in the
replica's terms: a slot without a cell is null there, a zone is occupied or not, and a zone
the replica has not met counts as one the firmware has in its initial state. One lemma per
pass takes twins to twins (`RelocateTwin`, `EvaluateTwin`, `HandoffTwin`,
`OverlayExitTwin`, `AdvanceTwin`, `CleanupTwin`), and `FrameStep` puts them together with
the sensors, the assisted clear and the outputs. The joint run does to the engine only what
the engine can do (`EngineRunsAlone`), so `IInv` and `TrackedWell` come from
`ZoneEngine_proofs`; what `PInv` adds is `Stepping`: as long as the two are in step, the
twin is kept between the ticks (`Mirror`), the grid is one that shows every zone, or blank
with idle zones (`GridShown`), slots were last seen in cells of this grid (`TgtRooted`) and
no timer runs from before the clock's zero (`ZonesDated`, `SensorsDated`). Both theorems
assume `ParityAssumption`, and TLC breaks `MirrorsFirmware` without any one of its parts:

* `ZonesShown`: a configured zone is drawn in every grid. The firmware steps the zones of the
  configuration, the replica those of the cells; a zone that is erased while it is occupied
  is forgotten by the one at once and by the other after its timeout.
* `HandoffsDated`: no handoff reaches back before the start, the boot disagreement above.
* A dismissal names a cell, as the panel's do: the firmware takes a missing cell for none.
* The clock does not wrap: the replica counts in numbers that do not.

`MCZoneParity` lets TLC evaluate the assumption on its instance. `NullAssumption` says
that null is no cell, point, number or object.

**Sessions.** `IInv` is `Shape` (where each opener and closer may be, given the lock's
queue, the session and the tracked close, and to whom each connection that is up
belongs: the session, an open, a close, or nobody since a disconnect was cut short) with
`RefsMatchHolders` and `NoForgottenSession`. The count is right because only the head of the lock's queue
opens or closes, and a forgotten session has a close scheduled that no later step
drops without either doing it or finding a reference. `OneSocket` and
`StoppedIsClosed` are read off the shape.

**Durable streams.** The argument is mutual exclusion. A pass that opens the session
heads the queue of the lock (`Queued`), and no stream it is still to arm is armed
(`Clear`); so every stream is fed by one callback and counted once (`Fed`, `Counted`).
`Homed` says that a task queues on the lock of a former life only while no stream is
open, `Honest` what was told, and `Attended` that a stream without a connection has
somebody on the way. The theorems assume `ReaddEarly = FALSE`: with `TRUE`, TLC breaks
`ArmedOnce`, `NothingLeaks` and `ToldTruth` (the race described above), while
`NeverForgotten` holds in all of the 1.5 million states.

**Card stores and live streams.** The heart of both is a predicate `Good` on one
record of the state (`Now`), of which every callback is an operator, so that the
handlers' shared tails (release, reopen, fail, schedule) are lemmas of their own:
the current call is one in flight or open, an entry has exactly one of a call, a
timer and a stream, and every other call is given up. The invariant of the store
also counts: an armed timer belongs to an entry, so there is a free one
(`CardsOK`, from `Cardinality(Devices) <= Cardinality(Timers)`; both sets finite). In
`LiveStreams`, `Tied` says that streams belong to the session that is open, and `Warned`
that where the device of the session is lost, or a core stream of it has nothing behind
it, a list that lacks the device is on its way or panel and controller have left it: a
removal sends the list before anything else can be granted, and once that list has come
the session is closed or not of the selected device. From these,
each step of the two modules is a step of `SharedStream` or a stutter, and the initial
states map to its initial states: `ImplementsSharedStream`.

**Panel.** `IInv` is the type invariant, a predicate `Good` that accounts for every
session of the backend by the field of the controller or the pipeline that owns it,
and `ShownIsLoaded`. The pipelines are assumed to be a finite set.

**Browser flasher.** `IInv` is `Sound`, `Shown` and `Real` of one record of the state
(`W`), of which every handler is a composition of operators. `Sound` holds inside a step,
too: the lock of the streams is with an operation that is where it uses them, the
controller knows of those that a provisioning holds, and a probe is an operation that
probes. `Shown` is the promise of the screen: it shows no work, or an operation that has
not been superseded, or a reset that waits for one, is under way; `Real`, that whoever is
counted on has not ended. `ProgressHasFlow` alone is not inductive: a handler ends an
operation and changes the screen in one step, and which of them may end silently depends
on whether it has been superseded. Each operator has a lemma that says what it keeps
(`Frees`: the lock is where it was or free; `Edits`: one operation has moved to
where it holds what it holds), and each action one (`...Behaves`). In all of them the
lock is lost only if it was lost before, but for the end of a first scan or a check that
was superseded (`Excused`), which is `OnlyScansLoseLocks`. The number of operations
and of attempts is free; the prover needs to know that no operation is called `free`,
`kept` or `lost`, which the module assumes.

**Only model-checked.** What depends on fairness, which the prover does not handle:
`OpenSettles`, `Rearms`, `SessionComesBack`, the liveness half of `KeepsPromise`. Every
invariant and every other action property of the passing runs is a theorem.

## Not modelled

* Rolling window, calibration, parsers: inputs of the zone engine. Float
  arithmetic of timestamps is not modelled; times are whole numbers.
* The component around the engine, its flash and its event list: planned.
* Configuration push, OTA, groups: planned.
* In the panel: the layout editor with its two-call save, the wizard, settings
  forms, the navigation guard. They are the larger part of the frontend's lines, but
  mostly rendering; the editor's saves are planned as `GridEditor`.
* The card's templates and the check for a newer bundle; the packet format of Improv
  over USB, and the flasher's part in updates over the air (planned with `Ota`);
  config flow, diagnostics, entities.
* Release tooling: scripts.

Of the JavaScript and TypeScript lines the models stand for few: a fifth of them
are two generated bundles of the rest, and most of what remains is templates,
styles, drawing and geometry, without state whose order could go wrong. The logic
that has such state is in the controllers, the stores and the zone engine, which
are modelled, and in the Python and C++ sources, which the models follow closely.

## Plan

1. `DeviceGroups`: create, update and delete across saves, and the aggregator.
2. `ComponentLoop`: rolling window, entry-overlay latch, staleness, event list
   and configuration caches with flash writes that fail or are cut off.
3. `Ota` and configuration push: locks, held session, debounce and retries.
4. `GridEditor`: edits, the dirty flag, saves in two calls, the picker and the
   navigation guard on top of `PanelSession`.
