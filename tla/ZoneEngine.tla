----------------------------- MODULE ZoneEngine -----------------------------
(***************************************************************************)
(* The firmware's zone engine: it turns the windowed positions of at most  *)
(* three radar targets, and two binary presence sensors, into the state of *)
(* up to eight zones of a room (src/firmware/lib/epp_zone_engine).         *)
(*                                                                         *)
(* Every action is one call into class ZoneEngine.  The calls are serial:  *)
(* the component makes them from its main loop and its API services.       *)
(*                                                                         *)
(* Abstractions.  A position is a member of Points and a grid says which   *)
(* cell it falls in; distances between cells are the real ones.  Time is a *)
(* whole number of ticks of a clock that wraps like the component's        *)
(* millisecond counter.  Log lines, the structured event list and the      *)
(* clear_reason that only they carry are left out, and so are per-zone     *)
(* target counts.  A flag "has x" and the value x it guards are one field  *)
(* with a "none" value (-1 for zones, as in the code).                     *)
(***************************************************************************)
EXTENDS Integers, FiniteSets

CONSTANTS
    Cells,          \* the grid cells that matter, as <<column, row>>
    NoCell,         \* "not on the grid"
    Points,         \* the positions a target can be reported at
    NoPoint,        \* "no position known"
    Grids,          \* grids a client may push
    ZoneConfigs,    \* zone configurations a client may push
    Windows,        \* the windows of target data a tick may see
    SensorInputs,   \* the sets of presence sensors that may be on in a tick
    Dismissals,     \* <<slot, cell>> pairs of manual dismissals
    StuckTimeouts,  \* values of the stuck-target timeout; 0 disables it
    AssistSettings, \* <<enabled, timeout>> values of assisted clear
    SensorTimeout,  \* hold time of each presence sensor
    Steps,          \* clock advances between two ticks; 0 is a backlog frame
    StartTime,      \* clock value when the engine starts
    ClockWrap,      \* the millisecond counter wraps here
    MaxTime         \* bound: no tick later than this

Slots == 0..2                   \* MAX_TARGETS
Zones == 0..7                   \* MAX_ZONE_SLOTS; zone 0 is the rest of the room
MaxMovementCells == 5           \* MAX_MOVEMENT_CELLS
NoZone == -1
Unset == -1                     \* pending_since when no timer runs
Kinds == {"static", "motion"}
Overlays == {"none", "entry", "interference", "suppress"}

Grid == [cell : [Points -> Cells \cup {NoCell}], room : SUBSET Cells,
         zone : [Cells -> Zones], overlay : [Cells -> Overlays]]
ZoneSettings == [trigger : 0..9, renew : 0..9, timeout : Nat, handoff : Nat]
TargetWindow == [active : BOOLEAN, pos : Points \cup {NoPoint},
                 signal : 0..9, overlay : BOOLEAN]

ASSUME CellsAssumption ==
    Cells \subseteq Nat \X Nat /\ NoCell \notin Cells /\ NoPoint \notin Points

ASSUME GridsAssumption == Grids \subseteq Grid

\* set_zones always enables zone 0.
ASSUME ConfigsAssumption ==
    \A c \in ZoneConfigs : /\ DOMAIN c \subseteq Zones /\ 0 \in DOMAIN c
                           /\ \A z \in DOMAIN c : c[z] \in ZoneSettings

\* The rolling window reports an active target with a position and a frame count.
ASSUME WindowsAssumption ==
    /\ Windows \subseteq [Slots -> TargetWindow]
    /\ \A w \in Windows : \A i \in Slots :
          w[i].active => w[i].pos \in Points /\ w[i].signal \in 1..9

ASSUME InputsAssumption ==
    /\ SensorInputs \subseteq SUBSET Kinds
    /\ Dismissals \subseteq Slots \X (Cells \cup {NoCell})
    /\ StuckTimeouts \subseteq Nat
    /\ AssistSettings \subseteq BOOLEAN \X Nat
    /\ SensorTimeout \in [Kinds -> Nat]

ASSUME ClockAssumption ==
    /\ Steps \subseteq Nat /\ ClockWrap \in Nat \ {0}
    /\ StartTime \in 0..(ClockWrap - 1) /\ MaxTime \in Nat

VARIABLES
    grid,          \* grid_
    cfg,           \* zone settings of the enabled zones (zone_enabled_, config)
    zone,          \* zones_: state, pending_since, confirmed_targets
    tgt,           \* the per-slot tracking arrays
    sens,          \* static_/motion_ state and pending_since, sensors_ever_active_
    assist,        \* assisted_clear_*
    stuckTimeout,  \* stuck_target_timeout_s_
    now,           \* timestamp of the last tick
    win,           \* window of the last tick
    out            \* result_ of the last tick

vars == <<grid, cfg, zone, tgt, sens, assist, stuckTimeout, now, win, out>>

-----------------------------------------------------------------------------
(* Initial values                                                          *)

BlankGrid == [cell |-> [p \in Points |-> NoCell], room |-> {},
              zone |-> [c \in Cells |-> 0], overlay |-> [c \in Cells |-> "none"]]
NoConfig == [z \in {} |-> 0]
Idle == [state |-> "CLEAR", since |-> Unset, bits |-> {}]
NoRef == [at |-> NoPoint, since |-> 0]
Fresh == [prev |-> NoCell, xy |-> NoPoint, gate |-> 0, sticky |-> FALSE,
          lastZone |-> NoZone, dismissed |-> NoCell, stuck |-> NoRef]
QuietSensor == [state |-> "INACTIVE", since |-> Unset]
QuietSensors == [static |-> QuietSensor, motion |-> QuietSensor, ever |-> FALSE]
Absent == [active |-> FALSE, pos |-> NoPoint, signal |-> 0, overlay |-> FALSE]

Init ==
    /\ grid = BlankGrid
    /\ cfg = NoConfig
    /\ zone = [z \in Zones |-> Idle]
    /\ tgt = [i \in Slots |-> Fresh]
    /\ sens = QuietSensors
    /\ assist = [enabled |-> TRUE, timeout |-> 0, since |-> Unset]
    /\ stuckTimeout = 0
    /\ now = StartTime
    /\ win = [i \in Slots |-> Absent]
    /\ out = [occ |-> {}, occupancy |-> FALSE, mmwave |-> FALSE,
              status |-> [i \in Slots |-> "inactive"]]

-----------------------------------------------------------------------------
(* Helpers                                                                 *)

Configured == DOMAIN cfg
Abs(n) == IF n < 0 THEN -n ELSE n

\* Chebyshev distance above MAX_MOVEMENT_CELLS: not the same person walking.
Far(c, d) == \/ Abs(c[1] - d[1]) > MaxMovementCells
             \/ Abs(c[2] - d[2]) > MaxMovementCells

Clamp(t) == IF t < 1 THEN 1 ELSE t
Gated(base) == IF base + 2 < 8 THEN base + 2 ELSE 8
HasEntryOverlay == \E c \in Cells : grid.overlay[c] = "entry"

\* A tick works on a scratch copy of the engine; one of these records flows
\* through its steps.  seen: zone_confirmed; from, at: target_zone_prev, _curr.
Begin(w, on, ts) ==
    [w |-> w, on |-> on, ts |-> ts, tgt |-> tgt, zone |-> zone, seen |-> {},
     from |-> [i \in Slots |-> NoZone], at |-> [i \in Slots |-> NoZone]]

ForSlots(Step(_, _), e) == Step(Step(Step(e, 0), 1), 2)

Target(e, i, t) == [e EXCEPT !.tgt[i] = t]
Bits(r, b) == [r EXCEPT !.bits = b]

-----------------------------------------------------------------------------
(* Dismissal, by hand or by the stuck-target rule                          *)

\* Fault: dismissing one of several targets leaves its bit behind.
WithoutEvidenceKeepsBit(zn, i, c) ==
    IF c \in grid.room /\ grid.zone[c] \in Configured
    THEN [zn EXCEPT ![grid.zone[c]] = IF zn[grid.zone[c]].bits \subseteq {i} THEN Idle ELSE @]
    ELSE zn

\* Slot i no longer counts in the zone of cell c; the last one out clears it.
WithoutEvidence(zn, i, c) ==
    IF c \in grid.room /\ grid.zone[c] \in Configured
    THEN LET r == zn[grid.zone[c]]
         IN  [zn EXCEPT ![grid.zone[c]] =
                IF r.bits \subseteq {i} THEN Idle ELSE Bits(r, r.bits \ {i})]
    ELSE zn

DismissedAt(t, c) == [Fresh EXCEPT !.xy = t.xy, !.dismissed = c]

-----------------------------------------------------------------------------
(* Step 0: a slot that still stands for a pending person is taken over by  *)
(* a newcomer far away; park the pending person in a free slot.            *)

TakenOver(e, i) ==
    /\ e.w[i].active
    /\ e.tgt[i].xy # NoPoint
    /\ \E z \in Zones : e.zone[z].state = "PENDING" /\ i \in e.zone[z].bits
    /\ grid.cell[e.w[i].pos] # NoCell /\ grid.cell[e.tgt[i].xy] # NoCell
    /\ Far(grid.cell[e.w[i].pos], grid.cell[e.tgt[i].xy])
    /\ HasEntryOverlay => e.w[i].overlay

ParkSlots(e, i) ==
    {j \in Slots \ {i} : ~e.w[j].active /\ \A z \in Zones : j \notin e.zone[z].bits}

Clobber(e, i) ==
    [e EXCEPT !.zone = [z \in Zones |-> Bits(e.zone[z], e.zone[z].bits \ {i})]]

\* Fault: parking a pending target restarts its zone's timer.
ParkRestartsTimer(e, i, j) ==
    [e EXCEPT !.tgt = [e.tgt EXCEPT ![i] = Fresh, ![j] = e.tgt[i]],
              !.zone = [z \in Zones |->
                  IF i \in e.zone[z].bits
                  THEN [e.zone[z] EXCEPT !.bits = (e.zone[z].bits \ {i}) \cup {j}, !.since = e.ts]
                  ELSE e.zone[z]]]

Park(e, i, j) ==
    [e EXCEPT !.tgt = [e.tgt EXCEPT ![i] = Fresh, ![j] = e.tgt[i]],
              !.zone = [z \in Zones |->
                  IF i \in e.zone[z].bits
                  THEN Bits(e.zone[z], (e.zone[z].bits \ {i}) \cup {j}) ELSE e.zone[z]]]

Relocate(e, i) ==
    IF ~TakenOver(e, i) THEN e
    ELSE LET free == ParkSlots(e, i)
         IN  IF free = {} THEN Clobber(e, i)
             ELSE Park(e, i, CHOOSE j \in free : \A k \in free : k <= j)

-----------------------------------------------------------------------------
(* Step 1: what one slot of the window means                               *)

Lose(e, i) == Target(e, i, [e.tgt[i] EXCEPT !.prev = NoCell, !.gate = 0])

\* Fault: a target that vanishes keeps its stuck reference.
OutOfSightKeepsRef(e, i) == Lose(e, i)
OutOfSight(e, i) ==
    Target(e, i, [e.tgt[i] EXCEPT !.prev = NoCell, !.gate = 0, !.stuck = NoRef])

Follow(e, i, c) == Target(e, i, [e.tgt[i] EXCEPT !.prev = c])
Confirm(e, i, c) ==
    LET z == grid.zone[c]
    IN  [e EXCEPT !.tgt[i] = [e.tgt[i] EXCEPT !.prev = c, !.gate = 0],
                  !.zone[z] = Bits(e.zone[z], e.zone[z].bits \cup {i}),
                  !.seen = e.seen \cup {z}]

\* Faults: a gate of one tick; a tick counted twice by the gate.
GateOfOne(e, i, c) == Confirm(e, i, c)
GateTwice(e, i, c) == Target(e, i, [e.tgt[i] EXCEPT !.prev = c, !.gate = e.tgt[i].gate + 2])
GateOnce(e, i, c) == Target(e, i, [e.tgt[i] EXCEPT !.prev = c, !.gate = e.tgt[i].gate + 1])

\* Bit-identical position for the whole timeout.
Stuck(e, i) ==
    /\ stuckTimeout > 0
    /\ e.tgt[i].stuck.at = e.w[i].pos
    /\ e.ts - e.tgt[i].stuck.since >= stuckTimeout

WatchStuck(e, i) ==
    IF stuckTimeout = 0 \/ e.tgt[i].stuck.at = e.w[i].pos THEN e
    ELSE Target(e, i, [e.tgt[i] EXCEPT !.stuck = [at |-> e.w[i].pos, since |-> e.ts]])

\* Slot i stands on cell c, in the room and under no suppress overlay.
Place(e, i, c) ==
    [e EXCEPT !.tgt[i] = [e.tgt[i] EXCEPT
                            !.sticky = e.w[i].overlay \/ grid.overlay[c] = "entry",
                            !.lastZone = grid.zone[c],
                            !.xy = e.w[i].pos],
              !.at[i] = grid.zone[c],
              !.from[i] = IF e.tgt[i].prev = NoCell THEN NoZone
                          ELSE grid.zone[e.tgt[i].prev]]

\* Does a placed target count for the zone it stands in?
Judge(e, i, c) ==
    LET z == grid.zone[c]
        clear == e.zone[z].state = "CLEAR"
        noisy == grid.overlay[c] = "interference"
        walked == e.tgt[i].prev # NoCell /\ ~Far(c, e.tgt[i].prev)
        entered == e.tgt[i].sticky
        base == CASE clear /\ entered /\ ~noisy -> 1
                  [] clear /\ ~(entered /\ ~noisy) -> Clamp(cfg[z].trigger)
                  [] ~clear /\ noisy -> 9
                  [] OTHER -> Clamp(cfg[z].renew)
        s == e.w[i].signal
    IN  CASE z \notin Configured -> Follow(e, i, c)
          [] z \in Configured /\ noisy /\ ~walked /\ clear -> Lose(e, i)
          [] z \in Configured /\ ~noisy /\ ~walked /\ ~entered /\ clear ->
               IF s < Gated(base) THEN Lose(e, i)
               ELSE IF e.tgt[i].gate = 0 THEN GateOnce(e, i, c) ELSE Confirm(e, i, c)
          [] OTHER -> IF s >= base THEN Confirm(e, i, c) ELSE Follow(e, i, c)

InRoom(e, i, c) ==
    LET moved == Target(e, i, [e.tgt[i] EXCEPT !.dismissed = NoCell])
        watched == WatchStuck(moved, i)
    IN  IF e.tgt[i].dismissed = c THEN Lose(e, i)
        ELSE IF Stuck(moved, i)
        THEN [e EXCEPT !.zone = WithoutEvidence(e.zone, i, c),
                       !.tgt[i] = DismissedAt(e.tgt[i], c)]
        ELSE IF grid.overlay[c] = "suppress" THEN Lose(watched, i)
        ELSE Judge(Place(watched, i, c), i, c)

Evaluate(e, i) ==
    IF e.w[i].active /\ grid.cell[e.w[i].pos] \in grid.room
    THEN InRoom(e, i, grid.cell[e.w[i].pos])
    ELSE OutOfSight(e, i)

-----------------------------------------------------------------------------
(* Steps 2 and 2b: a zone whose last target left clears sooner             *)

\* Fault: the head start is added instead of subtracted.
AcceleratedBackwards(e, z) == e.ts + (cfg[z].timeout - cfg[z].handoff)
Accelerated(e, z) == e.ts - (cfg[z].timeout - cfg[z].handoff)

Handoff(e, i) ==
    LET z == e.from[i]
        r == e.zone[z]
        last == r.state = "OCCUPIED" /\ r.bits \subseteq {i}
    IN  IF z = NoZone \/ e.at[i] = NoZone \/ z = e.at[i] \/ z \notin Configured THEN e
        ELSE [e EXCEPT !.zone[z] =
                IF last THEN [state |-> "PENDING", since |-> Accelerated(e, z), bits |-> {}]
                ELSE Bits(r, r.bits \ {i})]

OverlayExit(e, i) ==
    LET z == e.tgt[i].lastZone
        r == e.zone[z]
        sooner == \/ r.state = "OCCUPIED"
                  \/ r.state = "PENDING" /\ r.since > Accelerated(e, z)
    IN  IF e.at[i] # NoZone \/ ~e.tgt[i].sticky \/ z \notin Configured THEN e
        ELSE [e EXCEPT !.tgt[i] = [e.tgt[i] EXCEPT !.lastZone = NoZone, !.sticky = FALSE],
                       !.zone[z] = IF r.bits \subseteq {i} /\ sooner
                                   THEN [r EXCEPT !.state = "PENDING",
                                                  !.since = Accelerated(e, z)]
                                   ELSE r]

-----------------------------------------------------------------------------
(* Step 3: the state machine of one zone                                   *)

\* Fault: a timeout clears the zone but not its confirmation bits.
AdvanceKeepsBits(r, confirmed, timeout, ts) ==
    CASE confirmed -> [r EXCEPT !.state = "OCCUPIED", !.since = Unset]
      [] ~confirmed /\ r.state = "OCCUPIED" -> [r EXCEPT !.state = "PENDING", !.since = ts]
      [] ~confirmed /\ r.state = "PENDING" /\ r.since >= 0 /\ ts - r.since >= timeout ->
           [r EXCEPT !.state = "CLEAR", !.since = Unset]
      [] OTHER -> r

Advance(r, confirmed, timeout, ts) ==
    CASE confirmed -> [r EXCEPT !.state = "OCCUPIED", !.since = Unset]
      [] ~confirmed /\ r.state = "OCCUPIED" -> [r EXCEPT !.state = "PENDING", !.since = ts]
      [] ~confirmed /\ r.state = "PENDING" ->
           IF r.since >= 0 /\ ts - r.since >= timeout THEN Idle ELSE r
      [] OTHER -> r

AdvanceZones(e) ==
    [e EXCEPT !.zone = [z \in Zones |->
        IF z \in Configured THEN Advance(e.zone[z], z \in e.seen, cfg[z].timeout, e.ts)
        ELSE e.zone[z]]]

\* Step 4: the published status of a slot.
Status(e, i) ==
    IF e.at[i] # NoZone THEN "active"
    ELSE IF \E z \in Zones : e.zone[z].state = "PENDING" /\ i \in e.zone[z].bits
    THEN "pending" ELSE "inactive"

PresentBits(e, z) == {i \in e.zone[z].bits : e.w[i].active}

\* Fault: absent slots are cleaned from CLEAR zones only.
CleanupClearOnly(e) ==
    [e EXCEPT !.zone = [z \in Zones |->
        IF e.zone[z].state # "CLEAR" THEN e.zone[z] ELSE Bits(e.zone[z], PresentBits(e, z))]]

\* Step 5: an absent slot keeps its bit only where a zone is waiting.
Cleanup(e) ==
    [e EXCEPT !.zone = [z \in Zones |->
        IF e.zone[z].state = "PENDING" THEN e.zone[z] ELSE Bits(e.zone[z], PresentBits(e, z))]]

-----------------------------------------------------------------------------
(* Steps 5b to 6: presence sensors, assisted clear, outputs                *)

Sense(s, on, timeout, ts) ==
    CASE on -> [state |-> "ACTIVE", since |-> Unset]
      [] ~on /\ s.state = "ACTIVE" -> [state |-> "PENDING", since |-> ts]
      [] ~on /\ s.state = "PENDING" /\ s.since >= 0 /\ ts - s.since >= timeout -> QuietSensor
      [] OTHER -> s

SensorsAfter(on, ts) ==
    [static |-> Sense(sens.static, "static" \in on, SensorTimeout["static"], ts),
     motion |-> Sense(sens.motion, "motion" \in on, SensorTimeout["motion"], ts),
     ever |-> sens.ever \/ on # {}]

RoomEmpty(sn, zn) ==
    /\ sn.ever
    /\ sn.static.state = "INACTIVE" /\ sn.motion.state = "INACTIVE"
    /\ \A z \in Zones : zn[z].state # "OCCUPIED"

\* Fault: the grace timer runs on while the room is not empty.
GraceNeverReset(sn, zn, ts) ==
    IF ~assist.enabled THEN Unset ELSE IF assist.since < 0 THEN ts ELSE assist.since

\* assisted_clear_since_ after the tick.
GraceSince(sn, zn, ts) ==
    IF ~assist.enabled \/ ~RoomEmpty(sn, zn) THEN Unset
    ELSE IF assist.since < 0 THEN ts ELSE assist.since

GraceOver(sn, zn, ts) ==
    /\ assist.enabled /\ RoomEmpty(sn, zn)
    /\ ts - GraceSince(sn, zn, ts) >= assist.timeout

\* Pending zones are force-cleared, and so is what was already reported of them.
ForceClear(zn) == [z \in Zones |-> IF zn[z].state = "PENDING" THEN Idle ELSE zn[z]]
\* Fault: the force-clear does not correct the reported occupancy.
StillReportedAll(occ, zn) == occ
StillReported(occ, zn) == {z \in occ : zn[z].state # "PENDING"}

Tick(w, on, d) ==
    LET ts == (now + d) % ClockWrap
        moved == ForSlots(OverlayExit, ForSlots(Handoff,
                     ForSlots(Evaluate, ForSlots(Relocate, Begin(w, on, ts)))))
        advanced == AdvanceZones(moved)
        reported == {z \in Configured : advanced.zone[z].state # "CLEAR"}
        cleaned == Cleanup(advanced)
        sn == SensorsAfter(on, ts)
        force == GraceOver(sn, cleaned.zone, ts)
        zn == IF force THEN ForceClear(cleaned.zone) ELSE cleaned.zone
        occ == IF force THEN StillReported(reported, cleaned.zone) ELSE reported
        sensed == sn.static.state # "INACTIVE" \/ sn.motion.state # "INACTIVE"
    IN  /\ now + d <= MaxTime
        /\ now' = ts
        /\ win' = w
        /\ tgt' = cleaned.tgt
        /\ zone' = zn
        /\ sens' = sn
        /\ assist' = [assist EXCEPT !.since = GraceSince(sn, cleaned.zone, ts)]
        /\ out' = [occ |-> occ,
                   occupancy |-> sensed \/ occ # {},
                   mmwave |-> \/ sn.static.state # "INACTIVE"
                              \/ \E z \in Configured : zn[z].state = "OCCUPIED",
                   status |-> [i \in Slots |-> Status(advanced, i)]]
        /\ UNCHANGED <<grid, cfg, stuckTimeout>>

-----------------------------------------------------------------------------
(* Calls from the component's services                                     *)

DismissTarget(i, c) ==
    /\ zone' = WithoutEvidence(zone, i, c)
    /\ tgt' = [tgt EXCEPT ![i] = DismissedAt(@, c)]
    /\ UNCHANGED <<grid, cfg, sens, assist, stuckTimeout, now, win, out>>

SetGrid(g) ==
    /\ grid' = g
    /\ tgt' = [i \in Slots |-> Fresh]
    /\ UNCHANGED <<cfg, zone, sens, assist, stuckTimeout, now, win, out>>

\* Fault: only the zones of the new configuration are reset.
SetZonesResetsEnabled(c) ==
    /\ cfg' = c
    /\ zone' = [z \in Zones |-> IF z \in DOMAIN c THEN Idle ELSE zone[z]]
    /\ tgt' = [i \in Slots |-> Fresh]
    /\ sens' = QuietSensors
    /\ UNCHANGED <<grid, assist, stuckTimeout, now, win, out>>

SetZones(c) ==
    /\ cfg' = c
    /\ zone' = [z \in Zones |-> Idle]
    /\ tgt' = [i \in Slots |-> Fresh]
    /\ sens' = QuietSensors
    /\ UNCHANGED <<grid, assist, stuckTimeout, now, win, out>>

SetStuckTargetTimeout(s) ==
    /\ stuckTimeout' = s
    /\ UNCHANGED <<grid, cfg, zone, tgt, sens, assist, now, win, out>>

SetAssistedClear(enabled, timeout) ==
    /\ assist' = [assist EXCEPT !.enabled = enabled, !.timeout = timeout]
    /\ UNCHANGED <<grid, cfg, zone, tgt, sens, stuckTimeout, now, win, out>>

TickSome == \E w \in Windows, on \in SensorInputs, d \in Steps : Tick(w, on, d)
DismissSome == \E x \in Dismissals : DismissTarget(x[1], x[2])
Configure ==
    \/ \E g \in Grids : SetGrid(g)
    \/ \E c \in ZoneConfigs : SetZones(c)
    \/ \E s \in StuckTimeouts : SetStuckTargetTimeout(s)
    \/ \E a \in AssistSettings : SetAssistedClear(a[1], a[2])

Next == TickSome \/ DismissSome \/ Configure

Spec == Init /\ [][Next]_vars

-----------------------------------------------------------------------------
(* Types                                                                   *)

ZoneRuntime == [state : {"CLEAR", "OCCUPIED", "PENDING"}, since : Int, bits : SUBSET Slots]
Tracking == [prev : Cells \cup {NoCell}, xy : Points \cup {NoPoint}, gate : 0..1,
             sticky : BOOLEAN, lastZone : Zones \cup {NoZone},
             dismissed : Cells \cup {NoCell},
             stuck : [at : Points \cup {NoPoint}, since : Int]]
SensorState == [state : {"INACTIVE", "ACTIVE", "PENDING"}, since : Int]

\* Every variable holds a value of its C++ type: gate counts 0 or 1, cells and
\* zones in range, one settings record per enabled zone.
TypeOK ==
    /\ grid \in Grid
    /\ cfg \in ZoneConfigs \cup {NoConfig}
    /\ zone \in [Zones -> ZoneRuntime]
    /\ tgt \in [Slots -> Tracking]
    /\ sens \in [static : SensorState, motion : SensorState, ever : BOOLEAN]
    /\ assist \in [enabled : BOOLEAN, timeout : Nat, since : Int]
    /\ stuckTimeout \in Nat
    /\ now \in 0..(ClockWrap - 1)
    /\ win \in Windows \cup {[i \in Slots |-> Absent]}
    /\ out \in [occ : SUBSET Zones, occupancy : BOOLEAN, mmwave : BOOLEAN,
                status : [Slots -> {"active", "pending", "inactive"}]]

-----------------------------------------------------------------------------
(* Safety                                                                  *)

\* A zone is reported OCCUPIED only on live evidence: some slot is confirmed in
\* it, and every slot confirmed in it was present in the last window; neither a
\* hand dismissal, nor the stuck rule, nor slot relocation, nor a handoff may
\* leave an OCCUPIED zone resting on nobody or on a target that is gone.
OccupiedHasLiveEvidence ==
    \A z \in Zones : zone[z].state = "OCCUPIED" =>
        /\ zone[z].bits # {}
        /\ \A i \in zone[z].bits : win[i].active

\* A CLEAR zone keeps no confirmation bit and no timer that a later occupancy
\* would inherit, and an OCCUPIED one keeps no timer; all the paths that clear
\* a zone (timeout, dismissal, force-clear, reconfiguration) leave it so.
ClearForgets ==
    \A z \in Zones :
        /\ zone[z].state = "CLEAR" => zone[z].bits = {}
        /\ zone[z].state # "PENDING" => zone[z].since = Unset

\* Only enabled zones ever leave CLEAR: set_zones resets every runtime, so a
\* disabled slot cannot carry state into a later re-enable.
DisabledZonesClear == \A z \in Zones \ Configured : zone[z] = Idle

\* A dismissed target stays dismissed: until it is seen in another cell of the
\* room, its slot is not confirmed in the zone of the cell it was dismissed at,
\* through relocation to another slot and back too.
DismissedStaysSilent ==
    \A i \in Slots :
        LET c == tgt[i].dismissed
        IN  c \in grid.room => i \notin zone[grid.zone[c]].bits

Ticked == <<win, now>>' # <<win, now>>

\* A waiting zone only gets closer to clearing: no handoff, overlay exit,
\* relocation, dismissal or grid edit restarts the timer of a PENDING zone
\* that is not confirmed again.
PendingAges ==
    [][\A z \in Zones : zone[z].state = "PENDING" /\ zone'[z].state = "PENDING" =>
          now' - zone'[z].since >= now - zone[z].since]_vars

\* No ghost entry: a CLEAR zone becomes OCCUPIED only through a slot confirmed in
\* it that was already tracked when the tick began (it walked, or it had passed
\* the gate once), or that touched an entry cell and is not on interference.
NoGhostEntry ==
    [][\A z \in Zones : zone[z].state = "CLEAR" /\ zone'[z].state = "OCCUPIED" =>
          \E i \in zone'[z].bits :
             LET c == grid.cell[win'[i].pos]
             IN  /\ win'[i].active /\ c \in grid.room /\ grid.zone[c] = z
                 /\ \/ tgt[i].prev # NoCell
                    \/ tgt'[i].sticky /\ grid.overlay[c] # "interference"]_vars

\* What a tick reports is what the engine holds when the tick ends, after the
\* force-clear too: the occupied zones, overall occupancy, and mmWave, which
\* never reports presence that occupancy denies.
ReportedIsActual ==
    [][Ticked =>
        /\ out'.occ = {z \in Zones : zone'[z].state # "CLEAR"}
        /\ out'.occupancy <=> \/ out'.occ # {}
                              \/ sens'.static.state # "INACTIVE"
                              \/ sens'.motion.state # "INACTIVE"
        /\ out'.mmwave => out'.occupancy]_vars

=============================================================================
