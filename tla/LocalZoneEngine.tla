-------------------------- MODULE LocalZoneEngine --------------------------
(***************************************************************************)
(* The panel's replica of the firmware's zone engine (lib/zone-engine.ts), *)
(* which previews unsaved grids and zones in the editor.  It is meant to   *)
(* behave like ZoneEngine; ZoneParity runs the two side by side.           *)
(*                                                                         *)
(* Unlike the firmware it is handed grid, zones and settings with every    *)
(* frame, keeps a map of the zones it has met (`zone` is a function on     *)
(* those), has no PENDING state (an occupied zone with a timer is          *)
(* pending), and "nothing" is null.  The data are abstracted as in         *)
(* ZoneEngine; the detection log and its clearReason are left out.         *)
(***************************************************************************)
EXTENDS Integers, FiniteSets

CONSTANTS Cells, Null

VARIABLES
    eng,    \* ZoneEngineState
    res     \* ZoneEngineResult of the last run

Slots == 0..2               \* MAX_TARGETS
MaxMovementCells == 5       \* MAX_MOVEMENT_CELLS

NewZone == [occupied |-> FALSE, pendingSince |-> Null, confirmed |-> {}]
NoTarget == [prev |-> Null, gate |-> 0, prevXY |-> Null, lastZone |-> Null,
             lastOnOverlay |-> FALSE, dismissed |-> Null, stuckRef |-> Null]
Inactive == [state |-> "inactive", since |-> Null]

CreateState == [zone |-> [z \in {} |-> NewZone], target |-> [i \in Slots |-> NoTarget],
                static |-> Inactive, motion |-> Inactive, everActive |-> FALSE, assist |-> Null]
NoResult == [occupied |-> {}, status |-> [i \in Slots |-> "inactive"],
             sensorOccupancy |-> FALSE, mmwave |-> FALSE]

-----------------------------------------------------------------------------
(* A tick works on a context k: the engine's state e, the parameters p of  *)
(* the run, the zones confirmed, and per slot the zones it was and is in.  *)

Context(p) == [e |-> eng, p |-> p, confirmed |-> {},
               was |-> [i \in Slots |-> Null], is |-> [i \in Slots |-> Null]]

InOrder(Step(_, _), k) == Step(Step(Step(k, 0), 1), 2)

Pending(st) == st.occupied /\ st.pendingSince # Null
IsZoneConfigured(z, p) == z = 0 \/ z \in DOMAIN p.zones
ZoneOf(e, z) == IF z \in DOMAIN e.zone THEN e.zone[z] ELSE NewZone
Present(p, i) == p.targets[i].active /\ p.targets[i].signal > 0
Cell(p, xy) == p.grid.cell[xy]
OnGrid(p, xy) == Cell(p, xy) \in Cells
Min2(a, b) == IF a < b THEN a ELSE b
ClampThreshold(n) == IF n < 1 THEN 1 ELSE n
Apart(c, d) == \E k \in {1, 2} : \/ c[k] - d[k] > MaxMovementCells
                               \/ d[k] - c[k] > MaxMovementCells

\* The map with state st for zone z; null for a zone is no entry.
Put(e, z, st) == [x \in DOMAIN e.zone \cup {z} |-> IF x = z THEN st ELSE e.zone[x]]
EachZone(e, New(_)) == [e EXCEPT !.zone = [z \in DOMAIN e.zone |-> New(e.zone[z])]]

SetTarget(k, i, t) == [k EXCEPT !.e.target[i] = t]
Target(k, i) == k.e.target[i]
Forget(k, i) == SetTarget(k, i, [Target(k, i) EXCEPT !.prev = Null, !.gate = 0])

-----------------------------------------------------------------------------
(* Dismissal and resets                                                    *)

\* dismissTarget.
DismissTarget(e, i, c, g) ==
    LET z == g.zone[c]
        rest == e.zone[z].confirmed \ {i}
        known == c \in g.room /\ z \in DOMAIN e.zone
    IN  [e EXCEPT !.target[i] = [NoTarget EXCEPT !.prevXY = e.target[i].prevXY, !.dismissed = c],
                  !.zone = IF ~known THEN @
                           ELSE Put(e, z, IF rest = {} THEN NewZone
                                          ELSE [e.zone[z] EXCEPT !.confirmed = rest])]

ResetForGridChange(e) == [e EXCEPT !.target = [i \in Slots |-> NoTarget]]

\* Fault: the zones survive a change of their configuration.
ResetTrackingOnly(e) == [CreateState EXCEPT !.assist = e.assist, !.zone = e.zone]

\* The timer of assisted clear is not reset.
ResetForZoneConfigChange(e) == [CreateState EXCEPT !.assist = e.assist]

-----------------------------------------------------------------------------
(* Step 0: a newcomer in a slot that holds a pending target                *)

Held(e, i) == \E z \in DOMAIN e.zone : Pending(e.zone[z]) /\ i \in e.zone[z].confirmed

Relocates(k, i) ==
    LET p == k.p   before == Target(k, i).prevXY
    IN  /\ Present(p, i) /\ before # Null /\ Held(k.e, i)
        /\ OnGrid(p, p.targets[i].pos) /\ OnGrid(p, before)
        /\ Apart(Cell(p, p.targets[i].pos), Cell(p, before))
        /\ (\E c \in Cells : p.grid.overlay[c] = "entry") => p.targets[i].overlay

StepPendingRelocation(k, i) ==
    LET e == k.e
        free == {j \in Slots \ {i} : ~Present(k.p, j)
                    /\ \A z \in DOMAIN e.zone : j \notin e.zone[z].confirmed}
        to == CHOOSE j \in free : \A other \in free : other <= j
        Drop(st) == [st EXCEPT !.confirmed = @ \ {i}]
        Hand(st) == IF i \in st.confirmed THEN [st EXCEPT !.confirmed = (@ \ {i}) \cup {to}] ELSE st
    IN  CASE ~Relocates(k, i) -> k
          [] Relocates(k, i) /\ free = {} -> [k EXCEPT !.e = EachZone(e, Drop)]
          [] OTHER -> [k EXCEPT !.e = [EachZone(e, Hand) EXCEPT
                                          !.target[to] = e.target[i], !.target[i] = NoTarget]]

-----------------------------------------------------------------------------
(* Step 1: one target                                                      *)

Keep(k, i, c) == SetTarget(k, i, [Target(k, i) EXCEPT !.prev = c])

Confirm(k, i, c) ==
    LET z == k.p.grid.zone[c]   st == ZoneOf(k.e, z)
    IN  [Keep(k, i, c) EXCEPT
           !.e.target[i].gate = 0,
           !.e.zone = Put(k.e, z, [st EXCEPT !.confirmed = @ \cup {i}]),
           !.confirmed = @ \cup {z}]

\* The thresholds of the zone, once the target's position has been recorded.
Judge(k, i, c) ==
    LET p == k.p
        z == p.grid.zone[c]
        st == ZoneOf(k.e, z)
        signal == p.targets[i].signal
        noisy == p.grid.overlay[c] = "interference"
        prev == Target(k, i).prev
        continuous == prev # Null /\ ~Apart(c, prev)
        entry == Target(k, i).lastOnOverlay
        renew == IF noisy THEN 9 ELSE ClampThreshold(p.zones[z].renew)
        trigger == IF ~st.occupied /\ entry /\ ~noisy THEN 1
                   ELSE IF st.occupied THEN renew ELSE ClampThreshold(p.zones[z].trigger)
        met == [k EXCEPT !.e.zone = Put(k.e, z, st)]
    IN  CASE noisy /\ ~continuous /\ ~st.occupied -> Forget(met, i)
          [] ~(noisy /\ ~continuous) /\ ~entry /\ ~continuous /\ ~st.occupied ->
               IF signal < Min2(trigger + 2, 8) THEN Forget(met, i)
               ELSE IF Target(k, i).gate + 1 >= 2 THEN Confirm(met, i, c)
               ELSE [Keep(met, i, c) EXCEPT !.e.target[i].gate = @ + 1]
          [] OTHER -> IF signal >= trigger THEN Confirm(met, i, c) ELSE Keep(met, i, c)

\* Fault: the sticky overlay flag outlives the next cell.
PlaceSticky(k, i, c) ==
    LET p == k.p   t == Target(k, i)
    IN  [SetTarget(k, i, [t EXCEPT !.lastZone = p.grid.zone[c], !.prevXY = p.targets[i].pos,
             !.lastOnOverlay = @ \/ p.targets[i].overlay \/ p.grid.overlay[c] = "entry"])
         EXCEPT !.is[i] = p.grid.zone[c],
                !.was[i] = IF t.prev \in p.grid.room THEN p.grid.zone[t.prev] ELSE Null]

\* What is recorded of a target in the room, in no suppressed cell.
Place(k, i, c) ==
    LET p == k.p   t == Target(k, i)
    IN  [SetTarget(k, i, [t EXCEPT !.lastZone = p.grid.zone[c], !.prevXY = p.targets[i].pos,
             !.lastOnOverlay = p.targets[i].overlay \/ p.grid.overlay[c] = "entry"])
         EXCEPT !.is[i] = p.grid.zone[c],
                !.was[i] = IF t.prev \in p.grid.room THEN p.grid.zone[t.prev] ELSE Null]

InRoom(k, i, c) ==
    LET p == k.p
        moved == SetTarget(k, i, [Target(k, i) EXCEPT !.dismissed = Null])
        ref == Target(k, i).stuckRef
        same == ref # Null /\ ref.at = p.targets[i].pos
        watched == IF p.stuckTimeout = 0 \/ same THEN moved
                   ELSE [moved EXCEPT !.e.target[i].stuckRef =
                            [at |-> p.targets[i].pos, since |-> p.now]]
        placed == Place(watched, i, c)
    IN  CASE Target(k, i).dismissed = c -> Forget(k, i)
          [] Target(k, i).dismissed # c /\ p.stuckTimeout > 0 /\ same
                /\ p.now - ref.since >= p.stuckTimeout ->
               [k EXCEPT !.e = DismissTarget(moved.e, i, c, p.grid)]
          [] OTHER -> IF p.grid.overlay[c] = "suppress" THEN Forget(watched, i)
                      ELSE IF IsZoneConfigured(p.grid.zone[c], p) THEN Judge(placed, i, c)
                      ELSE Keep(placed, i, c)

StepPerTargetEval(k, i) ==
    IF Present(k.p, i) /\ Cell(k.p, k.p.targets[i].pos) \in k.p.grid.room
    THEN InRoom(k, i, Cell(k.p, k.p.targets[i].pos))
    ELSE [Forget(k, i) EXCEPT !.e.target[i].stuckRef = Null]

-----------------------------------------------------------------------------
(* Steps 2 to 5                                                            *)

Accelerated(p, z) == p.now - (p.zones[z].timeout - p.zones[z].handoff)

StepHandoffDetection(k, i) ==
    LET z == k.was[i]
        st == k.e.zone[z]
        left == [st EXCEPT !.confirmed = @ \ {i}]
    IN  IF z = Null \/ k.is[i] = Null \/ z = k.is[i] \/ z \notin DOMAIN k.e.zone THEN k
        ELSE IF ~IsZoneConfigured(z, k.p) THEN k
        ELSE [k EXCEPT !.e.zone[z] =
                IF left.confirmed = {} /\ st.occupied /\ ~Pending(st)
                THEN [left EXCEPT !.pendingSince = Accelerated(k.p, z)] ELSE left]

StepOverlayExitHandoff(k, i) ==
    LET z == Target(k, i).lastZone
        st == ZoneOf(k.e, z)
        sooner == st.pendingSince = Null \/ st.pendingSince > Accelerated(k.p, z)
        consumed == [k EXCEPT !.e.target[i].lastZone = Null, !.e.target[i].lastOnOverlay = FALSE]
    IN  IF k.is[i] # Null \/ ~Target(k, i).lastOnOverlay \/ z = Null THEN k
        ELSE IF ~IsZoneConfigured(z, k.p) THEN k
        ELSE IF st.occupied /\ st.confirmed \subseteq {i} /\ sooner
        THEN [consumed EXCEPT !.e.zone[z].pendingSince = Accelerated(k.p, z)]
        ELSE consumed

NextState(st, confirmed, timeout, now) ==
    IF confirmed THEN [st EXCEPT !.occupied = TRUE, !.pendingSince = Null]
    ELSE IF ~st.occupied THEN st
    ELSE IF st.pendingSince = Null THEN [st EXCEPT !.pendingSince = now]
    ELSE IF now - st.pendingSince >= timeout THEN NewZone
    ELSE st

\* The zones with a cell in the room and a configuration; every other entry is
\* dropped.
StepZoneStateMachine(k) ==
    LET p == k.p
        ids == {z \in {p.grid.zone[c] : c \in p.grid.room} : IsZoneConfigured(z, p)}
    IN  [k EXCEPT !.e.zone = [z \in ids |->
            NextState(ZoneOf(k.e, z), z \in k.confirmed, p.zones[z].timeout, p.now)]]

StepTargetResults(k) ==
    [i \in Slots |-> IF Present(k.p, i) /\ k.is[i] # Null THEN "active"
                     ELSE IF Held(k.e, i) THEN "pending" ELSE "inactive"]

StepCleanupConfirmed(k) ==
    LET Clean(st) == IF st.pendingSince # Null THEN st
                     ELSE [st EXCEPT !.confirmed = {i \in @ : Present(k.p, i)}]
    IN  [k EXCEPT !.e = EachZone(k.e, Clean)]

-----------------------------------------------------------------------------
(* Steps 5b to 5d                                                          *)

Sensed(s, on, timeout, now) ==
    IF on THEN [state |-> "active", since |-> Null]
    ELSE IF s.state = "active" THEN [state |-> "pending", since |-> now]
    ELSE IF s.state = "pending" /\ now - s.since >= timeout THEN Inactive
    ELSE s

StepSensorPresence(k) ==
    [k EXCEPT
        !.e.static = Sensed(@, "static" \in k.p.sensors, k.p.holds["static"], k.p.now),
        !.e.motion = Sensed(@, "motion" \in k.p.sensors, k.p.holds["motion"], k.p.now),
        !.e.everActive = @ \/ k.p.sensors # {}]

Empty(e) ==
    /\ e.everActive /\ e.static.state = "inactive" /\ e.motion.state = "inactive"
    /\ \A z \in DOMAIN e.zone : e.zone[z].occupied => Pending(e.zone[z])

StepForceClear(k) ==
    LET since == IF k.e.assist = Null THEN k.p.now ELSE k.e.assist
        Clear(st) == IF Pending(st) THEN NewZone ELSE st
    IN  IF ~k.p.assist[1] \/ ~Empty(k.e) THEN [k EXCEPT !.e.assist = Null]
        ELSE IF k.p.now - since < k.p.assist[2] THEN [k EXCEPT !.e.assist = since]
        ELSE [k EXCEPT !.e = [EachZone(k.e, Clear) EXCEPT !.assist = since]]

\* The result: what is reported of a zone is corrected by the force clear.
StepComputeOccupancy(e, status) ==
    LET occupied == {z \in DOMAIN e.zone : e.zone[z].occupied}
    IN  [occupied |-> occupied, status |-> status,
         sensorOccupancy |-> \/ e.static.state # "inactive" \/ e.motion.state # "inactive"
                             \/ occupied # {},
         mmwave |-> \/ e.static.state # "inactive"
                    \/ \E z \in occupied : e.zone[z].pendingSince = Null]

-----------------------------------------------------------------------------
(* The operations of the panel                                             *)

Init == eng = CreateState /\ res = NoResult

RunLocalZoneEngine(p) ==
    LET moved == InOrder(StepOverlayExitHandoff, InOrder(StepHandoffDetection,
                     InOrder(StepPerTargetEval, InOrder(StepPendingRelocation, Context(p)))))
        advanced == StepZoneStateMachine(moved)
        done == StepForceClear(StepSensorPresence(StepCleanupConfirmed(advanced)))
    IN  eng' = done.e /\ res' = StepComputeOccupancy(done.e, StepTargetResults(advanced))

DismissAt(i, c, g) == eng' = DismissTarget(eng, i, c, g) /\ UNCHANGED res
GridChanged == eng' = ResetForGridChange(eng) /\ UNCHANGED res
ZoneConfigChanged == eng' = ResetForZoneConfigChange(eng) /\ UNCHANGED res
ResetZoneEngineState == eng' = CreateState /\ res' = NoResult
=============================================================================
