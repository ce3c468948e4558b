----------------------------- MODULE ZoneParity -----------------------------
(***************************************************************************)
(* The firmware's zone engine and the panel's replica of it, fed the same  *)
(* frames, dismissals and edits ("kept deliberately in sync"; the parity   *)
(* suite of the repository compares them on recorded fixtures).  The       *)
(* editor may be opened anew while the device goes on; from then on the    *)
(* two need not agree until the next zone configuration, which resets both.*)
(***************************************************************************)
EXTENDS ZoneEngine

CONSTANT Null   \* the replica's null

\* null is no cell, no point, no number and no object.
ASSUME NullAssumption ==
    /\ Null \notin Cells /\ Null \notin Points /\ Null \notin Int
    /\ Null \notin [at : Points, since : Int]

VARIABLES
    eng, res,   \* the replica
    inStep      \* both have seen the same since they were last configured

pvars == <<vars, eng, res, inStep>>

Local == INSTANCE LocalZoneEngine

\* What the editor hands to a run of the replica.
Params(w, on, ts) ==
    [targets |-> w, grid |-> grid, zones |-> cfg, sensors |-> on, now |-> ts,
     holds |-> SensorTimeout, stuckTimeout |-> stuckTimeout,
     assist |-> <<assist.enabled, assist.timeout>>]

PInit == Init /\ Local!Init /\ inStep = FALSE

\* A frame; there is no preview before there is a configuration.
Frame ==
    /\ \E w \in Windows, on \in SensorInputs, d \in Steps :
         /\ Tick(w, on, d)
         /\ IF cfg = NoConfig THEN UNCHANGED <<eng, res>>
            ELSE Local!RunLocalZoneEngine(Params(w, on, now'))
    /\ UNCHANGED inStep

Dismiss ==
    /\ \E x \in Dismissals : DismissTarget(x[1], x[2]) /\ Local!DismissAt(x[1], x[2], grid)
    /\ UNCHANGED inStep

EditGrid ==
    /\ \E g \in Grids : SetGrid(g)
    /\ Local!GridChanged /\ UNCHANGED inStep

EditZones ==
    /\ \E c \in ZoneConfigs : SetZones(c)
    /\ Local!ZoneConfigChanged /\ inStep' = TRUE

EditSettings ==
    /\ \/ \E s \in StuckTimeouts : SetStuckTargetTimeout(s)
       \/ \E a \in AssistSettings : SetAssistedClear(a[1], a[2])
    /\ UNCHANGED <<eng, res, inStep>>

\* The session was closed and opened again: the replica starts afresh.
Reopen ==
    /\ Local!ResetZoneEngineState /\ inStep' = FALSE
    /\ UNCHANGED vars

PNext == Frame \/ Dismiss \/ EditGrid \/ EditZones \/ EditSettings \/ Reopen

PSpec == PInit /\ [][PNext]_pvars

-----------------------------------------------------------------------------
(* What the two behave alike under                                         *)

\* Every zone of a configuration is drawn on every grid: the replica steps the
\* zones of the cells, the firmware those of the configuration.
ZonesShown == \A g \in Grids, c \in ZoneConfigs : \A z \in DOMAIN c : \E x \in g.room : g.zone[x] = z

\* No handoff dates a timer back to before the start of the clock: the firmware
\* takes a negative start for no timer.
HandoffsDated == \A c \in ZoneConfigs : \A z \in DOMAIN c : c[z].timeout - c[z].handoff <= StartTime

\* Besides, a dismissal names a cell (the firmware keeps no cell as none), and
\* the clock does not wrap.
ParityAssumption ==
    /\ ZonesShown /\ HandoffsDated
    /\ \A x \in Dismissals : x[2] \in Cells
    /\ MaxTime < ClockWrap

-----------------------------------------------------------------------------
(* What the two states have in common                                      *)

Unless(x, none) == IF x = none THEN Null ELSE x

\* The runtime of a zone and the tracking of a slot as the replica would keep them.
AsZone(r) == [occupied |-> r.state # "CLEAR",
              pendingSince |-> IF r.state = "PENDING" THEN r.since ELSE Null,
              confirmed |-> r.bits]
AsTarget(t) == [prev |-> Unless(t.prev, NoCell), gate |-> t.gate,
                prevXY |-> Unless(t.xy, NoPoint), lastZone |-> Unless(t.lastZone, NoZone),
                lastOnOverlay |-> t.sticky, dismissed |-> Unless(t.dismissed, NoCell),
                stuckRef |-> Unless(t.stuck, NoRef)]

SameZone(z) == Local!ZoneOf(eng, z) = AsZone(zone[z])
SameTarget(i) == eng.target[i] = AsTarget(tgt[i])

Lower(state) == CASE state = "ACTIVE" -> "active" [] state = "PENDING" -> "pending"
                  [] OTHER -> "inactive"

SameSensor(mine, s) == mine = [state |-> Lower(s.state), since |-> Unless(s.since, Unset)]

\* In step, the replica keeps every zone, target and sensor of the firmware as
\* it is there: through relocation, dismissal, gating, handoff, edits of the
\* grid and forced clears no timer, confirmation or reference drifts apart.  The
\* grace timer is compared once a sensor was seen: neither engine resets it.
MirrorsFirmware ==
    inStep =>
        /\ \A z \in Zones : SameZone(z)
        /\ \A i \in Slots : SameTarget(i)
        /\ SameSensor(eng.static, sens.static) /\ SameSensor(eng.motion, sens.motion)
        /\ eng.everActive = sens.ever
        /\ sens.ever => eng.assist = Unless(assist.since, Unset)

\* A frame in step shows in the editor what the device reports: the occupied
\* zones, the targets that are active or pending, room occupancy and mmWave.
ReportsAlike ==
    [][inStep /\ Ticked =>
        /\ res'.occupied = out'.occ /\ res'.status = out'.status
        /\ res'.sensorOccupancy = out'.occupancy /\ res'.mmwave = out'.mmwave]_pvars
=============================================================================
