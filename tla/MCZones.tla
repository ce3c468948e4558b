------------------------------ MODULE MCZones -------------------------------
(***************************************************************************)
(* Small rooms for the zone engine.  One row of cells: "home" and "near"   *)
(* are a walk apart, "away" is further than a person walks in one tick,    *)
(* "out" is outside the room.                                              *)
(***************************************************************************)
EXTENDS ZoneEngine

Home == <<2, 2>>
Near == <<5, 2>>
Away == <<12, 2>>
Room == {Home, Near, Away}

PlaceOf(p) == CASE p = "home" -> Home [] p = "home2" -> Home [] p = "near" -> Near
                [] p = "away" -> Away [] OTHER -> NoCell

\* A grid with the zone of home, near and away, and an overlay on some cell.
RoomGrid(zones, overlays) ==
    [cell |-> [p \in Points |-> PlaceOf(p)], room |-> Room,
     zone |-> [c \in Cells |-> IF c = Home THEN zones[1]
                               ELSE IF c = Near THEN zones[2] ELSE zones[3]],
     overlay |-> [c \in Cells |-> IF c = Home THEN overlays[1]
                                  ELSE IF c = Near THEN overlays[2] ELSE overlays[3]]]

At(p, s, o) == [active |-> TRUE, pos |-> p, signal |-> s, overlay |-> o]
Trio(a, b, c) == {[i \in Slots |-> IF i = 0 THEN x[1] ELSE IF i = 1 THEN x[2] ELSE x[3]]
                    : x \in a \X b \X c}
Nobody == {Absent}

Settings(trigger, renew, timeout, handoff) ==
    [trigger |-> trigger, renew |-> renew, timeout |-> timeout, handoff |-> handoff]

\* One person who walks between two zones, an entrance and a noisy corner.
WalkGrids == {RoomGrid(<<1, 2, 2>>, <<"entry", "none", "interference">>)}
WalkConfigs == {[z \in {0, 1, 2} |-> Settings(3, 2, 3, 2)], [z \in {0, 1} |-> Settings(3, 2, 3, 2)]}
WalkWindows ==
    Trio(Nobody \cup {At(p, s, FALSE) : p \in {"home", "near", "away"}, s \in {1, 2, 3, 9}}
           \cup {At("near", 1, TRUE), At("out", 9, FALSE)},
         Nobody, Nobody)

\* Two people who share two zones and a third outside; the grid has no entrance
\* but may be edited into one that has.
CrowdGrids == {RoomGrid(<<1, 2, 2>>, <<"none", "none", "none">>),
               RoomGrid(<<2, 1, 1>>, <<"none", "suppress", "entry">>)}
CrowdWindows ==
    Trio(Nobody \cup {At("home", 9, FALSE), At("away", 2, TRUE)},
         {At("out", 9, FALSE)},
         Nobody \cup {At("home", 9, FALSE)})
CrowdConfigs == {[z \in {0, 1, 2} |-> Settings(3, 2, 2, 1)]}
CrowdDismissals == {<<0, Home>>}

\* One person, both presence sensors, assisted clear and the stuck rule.
SensorGrids == {RoomGrid(<<1, 1, 1>>, <<"none", "none", "none">>)}
SensorConfigs == {[z \in {0, 1} |-> Settings(3, 2, 4, 4)]}
SensorWindows == Trio(Nobody \cup {At("home", 9, FALSE), At("home2", 9, FALSE)}, Nobody, Nobody)
SensorTimeouts == [k \in Kinds |-> IF k = "static" THEN 2 ELSE 1]
AnySensors == SUBSET Kinds
Assists == {<<TRUE, 0>>, <<TRUE, 2>>, <<FALSE, 0>>}

OnlySlot0 == {<<0, Home>>}
NoDismissals == {}
Defaults == [k \in Kinds |-> 2]
Silent == {{}}
NoTimeouts == {}
NoSettings == {}
=============================================================================
