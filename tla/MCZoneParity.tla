---------------------------- MODULE MCZoneParity ----------------------------
(***************************************************************************)
(* A room of MCZones for both engines, one that ParityAssumption admits.   *)
(***************************************************************************)
EXTENDS ZoneParity, MCZones

ParityGrids == {RoomGrid(<<1, 2, 0>>, <<"entry", "none", "interference">>),
                RoomGrid(<<1, 2, 0>>, <<"none", "suppress", "none">>)}
\* Painted zone 2 is not configured; the two that are differ in their timing.
ParityConfigs == {[z \in {0, 1} |-> Settings(3, 2, IF z = 0 THEN 2 ELSE 1, 1)]}
ParityWindows ==
    Trio(Nobody \cup {At("near", 9, FALSE), At("away", 9, TRUE)}, Nobody, Nobody)
      \cup Trio({At("home", 2, FALSE)}, Nobody, {At("home", 9, FALSE)})
ParitySensors == {{}, {"static"}}
ParityHolds == [k \in Kinds |-> 1]
ParityAssists == {<<TRUE, 1>>}
ParityStuck == {1}

ASSUME InstanceAssumption == ParityAssumption
=============================================================================
