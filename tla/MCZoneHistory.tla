---------------------------- MODULE MCZoneHistory ---------------------------
(***************************************************************************)
(* The rooms of MCZones, for the zone engine with its observers.           *)
(***************************************************************************)
EXTENDS ZoneHistory, MCZones
=============================================================================
