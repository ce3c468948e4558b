-------------------------- MODULE ZoneEngine_proofs --------------------------
(***************************************************************************)
(* The zone engine for every grid, configuration, window set and clock:    *)
(* its types and evidence invariants, what a step of it may do, and the    *)
(* bounded times that the observers of ZoneHistory measure.                *)
(*                                                                         *)
(* The invariants hold when a call returns, not while a tick runs: between *)
(* its steps a zone may be CLEAR and yet hold a bit.  So the proof carries *)
(* Mid, an invariant of the scratch record that flows through the steps,   *)
(* from Begin to the state machine of step 3, and has one lemma per step.  *)
(*                                                                         *)
(* For the action properties the scratch record is also compared with the  *)
(* state the tick began in: Course says which way each zone may have gone  *)
(* since, Earned on what evidence a clear zone counts as confirmed,        *)
(* Checked what is known of a slot once it has been evaluated.             *)
(***************************************************************************)
EXTENDS ZoneHistory, TLAPS

\* The inductive invariant.
IInv == /\ TypeOK
        /\ OccupiedHasLiveEvidence
        /\ ClearForgets
        /\ DisabledZonesClear
        /\ DismissedStaysSilent

Scratch == [w : Windows, on : SUBSET Kinds, ts : Int, tgt : [Slots -> Tracking],
            zone : [Zones -> ZoneRuntime], seen : SUBSET Zones,
            from : [Slots -> Zones \cup {NoZone}], at : [Slots -> Zones \cup {NoZone}]]

\* A zone found confirmed in this tick has a confirmed slot that stands in it.
Grounded(e) == \A z \in e.seen : \E i \in e.zone[z].bits : e.w[i].active /\ e.at[i] = z

\* Only a zone found confirmed in this tick may be CLEAR and hold bits.
Settled(e) == \A z \in Zones : z \notin e.seen /\ e.zone[z].state = "CLEAR" => e.zone[z].bits = {}

Timed(e) == \A z \in Zones : e.zone[z].state # "PENDING" => e.zone[z].since = Unset
Disabled(e) == \A z \in Zones : z \notin Configured => e.zone[z] = Idle /\ z \notin e.seen
Silent(e) == \A i \in Slots : e.tgt[i].dismissed \in grid.room
                => i \notin e.zone[grid.zone[e.tgt[i].dismissed]].bits

Mid(e) == e \in Scratch /\ Grounded(e) /\ Settled(e) /\ Timed(e) /\ Disabled(e) /\ Silent(e)

\* What the steps of a tick need of the grid and the settings, which it leaves alone.
Setup == grid \in Grid /\ cfg \in ZoneConfigs \cup {NoConfig} /\ stuckTimeout \in Nat

-----------------------------------------------------------------------------

\* The ranges of the grid and of the settings that set_grid and set_zones install.
LEMMA SetupFacts ==
    ASSUME Setup
    PROVE  /\ grid.room \subseteq Cells
           /\ grid.zone \in [Cells -> Zones]
           /\ grid.cell \in [Points -> Cells \cup {NoCell}]
           /\ NoCell \notin grid.room
           /\ Configured \subseteq Zones
           /\ \A z \in Configured : cfg[z].timeout \in Int /\ cfg[z].handoff \in Int
<1>1. grid \in Grid BY DEF Setup
<1>2. /\ grid.room \subseteq Cells
      /\ grid.zone \in [Cells -> Zones]
      /\ grid.cell \in [Points -> Cells \cup {NoCell}]
    BY <1>1 DEF Grid
<1>3. NoCell \notin grid.room BY <1>2, CellsAssumption
<1>4. CASE cfg \in ZoneConfigs
  <2>1. /\ DOMAIN cfg \subseteq Zones
        /\ \A z \in DOMAIN cfg : cfg[z] \in ZoneSettings
      BY <1>4, ConfigsAssumption
  <2> QED BY <2>1, <1>2, <1>3 DEF Configured, ZoneSettings
<1>5. CASE cfg = NoConfig
    BY <1>5, <1>2, <1>3 DEF Configured, NoConfig
<1> QED BY <1>4, <1>5 DEF Setup

\* A runtime and a tracking record as constructed have their types.
LEMMA IdleTypes == Idle \in ZoneRuntime /\ Fresh \in Tracking
BY CellsAssumption DEF Idle, ZoneRuntime, Fresh, Tracking, NoRef, Unset, NoZone, Slots, Zones

\* Replacing the confirmed_targets of a runtime changes nothing else in it.
LEMMA BitsFacts ==
    ASSUME NEW r \in ZoneRuntime, NEW b \in SUBSET Slots
    PROVE  /\ Bits(r, b) \in ZoneRuntime
           /\ Bits(r, b).bits = b /\ Bits(r, b).state = r.state /\ Bits(r, b).since = r.since
BY DEF Bits, ZoneRuntime

\* Replacing the runtimes of a scratch copy changes nothing else in it.
LEMMA ZonesReplaced ==
    ASSUME NEW e \in Scratch, NEW zn \in [Zones -> ZoneRuntime]
    PROVE  LET f == [e EXCEPT !.zone = zn]
           IN  /\ f \in Scratch /\ f.zone = zn /\ f.tgt = e.tgt /\ f.w = e.w
               /\ f.ts = e.ts /\ f.seen = e.seen /\ f.at = e.at /\ f.from = e.from
BY DEF Scratch

\* Replacing the tracking of one slot changes nothing else in a scratch copy.
LEMMA TargetReplaced ==
    ASSUME NEW e \in Scratch, NEW i \in Slots, NEW t \in Tracking
    PROVE  LET f == Target(e, i, t)
           IN  /\ f \in Scratch /\ f.zone = e.zone /\ f.tgt = [e.tgt EXCEPT ![i] = t]
               /\ f.w = e.w /\ f.ts = e.ts /\ f.seen = e.seen /\ f.at = e.at /\ f.from = e.from
BY DEF Scratch, Target

\* Step 0 leaves the invariant, and nobody confirmed or placed yet.
LEMMA RelocateMid ==
    ASSUME Setup, NEW e, Mid(e), NEW i \in Slots, e.seen = {}
    PROVE  /\ Mid(Relocate(e, i))
           /\ Relocate(e, i).seen = {}
           /\ Relocate(e, i).at = e.at
<1>1. CASE ~TakenOver(e, i)
    BY <1>1 DEF Relocate
<1>2. CASE TakenOver(e, i) /\ ParkSlots(e, i) = {}
  <2>1. Relocate(e, i) = Clobber(e, i) BY <1>2 DEF Relocate
  <2> DEFINE zn == [z \in Zones |-> Bits(e.zone[z], e.zone[z].bits \ {i})]
  <2>2. \A z \in Zones : e.zone[z] \in ZoneRuntime /\ e.zone[z].bits \in SUBSET Slots
      BY DEF Mid, Scratch, ZoneRuntime
  <2>3. \A z \in Zones : /\ zn[z] \in ZoneRuntime
                         /\ zn[z].bits = e.zone[z].bits \ {i}
                         /\ zn[z].state = e.zone[z].state /\ zn[z].since = e.zone[z].since
      BY <2>2, BitsFacts
  <2>4. zn \in [Zones -> ZoneRuntime] BY <2>3
  <2>5. \A z \in Zones \ Configured : zn[z] = Idle
      BY <2>2 DEF Mid, Disabled, Idle, Bits
  <2> HIDE DEF zn
  <2>6. Clobber(e, i) = [e EXCEPT !.zone = zn] BY DEF Clobber, zn
  <2>7. /\ Clobber(e, i) \in Scratch /\ Clobber(e, i).zone = zn /\ Clobber(e, i).tgt = e.tgt
        /\ Clobber(e, i).seen = e.seen /\ Clobber(e, i).at = e.at
      BY <2>4, <2>6, ZonesReplaced DEF Mid
  <2>8. Silent(Clobber(e, i))
      BY <2>3, <2>7, SetupFacts DEF Mid, Silent
  <2>9. /\ Grounded(Clobber(e, i)) /\ Settled(Clobber(e, i)) /\ Timed(Clobber(e, i))
        /\ Disabled(Clobber(e, i))
      BY <2>3, <2>5, <2>7 DEF Mid, Grounded, Settled, Timed, Disabled
  <2> QED BY <2>1, <2>7, <2>8, <2>9 DEF Mid
<1>3. CASE TakenOver(e, i) /\ ParkSlots(e, i) # {}
  <2> DEFINE j == CHOOSE j \in ParkSlots(e, i) : \A k \in ParkSlots(e, i) : k <= j
  <2>1. j \in ParkSlots(e, i)
    <3>1. ParkSlots(e, i) \subseteq 0..2 BY DEF ParkSlots, Slots
    <3>2. \E m \in ParkSlots(e, i) : \A k \in ParkSlots(e, i) : k <= m
        BY <3>1, <1>3, SMT
    <3> QED BY <3>2
  <2>2. Relocate(e, i) = Park(e, i, j) BY <1>3 DEF Relocate
  <2> HIDE DEF j
  <2>3. j \in Slots /\ j # i /\ \A z \in Zones : j \notin e.zone[z].bits
      BY <2>1 DEF ParkSlots
  <2> DEFINE zn == [z \in Zones |-> IF i \in e.zone[z].bits
                        THEN Bits(e.zone[z], (e.zone[z].bits \ {i}) \cup {j}) ELSE e.zone[z]]
             tg == [e.tgt EXCEPT ![i] = Fresh, ![j] = e.tgt[i]]
  <2>4. \A z \in Zones : e.zone[z] \in ZoneRuntime /\ e.zone[z].bits \in SUBSET Slots
      BY DEF Mid, Scratch, ZoneRuntime
  <2>5. \A z \in Zones :
          /\ zn[z] \in ZoneRuntime
          /\ zn[z].state = e.zone[z].state /\ zn[z].since = e.zone[z].since
          /\ zn[z].bits = IF i \in e.zone[z].bits THEN (e.zone[z].bits \ {i}) \cup {j}
                          ELSE e.zone[z].bits
      BY <2>3, <2>4, BitsFacts
  <2>6. zn \in [Zones -> ZoneRuntime] BY <2>5
  <2>7. \A z \in Zones \ Configured : zn[z] = Idle
      BY DEF Mid, Disabled, Idle
  <2>8. /\ tg \in [Slots -> Tracking] /\ tg[i] = Fresh /\ tg[j] = e.tgt[i]
        /\ \A k \in Slots \ {i, j} : tg[k] = e.tgt[k]
      BY <2>3, IdleTypes DEF Mid, Scratch
  <2> HIDE DEF zn
  <2>9. Park(e, i, j) = [e EXCEPT !.tgt = tg, !.zone = zn] BY DEF Park, zn
  <2> HIDE DEF tg
  <2>10. /\ Park(e, i, j) \in Scratch /\ Park(e, i, j).zone = zn /\ Park(e, i, j).tgt = tg
         /\ Park(e, i, j).seen = e.seen /\ Park(e, i, j).at = e.at
      BY <2>6, <2>8, <2>9 DEF Mid, Scratch
  <2>11. Silent(Park(e, i, j))
    <3>1. SUFFICES ASSUME NEW k \in Slots, tg[k].dismissed \in grid.room
                   PROVE  k \notin zn[grid.zone[tg[k].dismissed]].bits
        BY <2>10 DEF Silent
    <3>2. k # i BY <3>1, <2>8, SetupFacts DEF Fresh
    <3>3. grid.zone[tg[k].dismissed] \in Zones BY <3>1, SetupFacts
    <3> DEFINE z == grid.zone[tg[k].dismissed]
    <3>4. CASE k = j
        BY <3>1, <3>3, <3>4, <2>3, <2>5, <2>8 DEF Mid, Silent
    <3>5. CASE k # j
      <4>1. tg[k] = e.tgt[k] BY <3>2, <3>5, <2>8
      <4>2. k \notin e.zone[z].bits BY <4>1, <3>1 DEF Mid, Silent
      <4>3. zn[z].bits \subseteq e.zone[z].bits \cup {j} BY <3>3, <2>5
      <4> QED BY <4>2, <4>3, <3>5
    <3> QED BY <3>4, <3>5
  <2>12. Grounded(Park(e, i, j)) BY <2>10 DEF Grounded
  <2>13. Settled(Park(e, i, j)) BY <2>5, <2>10 DEF Mid, Settled
  <2>14. Timed(Park(e, i, j)) BY <2>5, <2>10 DEF Mid, Timed
  <2>15. Disabled(Park(e, i, j)) BY <2>7, <2>10 DEF Mid, Disabled
  <2> QED BY <2>2, <2>10, <2>11, <2>12, <2>13, <2>14, <2>15 DEF Mid
<1> QED BY <1>1, <1>2, <1>3

-----------------------------------------------------------------------------
(* Step 1                                                                  *)

\* An active slot of the window has a position (get_windowed_targets).
LEMMA WindowFacts ==
    ASSUME NEW e \in Scratch, NEW i \in Slots
    PROVE  /\ e.w[i].active \in BOOLEAN /\ e.w[i].overlay \in BOOLEAN
           /\ e.w[i].active => e.w[i].pos \in Points
<1>1. e.w \in Windows BY DEF Scratch
<1>2. e.w \in [Slots -> TargetWindow] BY <1>1, WindowsAssumption
<1> QED BY <1>1, <1>2, WindowsAssumption DEF TargetWindow

\* A change to the tracking of one slot keeps the invariant, provided that it
\* does not invent a dismissal.
LEMMA TargetMid ==
    ASSUME Setup, NEW e, Mid(e), NEW i \in Slots, NEW t \in Tracking,
           t.dismissed = e.tgt[i].dismissed \/ t.dismissed = NoCell
    PROVE  Mid(Target(e, i, t)) /\ Target(e, i, t).at = e.at
<1> DEFINE f == Target(e, i, t)
<1>1. /\ f \in Scratch /\ f.zone = e.zone /\ f.tgt = [e.tgt EXCEPT ![i] = t]
      /\ f.w = e.w /\ f.seen = e.seen /\ f.at = e.at
    BY TargetReplaced DEF Mid
<1> HIDE DEF f
<1>2. Silent(f)
  <2>1. SUFFICES ASSUME NEW k \in Slots, f.tgt[k].dismissed \in grid.room
                 PROVE  k \notin f.zone[grid.zone[f.tgt[k].dismissed]].bits
      BY DEF Silent
  <2>2. e.tgt \in [Slots -> Tracking] BY DEF Mid, Scratch
  <2>3. f.tgt[k].dismissed = e.tgt[k].dismissed BY <1>1, <2>1, <2>2, SetupFacts
  <2> QED BY <1>1, <2>1, <2>3 DEF Mid, Silent
<1>3. Grounded(f) /\ Settled(f) /\ Timed(f) /\ Disabled(f)
    BY <1>1 DEF Mid, Grounded, Settled, Timed, Disabled
<1> QED BY <1>1, <1>2, <1>3 DEF Mid, f

\* Placing a slot on a cell of the room keeps the invariant.
LEMMA PlaceMid ==
    ASSUME Setup, NEW e, Mid(e), NEW i \in Slots, NEW c \in grid.room,
           e.w[i].active, e.at[i] = NoZone
    PROVE  LET f == Place(e, i, c)
           IN  /\ Mid(f)
               /\ f.at = [e.at EXCEPT ![i] = grid.zone[c]]
               /\ f.w = e.w
               /\ f.tgt[i].dismissed = e.tgt[i].dismissed
<1> DEFINE f == Place(e, i, c)
           t == [e.tgt[i] EXCEPT !.sticky = e.w[i].overlay \/ grid.overlay[c] = "entry",
                                 !.lastZone = grid.zone[c], !.xy = e.w[i].pos]
           from == IF e.tgt[i].prev = NoCell THEN NoZone ELSE grid.zone[e.tgt[i].prev]
<1>1. e \in Scratch /\ c \in Cells /\ grid.zone[c] \in Zones
    BY SetupFacts DEF Mid
<1>2. e.tgt[i] \in Tracking BY <1>1 DEF Scratch
<1>3. t \in Tracking /\ t.dismissed = e.tgt[i].dismissed
    BY <1>1, <1>2, WindowFacts DEF Tracking
<1>4. from \in Zones \cup {NoZone} BY <1>2, SetupFacts DEF Tracking
<1> HIDE DEF t, from
<1>5. f = [e EXCEPT !.tgt[i] = t, !.at[i] = grid.zone[c], !.from[i] = from]
    BY DEF f, Place, t, from
<1> HIDE DEF f
<1>6. /\ f \in Scratch /\ f.zone = e.zone /\ f.tgt = [e.tgt EXCEPT ![i] = t]
      /\ f.w = e.w /\ f.seen = e.seen /\ f.at = [e.at EXCEPT ![i] = grid.zone[c]]
    BY <1>1, <1>3, <1>4, <1>5 DEF Scratch
<1>7. /\ e.tgt \in [Slots -> Tracking] /\ e.at \in [Slots -> Zones \cup {NoZone}]
      /\ e.seen \subseteq Zones
    BY <1>1 DEF Scratch
<1>8. \A k \in Slots : f.tgt[k].dismissed = e.tgt[k].dismissed
    BY <1>3, <1>6, <1>7
<1>9. Silent(f) BY <1>6, <1>8 DEF Mid, Silent
<1>10. Grounded(f)
  <2>1. SUFFICES ASSUME NEW z \in e.seen
                 PROVE  \E k \in e.zone[z].bits : e.w[k].active /\ f.at[k] = z
      BY <1>6 DEF Grounded
  <2>2. PICK k \in e.zone[z].bits : e.w[k].active /\ e.at[k] = z
      BY DEF Mid, Grounded
  <2>3. z # NoZone /\ k \in Slots
      BY <1>1, <1>7 DEF Zones, NoZone, Scratch, ZoneRuntime
  <2> QED BY <2>2, <2>3, <1>6, <1>7
<1>11. Settled(f) /\ Timed(f) /\ Disabled(f)
    BY <1>6 DEF Mid, Settled, Timed, Disabled
<1> QED BY <1>6, <1>8, <1>9, <1>10, <1>11 DEF Mid, f

\* Confirming a placed slot in its zone keeps the invariant.
LEMMA ConfirmMid ==
    ASSUME Setup, NEW e, Mid(e), NEW i \in Slots, NEW c \in grid.room,
           e.w[i].active, e.at[i] = grid.zone[c], grid.zone[c] \in Configured,
           e.tgt[i].dismissed = NoCell
    PROVE  Mid(Confirm(e, i, c)) /\ Confirm(e, i, c).at = e.at
<1> DEFINE z == grid.zone[c]
           f == Confirm(e, i, c)
           t == [e.tgt[i] EXCEPT !.prev = c, !.gate = 0]
           r == Bits(e.zone[z], e.zone[z].bits \cup {i})
<1>1. e \in Scratch /\ c \in Cells /\ z \in Zones
    BY SetupFacts DEF Mid
<1>2. e.tgt[i] \in Tracking /\ e.zone[z] \in ZoneRuntime /\ e.zone[z].bits \subseteq Slots
    BY <1>1 DEF Scratch, ZoneRuntime
<1>3. t \in Tracking /\ t.dismissed = NoCell
  <2>1. t \in Tracking BY <1>1, <1>2, 0 \in 0..1 DEF Tracking
  <2>2. t.dismissed = e.tgt[i].dismissed BY <1>2 DEF Tracking
  <2> QED BY <2>1, <2>2
<1>4. /\ r \in ZoneRuntime /\ r.bits = e.zone[z].bits \cup {i}
      /\ r.state = e.zone[z].state /\ r.since = e.zone[z].since
    BY <1>2, BitsFacts
<1> HIDE DEF t, r
<1>5. f = [e EXCEPT !.tgt[i] = t, !.zone[z] = r, !.seen = e.seen \cup {z}]
    BY DEF f, Confirm, t, r
<1> HIDE DEF f
<1>6. /\ f \in Scratch /\ f.zone = [e.zone EXCEPT ![z] = r] /\ f.tgt = [e.tgt EXCEPT ![i] = t]
      /\ f.w = e.w /\ f.seen = e.seen \cup {z} /\ f.at = e.at
    BY <1>1, <1>3, <1>4, <1>5 DEF Scratch
<1>7. e.tgt \in [Slots -> Tracking] /\ e.zone \in [Zones -> ZoneRuntime] /\ e.seen \subseteq Zones
    BY <1>1 DEF Scratch
<1>8. /\ f.zone[z] = r
      /\ \A y \in Zones \ {z} : f.zone[y] = e.zone[y]
    BY <1>1, <1>6, <1>7
<1>9. Silent(f)
  <2>1. SUFFICES ASSUME NEW k \in Slots, f.tgt[k].dismissed \in grid.room
                 PROVE  k \notin f.zone[grid.zone[f.tgt[k].dismissed]].bits
      BY DEF Silent
  <2>2. k # i BY <2>1, <1>3, <1>6, <1>7, SetupFacts
  <2>3. f.tgt[k] = e.tgt[k] BY <2>2, <1>6, <1>7
  <2>4. k \notin e.zone[grid.zone[e.tgt[k].dismissed]].bits
      BY <2>1, <2>3 DEF Mid, Silent
  <2>5. grid.zone[e.tgt[k].dismissed] \in Zones BY <2>1, <2>3, SetupFacts
  <2>6. \A y \in Zones : f.zone[y].bits \subseteq e.zone[y].bits \cup {i} BY <1>4, <1>8
  <2> QED BY <2>2, <2>3, <2>4, <2>5, <2>6
<1>10. Grounded(f)
  <2>1. SUFFICES ASSUME NEW y \in e.seen \cup {z}
                 PROVE  \E k \in f.zone[y].bits : e.w[k].active /\ e.at[k] = y
      BY <1>6 DEF Grounded
  <2>2. CASE y = z BY <2>2, <1>4, <1>8
  <2>3. CASE y # z
    <3>1. PICK k \in e.zone[y].bits : e.w[k].active /\ e.at[k] = y
        BY <2>3 DEF Mid, Grounded
    <3> QED BY <3>1, <2>3, <1>7, <1>8
  <2> QED BY <2>2, <2>3
<1>11. Settled(f) BY <1>4, <1>6, <1>8 DEF Mid, Settled
<1>12. Timed(f) BY <1>4, <1>6, <1>8 DEF Mid, Timed
<1>13. Disabled(f) BY <1>6, <1>8 DEF Mid, Disabled
<1> QED BY <1>6, <1>9, <1>10, <1>11, <1>12, <1>13 DEF Mid, f

\* What a dismissal at cell c does to every zone.
LEMMA WithoutEvidenceFacts ==
    ASSUME Setup, NEW zn \in [Zones -> ZoneRuntime], NEW i \in Slots, NEW c \in grid.room,
           \A z \in Zones : z \notin Configured => zn[z] = Idle
    PROVE  /\ WithoutEvidence(zn, i, c) \in [Zones -> ZoneRuntime]
           /\ i \notin WithoutEvidence(zn, i, c)[grid.zone[c]].bits
           /\ \A z \in Zones :
                /\ zn[z].bits \ {i} \subseteq WithoutEvidence(zn, i, c)[z].bits
                /\ WithoutEvidence(zn, i, c)[z].bits \subseteq zn[z].bits
                /\ \/ WithoutEvidence(zn, i, c)[z] = Idle
                   \/ /\ WithoutEvidence(zn, i, c)[z].state = zn[z].state
                      /\ WithoutEvidence(zn, i, c)[z].since = zn[z].since
                      /\ zn[z].bits # {} => WithoutEvidence(zn, i, c)[z].bits # {}
<1> DEFINE y == grid.zone[c]
           r == IF zn[y].bits \subseteq {i} THEN Idle ELSE Bits(zn[y], zn[y].bits \ {i})
           new == WithoutEvidence(zn, i, c)
<1>1. y \in Zones /\ zn[y] \in ZoneRuntime /\ zn[y].bits \in SUBSET Slots
    BY SetupFacts DEF ZoneRuntime
<1>2. /\ r \in ZoneRuntime /\ i \notin r.bits
      /\ zn[y].bits \ {i} \subseteq r.bits /\ r.bits \subseteq zn[y].bits
      /\ \/ r = Idle
         \/ r.state = zn[y].state /\ r.since = zn[y].since /\ r.bits # {}
  <2>1. CASE zn[y].bits \subseteq {i}
    <3>1. r = Idle BY <2>1
    <3> QED BY <3>1, <2>1, IdleTypes DEF Idle
  <2>2. CASE ~(zn[y].bits \subseteq {i})
    <3>1. r = Bits(zn[y], zn[y].bits \ {i}) BY <2>2
    <3>2. zn[y].bits \ {i} \in SUBSET Slots BY <1>1
    <3>3. /\ r \in ZoneRuntime /\ r.bits = zn[y].bits \ {i}
          /\ r.state = zn[y].state /\ r.since = zn[y].since
        BY <1>1, <3>1, <3>2, BitsFacts
    <3> QED BY <3>3, <2>2
  <2> QED BY <2>1, <2>2
<1>3. CASE y \in Configured
  <2>1. new = [zn EXCEPT ![y] = r] BY <1>3 DEF WithoutEvidence
  <2> HIDE DEF new, r
  <2>2. new[y] = r /\ \A z \in Zones \ {y} : new[z] = zn[z]
      BY <1>1, <2>1
  <2>3. new \in [Zones -> ZoneRuntime] BY <1>2, <2>1
  <2>4. ASSUME NEW z \in Zones
        PROVE  /\ zn[z].bits \ {i} \subseteq new[z].bits /\ new[z].bits \subseteq zn[z].bits
               /\ \/ new[z] = Idle
                  \/ /\ new[z].state = zn[z].state /\ new[z].since = zn[z].since
                     /\ zn[z].bits # {} => new[z].bits # {}
    <3>1. CASE z = y BY <3>1, <1>2, <2>2
    <3>2. CASE z # y BY <3>2, <2>2
    <3> QED BY <3>1, <3>2
  <2>5. i \notin new[y].bits BY <1>2, <2>2
  <2> QED BY <2>3, <2>4, <2>5 DEF new
<1>4. CASE y \notin Configured
  <2>1. new = zn BY <1>4 DEF WithoutEvidence
  <2>2. zn[y] = Idle BY <1>1, <1>4
  <2> QED BY <2>1, <2>2 DEF Idle
<1> QED BY <1>3, <1>4

\* A slot reset by a dismissal remembers the cell and nothing else it could count by.
LEMMA DismissedAtFacts ==
    ASSUME NEW t \in Tracking, NEW c \in Cells \cup {NoCell}
    PROVE  DismissedAt(t, c) \in Tracking /\ DismissedAt(t, c).dismissed = c
BY IdleTypes DEF DismissedAt, Tracking, Fresh

\* The stuck rule dismisses a slot that has not been placed in this tick.
LEMMA StuckMid ==
    ASSUME Setup, NEW e, Mid(e), NEW i \in Slots, NEW c \in grid.room, e.at[i] = NoZone
    PROVE  /\ Mid([e EXCEPT !.zone = WithoutEvidence(e.zone, i, c),
                            !.tgt[i] = DismissedAt(e.tgt[i], c)])
           /\ [e EXCEPT !.zone = WithoutEvidence(e.zone, i, c),
                        !.tgt[i] = DismissedAt(e.tgt[i], c)].at = e.at
<1> DEFINE zn == WithoutEvidence(e.zone, i, c)
           t == DismissedAt(e.tgt[i], c)
           f == [e EXCEPT !.zone = zn, !.tgt[i] = t]
<1>1. e \in Scratch /\ c \in Cells BY SetupFacts DEF Mid
<1>2. /\ e.tgt \in [Slots -> Tracking] /\ e.zone \in [Zones -> ZoneRuntime]
      /\ e.seen \subseteq Zones
      /\ \A z \in Zones : e.zone[z].bits \in SUBSET Slots
    BY <1>1 DEF Scratch, ZoneRuntime
<1>3. t \in Tracking /\ t.dismissed = c
    BY <1>1, <1>2, DismissedAtFacts
<1>4. \A z \in Zones : z \notin Configured => e.zone[z] = Idle
    BY DEF Mid, Disabled
<1>5. /\ zn \in [Zones -> ZoneRuntime]
      /\ i \notin zn[grid.zone[c]].bits
      /\ \A z \in Zones :
           /\ e.zone[z].bits \ {i} \subseteq zn[z].bits /\ zn[z].bits \subseteq e.zone[z].bits
           /\ \/ zn[z] = Idle
              \/ zn[z].state = e.zone[z].state /\ zn[z].since = e.zone[z].since
    BY <1>2, <1>4, WithoutEvidenceFacts
<1>6. \A z \in Zones : z \notin Configured => zn[z] = Idle
  <2>1. SUFFICES ASSUME NEW z \in Zones, z \notin Configured PROVE zn[z] = Idle
      OBVIOUS
  <2>2. \/ zn = e.zone
        \/ \E r : zn = [e.zone EXCEPT ![grid.zone[c]] = r] /\ grid.zone[c] \in Configured
      BY DEF WithoutEvidence
  <2> QED BY <2>1, <2>2, <1>2, <1>4, SetupFacts
<1> HIDE DEF zn, t
<1>7. /\ f \in Scratch /\ f.zone = zn /\ f.tgt = [e.tgt EXCEPT ![i] = t]
      /\ f.w = e.w /\ f.seen = e.seen /\ f.at = e.at
    BY <1>1, <1>3, <1>5 DEF Scratch
<1> HIDE DEF f
<1>8. Silent(f)
  <2>1. SUFFICES ASSUME NEW k \in Slots, f.tgt[k].dismissed \in grid.room
                 PROVE  k \notin zn[grid.zone[f.tgt[k].dismissed]].bits
      BY <1>7 DEF Silent
  <2>2. CASE k = i BY <2>2, <1>2, <1>3, <1>5, <1>7
  <2>3. CASE k # i
    <3>1. f.tgt[k] = e.tgt[k] BY <2>3, <1>2, <1>7
    <3>2. grid.zone[e.tgt[k].dismissed] \in Zones BY <2>1, <3>1, SetupFacts
    <3> QED BY <2>1, <3>1, <3>2, <1>5 DEF Mid, Silent
  <2> QED BY <2>2, <2>3
<1>9. Grounded(f)
  <2>1. SUFFICES ASSUME NEW z \in e.seen
                 PROVE  \E k \in zn[z].bits : e.w[k].active /\ e.at[k] = z
      BY <1>7 DEF Grounded
  <2>2. PICK k \in e.zone[z].bits : e.w[k].active /\ e.at[k] = z
      BY DEF Mid, Grounded
  <2>3. k # i BY <2>2, <1>2 DEF Zones, NoZone
  <2> QED BY <2>2, <2>3, <1>2, <1>5
<1>10. Settled(f)
  <2>1. SUFFICES ASSUME NEW z \in Zones, z \notin e.seen, zn[z].state = "CLEAR"
                 PROVE  zn[z].bits = {}
      BY <1>7 DEF Settled
  <2>2. CASE zn[z] = Idle BY <2>2 DEF Idle
  <2>3. CASE zn[z].state = e.zone[z].state
      BY <2>1, <2>3, <1>5 DEF Mid, Settled
  <2> QED BY <2>2, <2>3, <1>5
<1>11. Timed(f)
  <2>1. SUFFICES ASSUME NEW z \in Zones, zn[z].state # "PENDING"
                 PROVE  zn[z].since = Unset
      BY <1>7 DEF Timed
  <2>2. CASE zn[z] = Idle BY <2>2 DEF Idle
  <2>3. CASE zn[z].state = e.zone[z].state /\ zn[z].since = e.zone[z].since
      BY <2>1, <2>3 DEF Mid, Timed
  <2> QED BY <2>2, <2>3, <1>5
<1>12. Disabled(f) BY <1>6, <1>7 DEF Mid, Disabled
<1> QED BY <1>7, <1>8, <1>9, <1>10, <1>11, <1>12 DEF Mid, f, zn, t

\* Each outcome for a placed slot (lost, followed, gated, confirmed) keeps the invariant.
LEMMA JudgeMid ==
    ASSUME Setup, NEW e, Mid(e), NEW i \in Slots, NEW c \in grid.room,
           e.w[i].active, e.at[i] = grid.zone[c], e.tgt[i].dismissed = NoCell
    PROVE  Mid(Judge(e, i, c)) /\ Judge(e, i, c).at = e.at
<1>1. e.tgt[i] \in Tracking /\ c \in Cells
    BY SetupFacts DEF Mid, Scratch
<1>2. /\ Mid(Lose(e, i)) /\ Lose(e, i).at = e.at
  <2>1. [e.tgt[i] EXCEPT !.prev = NoCell, !.gate = 0] \in Tracking
      BY <1>1, 0 \in 0..1 DEF Tracking
  <2>2. [e.tgt[i] EXCEPT !.prev = NoCell, !.gate = 0].dismissed = e.tgt[i].dismissed
      BY <1>1 DEF Tracking
  <2> QED BY <2>1, <2>2, TargetMid DEF Lose
<1>3. Mid(Follow(e, i, c)) /\ Follow(e, i, c).at = e.at
  <2>1. [e.tgt[i] EXCEPT !.prev = c] \in Tracking
      BY <1>1 DEF Tracking
  <2>2. [e.tgt[i] EXCEPT !.prev = c].dismissed = e.tgt[i].dismissed
      BY <1>1 DEF Tracking
  <2> QED BY <2>1, <2>2, TargetMid DEF Follow
<1>4. ASSUME e.tgt[i].gate = 0 PROVE Mid(GateOnce(e, i, c)) /\ GateOnce(e, i, c).at = e.at
  <2>1. [e.tgt[i] EXCEPT !.prev = c, !.gate = e.tgt[i].gate + 1] \in Tracking
      BY <1>1, <1>4, 0 + 1 \in 0..1 DEF Tracking
  <2>2. [e.tgt[i] EXCEPT !.prev = c, !.gate = e.tgt[i].gate + 1].dismissed = e.tgt[i].dismissed
      BY <1>1 DEF Tracking
  <2> QED BY <2>1, <2>2, TargetMid DEF GateOnce
<1>5. ASSUME grid.zone[c] \in Configured PROVE Mid(Confirm(e, i, c)) /\ Confirm(e, i, c).at = e.at
    BY <1>5, ConfirmMid
<1>6. \/ Judge(e, i, c) = Lose(e, i)
      \/ Judge(e, i, c) = Follow(e, i, c)
      \/ Judge(e, i, c) = GateOnce(e, i, c) /\ e.tgt[i].gate = 0
      \/ Judge(e, i, c) = Confirm(e, i, c) /\ grid.zone[c] \in Configured
    BY DEF Judge
<1> QED BY <1>2, <1>3, <1>4, <1>5, <1>6

\* Step 1 keeps the invariant and places no slot but its own.
LEMMA EvaluateMid ==
    ASSUME Setup, NEW e, Mid(e), NEW i \in Slots, e.at[i] = NoZone
    PROVE  /\ Mid(Evaluate(e, i))
           /\ \A k \in Slots \ {i} : Evaluate(e, i).at[k] = e.at[k]
<1> DEFINE c == grid.cell[e.w[i].pos]
           unseen == [e.tgt[i] EXCEPT !.prev = NoCell, !.gate = 0, !.stuck = NoRef]
           lost == [e.tgt[i] EXCEPT !.prev = NoCell, !.gate = 0]
           free == [e.tgt[i] EXCEPT !.dismissed = NoCell]
<1>1. e \in Scratch /\ e.tgt \in [Slots -> Tracking] /\ e.tgt[i] \in Tracking
    BY DEF Mid, Scratch
<1>2. /\ unseen \in Tracking /\ lost \in Tracking /\ free \in Tracking
      /\ unseen.dismissed = e.tgt[i].dismissed /\ lost.dismissed = e.tgt[i].dismissed
      /\ free.dismissed = NoCell
  <2>0. NoRef \in [at : Points \cup {NoPoint}, since : Int] BY DEF NoRef
  <2>1. unseen \in Tracking BY <1>1, <2>0, 0 \in 0..1 DEF Tracking
  <2>2. lost \in Tracking BY <1>1, 0 \in 0..1 DEF Tracking
  <2>3. free \in Tracking BY <1>1 DEF Tracking
  <2> QED BY <1>1, <2>1, <2>2, <2>3 DEF Tracking
<1>3. CASE ~(e.w[i].active /\ c \in grid.room)
  <2>1. Evaluate(e, i) = Target(e, i, unseen) BY <1>3 DEF Evaluate, OutOfSight
  <2> HIDE DEF unseen
  <2>2. Mid(Target(e, i, unseen)) /\ Target(e, i, unseen).at = e.at BY <1>2, TargetMid
  <2> QED BY <2>1, <2>2
<1>4. CASE e.w[i].active /\ c \in grid.room
  <2> DEFINE moved == Target(e, i, free)
             watched == WatchStuck(moved, i)
  <2>1. Evaluate(e, i) = InRoom(e, i, c) BY <1>4 DEF Evaluate
  <2>2. CASE e.tgt[i].dismissed = c
    <3>1. Evaluate(e, i) = Target(e, i, lost) BY <2>1, <2>2 DEF InRoom, Lose
    <3> HIDE DEF lost
    <3>2. Mid(Target(e, i, lost)) /\ Target(e, i, lost).at = e.at BY <1>2, TargetMid
    <3> QED BY <3>1, <3>2
  <2>3. CASE e.tgt[i].dismissed # c /\ Stuck(moved, i)
    <3>1. Evaluate(e, i) = [e EXCEPT !.zone = WithoutEvidence(e.zone, i, c),
                                     !.tgt[i] = DismissedAt(e.tgt[i], c)]
        BY <2>1, <2>3 DEF InRoom
    <3> HIDE DEF c
    <3>2. /\ Mid([e EXCEPT !.zone = WithoutEvidence(e.zone, i, c),
                           !.tgt[i] = DismissedAt(e.tgt[i], c)])
          /\ [e EXCEPT !.zone = WithoutEvidence(e.zone, i, c),
                       !.tgt[i] = DismissedAt(e.tgt[i], c)].at = e.at
        BY <1>4, StuckMid
    <3> QED BY <3>1, <3>2
  <2>4. CASE e.tgt[i].dismissed # c /\ ~Stuck(moved, i)
    <3>1. /\ Mid(moved) /\ moved.at = e.at /\ moved \in Scratch
          /\ moved.tgt[i] = free /\ moved.w = e.w /\ moved.ts = e.ts
      <4> HIDE DEF free
      <4>1. Mid(moved) /\ moved.at = e.at BY <1>2, TargetMid
      <4>2. /\ moved \in Scratch /\ moved.w = e.w /\ moved.ts = e.ts
            /\ moved.tgt = [e.tgt EXCEPT ![i] = free]
          BY <1>1, <1>2, TargetReplaced
      <4> HIDE DEF moved
      <4> QED BY <1>1, <4>1, <4>2
    <3>2. /\ Mid(watched) /\ watched.at = e.at /\ watched.w = e.w
          /\ watched.tgt[i].dismissed = NoCell
      <4>1. CASE watched = moved BY <4>1, <3>1, <1>2
      <4>2. CASE watched # moved
        <5> DEFINE t == [free EXCEPT !.stuck = [at |-> e.w[i].pos, since |-> e.ts]]
        <5>1. t \in Tracking /\ t.dismissed = NoCell
            BY <1>1, <1>2, <1>4, WindowFacts DEF Tracking, Scratch
        <5>3. watched = Target(moved, i, t) BY <4>2, <3>1 DEF WatchStuck
        <5> HIDE DEF t, moved, watched
        <5>4. Mid(watched) /\ watched.at = e.at BY <5>1, <5>3, <3>1, TargetMid
        <5>5. watched.w = e.w /\ watched.tgt = [moved.tgt EXCEPT ![i] = t]
            BY <5>1, <5>3, <3>1, TargetReplaced
        <5>6. watched.tgt[i] = t BY <5>5, <3>1 DEF Scratch
        <5> QED BY <5>1, <5>4, <5>5, <5>6
      <4> QED BY <4>1, <4>2
    <3>3. CASE grid.overlay[c] = "suppress"
      <4>1. Evaluate(e, i) = Lose(watched, i) BY <2>1, <2>4, <3>3 DEF InRoom
      <4> DEFINE t == [watched.tgt[i] EXCEPT !.prev = NoCell, !.gate = 0]
      <4>2. watched.tgt[i] \in Tracking BY <3>2 DEF Mid, Scratch
      <4>3. t \in Tracking BY <4>2, 0 \in 0..1 DEF Tracking
      <4>4. t.dismissed = NoCell BY <4>2, <3>2 DEF Tracking
      <4>5. Lose(watched, i) = Target(watched, i, t) BY DEF Lose
      <4> HIDE DEF t, watched
      <4> QED BY <4>1, <4>3, <4>4, <4>5, <3>2, TargetMid
    <3>4. CASE grid.overlay[c] # "suppress"
      <4> DEFINE placed == Place(watched, i, c)
      <4>1. Evaluate(e, i) = Judge(placed, i, c) BY <2>1, <2>4, <3>4 DEF InRoom
      <4> HIDE DEF watched
      <4>2. /\ Mid(placed) /\ placed.at = [e.at EXCEPT ![i] = grid.zone[c]]
            /\ placed.w = e.w /\ placed.tgt[i].dismissed = NoCell
          BY <1>4, <3>2, PlaceMid
      <4> HIDE DEF placed
      <4>3. e.at \in [Slots -> Zones \cup {NoZone}] BY <1>1 DEF Scratch
      <4>4. placed.at[i] = grid.zone[c] /\ \A k \in Slots \ {i} : placed.at[k] = e.at[k]
          BY <4>2, <4>3
      <4>5. Mid(Judge(placed, i, c)) /\ Judge(placed, i, c).at = placed.at
          BY <1>4, <4>2, <4>4, JudgeMid
      <4> QED BY <4>1, <4>4, <4>5
    <3> QED BY <3>3, <3>4
  <2> QED BY <2>2, <2>3, <2>4
<1> QED BY <1>3, <1>4

-----------------------------------------------------------------------------
(* Steps 2 and 2b                                                          *)

\* A change to the runtime of one enabled zone keeps the invariant if it brings
\* no bit, if the bit it takes is not that of a slot standing there, and if it
\* turns no zone CLEAR.
LEMMA ZoneMid ==
    ASSUME Setup, NEW e, Mid(e), NEW z \in Configured, NEW r \in ZoneRuntime,
           r.bits \subseteq e.zone[z].bits,
           \A k \in e.zone[z].bits : e.at[k] = z => k \in r.bits,
           r.state = "CLEAR" => e.zone[z].state = "CLEAR",
           r.state # "PENDING" => r.since = Unset
    PROVE  Mid([e EXCEPT !.zone[z] = r])
<1> DEFINE f == [e EXCEPT !.zone[z] = r]
<1>1. e \in Scratch /\ e.zone \in [Zones -> ZoneRuntime] /\ z \in Zones
    BY SetupFacts DEF Mid, Scratch
<1>2. /\ f \in Scratch /\ f.zone = [e.zone EXCEPT ![z] = r] /\ f.tgt = e.tgt
      /\ f.w = e.w /\ f.seen = e.seen /\ f.at = e.at
    BY <1>1 DEF Scratch
<1> HIDE DEF f
<1>3. f.zone[z] = r /\ \A y \in Zones \ {z} : f.zone[y] = e.zone[y]
    BY <1>1, <1>2
<1>4. \A y \in Zones : f.zone[y].bits \subseteq e.zone[y].bits
    BY <1>3
<1>5. Silent(f)
  <2>1. SUFFICES ASSUME NEW k \in Slots, e.tgt[k].dismissed \in grid.room
                 PROVE  k \notin f.zone[grid.zone[e.tgt[k].dismissed]].bits
      BY <1>2 DEF Silent
  <2>2. grid.zone[e.tgt[k].dismissed] \in Zones BY <2>1, SetupFacts
  <2> QED BY <2>1, <2>2, <1>4 DEF Mid, Silent
<1>6. Grounded(f)
  <2>1. SUFFICES ASSUME NEW y \in e.seen
                 PROVE  \E k \in f.zone[y].bits : e.w[k].active /\ e.at[k] = y
      BY <1>2 DEF Grounded
  <2>2. PICK k \in e.zone[y].bits : e.w[k].active /\ e.at[k] = y
      BY DEF Mid, Grounded
  <2>3. y \in Zones BY <1>1 DEF Scratch
  <2> QED BY <2>2, <2>3, <1>3
<1>7. Settled(f)
  <2>1. SUFFICES ASSUME NEW y \in Zones, y \notin e.seen, f.zone[y].state = "CLEAR"
                 PROVE  f.zone[y].bits = {}
      BY <1>2 DEF Settled
  <2>2. e.zone[y].state = "CLEAR" BY <2>1, <1>3
  <2> QED BY <2>1, <2>2, <1>4 DEF Mid, Settled
<1>8. Timed(f) BY <1>2, <1>3 DEF Mid, Timed
<1>9. Disabled(f) BY <1>2, <1>3 DEF Mid, Disabled
<1> QED BY <1>2, <1>5, <1>6, <1>7, <1>8, <1>9 DEF Mid, f

\* The back-dated start of a timer is an integer, perhaps a negative one.
LEMMA AcceleratedType ==
    ASSUME Setup, NEW e \in Scratch, NEW z \in Configured
    PROVE  Accelerated(e, z) \in Int
<1>1. e.ts \in Int BY DEF Scratch
<1>2. cfg[z].timeout \in Int /\ cfg[z].handoff \in Int BY SetupFacts
<1> QED BY <1>1, <1>2 DEF Accelerated

\* A handoff takes the bit of a slot that stands elsewhere, and keeps the invariant.
LEMMA HandoffMid ==
    ASSUME Setup, NEW e, Mid(e), NEW i \in Slots
    PROVE  Mid(Handoff(e, i)) /\ Handoff(e, i).at = e.at
<1> DEFINE z == e.from[i]
           r == e.zone[z]
           last == r.state = "OCCUPIED" /\ r.bits \subseteq {i}
           new == IF last THEN [state |-> "PENDING", since |-> Accelerated(e, z), bits |-> {}]
                  ELSE Bits(r, r.bits \ {i})
           moves == ~(z = NoZone \/ e.at[i] = NoZone \/ z = e.at[i] \/ z \notin Configured)
<1>1. CASE ~moves
    BY <1>1 DEF Handoff
<1>2. CASE moves
  <2>1. Handoff(e, i) = [e EXCEPT !.zone[z] = new] BY <1>2 DEF Handoff
  <2>2. e \in Scratch /\ z \in Configured /\ z \in Zones /\ e.at[i] # z
      BY <1>2, SetupFacts DEF Mid
  <2>3. r \in ZoneRuntime /\ r.bits \in SUBSET Slots
      BY <2>2 DEF Scratch, ZoneRuntime
  <2>4. new \in ZoneRuntime /\ new.bits = r.bits \ {i}
        /\ (new.state = "CLEAR" => r.state = "CLEAR")
        /\ (new.state # "PENDING" => new.since = Unset)
    <3>1. CASE last
      <4>1. new = [state |-> "PENDING", since |-> Accelerated(e, z), bits |-> {}] BY <3>1
      <4>2. Accelerated(e, z) \in Int BY <2>2, AcceleratedType
      <4> QED BY <3>1, <4>1, <4>2 DEF ZoneRuntime
    <3>2. CASE ~last
      <4>1. new = Bits(r, r.bits \ {i}) BY <3>2
      <4> HIDE DEF new
      <4>2. /\ new \in ZoneRuntime /\ new.bits = r.bits \ {i}
            /\ new.state = r.state /\ new.since = r.since
        <5>1. PICK q : q = r OBVIOUS
        <5>2. q \in ZoneRuntime /\ q.bits \ {i} \in SUBSET Slots /\ new = Bits(q, q.bits \ {i})
            BY <2>3, <4>1, <5>1
        <5> HIDE DEF r
        <5>3. /\ new \in ZoneRuntime /\ new.bits = q.bits \ {i}
              /\ new.state = q.state /\ new.since = q.since
            BY <5>2, BitsFacts
        <5> QED BY <5>1, <5>3
      <4>3. r.state # "PENDING" => r.since = Unset BY <2>2 DEF Mid, Timed
      <4> QED BY <4>2, <4>3
    <3> QED BY <3>1, <3>2
  <2> HIDE DEF new, z
  <2>5. Mid([e EXCEPT !.zone[z] = new])
      BY <2>2, <2>4, ZoneMid
  <2>6. [e EXCEPT !.zone[z] = new].at = e.at BY <2>2 DEF Scratch
  <2> QED BY <2>1, <2>5, <2>6
<1> QED BY <1>1, <1>2

\* An exit through an entry overlay keeps the invariant.
LEMMA OverlayExitMid ==
    ASSUME Setup, NEW e, Mid(e), NEW i \in Slots
    PROVE  Mid(OverlayExit(e, i)) /\ OverlayExit(e, i).at = e.at
<1> DEFINE z == e.tgt[i].lastZone
           r == e.zone[z]
           sooner == \/ r.state = "OCCUPIED"
                     \/ r.state = "PENDING" /\ r.since > Accelerated(e, z)
           t == [e.tgt[i] EXCEPT !.lastZone = NoZone, !.sticky = FALSE]
           new == IF r.bits \subseteq {i} /\ sooner
                  THEN [r EXCEPT !.state = "PENDING", !.since = Accelerated(e, z)] ELSE r
           exits == ~(e.at[i] # NoZone \/ ~e.tgt[i].sticky \/ z \notin Configured)
<1>1. CASE ~exits
    BY <1>1 DEF OverlayExit
<1>2. CASE exits
  <2>1. OverlayExit(e, i) = [e EXCEPT !.tgt[i] = t, !.zone[z] = new]
      BY <1>2 DEF OverlayExit
  <2>2. e \in Scratch /\ z \in Configured /\ z \in Zones /\ e.tgt[i] \in Tracking
      BY <1>2, SetupFacts DEF Mid, Scratch
  <2>3. r \in ZoneRuntime BY <2>2 DEF Scratch
  <2>4. t \in Tracking /\ t.dismissed = e.tgt[i].dismissed
      BY <2>2 DEF Tracking
  <2>5. new \in ZoneRuntime /\ new.bits = r.bits
        /\ (new.state = "CLEAR" => r.state = "CLEAR")
        /\ (new.state # "PENDING" => new.since = Unset)
    <3>1. CASE r.bits \subseteq {i} /\ sooner
      <4>1. new = [r EXCEPT !.state = "PENDING", !.since = Accelerated(e, z)] BY <3>1
      <4>2. Accelerated(e, z) \in Int BY <2>2, AcceleratedType
      <4> QED BY <4>1, <4>2, <2>3 DEF ZoneRuntime
    <3>2. CASE ~(r.bits \subseteq {i} /\ sooner)
      <4>1. new = r BY <3>2
      <4> QED BY <4>1, <2>2, <2>3 DEF Mid, Timed
    <3> QED BY <3>1, <3>2
  <2> HIDE DEF new, z, t
  <2> DEFINE f == Target(e, i, t)
  <2>6. Mid(f) /\ f.at = e.at BY <2>4, TargetMid
  <2>7. f.zone = e.zone BY <2>2, <2>4, TargetReplaced
  <2>8. [e EXCEPT !.tgt[i] = t, !.zone[z] = new] = [f EXCEPT !.zone[z] = new]
      BY <2>2 DEF f, Target, Scratch
  <2> HIDE DEF f
  <2>9. Mid([f EXCEPT !.zone[z] = new])
      BY <2>2, <2>5, <2>6, <2>7, ZoneMid
  <2>10. [f EXCEPT !.zone[z] = new].at = e.at BY <2>6 DEF Mid, Scratch
  <2> QED BY <2>1, <2>8, <2>9, <2>10
<1> QED BY <1>1, <1>2

-----------------------------------------------------------------------------
(* The steps in a row                                                      *)

\* No step of a tick changes the window it works on.
LEMMA WindowKept ==
    ASSUME NEW e, "w" \in DOMAIN e, NEW i
    PROVE  /\ Relocate(e, i).w = e.w
           /\ Evaluate(e, i).w = e.w
           /\ Handoff(e, i).w = e.w
           /\ OverlayExit(e, i).w = e.w
<1> DEFINE Same(f) == f.w = e.w /\ "w" \in DOMAIN f
<1>1. Relocate(e, i).w = e.w
    BY DEF Relocate, Clobber, Park
<1>2. Handoff(e, i).w = e.w
    BY DEF Handoff
<1>3. OverlayExit(e, i).w = e.w
    BY DEF OverlayExit
<1>4. ASSUME NEW f, Same(f), NEW t PROVE Same(Target(f, i, t))
    BY <1>4 DEF Target
<1>5. ASSUME NEW f, Same(f), NEW c
      PROVE  /\ Same(Lose(f, i)) /\ Same(Follow(f, i, c))
             /\ Same(GateOnce(f, i, c)) /\ Same(OutOfSight(f, i))
  <2> HIDE DEF Same
  <2> QED BY <1>4, <1>5 DEF Lose, Follow, GateOnce, OutOfSight
<1>6. ASSUME NEW f, Same(f), NEW c PROVE Same(Confirm(f, i, c)) /\ Same(Place(f, i, c))
    BY <1>6 DEF Confirm, Place
<1>7. ASSUME NEW f, Same(f), NEW c PROVE Same(Judge(f, i, c))
  <2> HIDE DEF Same
  <2> QED BY <1>5, <1>6, <1>7 DEF Judge
<1>8. ASSUME NEW f, Same(f) PROVE Same(WatchStuck(f, i))
  <2> HIDE DEF Same
  <2> QED BY <1>4, <1>8 DEF WatchStuck
<1>9. ASSUME NEW c PROVE Same(InRoom(e, i, c))
  <2> DEFINE moved == Target(e, i, [e.tgt[i] EXCEPT !.dismissed = NoCell])
             watched == WatchStuck(moved, i)
             still == [e EXCEPT !.zone = WithoutEvidence(e.zone, i, c),
                                !.tgt[i] = DismissedAt(e.tgt[i], c)]
  <2>1. Same(still) OBVIOUS
  <2>2. Same(e) OBVIOUS
  <2> HIDE DEF Same
  <2>3. Same(moved) BY <1>4, <2>2
  <2> HIDE DEF moved
  <2>4. Same(watched) BY <1>8, <2>3
  <2>5. Same(Lose(e, i)) BY <1>5, <2>2
  <2> HIDE DEF watched
  <2>6. Same(Lose(watched, i)) /\ Same(Place(watched, i, c)) BY <1>5, <1>6, <2>4
  <2>7. Same(Judge(Place(watched, i, c), i, c)) BY <1>7, <2>6
  <2>8. InRoom(e, i, c) \in {Lose(e, i), still, Lose(watched, i), Judge(Place(watched, i, c), i, c)}
      BY DEF InRoom, watched, moved
  <2> QED BY <2>1, <2>5, <2>6, <2>7, <2>8
<1>10. Evaluate(e, i).w = e.w
    BY <1>5, <1>9 DEF Evaluate
<1> QED BY <1>1, <1>2, <1>3, <1>10

\* A tick begins on a scratch copy that satisfies the invariant.
LEMMA BeginMid ==
    ASSUME IInv, NEW w \in Windows, NEW on \in SensorInputs, NEW ts \in Int
    PROVE  /\ Setup
           /\ Mid(Begin(w, on, ts))
           /\ Begin(w, on, ts).seen = {} /\ Begin(w, on, ts).w = w
           /\ \A i \in Slots : Begin(w, on, ts).at[i] = NoZone
<1> DEFINE e == Begin(w, on, ts)
<1>1. Setup /\ zone \in [Zones -> ZoneRuntime] /\ tgt \in [Slots -> Tracking]
    BY DEF IInv, TypeOK, Setup
<1>2. on \in SUBSET Kinds BY InputsAssumption
<1>3. e \in Scratch BY <1>1, <1>2 DEF Begin, Scratch
<1>4. /\ e.seen = {} /\ e.w = w /\ e.zone = zone /\ e.tgt = tgt
      /\ e.at = [i \in Slots |-> NoZone]
    BY DEF Begin
<1> HIDE DEF e
<1>5. Grounded(e) BY <1>4 DEF Grounded
<1>6. Settled(e) /\ Timed(e) BY <1>4 DEF IInv, ClearForgets, Settled, Timed
<1>7. Disabled(e) BY <1>4 DEF IInv, DisabledZonesClear, Disabled
<1>8. Silent(e) BY <1>4 DEF IInv, DismissedStaysSilent, Silent
<1> QED BY <1>1, <1>3, <1>4, <1>5, <1>6, <1>7, <1>8 DEF Mid, e

\* The scratch copy still satisfies it when the state machine of step 3 starts.
LEMMA MovedMid ==
    ASSUME IInv, NEW w \in Windows, NEW on \in SensorInputs, NEW ts \in Int,
           NEW moved, moved = ForSlots(OverlayExit, ForSlots(Handoff,
                        ForSlots(Evaluate, ForSlots(Relocate, Begin(w, on, ts)))))
    PROVE  Mid(moved) /\ moved.w = w
<1>s. 0 \in Slots /\ 1 \in Slots /\ 2 \in Slots BY DEF Slots
<1>d. \A e : Mid(e) => "w" \in DOMAIN e BY DEF Mid, Scratch
<1> DEFINE a == Begin(w, on, ts)
           b == ForSlots(Relocate, a)
           c == ForSlots(Evaluate, b)
           d == ForSlots(Handoff, c)
<1>1. Setup /\ Mid(a) /\ a.seen = {} /\ a.w = w /\ \A i \in Slots : a.at[i] = NoZone
    BY BeginMid
<1> HIDE DEF a
<1>2. Mid(b) /\ b.w = w /\ \A i \in Slots : b.at[i] = NoZone
  <2> DEFINE b0 == Relocate(a, 0)
             b1 == Relocate(b0, 1)
             b2 == Relocate(b1, 2)
  <2>1. Mid(b0) /\ b0.seen = {} /\ b0.at = a.at /\ b0.w = w
      BY <1>1, <1>s, <1>d, RelocateMid, WindowKept
  <2> HIDE DEF b0
  <2>2. Mid(b1) /\ b1.seen = {} /\ b1.at = a.at /\ b1.w = w
      BY <1>1, <2>1, <1>s, <1>d, RelocateMid, WindowKept
  <2> HIDE DEF b1
  <2>3. Mid(b2) /\ b2.at = a.at /\ b2.w = w
      BY <1>1, <2>2, <1>s, <1>d, RelocateMid, WindowKept
  <2>4. b = b2 BY DEF ForSlots, b0, b1
  <2> QED BY <1>1, <2>3, <2>4
<1> HIDE DEF b
<1>3. Mid(c) /\ c.w = w
  <2> DEFINE c0 == Evaluate(b, 0)
             c1 == Evaluate(c0, 1)
             c2 == Evaluate(c1, 2)
  <2>1. Mid(c0) /\ c0.w = w /\ \A i \in Slots \ {0} : c0.at[i] = NoZone
      BY <1>1, <1>2, <1>s, <1>d, EvaluateMid, WindowKept
  <2> HIDE DEF c0
  <2>2. Mid(c1) /\ c1.w = w /\ c1.at[2] = NoZone
    <3>1. c0.at[1] = NoZone /\ c0.at[2] = NoZone BY <2>1, <1>s
    <3> QED BY <1>1, <2>1, <3>1, <1>s, <1>d, EvaluateMid, WindowKept
  <2> HIDE DEF c1
  <2>3. Mid(c2) /\ c2.w = w
      BY <1>1, <2>2, <1>s, <1>d, EvaluateMid, WindowKept
  <2>4. c = c2 BY DEF ForSlots, c0, c1
  <2> QED BY <2>3, <2>4
<1> HIDE DEF c
<1>4. Mid(d) /\ d.w = w
  <2> DEFINE d0 == Handoff(c, 0)
             d1 == Handoff(d0, 1)
             d2 == Handoff(d1, 2)
  <2>1. Mid(d0) /\ d0.w = w BY <1>1, <1>3, <1>s, <1>d, HandoffMid, WindowKept
  <2> HIDE DEF d0
  <2>2. Mid(d1) /\ d1.w = w BY <1>1, <2>1, <1>s, <1>d, HandoffMid, WindowKept
  <2> HIDE DEF d1
  <2>3. Mid(d2) /\ d2.w = w BY <1>1, <2>2, <1>s, <1>d, HandoffMid, WindowKept
  <2>4. d = d2 BY DEF ForSlots, d0, d1
  <2> QED BY <2>3, <2>4
<1> HIDE DEF d
<1>5. Mid(ForSlots(OverlayExit, d)) /\ ForSlots(OverlayExit, d).w = w
  <2> DEFINE d0 == OverlayExit(d, 0)
             d1 == OverlayExit(d0, 1)
             d2 == OverlayExit(d1, 2)
  <2>1. Mid(d0) /\ d0.w = w BY <1>1, <1>4, <1>s, <1>d, OverlayExitMid, WindowKept
  <2> HIDE DEF d0
  <2>2. Mid(d1) /\ d1.w = w BY <1>1, <2>1, <1>s, <1>d, OverlayExitMid, WindowKept
  <2> HIDE DEF d1
  <2>3. Mid(d2) /\ d2.w = w BY <1>1, <2>2, <1>s, <1>d, OverlayExitMid, WindowKept
  <2>4. ForSlots(OverlayExit, d) = d2 BY DEF ForSlots, d0, d1
  <2> QED BY <2>3, <2>4
<1> QED BY <1>5 DEF a, b, c, d

-----------------------------------------------------------------------------
(* Steps 3 to 6                                                            *)

\* What the state machine of step 3 and the cleanup of step 5 make of a scratch
\* copy that satisfies the invariant.
LEMMA CleanedFacts ==
    ASSUME Setup, NEW e, Mid(e), NEW f, f = Cleanup(AdvanceZones(e))
    PROVE  /\ f.zone \in [Zones -> ZoneRuntime] /\ f.tgt = e.tgt
           /\ \A z \in Zones : f.zone[z].state = "OCCUPIED" =>
                 f.zone[z].bits # {} /\ \A i \in f.zone[z].bits : e.w[i].active
           /\ \A z \in Zones : f.zone[z].state = "CLEAR" => f.zone[z].bits = {}
           /\ \A z \in Zones : f.zone[z].state # "PENDING" => f.zone[z].since = Unset
           /\ \A z \in Zones \ Configured : f.zone[z] = Idle
           /\ \A z \in Zones : f.zone[z].bits \subseteq e.zone[z].bits
<1> DEFINE adv(z) == IF z \in Configured
                     THEN Advance(e.zone[z], z \in e.seen, cfg[z].timeout, e.ts) ELSE e.zone[z]
           a == AdvanceZones(e)
           present(z) == {i \in adv(z).bits : e.w[i].active}
<1>1. e \in Scratch /\ e.ts \in Int /\ e.zone \in [Zones -> ZoneRuntime]
    BY DEF Mid, Scratch
<1>2. /\ a.zone = [z \in Zones |-> adv(z)] /\ a.w = e.w /\ a.tgt = e.tgt
      /\ a \in [DOMAIN e -> {a[x] : x \in DOMAIN e}]
    BY <1>1 DEF AdvanceZones, Scratch
<1>3. ASSUME NEW z \in Zones
      PROVE  /\ adv(z) \in ZoneRuntime
             /\ adv(z).bits \subseteq e.zone[z].bits
             /\ adv(z).state = "OCCUPIED" => z \in e.seen /\ adv(z).bits = e.zone[z].bits
             /\ adv(z).state = "CLEAR" => adv(z).bits = {}
             /\ adv(z).state # "PENDING" => adv(z).since = Unset
             /\ z \notin Configured => adv(z) = Idle
  <2> DEFINE r == e.zone[z]
             n == adv(z)
  <2>1. r \in ZoneRuntime BY <1>1, <1>3
  <2>2. CASE z \notin Configured
    <3>1. n = Idle BY <2>2, <1>3 DEF Mid, Disabled
    <3>2. r = Idle BY <2>2, <1>3 DEF Mid, Disabled
    <3> QED BY <3>1, <3>2, <2>1 DEF Idle
  <2>3. CASE z \in Configured /\ z \in e.seen
    <3>0. Unset \in Int BY DEF Unset
    <3>1. n = [r EXCEPT !.state = "OCCUPIED", !.since = Unset] BY <2>3 DEF Advance
    <3> HIDE DEF adv
    <3> HIDE DEF n, r
    <3>2. /\ n \in ZoneRuntime /\ n.bits = r.bits
          /\ n.state = "OCCUPIED" /\ n.since = Unset
        BY <3>0, <3>1, <2>1 DEF ZoneRuntime
    <3> QED BY <3>2, <2>3 DEF n, r
  <2>4. CASE z \in Configured /\ z \notin e.seen /\ r.state = "OCCUPIED"
    <3>1. n = [r EXCEPT !.state = "PENDING", !.since = e.ts] BY <2>4 DEF Advance
    <3> HIDE DEF adv
    <3> QED BY <3>1, <2>1, <2>4, <1>1 DEF ZoneRuntime
  <2>5. CASE z \in Configured /\ z \notin e.seen /\ r.state # "OCCUPIED"
    <3>1. n = Idle \/ n = r BY <2>5 DEF Advance
    <3>2. CASE n = Idle BY <3>2, <2>1, <2>5, IdleTypes DEF Idle
    <3>3. CASE n = r
      <4>1. r.state = "CLEAR" => r.bits = {} BY <2>5, <1>3 DEF Mid, Settled
      <4>2. r.state # "PENDING" => r.since = Unset BY <1>3 DEF Mid, Timed
      <4> QED BY <3>3, <4>1, <4>2, <2>1, <2>5
    <3> QED BY <3>1, <3>2, <3>3
  <2> QED BY <2>2, <2>3, <2>4, <2>5
<1> HIDE DEF adv, a
<1>4. /\ f.zone = [z \in Zones |-> IF a.zone[z].state = "PENDING" THEN a.zone[z]
                                   ELSE Bits(a.zone[z], PresentBits(a, z))]
      /\ f.tgt = e.tgt
    BY <1>2 DEF Cleanup, a
<1>5. ASSUME NEW z \in Zones
      PROVE  /\ adv(z).state = "PENDING" => f.zone[z] = adv(z)
             /\ adv(z).state # "PENDING" =>
                   /\ f.zone[z] = Bits(adv(z), present(z))
                   /\ f.zone[z] \in ZoneRuntime
                   /\ f.zone[z].bits = present(z)
                   /\ f.zone[z].state = adv(z).state /\ f.zone[z].since = adv(z).since
  <2>1. PresentBits(a, z) = present(z) BY <1>2, <1>5 DEF PresentBits
  <2>2. present(z) \in SUBSET Slots BY <1>3, <1>5 DEF ZoneRuntime
  <2>3. f.zone[z] = IF adv(z).state = "PENDING" THEN adv(z) ELSE Bits(adv(z), present(z))
    <3> HIDE DEF present
    <3>1. f.zone[z] = IF a.zone[z].state = "PENDING" THEN a.zone[z]
                      ELSE Bits(a.zone[z], PresentBits(a, z))
        BY <1>4, <1>5
    <3>2. a.zone[z] = adv(z) BY <1>2, <1>5
    <3> QED BY <2>1, <3>1, <3>2
  <2>4. PICK r, b : r = adv(z) /\ b = present(z) OBVIOUS
  <2> HIDE DEF present
  <2>5. r \in ZoneRuntime /\ b \in SUBSET Slots BY <2>2, <2>4, <1>3, <1>5
  <2>6. f.zone[z] = IF r.state = "PENDING" THEN r ELSE Bits(r, b) BY <2>3, <2>4
  <2>7. r.state # "PENDING" => /\ f.zone[z] = Bits(r, b) /\ f.zone[z] \in ZoneRuntime
                               /\ f.zone[z].bits = b
                               /\ f.zone[z].state = r.state /\ f.zone[z].since = r.since
      BY <2>5, <2>6, BitsFacts
  <2> QED BY <2>4, <2>6, <2>7
<1>6. \A z \in Zones : f.zone[z] \in ZoneRuntime /\ f.zone[z].bits \subseteq e.zone[z].bits
    BY <1>3, <1>5
<1>7. f.zone \in [Zones -> ZoneRuntime] BY <1>4, <1>6
<1>8. ASSUME NEW z \in Zones, f.zone[z].state = "OCCUPIED"
      PROVE  f.zone[z].bits # {} /\ \A i \in f.zone[z].bits : e.w[i].active
  <2>1. adv(z).state = "OCCUPIED" BY <1>5, <1>8
  <2>2. f.zone[z].bits = present(z) /\ z \in e.seen /\ adv(z).bits = e.zone[z].bits
      BY <2>1, <1>3, <1>5
  <2>3. PICK i \in e.zone[z].bits : e.w[i].active BY <2>2 DEF Mid, Grounded
  <2> QED BY <2>2, <2>3
<1>9. ASSUME NEW z \in Zones, f.zone[z].state = "CLEAR" PROVE f.zone[z].bits = {}
  <2>1. adv(z).state = "CLEAR" BY <1>5, <1>9
  <2> QED BY <2>1, <1>3, <1>5
<1>10. ASSUME NEW z \in Zones, f.zone[z].state # "PENDING" PROVE f.zone[z].since = Unset
  <2>1. adv(z).state # "PENDING" BY <1>5, <1>10
  <2> QED BY <2>1, <1>3, <1>5
<1>11. ASSUME NEW z \in Zones \ Configured PROVE f.zone[z] = Idle
  <2>1. adv(z) = Idle BY <1>3, <1>11
  <2> QED BY <2>1, <1>5, <1>11 DEF Idle, Bits
<1> QED BY <1>4, <1>6, <1>7, <1>8, <1>9, <1>10, <1>11

\* The clock stays within its width.
LEMMA ClockType ==
    ASSUME NEW n \in 0..(ClockWrap - 1), NEW d \in Steps
    PROVE  (n + d) % ClockWrap \in 0..(ClockWrap - 1)
<1>1. d \in Nat /\ ClockWrap \in Nat \ {0} BY ClockAssumption
<1> DEFINE x == n + d
<1>2. x \in Nat BY <1>1
<1> HIDE DEF x
<1>3. x % ClockWrap \in 0..(ClockWrap - 1) BY <1>1, <1>2
<1> QED BY <1>3 DEF x

\* A presence sensor's state machine and the grace timer keep their types.
LEMMA SensorTypes ==
    ASSUME TypeOK, NEW on \in SensorInputs, NEW ts \in Int
    PROVE  /\ SensorsAfter(on, ts) \in [static : SensorState, motion : SensorState, ever : BOOLEAN]
           /\ \A sn, zn : [assist EXCEPT !.since = GraceSince(sn, zn, ts)]
                             \in [enabled : BOOLEAN, timeout : Nat, since : Int]
<1>1. ASSUME NEW s \in SensorState, NEW b, NEW t PROVE Sense(s, b, t, ts) \in SensorState
    BY <1>1 DEF Sense, SensorState, QuietSensor, Unset
<1>2. sens \in [static : SensorState, motion : SensorState, ever : BOOLEAN] BY DEF TypeOK
<1>3. SensorsAfter(on, ts) \in [static : SensorState, motion : SensorState, ever : BOOLEAN]
    BY <1>1, <1>2 DEF SensorsAfter
<1>4. assist \in [enabled : BOOLEAN, timeout : Nat, since : Int] BY DEF TypeOK
<1>5. ASSUME NEW sn, NEW zn PROVE GraceSince(sn, zn, ts) \in Int
    BY <1>4 DEF GraceSince, Unset
<1> QED BY <1>3, <1>4, <1>5

\* A whole tick preserves the invariant, force-clear included.
LEMMA TickInv ==
    ASSUME IInv, NEW w \in Windows, NEW on \in SensorInputs, NEW d \in Steps, Tick(w, on, d)
    PROVE  IInv'
<1> DEFINE ts == (now + d) % ClockWrap
           moved == ForSlots(OverlayExit, ForSlots(Handoff,
                        ForSlots(Evaluate, ForSlots(Relocate, Begin(w, on, ts)))))
           advanced == AdvanceZones(moved)
           reported == {z \in Configured : advanced.zone[z].state # "CLEAR"}
           cleaned == Cleanup(advanced)
           sn == SensorsAfter(on, ts)
           force == GraceOver(sn, cleaned.zone, ts)
           zn == IF force THEN ForceClear(cleaned.zone) ELSE cleaned.zone
           occ == IF force THEN StillReported(reported, cleaned.zone) ELSE reported
           sensed == sn.static.state # "INACTIVE" \/ sn.motion.state # "INACTIVE"
<1>1. /\ now' = ts /\ win' = w /\ tgt' = cleaned.tgt /\ zone' = zn /\ sens' = sn
      /\ assist' = [assist EXCEPT !.since = GraceSince(sn, cleaned.zone, ts)]
      /\ out' = [occ |-> occ, occupancy |-> sensed \/ occ # {},
                 mmwave |-> \/ sn.static.state # "INACTIVE"
                            \/ \E z \in Configured : zn[z].state = "OCCUPIED",
                 status |-> [i \in Slots |-> Status(advanced, i)]]
      /\ UNCHANGED <<grid, cfg, stuckTimeout>>
    BY DEF Tick
<1>2. TypeOK /\ Setup BY DEF IInv, TypeOK, Setup
<1>3. now \in 0..(ClockWrap - 1) BY <1>2 DEF TypeOK
<1> HIDE DEF reported, sensed
<1>4. ts \in 0..(ClockWrap - 1) BY <1>3, ClockType
<1> HIDE DEF ts
<1>5. ts \in Int BY <1>4, ClockAssumption
<1>6. Mid(moved) /\ moved.w = w BY <1>5, MovedMid
<1>7. moved \in Scratch BY <1>6 DEF Mid
<1> HIDE DEF moved
<1>8. /\ cleaned.zone \in [Zones -> ZoneRuntime] /\ cleaned.tgt = moved.tgt
      /\ \A z \in Zones : cleaned.zone[z].state = "OCCUPIED" =>
            cleaned.zone[z].bits # {} /\ \A i \in cleaned.zone[z].bits : w[i].active
      /\ \A z \in Zones : cleaned.zone[z].state = "CLEAR" => cleaned.zone[z].bits = {}
      /\ \A z \in Zones : cleaned.zone[z].state # "PENDING" => cleaned.zone[z].since = Unset
      /\ \A z \in Zones \ Configured : cleaned.zone[z] = Idle
      /\ \A z \in Zones : cleaned.zone[z].bits \subseteq moved.zone[z].bits
    BY <1>2, <1>6, CleanedFacts
<1> HIDE DEF advanced, cleaned
<1>9. /\ zn \in [Zones -> ZoneRuntime]
      /\ \A z \in Zones : zn[z] = cleaned.zone[z] \/ zn[z] = Idle
  <2>1. CASE force
    <3>1. zn = [z \in Zones |-> IF cleaned.zone[z].state = "PENDING" THEN Idle ELSE cleaned.zone[z]]
        BY <2>1 DEF ForceClear
    <3> HIDE DEF zn
    <3> QED BY <3>1, <1>8, IdleTypes
  <2>2. CASE ~force
    <3>1. zn = cleaned.zone BY <2>2
    <3> QED BY <3>1, <1>8
  <2> QED BY <2>1, <2>2
<1>10. occ \in SUBSET Zones
  <2>1. reported \subseteq Zones BY <1>2, SetupFacts DEF reported
  <2> QED BY <2>1 DEF StillReported
<1> HIDE DEF zn, occ, force
<1>11. TypeOK'
  <2>1. grid' = grid /\ cfg' = cfg /\ stuckTimeout' = stuckTimeout BY <1>1
  <2>2. tgt' \in [Slots -> Tracking] BY <1>1, <1>7, <1>8 DEF Scratch
  <2>3. /\ sens' \in [static : SensorState, motion : SensorState, ever : BOOLEAN]
        /\ assist' \in [enabled : BOOLEAN, timeout : Nat, since : Int]
      BY <1>1, <1>2, <1>5, SensorTypes
  <2>4. out' \in [occ : SUBSET Zones, occupancy : BOOLEAN, mmwave : BOOLEAN,
                  status : [Slots -> {"active", "pending", "inactive"}]]
    <3> DEFINE st == [i \in Slots |-> Status(advanced, i)]
               mm == \/ sn.static.state # "INACTIVE"
                     \/ \E z \in Configured : zn[z].state = "OCCUPIED"
               oc == sensed \/ occ # {}
    <3>1. st \in [Slots -> {"active", "pending", "inactive"}] BY DEF Status
    <3>2. mm \in BOOLEAN /\ oc \in BOOLEAN BY DEF sensed
    <3>3. out' = [occ |-> occ, occupancy |-> oc, mmwave |-> mm, status |-> st] BY <1>1
    <3> HIDE DEF st, mm, oc
    <3> QED BY <3>1, <3>2, <3>3, <1>10
  <2>5. zone' \in [Zones -> ZoneRuntime] BY <1>1, <1>9
  <2>6. now' \in 0..(ClockWrap - 1) /\ win' \in Windows BY <1>1, <1>4
  <2> QED BY <1>2, <2>1, <2>2, <2>3, <2>4, <2>5, <2>6 DEF TypeOK
<1>12. OccupiedHasLiveEvidence'
  <2>1. SUFFICES ASSUME NEW z \in Zones, zn[z].state = "OCCUPIED"
                 PROVE  zn[z].bits # {} /\ \A i \in zn[z].bits : w[i].active
      BY <1>1 DEF OccupiedHasLiveEvidence
  <2>2. zn[z] = cleaned.zone[z] BY <2>1, <1>9 DEF Idle
  <2> QED BY <2>1, <2>2, <1>8
<1>13. ClearForgets'
  <2>1. SUFFICES ASSUME NEW z \in Zones
                 PROVE  /\ zn[z].state = "CLEAR" => zn[z].bits = {}
                        /\ zn[z].state # "PENDING" => zn[z].since = Unset
      BY <1>1 DEF ClearForgets
  <2> QED BY <1>8, <1>9 DEF Idle
<1>14. DisabledZonesClear'
  <2>1. Configured' = Configured BY <1>1 DEF Configured
  <2> QED BY <2>1, <1>1, <1>8, <1>9 DEF DisabledZonesClear
<1>15. DismissedStaysSilent'
  <2>1. grid' = grid /\ tgt' = moved.tgt /\ zone' = zn BY <1>1, <1>8
  <2>2. SUFFICES ASSUME NEW i \in Slots, moved.tgt[i].dismissed \in grid.room
                 PROVE  i \notin zn[grid.zone[moved.tgt[i].dismissed]].bits
      BY <2>1 DEF DismissedStaysSilent
  <2> DEFINE z == grid.zone[moved.tgt[i].dismissed]
  <2>3. z \in Zones BY <2>2, <1>2, SetupFacts
  <2>4. i \notin moved.zone[z].bits BY <2>2, <1>6 DEF Mid, Silent
  <2>5. zn[z].bits \subseteq cleaned.zone[z].bits BY <2>3, <1>9 DEF Idle
  <2> QED BY <2>3, <2>4, <2>5, <1>8
<1> QED BY <1>11, <1>12, <1>13, <1>14, <1>15 DEF IInv

-----------------------------------------------------------------------------
(* The other calls                                                         *)

\* A dismissal by hand preserves the invariant, whatever the slot and the cell.
LEMMA DismissInv ==
    ASSUME IInv, NEW i \in Slots, NEW c \in Cells \cup {NoCell}, DismissTarget(i, c)
    PROVE  IInv'
<1> DEFINE zn == WithoutEvidence(zone, i, c)
           t == DismissedAt(tgt[i], c)
<1>1. Setup /\ zone \in [Zones -> ZoneRuntime] /\ tgt \in [Slots -> Tracking]
    BY DEF IInv, TypeOK, Setup
<1>2. t \in Tracking /\ t.dismissed = c BY <1>1, DismissedAtFacts
<1>3. /\ zone' = zn /\ tgt' = [tgt EXCEPT ![i] = t]
      /\ UNCHANGED <<grid, cfg, sens, assist, stuckTimeout, now, win, out>>
    BY DEF DismissTarget
<1> HIDE DEF t
<1>4. /\ zn \in [Zones -> ZoneRuntime]
      /\ c \in grid.room => i \notin zn[grid.zone[c]].bits
      /\ \A z \in Zones :
           /\ zn[z].bits \subseteq zone[z].bits
           /\ \/ zn[z] = Idle
              \/ /\ zn[z].state = zone[z].state /\ zn[z].since = zone[z].since
                 /\ zone[z].bits # {} => zn[z].bits # {}
  <2>1. CASE c \in grid.room
    <3>1. \A z \in Zones : z \notin Configured => zone[z] = Idle
        BY DEF IInv, DisabledZonesClear
    <3> HIDE DEF zn
    <3> QED BY <2>1, <3>1, <1>1, WithoutEvidenceFacts DEF zn
  <2>2. CASE c \notin grid.room
    <3>1. zn = zone BY <2>2 DEF WithoutEvidence
    <3> QED BY <3>1, <2>2, <1>1
  <2> QED BY <2>1, <2>2
<1>5. \A z \in Zones \ Configured : zn[z] = Idle
  <2>1. SUFFICES ASSUME NEW z \in Zones \ Configured PROVE zn[z] = Idle
      OBVIOUS
  <2>2. zone[z] = Idle BY <2>1 DEF IInv, DisabledZonesClear
  <2>3. CASE c \in grid.room /\ grid.zone[c] \in Configured
    <3>1. z # grid.zone[c] BY <2>3, <2>1
    <3>2. zn = [zone EXCEPT ![grid.zone[c]] =
                  IF zone[grid.zone[c]].bits \subseteq {i} THEN Idle
                  ELSE Bits(zone[grid.zone[c]], zone[grid.zone[c]].bits \ {i})]
        BY <2>3 DEF WithoutEvidence
    <3> HIDE DEF zn
    <3> QED BY <3>1, <3>2, <2>2, <1>1
  <2>4. CASE ~(c \in grid.room /\ grid.zone[c] \in Configured)
    <3>1. zn = zone BY <2>4 DEF WithoutEvidence
    <3> QED BY <3>1, <2>2
  <2> QED BY <2>3, <2>4
<1> HIDE DEF zn
<1>6. TypeOK'
  <2>1. tgt' \in [Slots -> Tracking] BY <1>1, <1>2, <1>3
  <2> QED BY <2>1, <1>3, <1>4 DEF IInv, TypeOK
<1>7. OccupiedHasLiveEvidence'
  <2>1. SUFFICES ASSUME NEW z \in Zones, zn[z].state = "OCCUPIED"
                 PROVE  zn[z].bits # {} /\ \A k \in zn[z].bits : win[k].active
      BY <1>3 DEF OccupiedHasLiveEvidence
  <2>2. /\ zone[z].state = "OCCUPIED" /\ zn[z].bits \subseteq zone[z].bits
        /\ zone[z].bits # {} => zn[z].bits # {}
      BY <2>1, <1>4 DEF Idle
  <2> QED BY <2>2 DEF IInv, OccupiedHasLiveEvidence
<1>8. ClearForgets'
  <2>1. SUFFICES ASSUME NEW z \in Zones
                 PROVE  /\ zn[z].state = "CLEAR" => zn[z].bits = {}
                        /\ zn[z].state # "PENDING" => zn[z].since = Unset
      BY <1>3 DEF ClearForgets
  <2>2. /\ zone[z].state = "CLEAR" => zone[z].bits = {}
        /\ zone[z].state # "PENDING" => zone[z].since = Unset
      BY DEF IInv, ClearForgets
  <2>3. CASE zn[z] = Idle BY <2>3 DEF Idle
  <2>4. CASE zn[z].state = zone[z].state /\ zn[z].since = zone[z].since
      BY <2>2, <2>4, <1>4
  <2> QED BY <2>3, <2>4, <1>4
<1>9. DisabledZonesClear' BY <1>3, <1>5 DEF DisabledZonesClear, Configured
<1>10. DismissedStaysSilent'
  <2>1. SUFFICES ASSUME NEW k \in Slots, tgt'[k].dismissed \in grid.room
                 PROVE  k \notin zn[grid.zone[tgt'[k].dismissed]].bits
      BY <1>3 DEF DismissedStaysSilent
  <2>2. CASE k = i BY <2>1, <2>2, <1>1, <1>2, <1>3, <1>4
  <2>3. CASE k # i
    <3>1. tgt'[k] = tgt[k] BY <2>3, <1>1, <1>3
    <3>2. grid.zone[tgt[k].dismissed] \in Zones BY <2>1, <3>1, <1>1, SetupFacts
    <3> QED BY <2>1, <3>1, <3>2, <1>4 DEF IInv, DismissedStaysSilent
  <2> QED BY <2>2, <2>3
<1> QED BY <1>6, <1>7, <1>8, <1>9, <1>10 DEF IInv

\* Nothing is dismissed where every slot is fresh.
LEMMA FreshIsSilent ==
    ASSUME NEW g \in Grid, NEW i \in Slots
    PROVE  [k \in Slots |-> Fresh][i].dismissed \notin g.room
<1>1. g.room \subseteq Cells BY DEF Grid
<1> QED BY <1>1, CellsAssumption DEF Fresh

\* A change of grid, zones or settings preserves the invariant.
LEMMA ConfigureInv == ASSUME IInv, Configure PROVE IInv'
<1>1. ASSUME NEW g \in Grids, SetGrid(g) PROVE IInv'
  <2>1. /\ grid' = g /\ tgt' = [i \in Slots |-> Fresh] /\ g \in Grid
        /\ UNCHANGED <<cfg, zone, sens, assist, stuckTimeout, now, win, out>>
      BY <1>1, GridsAssumption DEF SetGrid
  <2>2. TypeOK' BY <2>1, IdleTypes DEF IInv, TypeOK
  <2>3. DismissedStaysSilent'
      BY <2>1, FreshIsSilent DEF DismissedStaysSilent
  <2> QED BY <2>1, <2>2, <2>3
          DEF IInv, OccupiedHasLiveEvidence, ClearForgets, DisabledZonesClear, Configured
<1>2. ASSUME NEW c \in ZoneConfigs, SetZones(c) PROVE IInv'
  <2>1. /\ cfg' = c /\ zone' = [z \in Zones |-> Idle] /\ tgt' = [i \in Slots |-> Fresh]
        /\ sens' = QuietSensors
        /\ UNCHANGED <<grid, assist, stuckTimeout, now, win, out>>
      BY <1>2 DEF SetZones
  <2>2. QuietSensors \in [static : SensorState, motion : SensorState, ever : BOOLEAN]
      BY DEF QuietSensors, QuietSensor, SensorState, Unset
  <2>3. TypeOK' BY <2>1, <2>2, IdleTypes DEF IInv, TypeOK
  <2>4. \A z \in Zones : zone'[z] = Idle BY <2>1
  <2>5. OccupiedHasLiveEvidence' /\ ClearForgets' /\ DisabledZonesClear'
      BY <2>4 DEF OccupiedHasLiveEvidence, ClearForgets, DisabledZonesClear, Idle
  <2>6. DismissedStaysSilent'
    <3>1. grid' = grid /\ grid \in Grid BY <2>1 DEF IInv, TypeOK
    <3> QED BY <2>1, <3>1, FreshIsSilent DEF DismissedStaysSilent
  <2> QED BY <2>3, <2>5, <2>6 DEF IInv
<1>3. ASSUME NEW s \in StuckTimeouts, SetStuckTargetTimeout(s) PROVE IInv'
  <2>1. /\ stuckTimeout' = s /\ s \in Nat
        /\ UNCHANGED <<grid, cfg, zone, tgt, sens, assist, now, win, out>>
      BY <1>3, InputsAssumption DEF SetStuckTargetTimeout
  <2> QED BY <2>1 DEF IInv, TypeOK, OccupiedHasLiveEvidence, ClearForgets,
                      DisabledZonesClear, DismissedStaysSilent, Configured
<1>4. ASSUME NEW a \in AssistSettings, SetAssistedClear(a[1], a[2]) PROVE IInv'
  <2>1. /\ assist' = [assist EXCEPT !.enabled = a[1], !.timeout = a[2]]
        /\ a[1] \in BOOLEAN /\ a[2] \in Nat
        /\ UNCHANGED <<grid, cfg, zone, tgt, sens, stuckTimeout, now, win, out>>
      BY <1>4, InputsAssumption DEF SetAssistedClear
  <2>2. TypeOK' BY <2>1 DEF IInv, TypeOK
  <2> QED BY <2>1, <2>2 DEF IInv, OccupiedHasLiveEvidence, ClearForgets,
                            DisabledZonesClear, DismissedStaysSilent, Configured
<1> QED BY <1>1, <1>2, <1>3, <1>4 DEF Configure

\* The engine as constructed satisfies the invariant.
LEMMA InitInv == ASSUME Init PROVE IInv
<1>1. /\ grid = BlankGrid /\ cfg = NoConfig /\ zone = [z \in Zones |-> Idle]
      /\ tgt = [i \in Slots |-> Fresh] /\ sens = QuietSensors
      /\ assist = [enabled |-> TRUE, timeout |-> 0, since |-> Unset]
      /\ stuckTimeout = 0 /\ now = StartTime /\ win = [i \in Slots |-> Absent]
      /\ out = [occ |-> {}, occupancy |-> FALSE, mmwave |-> FALSE,
                status |-> [i \in Slots |-> "inactive"]]
    BY DEF Init
<1>2. grid \in Grid
    BY <1>1 DEF BlankGrid, Grid, Zones, Overlays
<1>3. TypeOK
  <2>1. sens \in [static : SensorState, motion : SensorState, ever : BOOLEAN]
      BY <1>1 DEF QuietSensors, QuietSensor, SensorState, Unset
  <2>2. assist \in [enabled : BOOLEAN, timeout : Nat, since : Int] BY <1>1 DEF Unset
  <2>3. zone \in [Zones -> ZoneRuntime] /\ tgt \in [Slots -> Tracking]
      BY <1>1, IdleTypes
  <2>4. now \in 0..(ClockWrap - 1) /\ stuckTimeout \in Nat BY <1>1, ClockAssumption
  <2>5. out \in [occ : SUBSET Zones, occupancy : BOOLEAN, mmwave : BOOLEAN,
                 status : [Slots -> {"active", "pending", "inactive"}]]
      BY <1>1
  <2> QED BY <1>1, <1>2, <2>1, <2>2, <2>3, <2>4, <2>5 DEF TypeOK
<1>4. \A z \in Zones : zone[z] = Idle BY <1>1
<1>5. OccupiedHasLiveEvidence /\ ClearForgets /\ DisabledZonesClear
    BY <1>4 DEF OccupiedHasLiveEvidence, ClearForgets, DisabledZonesClear, Idle
<1>6. DismissedStaysSilent
    BY <1>1, <1>2, FreshIsSilent DEF DismissedStaysSilent
<1> QED BY <1>3, <1>5, <1>6 DEF IInv

\* Every step, of whatever kind, preserves the invariant.
LEMMA StepInv == ASSUME IInv, [Next]_vars PROVE IInv'
<1>1. CASE TickSome
    BY <1>1, TickInv DEF TickSome
<1>2. CASE DismissSome
  <2>1. PICK x \in Dismissals : DismissTarget(x[1], x[2]) BY <1>2 DEF DismissSome
  <2>2. x[1] \in Slots /\ x[2] \in Cells \cup {NoCell} BY InputsAssumption
  <2> QED BY <2>1, <2>2, DismissInv
<1>3. CASE Configure
    BY <1>3, ConfigureInv
<1>4. CASE UNCHANGED vars
    BY <1>4 DEF vars, IInv, TypeOK, OccupiedHasLiveEvidence, ClearForgets,
                DisabledZonesClear, DismissedStaysSilent, Configured
<1> QED BY <1>1, <1>2, <1>3, <1>4 DEF Next

-----------------------------------------------------------------------------
(* The theorems                                                            *)

\* The engine never leaves its inductive invariant, whatever is pushed to it,
\* dismissed by hand or seen by the radar, and however the clock advances.
THEOREM Invariance == Spec => []IInv
<1>1. Init => IInv BY InitInv
<1>2. IInv /\ [Next]_vars => IInv' BY StepInv
<1> QED BY <1>1, <1>2, PTL DEF Spec

\* Every variable of the engine keeps its type.
THEOREM TypeCorrect == Spec => []TypeOK
<1>1. IInv => TypeOK BY DEF IInv
<1> QED BY <1>1, Invariance, PTL

\* A zone is OCCUPIED only while some slot is confirmed in it and all of those
\* were present in the last window.
THEOREM LiveEvidence == Spec => []OccupiedHasLiveEvidence
<1>1. IInv => OccupiedHasLiveEvidence BY DEF IInv
<1> QED BY <1>1, Invariance, PTL

\* A zone that is cleared, on any path, forgets its confirmations and its timer.
THEOREM ClearZonesForget == Spec => []ClearForgets
<1>1. IInv => ClearForgets BY DEF IInv
<1> QED BY <1>1, Invariance, PTL

\* Reconfiguration never strands state in a disabled zone.
THEOREM DisabledZonesIdle == Spec => []DisabledZonesClear
<1>1. IInv => DisabledZonesClear BY DEF IInv
<1> QED BY <1>1, Invariance, PTL

\* A dismissed target counts for nothing in the zone it was dismissed from.
THEOREM DismissalHolds == Spec => []DismissedStaysSilent
<1>1. IInv => DismissedStaysSilent BY DEF IInv
<1> QED BY <1>1, Invariance, PTL

-----------------------------------------------------------------------------
(* What relates a scratch copy to the state before the tick                *)

\* A slot that has passed the gate once is tracked, and one that is dismissed
\* has no stuck reference.
Tracked(t) == /\ t.gate # 0 => t.prev # NoCell
              /\ t.dismissed # NoCell => t.stuck.at = NoPoint
TrackedWell == \A i \in Slots : Tracked(tgt[i])

\* A slot that is still to be evaluated: its own past or, after a relocation, none.
Heir(e, i) == e.w[i].active => e.tgt[i] = tgt[i] \/ e.tgt[i] = Fresh

\* The stuck rule has dismissed slot i in this tick.
StuckOut(e, i) == /\ e.w[i].active
                  /\ e.tgt[i].dismissed # NoCell /\ e.tgt[i].dismissed # tgt[i].dismissed

\* From the state r in which a zone began the tick to the state n it has now.
Went(e, z, r, n) ==
    /\ r.state = "CLEAR" => n.state = "CLEAR"
    /\ n.state = "OCCUPIED" => r.state = "OCCUPIED"
    /\ n.state = "PENDING" => \/ r.state = "PENDING" /\ n.since = r.since
                              \/ /\ r.state # "CLEAR" /\ z \in Configured
                                 /\ n.since = Accelerated(e, z)
                                 /\ r.state = "PENDING" => n.since < r.since
    /\ n.state = "CLEAR" /\ r.state # "CLEAR" =>
          \E i \in Slots : StuckOut(e, i) /\ grid.zone[e.tgt[i].dismissed] = z
Course(e) == \A z \in Zones : Went(e, z, zone[z], e.zone[z])

\* Slot i stands in zone z, and it walked there, had passed the gate once or
\* touched an entry cell.
Admitted(e, i, z) ==
    LET c == grid.cell[e.w[i].pos]
    IN  /\ e.w[i].active /\ c \in grid.room /\ grid.zone[c] = z /\ e.at[i] = z
        /\ tgt[i].prev # NoCell \/ (e.tgt[i].sticky /\ grid.overlay[c] # "interference")
Earned(e) == \A z \in e.seen : zone[z].state = "CLEAR" => \E i \in e.zone[z].bits : Admitted(e, i, z)

\* What the stuck rule knows of a slot once it has been evaluated.
Checked(e, i) ==
    /\ e.tgt[i].stuck.at # NoPoint =>
          /\ e.w[i].active
          /\ e.tgt[i].stuck = tgt[i].stuck \/ (stuckTimeout # 0 /\ e.tgt[i].stuck.since = e.ts)
          /\ stuckTimeout # 0 => e.w[i].pos = e.tgt[i].stuck.at
    /\ StuckOut(e, i) => /\ stuckTimeout > 0 /\ tgt[i].stuck.at = e.w[i].pos
                         /\ e.ts - tgt[i].stuck.since >= stuckTimeout

\* A step of the tick keeps its window and its time.
Same(e, f) == f.w = e.w /\ f.ts = e.ts

-----------------------------------------------------------------------------
(* What each step does to the scratch copy                                 *)

\* Step 0 moves slots about, but touches no timer and no slot that is seen in
\* the window, other than to make it fresh.
LEMMA RelocateEffect ==
    ASSUME NEW e \in Scratch, NEW i \in Slots, NEW f, f = Relocate(e, i)
    PROVE  /\ Same(e, f) /\ f.seen = e.seen /\ f.at = e.at
           /\ \A z \in Zones : f.zone[z].state = e.zone[z].state /\ f.zone[z].since = e.zone[z].since
           /\ \A k \in Slots : f.tgt[k] = e.tgt[k] \/ f.tgt[k] = Fresh \/ ~e.w[k].active
           /\ \A k \in Slots : \/ f.tgt[k] = Fresh
                               \/ \E m \in Slots : f.tgt[k] = e.tgt[m]
<1>0. \A z \in Zones : e.zone[z] \in ZoneRuntime /\ e.zone[z].bits \in SUBSET Slots
    BY DEF Scratch, ZoneRuntime
<1>1. CASE ~TakenOver(e, i)
    BY <1>1 DEF Relocate, Same
<1>2. CASE TakenOver(e, i) /\ ParkSlots(e, i) = {}
  <2>1. f = Clobber(e, i) BY <1>2 DEF Relocate
  <2> DEFINE zn == [z \in Zones |-> Bits(e.zone[z], e.zone[z].bits \ {i})]
  <2>2. \A z \in Zones : zn[z].state = e.zone[z].state /\ zn[z].since = e.zone[z].since
      BY <1>0, BitsFacts
  <2> HIDE DEF zn
  <2>3. f = [e EXCEPT !.zone = zn] BY <2>1 DEF Clobber, zn
  <2>4. /\ f.zone = zn /\ f.tgt = e.tgt /\ f.w = e.w /\ f.ts = e.ts
        /\ f.seen = e.seen /\ f.at = e.at
      BY <2>3 DEF Scratch
  <2> QED BY <2>2, <2>4 DEF Same
<1>3. CASE TakenOver(e, i) /\ ParkSlots(e, i) # {}
  <2> DEFINE j == CHOOSE j \in ParkSlots(e, i) : \A k \in ParkSlots(e, i) : k <= j
  <2>1. j \in ParkSlots(e, i)
    <3>1. ParkSlots(e, i) \subseteq 0..2 BY DEF ParkSlots, Slots
    <3>2. \E m \in ParkSlots(e, i) : \A k \in ParkSlots(e, i) : k <= m
        BY <3>1, <1>3, SMT
    <3> QED BY <3>2
  <2>2. f = Park(e, i, j) BY <1>3 DEF Relocate
  <2> HIDE DEF j
  <2>3. j \in Slots /\ j # i /\ ~e.w[j].active BY <2>1 DEF ParkSlots
  <2> DEFINE zn == [z \in Zones |-> IF i \in e.zone[z].bits
                        THEN Bits(e.zone[z], (e.zone[z].bits \ {i}) \cup {j}) ELSE e.zone[z]]
             tg == [e.tgt EXCEPT ![i] = Fresh, ![j] = e.tgt[i]]
  <2>4. \A z \in Zones : zn[z].state = e.zone[z].state /\ zn[z].since = e.zone[z].since
      BY <2>3, <1>0, BitsFacts
  <2>5. e.tgt \in [Slots -> Tracking] BY DEF Scratch
  <2>6. /\ tg[i] = Fresh /\ tg[j] = e.tgt[i]
        /\ \A k \in Slots \ {i, j} : tg[k] = e.tgt[k]
      BY <2>3, <2>5
  <2> HIDE DEF zn, tg
  <2>7. f = [e EXCEPT !.tgt = tg, !.zone = zn] BY <2>2 DEF Park, zn, tg
  <2>8. /\ f.zone = zn /\ f.tgt = tg /\ f.w = e.w /\ f.ts = e.ts
        /\ f.seen = e.seen /\ f.at = e.at
      BY <2>7 DEF Scratch
  <2>9. \A k \in Slots : \/ tg[k] = Fresh
                         \/ tg[k] = e.tgt[k]
                         \/ k = j /\ tg[k] = e.tgt[i]
      BY <2>6
  <2> QED BY <2>3, <2>4, <2>8, <2>9 DEF Same
<1> QED BY <1>1, <1>2, <1>3

\* Placing a slot on a cell changes where it is, nothing it counts by.
LEMMA PlaceEffect ==
    ASSUME Setup, NEW e \in Scratch, NEW i \in Slots, NEW c \in grid.room, e.w[i].active,
           NEW f, f = Place(e, i, c)
    PROVE  /\ f \in Scratch /\ Same(e, f) /\ f.zone = e.zone /\ f.seen = e.seen
           /\ f.at[i] = grid.zone[c]
           /\ \A k \in Slots \ {i} : f.tgt[k] = e.tgt[k] /\ f.at[k] = e.at[k]
           /\ f.tgt[i].prev = e.tgt[i].prev /\ f.tgt[i].gate = e.tgt[i].gate
           /\ f.tgt[i].stuck = e.tgt[i].stuck /\ f.tgt[i].dismissed = e.tgt[i].dismissed
<1> DEFINE t == [e.tgt[i] EXCEPT !.sticky = e.w[i].overlay \/ grid.overlay[c] = "entry",
                                 !.lastZone = grid.zone[c], !.xy = e.w[i].pos]
           from == IF e.tgt[i].prev = NoCell THEN NoZone ELSE grid.zone[e.tgt[i].prev]
<1>1. c \in Cells /\ grid.zone[c] \in Zones BY SetupFacts
<1>2. e.tgt[i] \in Tracking BY DEF Scratch
<1>3. /\ t \in Tracking /\ t.dismissed = e.tgt[i].dismissed /\ t.prev = e.tgt[i].prev
      /\ t.gate = e.tgt[i].gate /\ t.stuck = e.tgt[i].stuck
  <2>1. t \in Tracking BY <1>1, <1>2, WindowFacts DEF Tracking
  <2>2. /\ t.dismissed = e.tgt[i].dismissed /\ t.prev = e.tgt[i].prev
        /\ t.gate = e.tgt[i].gate /\ t.stuck = e.tgt[i].stuck
      BY <1>2 DEF Tracking
  <2> QED BY <2>1, <2>2
<1>4. from \in Zones \cup {NoZone} BY <1>2, SetupFacts DEF Tracking
<1> HIDE DEF t, from
<1>5. f = [e EXCEPT !.tgt[i] = t, !.at[i] = grid.zone[c], !.from[i] = from]
    BY DEF Place, t, from
<1> DEFINE zc == grid.zone[c]
           tg == [e.tgt EXCEPT ![i] = t]
           at == [e.at EXCEPT ![i] = zc]
           fr == [e.from EXCEPT ![i] = from]
<1>a. tg \in [Slots -> Tracking] BY <1>3 DEF Scratch
<1>b. at \in [Slots -> Zones \cup {NoZone}] /\ fr \in [Slots -> Zones \cup {NoZone}]
    BY <1>1, <1>4 DEF Scratch
<1>c. f = [e EXCEPT !.tgt = tg, !.at = at, !.from = fr] BY <1>5 DEF Scratch
<1> HIDE DEF tg, at, fr
<1>6. /\ f \in Scratch /\ f.zone = e.zone /\ f.tgt = tg
      /\ f.w = e.w /\ f.ts = e.ts /\ f.seen = e.seen /\ f.at = at
    BY <1>a, <1>b, <1>c DEF Scratch
<1>7. e.tgt \in [Slots -> Tracking] /\ e.at \in [Slots -> Zones \cup {NoZone}]
    BY DEF Scratch
<1>8. /\ f.tgt[i] = t /\ f.at[i] = grid.zone[c]
      /\ \A k \in Slots \ {i} : f.tgt[k] = e.tgt[k] /\ f.at[k] = e.at[k]
    BY <1>6, <1>7 DEF tg, at
<1> QED BY <1>3, <1>6, <1>8 DEF Same

\* Slot i has been confirmed in the zone of cell c.
ConfirmedAt(e, f, i, c) ==
    LET z == grid.zone[c]
    IN  /\ z \in Configured /\ f.seen = e.seen \cup {z} /\ i \in f.zone[z].bits
        /\ \A y \in Zones : /\ f.zone[y].state = e.zone[y].state
                            /\ f.zone[y].since = e.zone[y].since
                            /\ e.zone[y].bits \subseteq f.zone[y].bits

\* A placed slot is confirmed in a clear zone only where it may enter.
LEMMA JudgeEffect ==
    ASSUME Setup, NEW e \in Scratch, NEW i \in Slots, NEW c \in grid.room,
           e.tgt[i].gate # 0 => e.tgt[i].prev # NoCell,
           NEW f, f = Judge(e, i, c)
    PROVE  /\ Same(e, f) /\ f.at = e.at
           /\ \A k \in Slots \ {i} : f.tgt[k] = e.tgt[k]
           /\ f.tgt[i].stuck = e.tgt[i].stuck /\ f.tgt[i].dismissed = e.tgt[i].dismissed
           /\ f.tgt[i].sticky = e.tgt[i].sticky
           /\ f.tgt[i].gate # 0 => f.tgt[i].prev # NoCell
           /\ \/ f.zone = e.zone /\ f.seen = e.seen
              \/ /\ ConfirmedAt(e, f, i, c)
                 /\ e.zone[grid.zone[c]].state = "CLEAR" =>
                       e.tgt[i].prev # NoCell \/ (e.tgt[i].sticky /\ grid.overlay[c] # "interference")
<1> DEFINE z == grid.zone[c]
           lost == [e.tgt[i] EXCEPT !.prev = NoCell, !.gate = 0]
           followed == [e.tgt[i] EXCEPT !.prev = c]
           gated == [e.tgt[i] EXCEPT !.prev = c, !.gate = e.tgt[i].gate + 1]
           counted == [e.tgt[i] EXCEPT !.prev = c, !.gate = 0]
           Like(t) == /\ t \in Tracking /\ t.stuck = e.tgt[i].stuck
                      /\ t.dismissed = e.tgt[i].dismissed /\ t.sticky = e.tgt[i].sticky
                      /\ t.gate # 0 => t.prev # NoCell
           Quiet(g) == /\ Same(e, g) /\ g.at = e.at /\ g.zone = e.zone /\ g.seen = e.seen
                       /\ \A k \in Slots \ {i} : g.tgt[k] = e.tgt[k]
                       /\ Like(g.tgt[i])
<1>1. /\ c \in Cells /\ z \in Zones /\ c # NoCell
      /\ e.tgt \in [Slots -> Tracking] /\ e.zone \in [Zones -> ZoneRuntime]
      /\ e.tgt[i] \in Tracking /\ e.zone[z] \in ZoneRuntime /\ e.zone[z].bits \subseteq Slots
    BY SetupFacts DEF Scratch, ZoneRuntime
<1>2. Like(lost) BY <1>1, 0 \in 0..1 DEF Tracking
<1>3. Like(followed) BY <1>1 DEF Tracking
<1>4. e.tgt[i].gate = 0 => Like(gated) BY <1>1, 0 + 1 \in 0..1 DEF Tracking
<1>5. Like(counted) BY <1>1, 0 \in 0..1 DEF Tracking
<1>6. ASSUME NEW t, Like(t) PROVE Quiet(Target(e, i, t))
  <2>1. t \in Tracking BY <1>6
  <2> HIDE DEF Like
  <2> DEFINE g == Target(e, i, t)
  <2>2. /\ g.zone = e.zone /\ g.tgt = [e.tgt EXCEPT ![i] = t] /\ g.w = e.w /\ g.ts = e.ts
        /\ g.seen = e.seen /\ g.at = e.at
      BY <2>1, TargetReplaced
  <2> HIDE DEF g
  <2>3. g.tgt[i] = t /\ \A k \in Slots \ {i} : g.tgt[k] = e.tgt[k] BY <1>1, <2>2
  <2> QED BY <1>6, <2>2, <2>3 DEF Same, g
<1> HIDE DEF Like
<1>7. CASE f = Lose(e, i)
  <2>1. f = Target(e, i, lost) BY <1>7 DEF Lose
  <2> HIDE DEF lost, Quiet
  <2>2. Quiet(f) BY <2>1, <1>2, <1>6
  <2> QED BY <2>2 DEF Quiet, Like
<1>8. CASE f = Follow(e, i, c)
  <2>1. f = Target(e, i, followed) BY <1>8 DEF Follow
  <2> HIDE DEF followed, Quiet
  <2>2. Quiet(f) BY <2>1, <1>3, <1>6
  <2> QED BY <2>2 DEF Quiet, Like
<1>9. CASE f = GateOnce(e, i, c) /\ e.tgt[i].gate = 0
  <2>1. f = Target(e, i, gated) BY <1>9 DEF GateOnce
  <2> HIDE DEF gated, Quiet
  <2>2. Quiet(f) BY <2>1, <1>4, <1>6, <1>9
  <2> QED BY <2>2 DEF Quiet, Like
<1>10. CASE /\ f = Confirm(e, i, c) /\ z \in Configured
            /\ e.zone[z].state = "CLEAR" =>
                  e.tgt[i].prev # NoCell \/ (e.tgt[i].sticky /\ grid.overlay[c] # "interference")
  <2> DEFINE r == Bits(e.zone[z], e.zone[z].bits \cup {i})
  <2>1. /\ r \in ZoneRuntime /\ r.bits = e.zone[z].bits \cup {i}
        /\ r.state = e.zone[z].state /\ r.since = e.zone[z].since
    <3>1. e.zone[z].bits \cup {i} \in SUBSET Slots BY <1>1
    <3> QED BY <3>1, <1>1, BitsFacts
  <2> HIDE DEF r
  <2>2. f = [e EXCEPT !.tgt[i] = counted, !.zone[z] = r, !.seen = e.seen \cup {z}]
      BY <1>10 DEF Confirm, r
  <2> HIDE DEF counted, z
  <2>3. /\ f.zone = [e.zone EXCEPT ![z] = r] /\ f.tgt = [e.tgt EXCEPT ![i] = counted]
        /\ f.w = e.w /\ f.ts = e.ts /\ f.seen = e.seen \cup {z} /\ f.at = e.at
      BY <2>2 DEF Scratch
  <2>4. f.tgt[i] = counted /\ \A k \in Slots \ {i} : f.tgt[k] = e.tgt[k] BY <1>1, <2>3
  <2>5. f.zone[z] = r /\ \A y \in Zones \ {z} : f.zone[y] = e.zone[y] BY <1>1, <2>3
  <2>6. \A y \in Zones : /\ f.zone[y].state = e.zone[y].state
                         /\ f.zone[y].since = e.zone[y].since
                         /\ e.zone[y].bits \subseteq f.zone[y].bits
      BY <2>1, <2>5
  <2>7. ConfirmedAt(e, f, i, c) BY <1>10, <2>1, <2>3, <2>5, <2>6 DEF ConfirmedAt, z
  <2> QED BY <1>5, <1>10, <2>3, <2>4, <2>7 DEF Same, Like, z
<1>11. \/ f = Lose(e, i)
       \/ f = Follow(e, i, c)
       \/ f = GateOnce(e, i, c) /\ e.tgt[i].gate = 0
       \/ /\ f = Confirm(e, i, c) /\ z \in Configured
          /\ e.zone[z].state = "CLEAR" =>
                e.tgt[i].prev # NoCell \/ (e.tgt[i].sticky /\ grid.overlay[c] # "interference")
    BY DEF Judge
<1> QED BY <1>7, <1>8, <1>9, <1>10, <1>11

\* What evaluating a slot may do to a scratch copy.
Evaluated(e, f, i) ==
    /\ Same(e, f) /\ Tracked(f.tgt[i]) /\ Checked(f, i)
    /\ \A k \in Slots \ {i} : f.tgt[k] = e.tgt[k] /\ f.at[k] = e.at[k]
    /\ \/ f.zone = e.zone /\ f.seen = e.seen
       \/ \E c \in grid.room : /\ f.seen = e.seen /\ f.zone = WithoutEvidence(e.zone, i, c)
                               /\ StuckOut(f, i) /\ f.tgt[i].dismissed = c
       \/ LET c == grid.cell[e.w[i].pos]
          IN  /\ e.w[i].active /\ c \in grid.room /\ f.at[i] = grid.zone[c]
              /\ ConfirmedAt(e, f, i, c)
              /\ e.zone[grid.zone[c]].state = "CLEAR" => Admitted(f, i, grid.zone[c])

\* Evaluating a slot leaves the others as they are, the slot known to the stuck
\* rule, and the zones as they are, without the slot it dismissed, or with the
\* slot confirmed where it may enter.
LEMMA EvaluateEffect ==
    ASSUME Setup, NEW e \in Scratch, NEW i \in Slots, Tracked(e.tgt[i]), Tracked(tgt[i]),
           Heir(e, i), e.ts \in Int, NEW f, f = Evaluate(e, i)
    PROVE  Evaluated(e, f, i)
<1> DEFINE c == grid.cell[e.w[i].pos]
           unseen == [e.tgt[i] EXCEPT !.prev = NoCell, !.gate = 0, !.stuck = NoRef]
           lost == [e.tgt[i] EXCEPT !.prev = NoCell, !.gate = 0]
           free == [e.tgt[i] EXCEPT !.dismissed = NoCell]
<1> USE DEF Evaluated
<1>1. e.tgt \in [Slots -> Tracking] /\ e.tgt[i] \in Tracking
    BY DEF Scratch
<1>2. /\ Fresh.prev = NoCell /\ Fresh.gate = 0 /\ Fresh.dismissed = NoCell
      /\ Fresh.stuck.at = NoPoint /\ NoRef.at = NoPoint
    BY DEF Fresh, NoRef
<1>3. /\ unseen \in Tracking /\ unseen.stuck = NoRef /\ unseen.gate = 0
      /\ unseen.dismissed = e.tgt[i].dismissed
  <2>1. NoRef \in [at : Points \cup {NoPoint}, since : Int] BY DEF NoRef
  <2>2. unseen \in Tracking BY <1>1, <2>1, 0 \in 0..1 DEF Tracking
  <2>3. /\ unseen.stuck = NoRef /\ unseen.gate = 0 /\ unseen.dismissed = e.tgt[i].dismissed
      BY <1>1 DEF Tracking
  <2> QED BY <2>2, <2>3
<1>4. /\ lost \in Tracking /\ lost.stuck = e.tgt[i].stuck /\ lost.gate = 0
      /\ lost.dismissed = e.tgt[i].dismissed
    BY <1>1, 0 \in 0..1 DEF Tracking
<1>5. /\ free \in Tracking /\ free.dismissed = NoCell /\ free.prev = e.tgt[i].prev
      /\ free.gate = e.tgt[i].gate /\ free.stuck = e.tgt[i].stuck
    BY <1>1 DEF Tracking
<1> HIDE DEF unseen, lost, free
\* The slot is given another record, and nothing else happens.
<1>6. ASSUME NEW g \in Scratch, NEW t \in Tracking
      PROVE  /\ Target(g, i, t) \in Scratch /\ Same(g, Target(g, i, t))
             /\ Target(g, i, t).zone = g.zone /\ Target(g, i, t).seen = g.seen
             /\ Target(g, i, t).at = g.at /\ Target(g, i, t).tgt[i] = t
             /\ \A k \in Slots \ {i} : Target(g, i, t).tgt[k] = g.tgt[k]
  <2> DEFINE h == Target(g, i, t)
  <2>1. /\ h \in Scratch /\ h.zone = g.zone /\ h.tgt = [g.tgt EXCEPT ![i] = t] /\ h.w = g.w
        /\ h.ts = g.ts /\ h.seen = g.seen /\ h.at = g.at
      BY TargetReplaced
  <2> HIDE DEF h
  <2>2. g.tgt \in [Slots -> Tracking] BY DEF Scratch
  <2> QED BY <2>1, <2>2 DEF Same, h
<1>7. CASE ~(e.w[i].active /\ c \in grid.room)
  <2>1. f = Target(e, i, unseen) BY <1>7 DEF Evaluate, OutOfSight, unseen
  <2>2. /\ Same(e, f) /\ f.zone = e.zone /\ f.seen = e.seen /\ f.at = e.at
        /\ f.tgt[i] = unseen /\ \A k \in Slots \ {i} : f.tgt[k] = e.tgt[k]
      BY <2>1, <1>3, <1>6
  <2>3. Tracked(f.tgt[i]) BY <2>2, <1>2, <1>3 DEF Tracked
  <2>4. ~StuckOut(f, i)
      BY <2>2, <1>2, <1>3 DEF StuckOut, Heir, Same
  <2>5. Checked(f, i) BY <2>2, <2>4, <1>2, <1>3 DEF Checked
  <2> QED BY <2>2, <2>3, <2>5
<1>8. CASE e.w[i].active /\ c \in grid.room
  <2> DEFINE moved == Target(e, i, free)
             watched == WatchStuck(moved, i)
  <2>0. e.w[i].pos \in Points /\ c \in Cells /\ c # NoCell /\ e.w[i].pos # NoPoint
      BY <1>8, WindowFacts, SetupFacts, CellsAssumption
  <2>1. f = InRoom(e, i, c) BY <1>8 DEF Evaluate
  <2>2. /\ moved \in Scratch /\ Same(e, moved) /\ moved.zone = e.zone /\ moved.seen = e.seen
        /\ moved.at = e.at /\ moved.tgt[i] = free
        /\ \A k \in Slots \ {i} : moved.tgt[k] = e.tgt[k]
      BY <1>5, <1>6
  <2>3. CASE e.tgt[i].dismissed = c
    <3>1. f = Target(e, i, lost) BY <2>1, <2>3 DEF InRoom, Lose, lost
    <3>2. /\ Same(e, f) /\ f.zone = e.zone /\ f.seen = e.seen /\ f.at = e.at
          /\ f.tgt[i] = lost /\ \A k \in Slots \ {i} : f.tgt[k] = e.tgt[k]
        BY <3>1, <1>4, <1>6
    <3>3. Tracked(f.tgt[i]) BY <3>2, <1>4 DEF Tracked
    <3>4. f.tgt[i].stuck.at = NoPoint BY <3>2, <1>4, <2>0, <2>3 DEF Tracked
    <3>5. ~StuckOut(f, i) BY <3>2, <1>2, <1>4 DEF StuckOut, Heir, Same
    <3>6. Checked(f, i) BY <3>4, <3>5 DEF Checked
    <3> QED BY <3>2, <3>3, <3>6
  <2>4. CASE e.tgt[i].dismissed # c /\ Stuck(moved, i)
    <3> DEFINE t == DismissedAt(e.tgt[i], c)
               zn == WithoutEvidence(e.zone, i, c)
    <3>1. f = [e EXCEPT !.zone = zn, !.tgt[i] = t]
        BY <2>1, <2>4 DEF InRoom, free
    <3>2. t.stuck = NoRef /\ t.dismissed = c /\ t.gate = 0
        BY DEF DismissedAt, Fresh
    <3> HIDE DEF t, zn
    <3>3. /\ f.zone = zn /\ f.tgt = [e.tgt EXCEPT ![i] = t] /\ Same(e, f)
          /\ f.seen = e.seen /\ f.at = e.at
        BY <3>1 DEF Scratch, Same
    <3>4. f.tgt[i] = t /\ \A k \in Slots \ {i} : f.tgt[k] = e.tgt[k] BY <3>3, <1>1
    <3>5. /\ stuckTimeout > 0 /\ e.tgt[i].stuck.at = e.w[i].pos
          /\ e.ts - e.tgt[i].stuck.since >= stuckTimeout
        BY <2>2, <2>4, <1>5 DEF Stuck, Same
    <3>6. e.tgt[i] = tgt[i] BY <3>5, <2>0, <1>2, <1>8 DEF Heir
    <3>7. Tracked(f.tgt[i]) BY <3>2, <3>4, <1>2 DEF Tracked
    <3>8. StuckOut(f, i) BY <3>2, <3>3, <3>4, <3>6, <2>0, <2>4, <1>8 DEF StuckOut, Same
    <3>9. Checked(f, i) BY <3>2, <3>3, <3>4, <3>5, <3>6, <1>2 DEF Checked, Same
    <3> QED BY <3>2, <3>3, <3>4, <3>7, <3>8, <3>9, <1>8 DEF zn
  <2>5. CASE e.tgt[i].dismissed # c /\ ~Stuck(moved, i)
    <3>1. /\ watched \in Scratch /\ Same(e, watched) /\ watched.zone = e.zone
          /\ watched.seen = e.seen /\ watched.at = e.at
          /\ \A k \in Slots \ {i} : watched.tgt[k] = e.tgt[k]
          /\ watched.tgt[i].dismissed = NoCell
          /\ watched.tgt[i].prev = e.tgt[i].prev /\ watched.tgt[i].gate = e.tgt[i].gate
          /\ stuckTimeout # 0 => watched.tgt[i].stuck.at = e.w[i].pos
          /\ \/ watched.tgt[i].stuck = e.tgt[i].stuck
             \/ stuckTimeout # 0 /\ watched.tgt[i].stuck.since = e.ts
      <4>1. CASE stuckTimeout = 0 \/ free.stuck.at = e.w[i].pos
        <5>1. watched = moved BY <4>1, <2>2 DEF WatchStuck, Same
        <5> HIDE DEF moved, watched
        <5> QED BY <5>1, <4>1, <2>2, <1>5
      <4>2. CASE ~(stuckTimeout = 0 \/ free.stuck.at = e.w[i].pos)
        <5> DEFINE s == [at |-> e.w[i].pos, since |-> e.ts]
                   t == [free EXCEPT !.stuck = s]
        <5>0. s \in [at : Points \cup {NoPoint}, since : Int] /\ s.at = e.w[i].pos /\ s.since = e.ts
            BY <2>0
        <5> HIDE DEF s
        <5>1. /\ t \in Tracking /\ t.dismissed = free.dismissed /\ t.prev = free.prev
              /\ t.gate = free.gate /\ t.stuck = s
            BY <1>5, <5>0 DEF Tracking
        <5>2. watched = Target(moved, i, t) BY <4>2, <2>2 DEF WatchStuck, Same, s
        <5> HIDE DEF t, moved, watched
        <5>3. /\ watched \in Scratch /\ Same(moved, watched) /\ watched.zone = moved.zone
              /\ watched.seen = moved.seen /\ watched.at = moved.at /\ watched.tgt[i] = t
              /\ \A k \in Slots \ {i} : watched.tgt[k] = moved.tgt[k]
            BY <5>1, <5>2, <2>2, <1>6
        <5> QED BY <5>0, <5>1, <5>3, <4>2, <2>2, <1>5 DEF Same
      <4> QED BY <4>1, <4>2
    <3>2. ASSUME NEW g, Same(e, g), g.tgt[i].stuck = watched.tgt[i].stuck,
                 g.tgt[i].dismissed = NoCell
          PROVE  Checked(g, i)
      <4>1. ~StuckOut(g, i) BY <3>2 DEF StuckOut
      <4>2. e.tgt[i].stuck = tgt[i].stuck \/ e.tgt[i].stuck.at = NoPoint
          BY <1>2, <1>8 DEF Heir
      <4> QED BY <4>1, <4>2, <3>1, <3>2, <1>8 DEF Checked, Same
    <3>3. CASE grid.overlay[c] = "suppress"
      <4> DEFINE t == [watched.tgt[i] EXCEPT !.prev = NoCell, !.gate = 0]
      <4>1. f = Target(watched, i, t) BY <2>1, <2>5, <3>3 DEF InRoom, Lose, free
      <4>2. watched.tgt[i] \in Tracking BY <3>1 DEF Scratch
      <4>3. /\ t \in Tracking /\ t.gate = 0 /\ t.stuck = watched.tgt[i].stuck
            /\ t.dismissed = watched.tgt[i].dismissed
          BY <4>2, 0 \in 0..1 DEF Tracking
      <4> HIDE DEF t, watched
      <4>4. /\ Same(watched, f) /\ f.zone = watched.zone /\ f.seen = watched.seen
            /\ f.at = watched.at /\ f.tgt[i] = t
            /\ \A k \in Slots \ {i} : f.tgt[k] = watched.tgt[k]
          BY <4>1, <4>3, <3>1, <1>6
      <4>5. Same(e, f) BY <4>4, <3>1 DEF Same
      <4>6. Checked(f, i) BY <4>3, <4>4, <4>5, <3>1, <3>2
      <4>7. Tracked(f.tgt[i]) BY <4>3, <4>4, <3>1 DEF Tracked
      <4> QED BY <4>4, <4>5, <4>6, <4>7, <3>1
    <3>4. CASE grid.overlay[c] # "suppress"
      <4> DEFINE placed == Place(watched, i, c)
      <4>1. f = Judge(placed, i, c) BY <2>1, <2>5, <3>4 DEF InRoom, free
      <4> HIDE DEF watched
      <4>2. watched.w[i].active BY <3>1, <1>8 DEF Same
      <4> HIDE DEF c
      <4>3. /\ placed \in Scratch /\ Same(watched, placed) /\ placed.zone = watched.zone
            /\ placed.seen = watched.seen /\ placed.at[i] = grid.zone[c]
            /\ \A k \in Slots \ {i} : placed.tgt[k] = watched.tgt[k] /\ placed.at[k] = watched.at[k]
            /\ placed.tgt[i].prev = watched.tgt[i].prev /\ placed.tgt[i].gate = watched.tgt[i].gate
            /\ placed.tgt[i].stuck = watched.tgt[i].stuck
            /\ placed.tgt[i].dismissed = watched.tgt[i].dismissed
          BY <4>2, <3>1, <1>8, PlaceEffect
      <4> HIDE DEF placed
      <4>4. placed.tgt[i].gate # 0 => placed.tgt[i].prev # NoCell
          BY <4>3, <3>1 DEF Tracked
      <4>5. /\ Same(placed, f) /\ f.at = placed.at
            /\ \A k \in Slots \ {i} : f.tgt[k] = placed.tgt[k]
            /\ f.tgt[i].stuck = placed.tgt[i].stuck /\ f.tgt[i].dismissed = placed.tgt[i].dismissed
            /\ f.tgt[i].sticky = placed.tgt[i].sticky
            /\ f.tgt[i].gate # 0 => f.tgt[i].prev # NoCell
            /\ \/ f.zone = placed.zone /\ f.seen = placed.seen
               \/ /\ ConfirmedAt(placed, f, i, c)
                  /\ placed.zone[grid.zone[c]].state = "CLEAR" =>
                        \/ placed.tgt[i].prev # NoCell
                        \/ placed.tgt[i].sticky /\ grid.overlay[c] # "interference"
          BY <4>1, <4>3, <4>4, <1>8, JudgeEffect
      <4>6. Same(e, f) BY <4>3, <4>5, <3>1 DEF Same
      <4>7. Checked(f, i) BY <4>3, <4>5, <4>6, <3>1, <3>2
      <4>8. Tracked(f.tgt[i]) BY <4>3, <4>5, <3>1 DEF Tracked
      <4>9. \A k \in Slots \ {i} : f.tgt[k] = e.tgt[k] /\ f.at[k] = e.at[k]
          BY <4>3, <4>5, <3>1
      <4>10. CASE f.zone = placed.zone /\ f.seen = placed.seen
          BY <4>3, <4>6, <4>7, <4>8, <4>9, <4>10, <3>1
      <4>11. CASE /\ ConfirmedAt(placed, f, i, c)
                  /\ placed.zone[grid.zone[c]].state = "CLEAR" =>
                        \/ placed.tgt[i].prev # NoCell
                        \/ placed.tgt[i].sticky /\ grid.overlay[c] # "interference"
        <5>1. ConfirmedAt(e, f, i, c) BY <4>3, <4>11, <3>1 DEF ConfirmedAt
        <5>2. ASSUME e.zone[grid.zone[c]].state = "CLEAR" PROVE Admitted(f, i, grid.zone[c])
          <6>1. \/ e.tgt[i].prev # NoCell
                \/ f.tgt[i].sticky /\ grid.overlay[c] # "interference"
              BY <5>2, <4>3, <4>5, <4>11, <3>1
          <6>2. e.tgt[i].prev # NoCell => tgt[i].prev # NoCell BY <1>2, <1>8 DEF Heir
          <6>3. f.at[i] = grid.zone[c] BY <4>3, <4>5
          <6>4. f.w = e.w BY <4>6 DEF Same
          <6> QED BY <6>1, <6>2, <6>3, <6>4, <1>8 DEF Admitted, c
        <5>3. f.at[i] = grid.zone[c] BY <4>3, <4>5
        <5> QED BY <5>1, <5>2, <5>3, <4>6, <4>7, <4>8, <4>9, <1>8 DEF c
      <4> QED BY <4>5, <4>10, <4>11
    <3> QED BY <3>3, <3>4
  <2> QED BY <2>3, <2>4, <2>5
<1> QED BY <1>7, <1>8

\* A zone keeps its state and its timer, or waits from a back-dated start.
Slowed(e, f, z) ==
    \/ f.zone[z].state = e.zone[z].state /\ f.zone[z].since = e.zone[z].since
    \/ /\ z \in Configured
       /\ \/ e.zone[z].state = "OCCUPIED"
          \/ e.zone[z].state = "PENDING" /\ e.zone[z].since > Accelerated(e, z)
       /\ f.zone[z].state = "PENDING" /\ f.zone[z].since = Accelerated(e, z)

\* What an exit, by handoff or through an entry overlay, leaves alone.
Exited(e, f) ==
    /\ Same(e, f) /\ f.at = e.at /\ f.seen = e.seen
    /\ \A k \in Slots :
          /\ f.tgt[k].prev = e.tgt[k].prev /\ f.tgt[k].gate = e.tgt[k].gate
          /\ f.tgt[k].stuck = e.tgt[k].stuck /\ f.tgt[k].dismissed = e.tgt[k].dismissed
          /\ e.at[k] # NoZone => f.tgt[k].sticky = e.tgt[k].sticky
    /\ \A z \in Zones :
          /\ Slowed(e, f, z)
          /\ \A k \in e.zone[z].bits : e.at[k] = z => k \in f.zone[z].bits

\* Step 2 is an exit.
LEMMA HandoffExits ==
    ASSUME Setup, NEW e \in Scratch, NEW i \in Slots, NEW f, f = Handoff(e, i)
    PROVE  Exited(e, f)
<1> DEFINE z == e.from[i]
           r == e.zone[z]
           last == r.state = "OCCUPIED" /\ r.bits \subseteq {i}
           new == IF last THEN [state |-> "PENDING", since |-> Accelerated(e, z), bits |-> {}]
                  ELSE Bits(r, r.bits \ {i})
           moves == ~(z = NoZone \/ e.at[i] = NoZone \/ z = e.at[i] \/ z \notin Configured)
<1>1. CASE ~moves
    BY <1>1 DEF Handoff, Exited, Same, Slowed
<1>2. CASE moves
  <2>1. f = [e EXCEPT !.zone[z] = new] BY <1>2 DEF Handoff
  <2>2. z \in Configured /\ z \in Zones /\ e.at[i] # z
      BY <1>2, SetupFacts
  <2>3. /\ e.zone \in [Zones -> ZoneRuntime] /\ r \in ZoneRuntime /\ r.bits \in SUBSET Slots
      BY <2>2 DEF Scratch, ZoneRuntime
  <2>4. \/ new.state = r.state /\ new.since = r.since /\ new.bits = r.bits \ {i}
        \/ /\ r.state = "OCCUPIED" /\ r.bits \subseteq {i}
           /\ new.state = "PENDING" /\ new.since = Accelerated(e, z)
    <3>1. CASE last
      <4>1. new = [state |-> "PENDING", since |-> Accelerated(e, z), bits |-> {}] BY <3>1
      <4> QED BY <3>1, <4>1
    <3>2. CASE ~last
      <4>1. new = Bits(r, r.bits \ {i}) BY <3>2
      <4> QED BY <4>1, <2>3, BitsFacts
    <3> QED BY <3>1, <3>2
  <2> HIDE DEF new, z
  <2>5. /\ f.zone = [e.zone EXCEPT ![z] = new] /\ f.tgt = e.tgt /\ f.w = e.w /\ f.ts = e.ts
        /\ f.at = e.at /\ f.seen = e.seen
      BY <2>1 DEF Scratch
  <2>6. f.zone[z] = new /\ \A y \in Zones \ {z} : f.zone[y] = e.zone[y]
      BY <2>2, <2>3, <2>5
  <2>7. ASSUME NEW y \in Zones
        PROVE  Slowed(e, f, y) /\ \A k \in e.zone[y].bits : e.at[k] = y => k \in f.zone[y].bits
    <3>1. CASE y = z BY <3>1, <2>2, <2>4, <2>6 DEF Slowed
    <3>2. CASE y # z BY <3>2, <2>6 DEF Slowed
    <3> QED BY <3>1, <3>2
  <2> QED BY <2>5, <2>7 DEF Exited, Same
<1> QED BY <1>1, <1>2

\* Step 2b is an exit.
LEMMA OverlayExits ==
    ASSUME Setup, NEW e \in Scratch, NEW i \in Slots, NEW f, f = OverlayExit(e, i)
    PROVE  Exited(e, f)
<1> DEFINE z == e.tgt[i].lastZone
           r == e.zone[z]
           sooner == \/ r.state = "OCCUPIED"
                     \/ r.state = "PENDING" /\ r.since > Accelerated(e, z)
           t == [e.tgt[i] EXCEPT !.lastZone = NoZone, !.sticky = FALSE]
           new == IF r.bits \subseteq {i} /\ sooner
                  THEN [r EXCEPT !.state = "PENDING", !.since = Accelerated(e, z)] ELSE r
           exits == ~(e.at[i] # NoZone \/ ~e.tgt[i].sticky \/ z \notin Configured)
<1>1. CASE ~exits
    BY <1>1 DEF OverlayExit, Exited, Same, Slowed
<1>2. CASE exits
  <2>1. f = [e EXCEPT !.tgt[i] = t, !.zone[z] = new]
      BY <1>2 DEF OverlayExit
  <2>2. /\ z \in Configured /\ z \in Zones /\ e.tgt \in [Slots -> Tracking]
        /\ e.tgt[i] \in Tracking /\ e.at[i] = NoZone
      BY <1>2, SetupFacts DEF Scratch
  <2>3. e.zone \in [Zones -> ZoneRuntime] /\ r \in ZoneRuntime BY <2>2 DEF Scratch
  <2>4. /\ t.prev = e.tgt[i].prev /\ t.gate = e.tgt[i].gate /\ t.stuck = e.tgt[i].stuck
        /\ t.dismissed = e.tgt[i].dismissed
      BY <2>2 DEF Tracking
  <2>5. /\ new.bits = r.bits
        /\ \/ new = r
           \/ sooner /\ new.state = "PENDING" /\ new.since = Accelerated(e, z)
    <3>1. CASE r.bits \subseteq {i} /\ sooner
      <4>1. new = [r EXCEPT !.state = "PENDING", !.since = Accelerated(e, z)] BY <3>1
      <4> QED BY <3>1, <4>1, <2>3 DEF ZoneRuntime
    <3>2. CASE ~(r.bits \subseteq {i} /\ sooner)
        BY <3>2
    <3> QED BY <3>1, <3>2
  <2> HIDE DEF new, z, t
  <2>6. /\ f.zone = [e.zone EXCEPT ![z] = new] /\ f.tgt = [e.tgt EXCEPT ![i] = t]
        /\ f.w = e.w /\ f.ts = e.ts /\ f.at = e.at /\ f.seen = e.seen
      BY <2>1 DEF Scratch
  <2>7. f.zone[z] = new /\ \A y \in Zones \ {z} : f.zone[y] = e.zone[y]
      BY <2>2, <2>3, <2>6
  <2>8. f.tgt[i] = t /\ \A k \in Slots \ {i} : f.tgt[k] = e.tgt[k] BY <2>2, <2>6
  <2>9. ASSUME NEW y \in Zones
        PROVE  Slowed(e, f, y) /\ \A k \in e.zone[y].bits : e.at[k] = y => k \in f.zone[y].bits
    <3>1. CASE y = z BY <3>1, <2>2, <2>5, <2>7 DEF Slowed
    <3>2. CASE y # z BY <3>2, <2>7 DEF Slowed
    <3> QED BY <3>1, <3>2
  <2>10. ASSUME NEW k \in Slots
         PROVE  /\ f.tgt[k].prev = e.tgt[k].prev /\ f.tgt[k].gate = e.tgt[k].gate
                /\ f.tgt[k].stuck = e.tgt[k].stuck /\ f.tgt[k].dismissed = e.tgt[k].dismissed
                /\ e.at[k] # NoZone => f.tgt[k].sticky = e.tgt[k].sticky
      BY <2>2, <2>4, <2>8
  <2> QED BY <2>6, <2>9, <2>10 DEF Exited, Same
<1> QED BY <1>1, <1>2

-----------------------------------------------------------------------------
(* The passes keep the relation to the state before the tick               *)

\* Back-dating depends on the time of the tick alone.
LEMMA AcceleratedSame ==
    ASSUME NEW e, NEW f, Same(e, f), NEW z
    PROVE  Accelerated(f, z) = Accelerated(e, z)
BY DEF Accelerated, Same

\* Every way a step may change one zone keeps the zone on course.
LEMMA StaysOnCourse ==
    ASSUME Setup, NEW e \in Scratch, NEW f, Same(e, f), NEW z \in Zones,
           zone[z] \in ZoneRuntime, Went(e, z, zone[z], e.zone[z]),
           \A k \in Slots : StuckOut(e, k) => StuckOut(f, k) /\ f.tgt[k].dismissed = e.tgt[k].dismissed,
           \/ Slowed(e, f, z)
           \/ /\ f.zone[z] = Idle
              /\ \E k \in Slots : StuckOut(f, k) /\ grid.zone[f.tgt[k].dismissed] = z
    PROVE  Went(f, z, zone[z], f.zone[z])
<1> DEFINE r == zone[z]
           n == e.zone[z]
           m == f.zone[z]
<1>1. n \in ZoneRuntime /\ r \in ZoneRuntime BY DEF Scratch
<1>2. /\ n.since \in Int /\ r.since \in Int
      /\ n.state \in {"CLEAR", "OCCUPIED", "PENDING"} /\ r.state \in {"CLEAR", "OCCUPIED", "PENDING"}
    BY <1>1 DEF ZoneRuntime
<1>3. Accelerated(f, z) = Accelerated(e, z) BY AcceleratedSame
<1>4. n.state = "CLEAR" /\ r.state # "CLEAR" =>
         \E k \in Slots : StuckOut(f, k) /\ grid.zone[f.tgt[k].dismissed] = z
    BY DEF Went
<1>5. /\ r.state = "CLEAR" => n.state = "CLEAR"
      /\ n.state = "OCCUPIED" => r.state = "OCCUPIED"
      /\ n.state = "PENDING" => \/ r.state = "PENDING" /\ n.since = r.since
                                \/ /\ r.state # "CLEAR" /\ z \in Configured
                                   /\ n.since = Accelerated(e, z)
                                   /\ r.state = "PENDING" => n.since < r.since
    BY DEF Went
<1>6. CASE m.state = n.state /\ m.since = n.since
    BY <1>3, <1>4, <1>5, <1>6 DEF Went
<1>7. CASE /\ z \in Configured
           /\ n.state = "OCCUPIED" \/ (n.state = "PENDING" /\ n.since > Accelerated(e, z))
           /\ m.state = "PENDING" /\ m.since = Accelerated(e, z)
  <2>1. Accelerated(e, z) \in Int BY <1>7, AcceleratedType
  <2>2. r.state # "CLEAR" BY <1>5, <1>7
  <2>3. r.state = "PENDING" => m.since < r.since BY <1>2, <1>5, <1>7, <2>1
  <2> QED BY <1>3, <1>7, <2>2, <2>3 DEF Went
<1>8. CASE /\ m = Idle
           /\ \E k \in Slots : StuckOut(f, k) /\ grid.zone[f.tgt[k].dismissed] = z
    BY <1>8 DEF Went, Idle
<1> QED BY <1>6, <1>7, <1>8 DEF Slowed

\* An exit keeps what is known of the tick so far.
LEMMA ExitKeeps ==
    ASSUME Setup, NEW e \in Scratch, NEW f, Exited(e, f), zone \in [Zones -> ZoneRuntime],
           Course(e), Earned(e), \A k \in Slots : Tracked(e.tgt[k]) /\ Checked(e, k)
    PROVE  Course(f) /\ Earned(f) /\ \A k \in Slots : Tracked(f.tgt[k]) /\ Checked(f, k)
<1>1. /\ Same(e, f) /\ f.at = e.at /\ f.seen = e.seen
      /\ \A k \in Slots :
            /\ f.tgt[k].prev = e.tgt[k].prev /\ f.tgt[k].gate = e.tgt[k].gate
            /\ f.tgt[k].stuck = e.tgt[k].stuck /\ f.tgt[k].dismissed = e.tgt[k].dismissed
            /\ e.at[k] # NoZone => f.tgt[k].sticky = e.tgt[k].sticky
      /\ \A z \in Zones :
            /\ Slowed(e, f, z)
            /\ \A k \in e.zone[z].bits : e.at[k] = z => k \in f.zone[z].bits
    BY DEF Exited
<1>2. \A k \in Slots : StuckOut(f, k) <=> StuckOut(e, k) BY <1>1 DEF StuckOut, Same
<1>3. Course(f)
  <2>1. SUFFICES ASSUME NEW z \in Zones PROVE Went(f, z, zone[z], f.zone[z])
      BY DEF Course
  <2>2. Went(e, z, zone[z], e.zone[z]) BY DEF Course
  <2> QED BY <1>1, <1>2, <2>2, StaysOnCourse
<1>4. Earned(f)
  <2>1. SUFFICES ASSUME NEW z \in e.seen, zone[z].state = "CLEAR"
                 PROVE  \E k \in f.zone[z].bits : Admitted(f, k, z)
      BY <1>1 DEF Earned
  <2>2. z \in Zones BY DEF Scratch
  <2>3. PICK k \in e.zone[z].bits : Admitted(e, k, z) BY <2>1 DEF Earned
  <2>4. k \in Slots BY <2>2 DEF Scratch, ZoneRuntime
  <2>5. e.at[k] = z /\ z # NoZone BY <2>2, <2>3 DEF Admitted, Zones, NoZone
  <2>6. k \in f.zone[z].bits BY <1>1, <2>2, <2>5
  <2>7. f.tgt[k].sticky = e.tgt[k].sticky /\ f.w = e.w BY <1>1, <2>4, <2>5 DEF Same
  <2>8. Admitted(f, k, z) BY <1>1, <2>3, <2>7 DEF Admitted
  <2> QED BY <2>6, <2>8
<1>5. ASSUME NEW k \in Slots PROVE Tracked(f.tgt[k]) /\ Checked(f, k)
  <2>1. Tracked(f.tgt[k]) BY <1>1 DEF Tracked
  <2>2. Checked(f, k) BY <1>1, <1>2 DEF Checked, Same
  <2> QED BY <2>1, <2>2
<1> QED BY <1>3, <1>4, <1>5

\* Evaluating a slot keeps it, and tells what the stuck rule knows of the slot.
LEMMA EvaluateKeeps ==
    ASSUME Setup, NEW e, Mid(e), NEW i \in Slots, e.at[i] = NoZone,
           zone \in [Zones -> ZoneRuntime], Tracked(tgt[i]), Heir(e, i),
           Course(e), Earned(e), \A k \in Slots : Tracked(e.tgt[k]),
           NEW f, f = Evaluate(e, i)
    PROVE  /\ Course(f) /\ Earned(f) /\ \A k \in Slots : Tracked(f.tgt[k])
           /\ Same(e, f) /\ Checked(f, i)
           /\ \A k \in Slots \ {i} : /\ Heir(e, k) => Heir(f, k)
                                     /\ Checked(e, k) => Checked(f, k)
<1> DEFINE c == grid.cell[e.w[i].pos]
<1>1. /\ e \in Scratch /\ e.ts \in Int /\ e.seen \subseteq Zones /\ e.zone \in [Zones -> ZoneRuntime]
      /\ \A z \in Zones : e.zone[z] \in ZoneRuntime /\ e.zone[z].bits \subseteq Slots
    BY DEF Mid, Scratch, ZoneRuntime
<1>a. Evaluated(e, f, i)
  <2>1. e \in Scratch /\ e.ts \in Int /\ Tracked(e.tgt[i]) BY <1>1
  <2> QED BY <2>1, EvaluateEffect
<1>2. /\ Same(e, f) /\ Tracked(f.tgt[i]) /\ Checked(f, i)
      /\ \A k \in Slots \ {i} : f.tgt[k] = e.tgt[k] /\ f.at[k] = e.at[k]
    BY <1>a DEF Evaluated
<1>3. \/ f.zone = e.zone /\ f.seen = e.seen
      \/ \E d \in grid.room : /\ f.seen = e.seen /\ f.zone = WithoutEvidence(e.zone, i, d)
                              /\ StuckOut(f, i) /\ f.tgt[i].dismissed = d
      \/ /\ e.w[i].active /\ c \in grid.room /\ f.at[i] = grid.zone[c]
         /\ ConfirmedAt(e, f, i, c)
         /\ e.zone[grid.zone[c]].state = "CLEAR" => Admitted(f, i, grid.zone[c])
    BY <1>a DEF Evaluated
<1>4. ASSUME NEW k \in Slots \ {i}
      PROVE  /\ Heir(e, k) => Heir(f, k)
             /\ Checked(e, k) => Checked(f, k)
             /\ StuckOut(e, k) => StuckOut(f, k)
    BY <1>2 DEF Heir, Checked, StuckOut, Same
<1>5. ~StuckOut(e, i) BY DEF StuckOut, Heir, Fresh
<1>6. \A k \in Slots : StuckOut(e, k) => StuckOut(f, k) /\ f.tgt[k].dismissed = e.tgt[k].dismissed
    BY <1>2, <1>4, <1>5
<1>7. \A k \in Slots : Tracked(f.tgt[k]) BY <1>2
\* An admission that stands: slots that are placed have been evaluated before.
<1>8. ASSUME NEW z \in Zones, NEW k \in e.zone[z].bits, Admitted(e, k, z)
      PROVE  k # i /\ Admitted(f, k, z)
  <2>1. k \in Slots /\ k # i BY <1>1, <1>8 DEF Admitted, Zones, NoZone
  <2> QED BY <2>1, <1>2, <1>8 DEF Admitted, Same
<1>9. CASE f.zone = e.zone /\ f.seen = e.seen
  <2>1. Course(f)
    <3>1. SUFFICES ASSUME NEW z \in Zones PROVE Went(f, z, zone[z], f.zone[z])
        BY DEF Course
    <3>2. Went(e, z, zone[z], e.zone[z]) /\ Slowed(e, f, z) BY <1>9 DEF Course, Slowed
    <3> QED BY <3>2, <1>1, <1>2, <1>6, StaysOnCourse
  <2>2. Earned(f) BY <1>1, <1>8, <1>9 DEF Earned
  <2> QED BY <2>1, <2>2, <1>2, <1>4, <1>7
<1>10. CASE \E d \in grid.room : /\ f.seen = e.seen /\ f.zone = WithoutEvidence(e.zone, i, d)
                                 /\ StuckOut(f, i) /\ f.tgt[i].dismissed = d
  <2>1. PICK d \in grid.room : /\ f.seen = e.seen /\ f.zone = WithoutEvidence(e.zone, i, d)
                               /\ StuckOut(f, i) /\ f.tgt[i].dismissed = d
      BY <1>10
  <2>2. \A z \in Zones : z \notin Configured => e.zone[z] = Idle
      BY DEF Mid, Disabled
  <2>3. \A z \in Zones : e.zone[z].bits \ {i} \subseteq f.zone[z].bits
    <3>1. \A z \in Zones : e.zone[z].bits \ {i} \subseteq WithoutEvidence(e.zone, i, d)[z].bits
        BY <1>1, <2>2, WithoutEvidenceFacts
    <3> QED BY <2>1, <3>1
  <2>4. \A z \in Zones : \/ f.zone[z] = Idle
                         \/ f.zone[z].state = e.zone[z].state /\ f.zone[z].since = e.zone[z].since
    <3>1. \A z \in Zones : \/ WithoutEvidence(e.zone, i, d)[z] = Idle
                           \/ /\ WithoutEvidence(e.zone, i, d)[z].state = e.zone[z].state
                              /\ WithoutEvidence(e.zone, i, d)[z].since = e.zone[z].since
        BY <1>1, <2>2, WithoutEvidenceFacts
    <3> QED BY <2>1, <3>1
  <2>5. \A z \in Zones : z # grid.zone[d] => f.zone[z] = e.zone[z]
      BY <1>1, <2>1, SetupFacts DEF WithoutEvidence
  <2>6. Course(f)
    <3>1. SUFFICES ASSUME NEW z \in Zones PROVE Went(f, z, zone[z], f.zone[z])
        BY DEF Course
    <3>2. Went(e, z, zone[z], e.zone[z]) BY DEF Course
    <3>3. \/ Slowed(e, f, z)
          \/ /\ f.zone[z] = Idle
             /\ \E k \in Slots : StuckOut(f, k) /\ grid.zone[f.tgt[k].dismissed] = z
        BY <2>1, <2>4, <2>5 DEF Slowed
    <3> QED BY <3>2, <3>3, <1>1, <1>2, <1>6, StaysOnCourse
  <2>7. Earned(f) BY <2>1, <2>3, <1>1, <1>8 DEF Earned
  <2> QED BY <2>6, <2>7, <1>2, <1>4, <1>7
<1>11. CASE /\ e.w[i].active /\ c \in grid.room /\ f.at[i] = grid.zone[c]
            /\ ConfirmedAt(e, f, i, c)
            /\ e.zone[grid.zone[c]].state = "CLEAR" => Admitted(f, i, grid.zone[c])
  <2> DEFINE zc == grid.zone[c]
  <2>1. zc \in Zones BY <1>11, SetupFacts
  <2>2. /\ f.seen = e.seen \cup {zc} /\ i \in f.zone[zc].bits
        /\ \A y \in Zones : /\ f.zone[y].state = e.zone[y].state
                            /\ f.zone[y].since = e.zone[y].since
                            /\ e.zone[y].bits \subseteq f.zone[y].bits
      BY <1>11 DEF ConfirmedAt
  <2>3. e.zone[zc].state = "CLEAR" => Admitted(f, i, zc) BY <1>11
  <2> HIDE DEF zc
  <2>4. Course(f)
    <3>1. SUFFICES ASSUME NEW z \in Zones PROVE Went(f, z, zone[z], f.zone[z])
        BY DEF Course
    <3>2. Went(e, z, zone[z], e.zone[z]) /\ Slowed(e, f, z) BY <2>2 DEF Course, Slowed
    <3> QED BY <3>2, <1>1, <1>2, <1>6, StaysOnCourse
  <2>5. Earned(f)
    <3>1. SUFFICES ASSUME NEW z \in e.seen \cup {zc}, zone[z].state = "CLEAR"
                   PROVE  \E k \in f.zone[z].bits : Admitted(f, k, z)
        BY <2>2 DEF Earned
    <3>2. CASE z = zc
      <4>1. e.zone[zc].state = "CLEAR" BY <2>1, <3>1, <3>2 DEF Course, Went
      <4> QED BY <4>1, <2>2, <2>3, <3>2
    <3>3. CASE z # zc
      <4>1. PICK k \in e.zone[z].bits : Admitted(e, k, z) BY <3>1, <3>3 DEF Earned
      <4>2. z \in Zones BY <3>1, <3>3, <1>1
      <4> QED BY <4>1, <4>2, <2>2, <1>8
    <3> QED BY <3>2, <3>3
  <2> QED BY <2>4, <2>5, <1>2, <1>4, <1>7
<1> QED BY <1>3, <1>9, <1>10, <1>11

-----------------------------------------------------------------------------
(* Steps 0 to 2b in a row                                                  *)

\* Before anything is evaluated: zones as the tick found them, slots moved about.
Begun(e) ==
    /\ Mid(e) /\ e.seen = {}
    /\ \A k \in Slots : e.at[k] = NoZone /\ Heir(e, k) /\ Tracked(e.tgt[k])
    /\ \A z \in Zones : e.zone[z].state = zone[z].state /\ e.zone[z].since = zone[z].since

Kept(e) == Mid(e) /\ Course(e) /\ Earned(e) /\ \A k \in Slots : Tracked(e.tgt[k])

\* The slots in S are still to be evaluated, the others have been.
Ready(e, S) == /\ \A k \in S : e.at[k] = NoZone /\ Heir(e, k)
               /\ \A k \in Slots \ S : Checked(e, k)

LEMMA BeginBegun ==
    ASSUME IInv, TrackedWell, NEW w \in Windows, NEW on \in SensorInputs, NEW ts \in Int,
           NEW e, e = Begin(w, on, ts)
    PROVE  Begun(e) /\ e.w = w /\ e.ts = ts
<1>1. Mid(e) /\ e.seen = {} /\ \A i \in Slots : e.at[i] = NoZone
    BY BeginMid
<1>2. e.tgt = tgt /\ e.zone = zone /\ e.w = w /\ e.ts = ts
    BY DEF Begin
<1> QED BY <1>1, <1>2 DEF Begun, Heir, TrackedWell

LEMMA RelocateBegun ==
    ASSUME Setup, NEW e, Begun(e), NEW i \in Slots, NEW f, f = Relocate(e, i)
    PROVE  Begun(f) /\ Same(e, f)
<1>1. Mid(e) /\ e.seen = {} /\ e \in Scratch BY DEF Begun, Mid
<1>2. Mid(f) /\ f.seen = {} /\ f.at = e.at BY <1>1, RelocateMid
<1>3. /\ Same(e, f)
      /\ \A z \in Zones : f.zone[z].state = e.zone[z].state /\ f.zone[z].since = e.zone[z].since
      /\ \A k \in Slots : f.tgt[k] = e.tgt[k] \/ f.tgt[k] = Fresh \/ ~e.w[k].active
      /\ \A k \in Slots : f.tgt[k] = Fresh \/ \E m \in Slots : f.tgt[k] = e.tgt[m]
    BY <1>1, RelocateEffect
<1>4. Tracked(Fresh) BY DEF Tracked, Fresh, NoRef
<1>5. \A k \in Slots : Tracked(f.tgt[k]) BY <1>3, <1>4 DEF Begun
<1>6. \A k \in Slots : Heir(f, k) BY <1>3 DEF Begun, Heir, Same
<1> QED BY <1>2, <1>3, <1>5, <1>6 DEF Begun

LEMMA BegunReady == ASSUME NEW e, Begun(e) PROVE Kept(e) /\ Ready(e, Slots)
<1>1. Course(e) BY DEF Begun, Course, Went
<1>2. Earned(e) BY DEF Begun, Earned
<1> QED BY <1>1, <1>2 DEF Begun, Kept, Ready

LEMMA EvaluateNext ==
    ASSUME Setup, zone \in [Zones -> ZoneRuntime], TrackedWell, NEW S \in SUBSET Slots, NEW i \in S,
           NEW e, Kept(e), Ready(e, S), NEW f, f = Evaluate(e, i)
    PROVE  Kept(f) /\ Ready(f, S \ {i}) /\ Same(e, f)
<1>1. /\ Mid(e) /\ Course(e) /\ Earned(e) /\ \A k \in Slots : Tracked(e.tgt[k])
      /\ i \in Slots /\ Tracked(tgt[i])
    BY DEF Kept, TrackedWell
<1>2. e.at[i] = NoZone /\ Heir(e, i) BY DEF Ready
<1>3. /\ Course(f) /\ Earned(f) /\ \A k \in Slots : Tracked(f.tgt[k])
      /\ Same(e, f) /\ Checked(f, i)
      /\ \A k \in Slots \ {i} : (Heir(e, k) => Heir(f, k)) /\ (Checked(e, k) => Checked(f, k))
    BY <1>1, <1>2, EvaluateKeeps
<1>4. Mid(f) /\ \A k \in Slots \ {i} : f.at[k] = e.at[k] BY <1>1, <1>2, EvaluateMid
<1>5. Ready(f, S \ {i}) BY <1>3, <1>4 DEF Ready
<1> QED BY <1>3, <1>4, <1>5 DEF Kept

LEMMA ExitNext ==
    ASSUME Setup, zone \in [Zones -> ZoneRuntime], NEW i \in Slots,
           NEW e, Kept(e), Ready(e, {}), NEW f, f = Handoff(e, i) \/ f = OverlayExit(e, i)
    PROVE  Kept(f) /\ Ready(f, {}) /\ Same(e, f)
<1>1. /\ Mid(e) /\ e \in Scratch /\ Course(e) /\ Earned(e)
      /\ \A k \in Slots : Tracked(e.tgt[k]) /\ Checked(e, k)
    BY DEF Kept, Ready, Mid
<1>2. Exited(e, f) BY <1>1, HandoffExits, OverlayExits
<1>3. Mid(f) BY <1>1, HandoffMid, OverlayExitMid
<1>4. Course(f) /\ Earned(f) /\ \A k \in Slots : Tracked(f.tgt[k]) /\ Checked(f, k)
    BY <1>1, <1>2, ExitKeeps
<1> QED BY <1>2, <1>3, <1>4 DEF Kept, Ready, Exited

\* What steps 0 to 2b make of the state the tick found.
LEMMA MovedKept ==
    ASSUME IInv, TrackedWell, NEW w \in Windows, NEW on \in SensorInputs, NEW ts \in Int,
           NEW moved, moved = ForSlots(OverlayExit, ForSlots(Handoff,
                        ForSlots(Evaluate, ForSlots(Relocate, Begin(w, on, ts)))))
    PROVE  Kept(moved) /\ Ready(moved, {}) /\ moved.w = w /\ moved.ts = ts
<1>s. 0 \in Slots /\ 1 \in Slots /\ 2 \in Slots /\ Slots = {0, 1, 2} BY DEF Slots
<1>t. Setup /\ zone \in [Zones -> ZoneRuntime] BY DEF IInv, TypeOK, Setup
<1>u. \A e, f : Same(e, f) => f.w = e.w /\ f.ts = e.ts BY DEF Same
<1> DEFINE a == Begin(w, on, ts)
           b == ForSlots(Relocate, a)
           c == ForSlots(Evaluate, b)
           d == ForSlots(Handoff, c)
<1>1. Begun(a) /\ a.w = w /\ a.ts = ts BY BeginBegun
<1> HIDE DEF a
<1>2. Begun(b) /\ b.w = w /\ b.ts = ts
  <2> DEFINE b0 == Relocate(a, 0)
             b1 == Relocate(b0, 1)
             b2 == Relocate(b1, 2)
  <2>1. Begun(b0) /\ b0.w = w /\ b0.ts = ts BY <1>1, <1>s, <1>t, <1>u, RelocateBegun
  <2> HIDE DEF b0
  <2>2. Begun(b1) /\ b1.w = w /\ b1.ts = ts BY <2>1, <1>s, <1>t, <1>u, RelocateBegun
  <2> HIDE DEF b1
  <2>3. Begun(b2) /\ b2.w = w /\ b2.ts = ts BY <2>2, <1>s, <1>t, <1>u, RelocateBegun
  <2>4. b = b2 BY DEF ForSlots, b0, b1
  <2> QED BY <2>3, <2>4
<1> HIDE DEF b
<1>3. Kept(c) /\ Ready(c, {}) /\ c.w = w /\ c.ts = ts
  <2> DEFINE c0 == Evaluate(b, 0)
             c1 == Evaluate(c0, 1)
             c2 == Evaluate(c1, 2)
  <2>0. Kept(b) /\ Ready(b, Slots) BY <1>2, BegunReady
  <2>1. Kept(c0) /\ Ready(c0, {1, 2}) /\ c0.w = w /\ c0.ts = ts
    <3>1. Slots \ {0} = {1, 2} BY <1>s
    <3>2. Kept(c0) /\ Ready(c0, Slots \ {0}) /\ Same(b, c0)
        BY <2>0, <1>s, <1>t, EvaluateNext
    <3> HIDE DEF c0
    <3> QED BY <3>1, <3>2, <1>2, <1>u
  <2> HIDE DEF c0
  <2>2. Kept(c1) /\ Ready(c1, {2}) /\ c1.w = w /\ c1.ts = ts
    <3>1. {1, 2} \ {1} = {2} /\ {1, 2} \in SUBSET Slots BY <1>s
    <3>2. Kept(c1) /\ Ready(c1, {1, 2} \ {1}) /\ Same(c0, c1)
        BY <2>1, <3>1, <1>t, EvaluateNext
    <3> HIDE DEF c1
    <3> QED BY <3>1, <3>2, <2>1, <1>u
  <2> HIDE DEF c1
  <2>3. Kept(c2) /\ Ready(c2, {}) /\ c2.w = w /\ c2.ts = ts
    <3>1. {2} \ {2} = {} /\ {2} \in SUBSET Slots BY <1>s
    <3>2. Kept(c2) /\ Ready(c2, {2} \ {2}) /\ Same(c1, c2)
        BY <2>2, <3>1, <1>t, EvaluateNext
    <3> HIDE DEF c2
    <3> QED BY <3>1, <3>2, <2>2, <1>u
  <2>4. c = c2 BY DEF ForSlots, c0, c1
  <2> QED BY <2>3, <2>4
<1> HIDE DEF c
<1>4. Kept(d) /\ Ready(d, {}) /\ d.w = w /\ d.ts = ts
  <2> DEFINE d0 == Handoff(c, 0)
             d1 == Handoff(d0, 1)
             d2 == Handoff(d1, 2)
  <2>1. Kept(d0) /\ Ready(d0, {}) /\ d0.w = w /\ d0.ts = ts
      BY <1>3, <1>s, <1>t, <1>u, ExitNext
  <2> HIDE DEF d0
  <2>2. Kept(d1) /\ Ready(d1, {}) /\ d1.w = w /\ d1.ts = ts
      BY <2>1, <1>s, <1>t, <1>u, ExitNext
  <2> HIDE DEF d1
  <2>3. Kept(d2) /\ Ready(d2, {}) /\ d2.w = w /\ d2.ts = ts
      BY <2>2, <1>s, <1>t, <1>u, ExitNext
  <2>4. d = d2 BY DEF ForSlots, d0, d1
  <2> QED BY <2>3, <2>4
<1> HIDE DEF d
<1> DEFINE g == ForSlots(OverlayExit, d)
<1>5. Kept(g) /\ Ready(g, {}) /\ g.w = w /\ g.ts = ts
  <2> DEFINE d0 == OverlayExit(d, 0)
             d1 == OverlayExit(d0, 1)
             d2 == OverlayExit(d1, 2)
  <2>1. Kept(d0) /\ Ready(d0, {}) /\ d0.w = w /\ d0.ts = ts
      BY <1>4, <1>s, <1>t, <1>u, ExitNext
  <2> HIDE DEF d0
  <2>2. Kept(d1) /\ Ready(d1, {}) /\ d1.w = w /\ d1.ts = ts
      BY <2>1, <1>s, <1>t, <1>u, ExitNext
  <2> HIDE DEF d1
  <2>3. Kept(d2) /\ Ready(d2, {}) /\ d2.w = w /\ d2.ts = ts
      BY <2>2, <1>s, <1>t, <1>u, ExitNext
  <2>4. g = d2 BY DEF ForSlots, d0, d1
  <2> QED BY <2>3, <2>4
<1>6. moved = g BY DEF a, b, c, d
<1> QED BY <1>5, <1>6

-----------------------------------------------------------------------------
(* A whole tick                                                            *)

\* The assisted clear fires in this step.
Forced == /\ assist.enabled /\ RoomEmpty(sens', zone')
          /\ now' - assist'.since >= assist.timeout

Expired(e, z) == e.zone[z].since >= 0 /\ e.ts - e.zone[z].since >= cfg[z].timeout

\* What steps 3 to 6 make of zone z in the scratch copy e.
Settles(e, z) ==
    LET n == zone'[z]
    IN  /\ n.state # "CLEAR" => z \in Configured
        /\ z \in e.seen => n.state = "OCCUPIED" /\ PresentBits(e, z) \subseteq n.bits
        /\ z \notin e.seen =>
              \/ /\ n.state = "CLEAR"
                 /\ \/ e.zone[z].state = "CLEAR" \/ Forced
                    \/ z \in Configured /\ e.zone[z].state = "PENDING" /\ Expired(e, z)
              \/ n.state = "PENDING" /\ e.zone[z].state = "OCCUPIED" /\ n.since = e.ts
              \/ /\ n.state = "PENDING" /\ e.zone[z].state = "PENDING" /\ ~Expired(e, z)
                 /\ n.since = e.zone[z].since

\* The state machine of step 3, by its cases.
LEMMA AdvanceFacts ==
    ASSUME Setup, NEW e, Mid(e), NEW f, f = Cleanup(AdvanceZones(e)), NEW z \in Zones
    PROVE  /\ f.zone[z].state # "CLEAR" => z \in Configured
           /\ z \in e.seen => f.zone[z].state = "OCCUPIED" /\ PresentBits(e, z) \subseteq f.zone[z].bits
           /\ z \notin e.seen =>
                 \/ /\ f.zone[z].state = "CLEAR"
                    /\ \/ e.zone[z].state = "CLEAR"
                       \/ z \in Configured /\ e.zone[z].state = "PENDING" /\ Expired(e, z)
                 \/ /\ f.zone[z].state = "PENDING" /\ e.zone[z].state = "OCCUPIED"
                    /\ f.zone[z].since = e.ts
                 \/ /\ f.zone[z].state = "PENDING" /\ e.zone[z].state = "PENDING" /\ ~Expired(e, z)
                    /\ f.zone[z].since = e.zone[z].since
<1> DEFINE r == e.zone[z]
           n == IF z \in Configured THEN Advance(r, z \in e.seen, cfg[z].timeout, e.ts) ELSE r
           a == AdvanceZones(e)
<1>1. e \in Scratch /\ e.ts \in Int /\ e.zone \in [Zones -> ZoneRuntime] /\ r \in ZoneRuntime
    BY DEF Mid, Scratch
<1>2. a.zone[z] = n /\ a.w = e.w BY <1>1 DEF AdvanceZones, Scratch
<1>3. /\ f.zone[z] = IF a.zone[z].state = "PENDING" THEN a.zone[z]
                     ELSE Bits(a.zone[z], PresentBits(a, z))
    BY DEF Cleanup, AdvanceZones
<1> HIDE DEF a
<1>4. PresentBits(a, z) = {i \in n.bits : e.w[i].active} BY <1>2 DEF PresentBits
<1> DEFINE pb == {i \in n.bits : e.w[i].active}
<1>5. f.zone[z] = IF n.state = "PENDING" THEN n ELSE Bits(n, pb) BY <1>2, <1>3, <1>4
<1>6. ASSUME n \in ZoneRuntime
      PROVE  /\ f.zone[z].state = n.state /\ f.zone[z].since = n.since
             /\ n.state # "PENDING" => f.zone[z].bits = pb
  <2>1. pb \in SUBSET Slots BY <1>6 DEF ZoneRuntime
  <2> HIDE DEF n, pb
  <2> QED BY <2>1, <1>5, <1>6, BitsFacts
<1> HIDE DEF a
<1>7. CASE z \notin Configured
  <2>1. r = Idle /\ z \notin e.seen /\ n = r BY <1>7 DEF Mid, Disabled
  <2> HIDE DEF n
  <2> QED BY <2>1, <1>1, <1>6, <1>7 DEF Idle
<1>8. CASE z \in Configured /\ z \in e.seen
  <2>0. Unset \in Int BY DEF Unset
  <2>1. n = [r EXCEPT !.state = "OCCUPIED", !.since = Unset] BY <1>8 DEF Advance
  <2> HIDE DEF n, r
  <2>2. n \in ZoneRuntime /\ n.state = "OCCUPIED" /\ n.bits = r.bits
      BY <2>0, <2>1, <1>1 DEF ZoneRuntime
  <2>3. PresentBits(e, z) = pb BY <2>2 DEF PresentBits, r
  <2> HIDE DEF pb
  <2> QED BY <2>2, <2>3, <1>6, <1>8
<1>9. CASE z \in Configured /\ z \notin e.seen /\ r.state = "OCCUPIED"
  <2>1. n = [r EXCEPT !.state = "PENDING", !.since = e.ts] BY <1>9 DEF Advance
  <2> HIDE DEF n, pb
  <2>2. n \in ZoneRuntime /\ n.state = "PENDING" /\ n.since = e.ts
      BY <2>1, <1>1 DEF ZoneRuntime
  <2> QED BY <2>2, <1>6, <1>9
<1>10. CASE z \in Configured /\ z \notin e.seen /\ r.state = "PENDING"
  <2>1. n = IF Expired(e, z) THEN Idle ELSE r BY <1>10 DEF Advance, Expired
  <2> HIDE DEF n, pb
  <2>2. CASE Expired(e, z)
    <3>1. n = Idle BY <2>1, <2>2
    <3>2. n \in ZoneRuntime /\ n.state = "CLEAR" BY <3>1, IdleTypes DEF Idle
    <3> QED BY <3>2, <2>2, <1>6, <1>10
  <2>3. CASE ~Expired(e, z)
    <3>1. n = r BY <2>1, <2>3
    <3> QED BY <3>1, <2>3, <1>1, <1>6, <1>10
  <2> QED BY <2>2, <2>3
<1>11. CASE z \in Configured /\ z \notin e.seen /\ r.state = "CLEAR"
  <2>1. n = r BY <1>11 DEF Advance
  <2> HIDE DEF n, pb
  <2> QED BY <2>1, <1>1, <1>6, <1>11
<1>12. r.state \in {"CLEAR", "OCCUPIED", "PENDING"} BY <1>1 DEF ZoneRuntime
<1> QED BY <1>7, <1>8, <1>9, <1>10, <1>11, <1>12

\* The state machine of step 3 keeps the types of the runtimes.
LEMMA AdvancedType ==
    ASSUME Setup, NEW e, Mid(e) PROVE AdvanceZones(e).zone \in [Zones -> ZoneRuntime]
<1> DEFINE n(z) == IF z \in Configured THEN Advance(e.zone[z], z \in e.seen, cfg[z].timeout, e.ts)
                   ELSE e.zone[z]
<1>1. e \in Scratch /\ e.ts \in Int /\ e.zone \in [Zones -> ZoneRuntime] /\ Unset \in Int
    BY DEF Mid, Scratch, Unset
<1>2. AdvanceZones(e).zone = [z \in Zones |-> n(z)] BY <1>1 DEF AdvanceZones, Scratch
<1>3. ASSUME NEW z \in Zones PROVE n(z) \in ZoneRuntime
  <2> DEFINE r == e.zone[z]
  <2>1. r \in ZoneRuntime BY <1>1
  <2>2. \/ n(z) = [r EXCEPT !.state = "OCCUPIED", !.since = Unset]
        \/ n(z) = [r EXCEPT !.state = "PENDING", !.since = e.ts]
        \/ n(z) = Idle \/ n(z) = r
      BY DEF Advance
  <2> HIDE DEF n, r
  <2> QED BY <1>1, <2>1, <2>2, IdleTypes DEF ZoneRuntime
<1> HIDE DEF n
<1> QED BY <1>2, <1>3

\* Whether the room is empty, and since when, does not depend on which zones wait.
LEMMA GraceFacts ==
    ASSUME NEW sn, NEW zn, NEW zm, NEW ts,
           \A z \in Zones : zn[z].state = "OCCUPIED" <=> zm[z].state = "OCCUPIED"
    PROVE  /\ RoomEmpty(sn, zn) = RoomEmpty(sn, zm)
           /\ GraceSince(sn, zn, ts) = GraceSince(sn, zm, ts)
<1>1. RoomEmpty(sn, zn) = RoomEmpty(sn, zm) BY DEF RoomEmpty
<1> QED BY <1>1 DEF GraceSince

\* A tick, by what it makes of every zone and slot.
LEMMA TickKept ==
    ASSUME IInv, TrackedWell, NEW w \in Windows, NEW on \in SensorInputs, NEW d \in Steps,
           Tick(w, on, d)
    PROVE  \E e : /\ Kept(e) /\ Ready(e, {}) /\ e.w = win' /\ e.ts = now'
                  /\ now + d <= MaxTime /\ now' = (now + d) % ClockWrap /\ win' = w /\ tgt' = e.tgt
                  /\ UNCHANGED <<grid, cfg, stuckTimeout>>
                  /\ assist' = [assist EXCEPT !.since = GraceSince(sens', zone', now')]
                  /\ \A z \in Zones : Settles(e, z)
<1> DEFINE ts == (now + d) % ClockWrap
           moved == ForSlots(OverlayExit, ForSlots(Handoff,
                        ForSlots(Evaluate, ForSlots(Relocate, Begin(w, on, ts)))))
           cleaned == Cleanup(AdvanceZones(moved))
           sn == SensorsAfter(on, ts)
           force == GraceOver(sn, cleaned.zone, ts)
           zn == IF force THEN ForceClear(cleaned.zone) ELSE cleaned.zone
<1>1. /\ now + d <= MaxTime
      /\ now' = ts /\ win' = w /\ tgt' = cleaned.tgt /\ zone' = zn /\ sens' = sn
      /\ assist' = [assist EXCEPT !.since = GraceSince(sn, cleaned.zone, ts)]
      /\ UNCHANGED <<grid, cfg, stuckTimeout>>
    BY DEF Tick
<1>2. TypeOK /\ Setup BY DEF IInv, TypeOK, Setup
<1>3. ts \in Int
  <2>1. now \in 0..(ClockWrap - 1) BY <1>2 DEF TypeOK
  <2> HIDE DEF ts
  <2>2. ts \in 0..(ClockWrap - 1) BY <2>1, ClockType DEF ts
  <2> QED BY <2>2, ClockAssumption
<1>p. now' = (now + d) % ClockWrap BY <1>1
<1> HIDE DEF ts
<1>4. Kept(moved) /\ Ready(moved, {}) /\ moved.w = w /\ moved.ts = ts
    BY <1>3, MovedKept
<1>5. Mid(moved) BY <1>4 DEF Kept
<1> HIDE DEF moved
<1>6. cleaned.tgt = moved.tgt /\ cleaned.zone \in [Zones -> ZoneRuntime]
    BY <1>2, <1>5, CleanedFacts
<1>c. \A z \in Zones : cleaned.zone[z].state \in {"CLEAR", "OCCUPIED", "PENDING"}
    BY <1>6 DEF ZoneRuntime
<1>7. \A z \in Zones :
        /\ cleaned.zone[z].state # "CLEAR" => z \in Configured
        /\ z \in moved.seen => /\ cleaned.zone[z].state = "OCCUPIED"
                               /\ PresentBits(moved, z) \subseteq cleaned.zone[z].bits
        /\ z \notin moved.seen =>
              \/ /\ cleaned.zone[z].state = "CLEAR"
                 /\ \/ moved.zone[z].state = "CLEAR"
                    \/ z \in Configured /\ moved.zone[z].state = "PENDING" /\ Expired(moved, z)
              \/ /\ cleaned.zone[z].state = "PENDING" /\ moved.zone[z].state = "OCCUPIED"
                 /\ cleaned.zone[z].since = moved.ts
              \/ /\ cleaned.zone[z].state = "PENDING" /\ moved.zone[z].state = "PENDING"
                 /\ ~Expired(moved, z)
                 /\ cleaned.zone[z].since = moved.zone[z].since
    BY <1>2, <1>5, AdvanceFacts
<1> HIDE DEF cleaned
<1>8. \A z \in Zones : zn[z] = IF force /\ cleaned.zone[z].state = "PENDING" THEN Idle
                               ELSE cleaned.zone[z]
    BY DEF ForceClear
<1> HIDE DEF zn
<1>9. \A z \in Zones : zn[z].state = "OCCUPIED" <=> cleaned.zone[z].state = "OCCUPIED"
    BY <1>8 DEF Idle
<1>10. /\ RoomEmpty(sn, zn) = RoomEmpty(sn, cleaned.zone)
       /\ GraceSince(sn, zn, ts) = GraceSince(sn, cleaned.zone, ts)
    BY <1>9, GraceFacts
<1>11. assist' = [assist EXCEPT !.since = GraceSince(sens', zone', now')]
    BY <1>1, <1>10
<1>12. force => Forced
  <2>1. assist \in [enabled : BOOLEAN, timeout : Nat, since : Int] BY <1>2 DEF TypeOK
  <2>2. assist'.since = GraceSince(sn, cleaned.zone, ts) BY <2>1, <1>1
  <2> QED BY <2>2, <1>1, <1>10 DEF GraceOver, Forced
<1> HIDE DEF force, sn
<1>13. ASSUME NEW z \in Zones PROVE Settles(moved, z)
  <2>1. CASE zn[z] = cleaned.zone[z]
    <3>1. zone'[z] = cleaned.zone[z] BY <2>1, <1>1
    <3> QED BY <3>1, <1>7 DEF Settles
  <2>2. CASE force /\ cleaned.zone[z].state = "PENDING" /\ zn[z] = Idle
    <3>1. zone'[z].state = "CLEAR" BY <2>2, <1>1 DEF Idle
    <3>2. z \notin moved.seen BY <2>2, <1>7
    <3> QED BY <3>1, <3>2, <2>2, <1>12 DEF Settles
  <2> QED BY <2>1, <2>2, <1>8
<1> QED BY <1>1, <1>p, <1>4, <1>6, <1>11, <1>13

-----------------------------------------------------------------------------
(* The other calls                                                         *)

\* A call of the component's services moves no clock, wakes no zone, restarts no
\* timer and moves no stuck reference; it clears them or leaves them.
CallKept ==
    /\ now' = now /\ win' = win /\ assist'.since = assist.since
    /\ stuckTimeout' = stuckTimeout \/ stuckTimeout' \in StuckTimeouts
    /\ cfg' = cfg \/ \A z \in Zones : zone'[z] = Idle
    /\ \A z \in Zones : \/ zone'[z] = Idle
                        \/ zone'[z].state = zone[z].state /\ zone'[z].since = zone[z].since
    /\ \A i \in Slots : \/ tgt'[i] = tgt[i]
                        \/ tgt'[i].gate = 0 /\ tgt'[i].stuck.at = NoPoint

LEMMA DismissKept == ASSUME IInv, DismissSome PROVE CallKept
<1>1. PICK x \in Dismissals : DismissTarget(x[1], x[2]) BY DEF DismissSome
<1> DEFINE i == x[1]
           c == x[2]
           zn == WithoutEvidence(zone, i, c)
           t == DismissedAt(tgt[i], c)
<1>2. i \in Slots /\ c \in Cells \cup {NoCell} BY InputsAssumption
<1>3. Setup /\ zone \in [Zones -> ZoneRuntime] /\ tgt \in [Slots -> Tracking]
    BY DEF IInv, TypeOK, Setup
<1>4. /\ zone' = zn /\ tgt' = [tgt EXCEPT ![i] = t]
      /\ UNCHANGED <<grid, cfg, sens, assist, stuckTimeout, now, win, out>>
    BY <1>1 DEF DismissTarget
<1>5. t.gate = 0 /\ t.stuck.at = NoPoint BY DEF DismissedAt, Fresh, NoRef
<1>6. \A z \in Zones : \/ zn[z] = Idle
                       \/ zn[z].state = zone[z].state /\ zn[z].since = zone[z].since
  <2>1. CASE c \in grid.room
    <3>1. \A z \in Zones : z \notin Configured => zone[z] = Idle
        BY DEF IInv, DisabledZonesClear
    <3> HIDE DEF zn, c, i
    <3> QED BY <2>1, <3>1, <1>2, <1>3, WithoutEvidenceFacts DEF zn
  <2>2. CASE c \notin grid.room
    <3>1. zn = zone BY <2>2 DEF WithoutEvidence
    <3> QED BY <3>1
  <2> QED BY <2>1, <2>2
<1> HIDE DEF i, c, zn, t
<1>7. \A k \in Slots : tgt'[k] = tgt[k] \/ tgt'[k] = t BY <1>2, <1>3, <1>4
<1> QED BY <1>4, <1>5, <1>6, <1>7 DEF CallKept

LEMMA ConfigureKept == ASSUME IInv, Configure PROVE CallKept
<1>1. Fresh.gate = 0 /\ Fresh.stuck.at = NoPoint BY DEF Fresh, NoRef
<1>2. ASSUME NEW g \in Grids, SetGrid(g) PROVE CallKept
    BY <1>1, <1>2 DEF SetGrid, CallKept
<1>3. ASSUME NEW c \in ZoneConfigs, SetZones(c) PROVE CallKept
    BY <1>1, <1>3 DEF SetZones, CallKept
<1>4. ASSUME NEW s \in StuckTimeouts, SetStuckTargetTimeout(s) PROVE CallKept
    BY <1>4 DEF SetStuckTargetTimeout, CallKept
<1>5. ASSUME NEW a \in AssistSettings, SetAssistedClear(a[1], a[2]) PROVE CallKept
  <2>1. assist'.since = assist.since BY <1>5 DEF SetAssistedClear, IInv, TypeOK
  <2> QED BY <2>1, <1>5 DEF SetAssistedClear, CallKept
<1> QED BY <1>2, <1>3, <1>4, <1>5 DEF Configure

\* A tick, as the theorems use it.
TickTo(e) ==
    /\ Kept(e) /\ Ready(e, {}) /\ e.w = win' /\ e.ts = now' /\ tgt' = e.tgt
    /\ win' \in Windows /\ now' \in Int /\ now' >= 0
    /\ MaxTime < ClockWrap => now' >= now
    /\ UNCHANGED <<grid, cfg, stuckTimeout>>
    /\ assist' = [assist EXCEPT !.since = GraceSince(sens', zone', now')]
    /\ \A z \in Zones : Settles(e, z)

LEMMA TickSomeKept == ASSUME IInv, TrackedWell, TickSome PROVE \E e : TickTo(e)
<1>1. PICK w \in Windows, on \in SensorInputs, d \in Steps : Tick(w, on, d) BY DEF TickSome
<1>2. PICK e : /\ Kept(e) /\ Ready(e, {}) /\ e.w = win' /\ e.ts = now'
               /\ now + d <= MaxTime /\ now' = (now + d) % ClockWrap /\ win' = w /\ tgt' = e.tgt
               /\ UNCHANGED <<grid, cfg, stuckTimeout>>
               /\ assist' = [assist EXCEPT !.since = GraceSince(sens', zone', now')]
               /\ \A z \in Zones : Settles(e, z)
    BY <1>1, TickKept
<1>3. now \in 0..(ClockWrap - 1) /\ d \in Nat /\ ClockWrap \in Nat \ {0} /\ MaxTime \in Nat
    BY ClockAssumption DEF IInv, TypeOK
<1>4. now' \in 0..(ClockWrap - 1) BY <1>2, <1>3, ClockType
<1>5. ASSUME MaxTime < ClockWrap PROVE now' >= now
  <2> DEFINE x == now + d
  <2>1. x \in 0..(ClockWrap - 1) /\ x >= now BY <1>2, <1>3, <1>5
  <2>2. now' = x % ClockWrap BY <1>2
  <2> HIDE DEF x
  <2>3. x % ClockWrap = x BY <2>1, <1>3
  <2> QED BY <2>1, <2>2, <2>3
<1>6. TickTo(e) BY <1>2, <1>3, <1>4, <1>5 DEF TickTo
<1> QED BY <1>6

\* What holds of the tracked slots holds after every step.
LEMMA TrackedStep == ASSUME IInv, TrackedWell, [Next]_vars PROVE TrackedWell'
<1>1. CASE TickSome
  <2>1. PICK e : TickTo(e) BY <1>1, TickSomeKept
  <2> QED BY <2>1 DEF TickTo, Kept, TrackedWell
<1>2. CASE DismissSome \/ Configure
  <2>1. CallKept BY <1>2, DismissKept, ConfigureKept
  <2> QED BY <2>1 DEF CallKept, TrackedWell, Tracked
<1>3. CASE UNCHANGED vars
    BY <1>3 DEF vars, TrackedWell
<1> QED BY <1>1, <1>2, <1>3 DEF Next

LEMMA TrackedInit == ASSUME Init PROVE TrackedWell
BY DEF Init, TrackedWell, Tracked, Fresh, NoRef

\* A slot that has passed the entry gate once is tracked, and a dismissed one has no
\* stuck reference.
THEOREM TrackedAlways == Spec => []TrackedWell
<1>1. Init => TrackedWell BY TrackedInit
<1>2. IInv /\ TrackedWell /\ [Next]_vars => TrackedWell' BY TrackedStep
<1> QED BY <1>1, <1>2, Invariance, PTL DEF Spec

-----------------------------------------------------------------------------
(* Action properties of the engine                                         *)

\* A zone that is clear after steps 0 to 2b was reported by nobody, or was left
\* so: Went and Settles, put together for one zone and one tick.
LEMMA ZoneStep ==
    ASSUME IInv, NEW e, TickTo(e), NEW z \in Zones
    PROVE  /\ e \in Scratch /\ zone[z] \in ZoneRuntime /\ e.zone[z] \in ZoneRuntime
           /\ e.ts \in Int /\ now \in Int
           /\ zone'[z].state = "PENDING" =>
                 /\ z \in Configured /\ zone[z].state # "CLEAR" /\ z \notin e.seen
                 /\ \/ zone[z].state = "OCCUPIED" /\ zone'[z].since = now'
                    \/ /\ zone[z].state = "PENDING" /\ zone'[z].since = zone[z].since
                       /\ ~Expired(e, z) /\ e.zone[z].since = zone'[z].since
                    \/ /\ zone'[z].since = Accelerated(e, z)
                       /\ zone[z].state = "PENDING" => zone'[z].since < zone[z].since
                       /\ ~Expired(e, z) /\ e.zone[z].since = zone'[z].since
           /\ zone'[z].state = "OCCUPIED" => z \in e.seen /\ PresentBits(e, z) \subseteq zone'[z].bits
           /\ zone'[z].state = "CLEAR" /\ zone[z].state # "CLEAR" =>
                 \/ Forced
                 \/ \E i \in Slots : StuckOut(e, i) /\ grid.zone[e.tgt[i].dismissed] = z
                 \/ /\ z \in Configured /\ Expired(e, z)
                    /\ \/ zone[z].state = "PENDING" /\ e.zone[z].since = zone[z].since
                       \/ e.zone[z].since = Accelerated(e, z)
<1>1. /\ Mid(e) /\ e \in Scratch /\ Course(e) /\ e.ts = now' BY DEF TickTo, Kept, Mid
<1>2. /\ zone \in [Zones -> ZoneRuntime] /\ now \in Int /\ e.zone \in [Zones -> ZoneRuntime]
      /\ e.ts \in Int
    BY <1>1, ClockAssumption DEF IInv, TypeOK, Scratch
<1>3. Settles(e, z) BY DEF TickTo
<1>4. Went(e, z, zone[z], e.zone[z]) BY <1>1 DEF Course
<1>5. /\ zone[z] \in ZoneRuntime /\ e.zone[z] \in ZoneRuntime BY <1>2
<1>6. /\ zone[z].state \in {"CLEAR", "OCCUPIED", "PENDING"}
      /\ e.zone[z].state \in {"CLEAR", "OCCUPIED", "PENDING"}
    BY <1>5 DEF ZoneRuntime
<1>7. ASSUME zone'[z].state = "PENDING"
      PROVE  /\ z \in Configured /\ zone[z].state # "CLEAR" /\ z \notin e.seen
             /\ \/ zone[z].state = "OCCUPIED" /\ zone'[z].since = now'
                \/ /\ zone[z].state = "PENDING" /\ zone'[z].since = zone[z].since
                   /\ ~Expired(e, z) /\ e.zone[z].since = zone'[z].since
                \/ /\ zone'[z].since = Accelerated(e, z)
                   /\ zone[z].state = "PENDING" => zone'[z].since < zone[z].since
                   /\ ~Expired(e, z) /\ e.zone[z].since = zone'[z].since
    BY <1>1, <1>3, <1>4, <1>6, <1>7 DEF Settles, Went
<1>8. ASSUME zone'[z].state = "OCCUPIED"
      PROVE  z \in e.seen /\ PresentBits(e, z) \subseteq zone'[z].bits
    BY <1>3, <1>8 DEF Settles
<1>9. ASSUME zone'[z].state = "CLEAR", zone[z].state # "CLEAR"
      PROVE  \/ Forced
             \/ \E i \in Slots : StuckOut(e, i) /\ grid.zone[e.tgt[i].dismissed] = z
             \/ /\ z \in Configured /\ Expired(e, z)
                /\ \/ zone[z].state = "PENDING" /\ e.zone[z].since = zone[z].since
                   \/ e.zone[z].since = Accelerated(e, z)
    BY <1>3, <1>4, <1>6, <1>9 DEF Settles, Went
<1> QED BY <1>1, <1>2, <1>5, <1>7, <1>8, <1>9

\* The report of a tick, in terms of the zones and sensors it leaves.
LEMMA ReportStep ==
    ASSUME IInv, TickSome
    PROVE  /\ out'.occ = {z \in Zones : zone'[z].state # "CLEAR"}
           /\ out'.occupancy <=> \/ out'.occ # {}
                                 \/ sens'.static.state # "INACTIVE"
                                 \/ sens'.motion.state # "INACTIVE"
           /\ out'.mmwave <=> \/ sens'.static.state # "INACTIVE"
                              \/ \E z \in Zones : zone'[z].state = "OCCUPIED"
<1>1. PICK w \in Windows, on \in SensorInputs, d \in Steps : Tick(w, on, d)
    BY DEF TickSome
<1> DEFINE ts == (now + d) % ClockWrap
           moved == ForSlots(OverlayExit, ForSlots(Handoff,
                        ForSlots(Evaluate, ForSlots(Relocate, Begin(w, on, ts)))))
           advanced == AdvanceZones(moved)
           reported == {z \in Configured : advanced.zone[z].state # "CLEAR"}
           cleaned == Cleanup(advanced)
           sn == SensorsAfter(on, ts)
           force == GraceOver(sn, cleaned.zone, ts)
           zn == IF force THEN ForceClear(cleaned.zone) ELSE cleaned.zone
           occ == IF force THEN StillReported(reported, cleaned.zone) ELSE reported
           sensed == sn.static.state # "INACTIVE" \/ sn.motion.state # "INACTIVE"
           mm == \/ sn.static.state # "INACTIVE"
                 \/ \E z \in Configured : zn[z].state = "OCCUPIED"
           oc == sensed \/ occ # {}
<1>2. /\ zone' = zn /\ sens' = sn
      /\ out' = [occ |-> occ, occupancy |-> oc, mmwave |-> mm,
                 status |-> [i \in Slots |-> Status(advanced, i)]]
    BY <1>1 DEF Tick
<1>3. Setup /\ now \in 0..(ClockWrap - 1) /\ Configured \subseteq Zones
    BY SetupFacts DEF IInv, TypeOK, Setup
<1>4. ts \in Int
  <2> HIDE DEF ts
  <2>1. ts \in 0..(ClockWrap - 1) BY <1>3, ClockType DEF ts
  <2> QED BY <2>1, ClockAssumption
<1> HIDE DEF ts
<1>5. Mid(moved) BY <1>4, MovedMid
<1> HIDE DEF moved
<1>6. /\ \A z \in Zones \ Configured : cleaned.zone[z] = Idle
      /\ cleaned.zone \in [Zones -> ZoneRuntime]
    BY <1>3, <1>5, CleanedFacts
<1>7. \A z \in Zones : cleaned.zone[z].state = advanced.zone[z].state
  <2>1. advanced.zone \in [Zones -> ZoneRuntime]
      BY <1>3, <1>5, AdvancedType
  <2>2. \A z \in Zones : advanced.zone[z] \in ZoneRuntime BY <2>1
  <2>3. \A z \in Zones : PresentBits(advanced, z) \in SUBSET Slots
      BY <2>2 DEF PresentBits, ZoneRuntime
  <2>4. cleaned.zone = [z \in Zones |-> IF advanced.zone[z].state = "PENDING" THEN advanced.zone[z]
                           ELSE Bits(advanced.zone[z], PresentBits(advanced, z))]
      BY DEF Cleanup, AdvanceZones
  <2> HIDE DEF advanced, cleaned
  <2> QED BY <2>2, <2>3, <2>4, BitsFacts
<1> HIDE DEF cleaned, advanced
<1>8. \A z \in Zones : zn[z] = IF force /\ cleaned.zone[z].state = "PENDING" THEN Idle
                               ELSE cleaned.zone[z]
    BY DEF ForceClear
<1>9. occ = {z \in Zones : zn[z].state # "CLEAR"}
  <2>1. reported = {z \in Configured : cleaned.zone[z].state # "CLEAR"} BY <1>3, <1>7
  <2>2. occ = {z \in Configured : /\ cleaned.zone[z].state # "CLEAR"
                                  /\ ~(force /\ cleaned.zone[z].state = "PENDING")}
      BY <2>1 DEF StillReported
  <2>3. \A z \in Zones : zn[z].state # "CLEAR" => z \in Configured
      BY <1>6, <1>8 DEF Idle
  <2> HIDE DEF zn, force, occ, reported
  <2> QED BY <1>3, <1>8, <2>2, <2>3 DEF Idle
<1>10. mm <=> \/ sn.static.state # "INACTIVE"
              \/ \E z \in Zones : zn[z].state = "OCCUPIED"
  <2>1. \A z \in Zones : zn[z].state = "OCCUPIED" => z \in Configured BY <1>6, <1>8 DEF Idle
  <2> HIDE DEF zn
  <2> QED BY <1>3, <2>1
<1>11. out'.occ = occ /\ out'.occupancy = oc /\ out'.mmwave = mm BY <1>2
<1>12. oc <=> sensed \/ occ # {} OBVIOUS
<1> HIDE DEF zn, occ, mm, oc
<1> QED BY <1>2, <1>9, <1>10, <1>11, <1>12

\* What a tick reports is what the engine holds when the tick ends.
THEOREM ReportsAreActual == Spec => ReportedIsActual
<1> DEFINE A == Ticked =>
                  /\ out'.occ = {z \in Zones : zone'[z].state # "CLEAR"}
                  /\ out'.occupancy <=> \/ out'.occ # {}
                                        \/ sens'.static.state # "INACTIVE"
                                        \/ sens'.motion.state # "INACTIVE"
                  /\ out'.mmwave => out'.occupancy
<1>1. ASSUME IInv, TickSome PROVE A
  <2>1. \A z \in Zones : zone'[z].state = "OCCUPIED" => zone'[z].state # "CLEAR" OBVIOUS
  <2> QED BY <1>1, <2>1, ReportStep
<1>2. ASSUME IInv, [Next]_vars PROVE A \/ UNCHANGED vars
  <2>1. ASSUME DismissSome \/ Configure PROVE ~Ticked
    <3>1. CallKept BY <1>2, <2>1, DismissKept, ConfigureKept
    <3> QED BY <3>1 DEF CallKept, Ticked
  <2> QED BY <1>1, <1>2, <2>1 DEF Next
<1>3. IInv /\ [Next]_vars => [A]_vars BY <1>2
<1> HIDE DEF A
<1>4. Spec => [][A]_vars BY <1>3, Invariance, PTL DEF Spec
<1> QED BY <1>4, PTL DEF ReportedIsActual, A

\* Until the clock wraps, no step of any kind makes a waiting zone wait longer.
THEOREM PendingZonesAge == ASSUME MaxTime < ClockWrap PROVE Spec => PendingAges
<1> DEFINE A == \A z \in Zones : zone[z].state = "PENDING" /\ zone'[z].state = "PENDING" =>
                   now' - zone'[z].since >= now - zone[z].since
<1>1. ASSUME IInv, TrackedWell, [Next]_vars PROVE A
  <2> SUFFICES ASSUME NEW z \in Zones, zone[z].state = "PENDING", zone'[z].state = "PENDING"
               PROVE  now' - zone'[z].since >= now - zone[z].since
      OBVIOUS
  <2>1. zone[z].since \in Int /\ now \in Int
      BY <1>1, ClockAssumption DEF IInv, TypeOK, ZoneRuntime
  <2>2. CASE TickSome
    <3>1. PICK e : TickTo(e) BY <1>1, <2>2, TickSomeKept
    <3>2. now' >= now /\ now' \in Int /\ e.ts = now' BY <3>1 DEF TickTo
    <3>3. \/ zone'[z].since = zone[z].since
          \/ zone'[z].since = e.zone[z].since /\ zone'[z].since < zone[z].since
        BY <1>1, <3>1, ZoneStep
    <3>4. e.zone[z].since \in Int
      <4>1. e.zone[z] \in ZoneRuntime BY <1>1, <3>1, ZoneStep
      <4> QED BY <4>1 DEF ZoneRuntime
    <3> QED BY <2>1, <3>2, <3>3, <3>4
  <2>3. CASE DismissSome \/ Configure
    <3>1. CallKept BY <1>1, <2>3, DismissKept, ConfigureKept
    <3> QED BY <3>1, <2>1 DEF CallKept, Idle
  <2>4. CASE UNCHANGED vars
      BY <2>1, <2>4 DEF vars
  <2> QED BY <1>1, <2>2, <2>3, <2>4 DEF Next
<1>2. IInv /\ TrackedWell /\ [Next]_vars => [A]_vars BY <1>1
<1> HIDE DEF A
<1>3. Spec => [][A]_vars BY <1>2, Invariance, TrackedAlways, PTL DEF Spec
<1> QED BY <1>3 DEF PendingAges, A

\* A clear zone becomes occupied only on a slot that was tracked before, or that
\* touched an entry cell.
THEOREM NoGhostsEnter == Spec => NoGhostEntry
<1> DEFINE Shown(z) == \E i \in zone'[z].bits :
                          LET c == grid.cell[win'[i].pos]
                          IN  /\ win'[i].active /\ c \in grid.room /\ grid.zone[c] = z
                              /\ \/ tgt[i].prev # NoCell
                                 \/ tgt'[i].sticky /\ grid.overlay[c] # "interference"
           A == \A z \in Zones : zone[z].state = "CLEAR" /\ zone'[z].state = "OCCUPIED" => Shown(z)
<1>1. ASSUME IInv, TrackedWell, [Next]_vars PROVE A
  <2> SUFFICES ASSUME NEW z \in Zones, zone[z].state = "CLEAR", zone'[z].state = "OCCUPIED"
               PROVE  Shown(z)
      OBVIOUS
  <2>1. CASE TickSome
    <3>1. PICK e : TickTo(e) BY <1>1, <2>1, TickSomeKept
    <3>2. z \in e.seen /\ PresentBits(e, z) \subseteq zone'[z].bits BY <1>1, <3>1, ZoneStep
    <3>3. PICK i \in e.zone[z].bits : Admitted(e, i, z)
        BY <3>1, <3>2 DEF TickTo, Kept, Earned
    <3>4. i \in PresentBits(e, z) BY <3>3 DEF Admitted, PresentBits
    <3>5. e.w = win' /\ e.tgt = tgt' BY <3>1 DEF TickTo
    <3> QED BY <3>2, <3>3, <3>4, <3>5 DEF Admitted
  <2>2. CASE DismissSome \/ Configure
    <3>1. CallKept BY <1>1, <2>2, DismissKept, ConfigureKept
    <3> QED BY <3>1 DEF CallKept, Idle
  <2>3. CASE UNCHANGED vars
      BY <2>3 DEF vars
  <2> QED BY <1>1, <2>1, <2>2, <2>3 DEF Next
<1>2. IInv /\ TrackedWell /\ [Next]_vars => [A]_vars BY <1>1
<1> HIDE DEF A
<1>3. Spec => [][A]_vars BY <1>2, Invariance, TrackedAlways, PTL DEF Spec
<1> QED BY <1>3 DEF NoGhostEntry, A

-----------------------------------------------------------------------------
(* The observers                                                           *)

LEMMA HStepIsStep == ASSUME [HNext]_hvars PROVE [Next]_vars
BY DEF HNext, Next, hvars, vars

\* The observers only watch: with them the engine behaves as without.
THEOREM ObserversOnlyWatch == HSpec => Spec
<1>1. HInit => Init BY DEF HInit
<1>2. [HNext]_hvars => [Next]_vars BY HStepIsStep
<1> QED BY <1>1, <1>2, PTL DEF HSpec, Spec

ObserverTypes == /\ quiet \in [Zones -> Nat] /\ emptyFor \in Nat \cup {Unset}
                 /\ dwell \in [Slots -> Nat]

\* Elapsed time is never less than what the clock shows.
LEMMA ElapsedFacts ==
    ASSUME IInv, IInv'
    PROVE  /\ Elapsed \in Nat /\ Elapsed >= now' - now
           /\ now' >= now => Elapsed = now' - now
           /\ now' = now => Elapsed = 0
           /\ now \in Nat /\ now' \in Nat
<1>1. /\ now \in 0..(ClockWrap - 1) /\ now' \in 0..(ClockWrap - 1) /\ ClockWrap \in Nat \ {0}
    BY ClockAssumption DEF IInv, TypeOK
<1> DEFINE x == now' - now
           n == now
           m == now'
<1>2. x \in Int /\ 0 - ClockWrap < x /\ x < ClockWrap
  <2>1. n \in 0..(ClockWrap - 1) /\ m \in 0..(ClockWrap - 1) /\ x = m - n BY <1>1
  <2> HIDE DEF n, m, x
  <2> QED BY <2>1, <1>1
<1>3. Elapsed = x % ClockWrap BY DEF Elapsed
<1> HIDE DEF x
<1>4. x % ClockWrap \in 0..(ClockWrap - 1) BY <1>1, <1>2
<1>5. x >= 0 => x % ClockWrap = x BY <1>1, <1>2
<1>6. Elapsed \in Nat /\ Elapsed >= x /\ (x >= 0 => Elapsed = x) BY <1>1, <1>2, <1>3, <1>4, <1>5
<1>7. n \in 0..(ClockWrap - 1) /\ m \in 0..(ClockWrap - 1) /\ x = m - n BY <1>1 DEF x
<1> HIDE DEF n, m
<1>8. n \in Nat /\ m \in Nat /\ (m >= n => x >= 0) /\ (m = n => x = 0) BY <1>1, <1>7
<1>9. Elapsed \in Nat /\ Elapsed >= x /\ (m >= n => Elapsed = x) /\ (m = n => Elapsed = 0)
    BY <1>6, <1>8
<1> QED BY <1>7, <1>8, <1>9 DEF n, m

\* What a step of the observed engine is.
LEMMA HStepFacts ==
    ASSUME IInv, TrackedWell, ObserverTypes, [HNext]_hvars
    PROVE  /\ IInv' /\ TrackedWell' /\ ObserverTypes'
           /\ Elapsed \in Nat /\ Elapsed >= now' - now
           /\ now' >= now => Elapsed = now' - now
           /\ now \in Nat /\ now' \in Nat
           /\ \/ /\ \E e : TickTo(e)
                 /\ ObserveZones /\ ObserveTick
              \/ CallKept /\ ObserveZones /\ UNCHANGED <<emptyFor, dwell>> /\ Elapsed = 0
              \/ UNCHANGED hvars
<1>1. [Next]_vars BY HStepIsStep
<1>2. IInv' /\ TrackedWell' BY <1>1, StepInv, TrackedStep
<1>3. /\ Elapsed \in Nat /\ Elapsed >= now' - now
      /\ now' >= now => Elapsed = now' - now
      /\ now' = now => Elapsed = 0
      /\ now \in Nat /\ now' \in Nat
    BY <1>2, ElapsedFacts
<1>4. CASE TickSome /\ ObserveZones /\ ObserveTick
  <2>1. \E e : TickTo(e) BY <1>4, TickSomeKept
  <2>2. ObserverTypes'
    <3>1. quiet' \in [Zones -> Nat] BY <1>3, <1>4 DEF ObserveZones, ObserverTypes
    <3>2. emptyFor' \in Nat \cup {Unset} BY <1>3, <1>4 DEF ObserveTick, ObserverTypes, Unset
    <3>3. dwell' \in [Slots -> Nat] BY <1>3, <1>4 DEF ObserveTick, ObserverTypes
    <3> QED BY <3>1, <3>2, <3>3 DEF ObserverTypes
  <2> QED BY <2>1, <2>2, <1>2, <1>3, <1>4
<1>5. CASE (DismissSome \/ Configure) /\ ObserveZones /\ UNCHANGED <<emptyFor, dwell>>
  <2>1. CallKept BY <1>5, DismissKept, ConfigureKept
  <2>2. Elapsed = 0 BY <2>1, <1>3 DEF CallKept
  <2>3. ObserverTypes'
    <3>1. quiet' \in [Zones -> Nat] BY <1>3, <1>5 DEF ObserveZones, ObserverTypes
    <3> QED BY <3>1, <1>5 DEF ObserverTypes
  <2> QED BY <2>1, <2>2, <2>3, <1>2, <1>3, <1>5
<1>6. CASE UNCHANGED hvars
  <2>1. ObserverTypes' BY <1>6 DEF hvars, ObserverTypes
  <2> QED BY <2>1, <1>2, <1>3, <1>6
<1> QED BY <1>4, <1>5, <1>6 DEF HNext

LEMMA HInitFacts == ASSUME HInit PROVE IInv /\ TrackedWell /\ ObserverTypes
<1>1. Init BY DEF HInit
<1>2. ObserverTypes BY DEF HInit, ObserverTypes, Unset
<1> QED BY <1>1, <1>2, InitInv, TrackedInit

Watched == IInv /\ TrackedWell /\ ObserverTypes

\* What is proved of the engine holds beside the observers, and they have their types.
THEOREM WatchedAlways == HSpec => []Watched
<1>1. HInit => Watched BY HInitFacts DEF Watched
<1>2. Watched /\ [HNext]_hvars => Watched' BY HStepFacts DEF Watched
<1> QED BY <1>1, <1>2, PTL DEF HSpec

\* What the settings of an enabled zone are.
LEMMA SettingsFacts ==
    ASSUME IInv
    PROVE  \A z \in Configured : cfg[z].timeout \in Nat /\ cfg[z].handoff \in Nat
<1>1. cfg \in ZoneConfigs \/ cfg = NoConfig BY DEF IInv, TypeOK
<1>2. CASE cfg \in ZoneConfigs
    BY <1>2, ConfigsAssumption DEF Configured, ZoneSettings
<1>3. CASE cfg = NoConfig
    BY <1>3 DEF Configured, NoConfig
<1> QED BY <1>1, <1>2, <1>3

\* A waiting zone is enabled and its timer is a number.
LEMMA PendingFacts ==
    ASSUME IInv, NEW z \in Zones, zone[z].state = "PENDING"
    PROVE  /\ zone[z].since \in Int /\ z \in Configured
           /\ cfg[z].timeout \in Nat /\ cfg[z].handoff \in Nat
<1>1. zone[z].since \in Int BY DEF IInv, TypeOK, ZoneRuntime
<1>2. z \in Configured BY DEF IInv, DisabledZonesClear, Idle
<1> QED BY <1>1, <1>2, SettingsFacts

-----------------------------------------------------------------------------
(* A zone clears in time                                                   *)

\* The engine has been up for as long as a handoff may back-date a timer, and no
\* hold timeout is zero.
SaneTimeouts == \A c \in ZoneConfigs : \A z \in DOMAIN c :
            c[z].timeout > 0 /\ c[z].timeout - c[z].handoff <= StartTime

\* Its timer is running, has not run out, and has run at least as long as the
\* zone has waited, but for what a handoff takes off.
Waits ==
    /\ now >= StartTime
    /\ \A z \in Zones : zone[z].state = "PENDING" =>
          /\ zone[z].since >= 0
          /\ quiet[z] <= (now - zone[z].since) + Most(0, cfg[z].handoff - cfg[z].timeout)
          /\ now - zone[z].since < cfg[z].timeout

\* A start back-dated from now is not before zero.
LEMMA BackDated ==
    ASSUME NEW n \in Nat, NEW b \in Nat, NEW t \in Nat, NEW h \in Nat, n >= b, t - h <= b
    PROVE  n - (t - h) >= 0
OBVIOUS

LEMMA WaitsStep ==
    ASSUME SaneTimeouts, MaxTime < ClockWrap, Watched, Waits, [HNext]_hvars
    PROVE  Waits'
<1>1. /\ IInv /\ TrackedWell /\ ObserverTypes /\ IInv' /\ TrackedWell' /\ ObserverTypes'
      /\ Elapsed \in Nat /\ Elapsed >= now' - now
      /\ now' >= now => Elapsed = now' - now
      /\ now \in Nat /\ now' \in Nat
      /\ \/ (\E e : TickTo(e)) /\ ObserveZones /\ ObserveTick
         \/ CallKept /\ ObserveZones /\ UNCHANGED <<emptyFor, dwell>> /\ Elapsed = 0
         \/ UNCHANGED hvars
    BY HStepFacts DEF Watched
<1>2. StartTime \in Nat BY ClockAssumption
<1>3. CASE (\E e : TickTo(e)) /\ ObserveZones
  <2>1. PICK e : TickTo(e) BY <1>3
  <2>2. now' >= now /\ Elapsed = now' - now /\ cfg' = cfg /\ e.ts = now'
      BY <1>1, <2>1 DEF TickTo
  <2>3. now' >= StartTime BY <1>1, <1>2, <2>2 DEF Waits
  <2>4. ASSUME NEW z \in Zones, zone'[z].state = "PENDING"
        PROVE  /\ zone'[z].since >= 0
               /\ quiet'[z] <= (now' - zone'[z].since) + Most(0, cfg[z].handoff - cfg[z].timeout)
               /\ now' - zone'[z].since < cfg[z].timeout
    <3>1. /\ z \in Configured /\ zone[z].state # "CLEAR"
          /\ \/ zone[z].state = "OCCUPIED" /\ zone'[z].since = now'
             \/ /\ zone[z].state = "PENDING" /\ zone'[z].since = zone[z].since
                /\ ~Expired(e, z) /\ e.zone[z].since = zone'[z].since
             \/ /\ zone'[z].since = Accelerated(e, z)
                /\ zone[z].state = "PENDING" => zone'[z].since < zone[z].since
                /\ ~Expired(e, z) /\ e.zone[z].since = zone'[z].since
        BY <1>1, <2>1, <2>4, ZoneStep
    <3> DEFINE T == cfg[z].timeout
               H == cfg[z].handoff
               m == Most(0, H - T)
               s == zone'[z].since
               q == quiet'[z]
    <3>2. T \in Nat /\ H \in Nat /\ T > 0 /\ T - H <= StartTime
      <4>1. cfg \in ZoneConfigs BY <1>1, <3>1 DEF IInv, TypeOK, Configured, NoConfig
      <4>2. T > 0 /\ T - H <= StartTime BY <4>1, <3>1 DEF SaneTimeouts, Configured
      <4> QED BY <4>2, <1>1, <3>1, SettingsFacts
    <3>3. s \in Int BY <1>1, <2>4 DEF IInv, TypeOK, ZoneRuntime
    <3>4. zone[z].since \in Int BY <1>1 DEF IInv, TypeOK, ZoneRuntime
    <3>5. m \in Nat /\ m >= H - T BY <3>2 DEF Most
    <3>6. zone[z].state = "PENDING" =>
            /\ zone[z].since >= 0 /\ quiet[z] <= (now - zone[z].since) + m
            /\ q = quiet[z] + (now' - now)
        BY <1>3, <2>2, <2>4 DEF Waits, ObserveZones
    <3>7. zone[z].state # "PENDING" => q = 0 BY <1>3 DEF ObserveZones
    <3>8. q \in Nat /\ quiet[z] \in Nat BY <1>1 DEF ObserverTypes
    <3>9. e.zone[z].since = s /\ ~Expired(e, z) => ~(s >= 0 /\ now' - s >= T)
        BY <2>2 DEF Expired
    <3>10. Accelerated(e, z) = now' - (T - H) BY <2>2 DEF Accelerated
    <3> HIDE DEF T, H, m, s, q
    <3>11. CASE zone[z].state = "OCCUPIED" /\ s = now'
      <4>1. q = 0 BY <3>7, <3>11
      <4> QED BY <4>1, <3>2, <3>5, <3>11, <1>1 DEF T, H, m, s, q
    <3>12. CASE zone[z].state = "PENDING" /\ s = zone[z].since /\ ~(s >= 0 /\ now' - s >= T)
      <4>1. s >= 0 /\ q <= (now' - s) + m /\ now' - s < T
          BY <1>1, <3>2, <3>3, <3>5, <3>6, <3>8, <3>12
      <4> QED BY <4>1 DEF T, H, m, s, q
    <3>13. CASE /\ s = Accelerated(e, z) /\ ~(s >= 0 /\ now' - s >= T)
                /\ zone[z].state = "PENDING" => s < zone[z].since
      <4>0. s = now' - (T - H) /\ now' \in Nat BY <1>1, <3>10, <3>13
      <4>1. s >= 0
        <5>1. now' - (T - H) >= 0 BY <4>0, <1>2, <2>3, <3>2, BackDated
        <5> QED BY <4>0, <5>1
      <4>2. now' - s < T BY <4>1, <3>13, <3>2, <3>3, <1>1
      <4>3. q <= (now' - s) + m
        <5>1. CASE zone[z].state = "PENDING"
            BY <5>1, <1>1, <3>3, <3>4, <3>5, <3>6, <3>8, <3>13
        <5>2. CASE zone[z].state # "PENDING"
            BY <5>2, <1>1, <3>2, <3>3, <3>5, <3>7, <3>10, <3>13
        <5> QED BY <5>1, <5>2
      <4> QED BY <4>1, <4>2, <4>3 DEF T, H, m, s, q
    <3> QED BY <3>1, <3>9, <3>11, <3>12, <3>13 DEF s
  <2> QED BY <2>2, <2>3, <2>4 DEF Waits
<1>4. CASE CallKept /\ ObserveZones /\ Elapsed = 0
  <2>1. ASSUME NEW z \in Zones, zone'[z].state = "PENDING"
        PROVE  /\ zone'[z].since >= 0
               /\ quiet'[z] <= (now' - zone'[z].since) + Most(0, cfg'[z].handoff - cfg'[z].timeout)
               /\ now' - zone'[z].since < cfg'[z].timeout
    <3>1. zone[z].state = "PENDING" /\ zone'[z].since = zone[z].since /\ cfg' = cfg /\ now' = now
        BY <1>4, <2>1 DEF CallKept, Idle
    <3>2. quiet'[z] = quiet[z]
      <4>1. quiet'[z] = quiet[z] + 0 BY <1>4, <2>1, <3>1 DEF ObserveZones
      <4> QED BY <4>1, <1>1 DEF ObserverTypes
    <3> QED BY <3>1, <3>2 DEF Waits
  <2>2. now' >= StartTime BY <1>4 DEF CallKept, Waits
  <2> QED BY <2>1, <2>2 DEF Waits
<1>5. CASE UNCHANGED hvars
    BY <1>5 DEF hvars, vars, Waits
<1> QED BY <1>1, <1>3, <1>4, <1>5

\* A zone that nobody is confirmed in clears before it has waited for the longer
\* of its timeouts: as long as the clock does not wrap, no hold timeout is zero
\* and no handoff reaches back before the start.
THEOREM ZonesClearInTime == ASSUME SaneTimeouts, MaxTime < ClockWrap PROVE HSpec => []HoldBound
<1>1. HInit => Waits BY ClockAssumption DEF HInit, Init, Waits, Idle
<1>2. Watched /\ Waits /\ [HNext]_hvars => Waits' BY WaitsStep
<1>3. Watched /\ Waits => HoldBound
  <2> SUFFICES ASSUME Watched, Waits, NEW z \in Configured, zone[z].state = "PENDING"
               PROVE  quiet[z] < Most(cfg[z].timeout, cfg[z].handoff)
      BY DEF HoldBound
  <2>1. IInv /\ now \in Nat /\ quiet[z] \in Nat /\ z \in Zones
    <3>1. IInv /\ ObserverTypes BY DEF Watched
    <3>2. Setup BY <3>1 DEF IInv, TypeOK, Setup
    <3>3. now \in Nat BY <3>1, ClockAssumption DEF IInv, TypeOK
    <3> QED BY <3>1, <3>2, <3>3, SetupFacts DEF ObserverTypes
  <2>2. zone[z].since \in Int /\ cfg[z].timeout \in Nat /\ cfg[z].handoff \in Nat
      BY <2>1, PendingFacts
  <2>3. /\ quiet[z] <= (now - zone[z].since) + Most(0, cfg[z].handoff - cfg[z].timeout)
        /\ now - zone[z].since < cfg[z].timeout
      BY <2>1 DEF Waits
  <2> QED BY <2>1, <2>2, <2>3 DEF Most
<1> QED BY <1>1, <1>2, <1>3, WatchedAlways, PTL DEF HSpec

-----------------------------------------------------------------------------
(* ... and not too early                                                   *)

\* The timer of a waiting zone shows at most what it has waited and what a
\* handoff takes off.
NotLonger == \A z \in Zones : zone[z].state = "PENDING" =>
                now - zone[z].since <= quiet[z] + Most(0, cfg[z].timeout - cfg[z].handoff)

\* The grace timer shows at most the time for which the room has been empty.
Grace == assist.since >= 0 => emptyFor >= 0 /\ now - assist.since <= emptyFor

LEMMA NotLongerStep == ASSUME Watched, NotLonger, [HNext]_hvars PROVE NotLonger'
<1>1. /\ IInv /\ TrackedWell /\ ObserverTypes /\ IInv' /\ TrackedWell' /\ ObserverTypes'
      /\ Elapsed \in Nat /\ Elapsed >= now' - now
      /\ now \in Nat /\ now' \in Nat
      /\ \/ (\E e : TickTo(e)) /\ ObserveZones /\ ObserveTick
         \/ CallKept /\ ObserveZones /\ UNCHANGED <<emptyFor, dwell>> /\ Elapsed = 0
         \/ UNCHANGED hvars
    BY HStepFacts DEF Watched
<1>2. CASE (\E e : TickTo(e)) /\ ObserveZones
  <2>1. PICK e : TickTo(e) BY <1>2
  <2>2. cfg' = cfg /\ e.ts = now' BY <2>1 DEF TickTo
  <2>3. ASSUME NEW z \in Zones, zone'[z].state = "PENDING"
        PROVE  now' - zone'[z].since <= quiet'[z] + Most(0, cfg[z].timeout - cfg[z].handoff)
    <3>1. /\ z \in Configured
          /\ \/ zone[z].state = "OCCUPIED" /\ zone'[z].since = now'
             \/ zone[z].state = "PENDING" /\ zone'[z].since = zone[z].since
             \/ zone'[z].since = Accelerated(e, z)
        BY <1>1, <2>1, <2>3, ZoneStep
    <3> DEFINE T == cfg[z].timeout
               H == cfg[z].handoff
               m == Most(0, T - H)
               s == zone'[z].since
               q == quiet'[z]
               n == now'
    <3>2. T \in Nat /\ H \in Nat BY <1>1, <3>1, SettingsFacts
    <3>3. m \in Nat /\ m >= T - H BY <3>2 DEF Most
    <3>4. zone[z].state = "PENDING" =>
             now - zone[z].since <= quiet[z] + m /\ q = quiet[z] + Elapsed
        BY <1>2, <2>3 DEF NotLonger, ObserveZones
    <3>5. q \in Nat /\ quiet[z] \in Nat /\ s \in Int /\ n \in Nat /\ n - now <= Elapsed
      <4>1. q \in Nat /\ quiet[z] \in Nat BY <1>1 DEF ObserverTypes
      <4>2. s \in Int BY <1>1 DEF IInv, TypeOK, ZoneRuntime
      <4> QED BY <4>1, <4>2, <1>1
    <3>6. Accelerated(e, z) = n - (T - H) BY <2>2 DEF Accelerated
    <3>7. now \in Nat /\ Elapsed \in Nat BY <1>1
    <3> HIDE DEF T, H, m, s, q, n
    <3>8. CASE s = n BY <3>3, <3>5, <3>8 DEF T, H, m, s, q, n
    <3>9. CASE zone[z].state = "PENDING" /\ s = zone[z].since
      <4>1. n - s <= q + m BY <3>3, <3>4, <3>5, <3>7, <3>9
      <4> QED BY <4>1 DEF T, H, m, s, q, n
    <3>10. CASE s = n - (T - H)
      <4>1. n - s <= q + m BY <3>2, <3>3, <3>5, <3>10
      <4> QED BY <4>1 DEF T, H, m, s, q, n
    <3> QED BY <3>1, <3>6, <3>8, <3>9, <3>10 DEF s, n
  <2> QED BY <2>2, <2>3 DEF NotLonger
<1>3. CASE CallKept /\ ObserveZones /\ Elapsed = 0
  <2>1. ASSUME NEW z \in Zones, zone'[z].state = "PENDING"
        PROVE  now' - zone'[z].since <= quiet'[z] + Most(0, cfg'[z].timeout - cfg'[z].handoff)
    <3>1. zone[z].state = "PENDING" /\ zone'[z].since = zone[z].since /\ cfg' = cfg /\ now' = now
        BY <1>3, <2>1 DEF CallKept, Idle
    <3>2. quiet'[z] = quiet[z]
      <4>1. quiet'[z] = quiet[z] + 0 BY <1>3, <2>1, <3>1 DEF ObserveZones
      <4> QED BY <4>1, <1>1 DEF ObserverTypes
    <3> QED BY <3>1, <3>2 DEF NotLonger
  <2> QED BY <2>1 DEF NotLonger
<1>4. CASE UNCHANGED hvars
    BY <1>4 DEF hvars, vars, NotLonger
<1> QED BY <1>1, <1>2, <1>3, <1>4

\* The grace timer after a tick, by its cases.
LEMMA GraceTick ==
    ASSUME IInv, ObserverTypes, Grace, NEW e, TickTo(e), ObserveTick, Elapsed \in Nat,
           Elapsed >= now' - now, now \in Nat, now' \in Nat
    PROVE  assist'.since >= 0 => emptyFor' >= 0 /\ now' - assist'.since <= emptyFor'
<1>1. assist'.since = GraceSince(sens', zone', now') BY DEF TickTo, IInv, TypeOK
<1>2. emptyFor' = IF ~RoomEmpty(sens', zone') THEN Unset
                  ELSE IF emptyFor = Unset THEN 0 ELSE emptyFor + Elapsed
    BY DEF ObserveTick
<1>3. assist.since \in Int /\ emptyFor \in Nat \cup {Unset} BY DEF IInv, TypeOK, ObserverTypes
<1> DEFINE s == assist'.since
           n == now'
           f == emptyFor'
<1>4. SUFFICES ASSUME s >= 0 PROVE f >= 0 /\ n - s <= f
    OBVIOUS
<1>5. RoomEmpty(sens', zone') /\ s = IF assist.since < 0 THEN n ELSE assist.since
    BY <1>1, <1>4 DEF GraceSince, Unset
<1>6. f = IF emptyFor = Unset THEN 0 ELSE emptyFor + Elapsed BY <1>2, <1>5
<1>7. n \in Nat /\ n - now <= Elapsed OBVIOUS
<1> HIDE DEF s, n, f
<1>8. CASE assist.since < 0
    BY <1>3, <1>5, <1>6, <1>7, <1>8 DEF Unset
<1>9. CASE assist.since >= 0
  <2>1. emptyFor >= 0 /\ now - assist.since <= emptyFor /\ s = assist.since
      BY <1>3, <1>5, <1>9 DEF Grace
  <2> QED BY <2>1, <1>3, <1>6, <1>7 DEF Unset
<1> QED BY <1>3, <1>8, <1>9

LEMMA GraceStep == ASSUME Watched, Grace, [HNext]_hvars PROVE Grace'
<1>1. /\ IInv /\ ObserverTypes /\ Elapsed \in Nat /\ Elapsed >= now' - now
      /\ now \in Nat /\ now' \in Nat
      /\ \/ (\E e : TickTo(e)) /\ ObserveZones /\ ObserveTick
         \/ CallKept /\ ObserveZones /\ UNCHANGED <<emptyFor, dwell>> /\ Elapsed = 0
         \/ UNCHANGED hvars
    BY HStepFacts DEF Watched
<1>2. CASE (\E e : TickTo(e)) /\ ObserveTick
  <2>1. PICK e : TickTo(e) BY <1>2
  <2> QED BY <2>1, <1>1, <1>2, GraceTick DEF Grace
<1>3. CASE CallKept /\ UNCHANGED <<emptyFor, dwell>>
    BY <1>3 DEF CallKept, Grace
<1>4. CASE UNCHANGED hvars
    BY <1>4 DEF hvars, vars, Grace
<1> QED BY <1>1, <1>2, <1>3, <1>4

\* A tick clears a zone only when it has waited long enough, or the assisted clear
\* has seen the room empty long enough, or the stuck rule took the last target out
\* of it; also where the clock wraps.
THEOREM NoZoneClearsEarly == HSpec => NoEarlyClear
<1> DEFINE Allowed(z) ==
              \/ quiet[z] + Elapsed >= Least(cfg[z].timeout, cfg[z].handoff)
              \/ assist.enabled /\ emptyFor' >= assist.timeout
              \/ \E i \in Slots :
                   /\ tgt'[i].dismissed # NoCell /\ tgt'[i].dismissed # tgt[i].dismissed
                   /\ grid.zone[tgt'[i].dismissed] = z
           A == \A z \in Configured :
                   zone[z].state # "CLEAR" /\ zone'[z].state = "CLEAR" /\ Ticked => Allowed(z)
<1>1. ASSUME Watched, NotLonger, Grace, [HNext]_hvars PROVE A \/ UNCHANGED hvars
  <2>1. /\ IInv /\ ObserverTypes /\ Elapsed \in Nat /\ Elapsed >= now' - now
        /\ now \in Nat /\ now' \in Nat
        /\ \/ (\E e : TickTo(e)) /\ ObserveZones /\ ObserveTick
           \/ CallKept /\ ObserveZones /\ UNCHANGED <<emptyFor, dwell>> /\ Elapsed = 0
           \/ UNCHANGED hvars
      BY <1>1, HStepFacts DEF Watched
  <2>2. ASSUME CallKept PROVE ~Ticked BY <2>2 DEF CallKept, Ticked
  <2>3. ASSUME NEW e, TickTo(e), ObserveTick, NEW z \in Configured,
               zone[z].state # "CLEAR", zone'[z].state = "CLEAR"
        PROVE  Allowed(z)
    <3>1. z \in Zones /\ cfg[z].timeout \in Nat /\ cfg[z].handoff \in Nat
      <4>1. Setup BY <2>1 DEF IInv, TypeOK, Setup
      <4> QED BY <4>1, <2>1, SetupFacts, SettingsFacts
    <3>2. \/ Forced
          \/ \E i \in Slots : StuckOut(e, i) /\ grid.zone[e.tgt[i].dismissed] = z
          \/ /\ Expired(e, z)
             /\ \/ zone[z].state = "PENDING" /\ e.zone[z].since = zone[z].since
                \/ e.zone[z].since = Accelerated(e, z)
        BY <2>1, <2>3, <3>1, ZoneStep
    <3>3. e.ts = now' /\ tgt' = e.tgt BY <2>3 DEF TickTo
    <3>4. CASE Forced
      <4>1. assist \in [enabled : BOOLEAN, timeout : Nat, since : Int] /\ emptyFor \in Nat \cup {Unset}
          BY <2>1 DEF IInv, TypeOK, ObserverTypes
      <4>2. assist'.since = GraceSince(sens', zone', now') BY <2>3, <4>1 DEF TickTo
      <4>3. assist'.since >= 0
          BY <2>1, <3>4, <4>1, <4>2 DEF GraceSince, Forced
      <4>4. now' - assist'.since <= emptyFor' BY <1>1, <2>1, <2>3, <4>3, GraceTick
      <4>5. emptyFor' \in Int BY <2>1, <2>3, <4>1 DEF ObserveTick, Unset
      <4>6. assist'.since \in Int BY <2>1, <4>1, <4>2 DEF GraceSince, Unset
      <4>7. assist.enabled /\ now' - assist'.since >= assist.timeout BY <3>4 DEF Forced
      <4>8. emptyFor' >= assist.timeout BY <2>1, <4>1, <4>4, <4>5, <4>6, <4>7
      <4> QED BY <4>7, <4>8
    <3>5. CASE \E i \in Slots : StuckOut(e, i) /\ grid.zone[e.tgt[i].dismissed] = z
        BY <3>3, <3>5 DEF StuckOut
    <3>6. CASE /\ Expired(e, z)
               /\ \/ zone[z].state = "PENDING" /\ e.zone[z].since = zone[z].since
                  \/ e.zone[z].since = Accelerated(e, z)
      <4> DEFINE T == cfg[z].timeout
                 H == cfg[z].handoff
                 m == Most(0, T - H)
                 s == e.zone[z].since
                 n == now'
                 q == quiet[z]
                 l == Least(T, H)
      <4>1. T \in Nat /\ H \in Nat BY <3>1
      <4>2. /\ m \in Nat /\ l \in Nat /\ l = T - m
        BY <4>1 DEF Most, Least
      <4>3. s >= 0 /\ n - s >= T BY <3>3, <3>6 DEF Expired
      <4>4. q \in Nat /\ n \in Nat /\ n - now <= Elapsed
          BY <2>1, <3>1 DEF ObserverTypes
      <4>5. Accelerated(e, z) = n - (T - H) BY <3>3 DEF Accelerated
      <4>6. s \in Int
        <5>1. e.zone[z] \in ZoneRuntime BY <2>1, <2>3, <3>1, ZoneStep
        <5> QED BY <5>1 DEF ZoneRuntime
      <4>7. zone[z].state = "PENDING" /\ s = zone[z].since => now - s <= q + m
          BY <1>1, <3>1 DEF NotLonger
      <4>8. now \in Nat /\ Elapsed \in Nat BY <2>1
      <4>9. H = 0 => l = 0 BY <4>1 DEF Least
      <4> HIDE DEF T, H, m, s, n, q, l
      <4>10. CASE now - s <= q + m
        <5>1. q + Elapsed >= l BY <4>1, <4>2, <4>3, <4>4, <4>6, <4>8, <4>10
        <5> QED BY <5>1 DEF q, l, T, H
      <4>11. CASE s = n - (T - H)
        <5>1. H = 0 BY <4>1, <4>3, <4>4, <4>11
        <5>2. q + Elapsed >= l BY <5>1, <4>4, <4>8, <4>9
        <5> QED BY <5>2 DEF q, l, T, H
      <4> QED BY <3>6, <4>5, <4>7, <4>10, <4>11 DEF s
    <3> QED BY <3>2, <3>4, <3>5, <3>6
  <2>4. CASE \E e : TickTo(e) /\ ObserveTick BY <2>3, <2>4
  <2> HIDE DEF Allowed
  <2> QED BY <2>1, <2>2, <2>4
<1>2. Watched /\ NotLonger /\ Grace /\ [HNext]_hvars => [A]_hvars BY <1>1
<1>3. HInit => NotLonger /\ Grace BY DEF HInit, Init, NotLonger, Grace, Idle, Unset
<1>4. Watched /\ NotLonger /\ [HNext]_hvars => NotLonger' BY NotLongerStep
<1>5. Watched /\ Grace /\ [HNext]_hvars => Grace' BY GraceStep
<1> HIDE DEF A
<1>6. HSpec => [][A]_hvars BY <1>2, <1>3, <1>4, <1>5, WatchedAlways, PTL DEF HSpec
<1> QED BY <1>6, PTL DEF NoEarlyClear, A

-----------------------------------------------------------------------------
(* The stuck rule                                                          *)

\* A stuck reference is the position of the last window, held for at least as long
\* as the reference says.
RefsFollow ==
    \A i \in Slots : tgt[i].stuck.at # NoPoint =>
        /\ win[i].active /\ win[i].pos = tgt[i].stuck.at
        /\ now - tgt[i].stuck.since <= dwell[i]

\* A rule that was never on has no references.
Off == stuckTimeout = 0 => \A i \in Slots : tgt[i].stuck.at = NoPoint

LEMMA StuckTick ==
    ASSUME IInv, ObserverTypes, RefsFollow, Off, NEW e, TickTo(e), ObserveTick, Elapsed \in Nat,
           Elapsed >= now' - now, now \in Nat, now' \in Nat, NEW i \in Slots
    PROVE  /\ e.tgt[i].stuck.at # NoPoint =>
                 /\ stuckTimeout # 0 /\ win'[i].active /\ win'[i].pos = e.tgt[i].stuck.at
                 /\ now' - e.tgt[i].stuck.since <= dwell'[i]
           /\ StuckOut(e, i) => dwell'[i] >= stuckTimeout
<1>1. /\ Checked(e, i) /\ e.w = win' /\ e.ts = now' /\ e \in Scratch
    BY DEF TickTo, Ready, Kept, Mid
<1>2. tgt[i].stuck.since \in Int /\ stuckTimeout \in Nat BY DEF IInv, TypeOK, Tracking
<1>3. dwell[i] \in Nat /\ dwell'[i] \in Nat BY DEF ObserverTypes, ObserveTick
<1>4. dwell'[i] = IF win[i].active /\ win'[i].active /\ win[i].pos = win'[i].pos
                  THEN dwell[i] + Elapsed ELSE 0
    BY DEF ObserveTick
<1> DEFINE D == dwell'[i]
           n == now'
           s == tgt[i].stuck.since
\* A reference that stood before the tick, and still fits, is as old as it says.
<1>5. ASSUME tgt[i].stuck.at # NoPoint, win'[i].active, win'[i].pos = tgt[i].stuck.at
      PROVE  n - s <= D
  <2>1. win[i].active /\ win[i].pos = tgt[i].stuck.at /\ now - s <= dwell[i]
      BY <1>5 DEF RefsFollow
  <2>2. D = dwell[i] + Elapsed BY <2>1, <1>4, <1>5
  <2>3. n \in Nat /\ n - now <= Elapsed /\ s \in Int BY <1>2
  <2> HIDE DEF D, n, s
  <2> QED BY <2>1, <2>2, <2>3, <1>3
<1>6. ASSUME e.tgt[i].stuck.at # NoPoint
      PROVE  /\ stuckTimeout # 0 /\ win'[i].active /\ win'[i].pos = e.tgt[i].stuck.at
             /\ now' - e.tgt[i].stuck.since <= dwell'[i]
  <2>1. /\ win'[i].active
        /\ e.tgt[i].stuck = tgt[i].stuck \/ (stuckTimeout # 0 /\ e.tgt[i].stuck.since = now')
        /\ stuckTimeout # 0 => win'[i].pos = e.tgt[i].stuck.at
      BY <1>1, <1>6 DEF Checked
  <2>2. stuckTimeout # 0 BY <2>1, <1>6 DEF Off
  <2>3. now' - e.tgt[i].stuck.since <= dwell'[i]
    <3>1. CASE e.tgt[i].stuck = tgt[i].stuck BY <3>1, <2>1, <2>2, <1>5, <1>6
    <3>2. CASE e.tgt[i].stuck.since = now' BY <3>2, <1>3
    <3> QED BY <2>1, <3>1, <3>2
  <2> QED BY <2>1, <2>2, <2>3
<1>7. ASSUME StuckOut(e, i) PROVE dwell'[i] >= stuckTimeout
  <2>1. /\ tgt[i].stuck.at = win'[i].pos /\ n - s >= stuckTimeout
      BY <1>1, <1>7 DEF Checked
  <2>2. win'[i].active /\ win'[i].pos # NoPoint
    <3>1. win'[i].active BY <1>1, <1>7 DEF StuckOut
    <3>2. e.w[i].pos \in Points BY <1>1, <3>1, WindowFacts
    <3> QED BY <3>1, <3>2, <1>1, CellsAssumption
  <2>3. n - s <= D BY <2>1, <2>2, <1>5
  <2>4. n \in Nat /\ s \in Int /\ D \in Nat BY <1>2, <1>3
  <2> HIDE DEF D, n, s
  <2>5. D >= stuckTimeout BY <2>1, <2>3, <2>4, <1>2
  <2> QED BY <2>5 DEF D
<1> QED BY <1>6, <1>7

LEMMA RefsStep ==
    ASSUME 0 \notin StuckTimeouts, Watched, RefsFollow, Off, [HNext]_hvars
    PROVE  RefsFollow' /\ Off'
<1>1. /\ IInv /\ ObserverTypes /\ Elapsed \in Nat /\ Elapsed >= now' - now
      /\ now \in Nat /\ now' \in Nat
      /\ \/ (\E e : TickTo(e)) /\ ObserveZones /\ ObserveTick
         \/ CallKept /\ ObserveZones /\ UNCHANGED <<emptyFor, dwell>> /\ Elapsed = 0
         \/ UNCHANGED hvars
    BY HStepFacts DEF Watched
<1>2. CASE (\E e : TickTo(e)) /\ ObserveTick
  <2>1. PICK e : TickTo(e) BY <1>2
  <2>2. tgt' = e.tgt /\ stuckTimeout' = stuckTimeout BY <2>1 DEF TickTo
  <2>3. \A i \in Slots : e.tgt[i].stuck.at # NoPoint =>
                 /\ stuckTimeout # 0 /\ win'[i].active /\ win'[i].pos = e.tgt[i].stuck.at
                 /\ now' - e.tgt[i].stuck.since <= dwell'[i]
      BY <2>1, <1>1, <1>2, StuckTick
  <2> QED BY <2>2, <2>3 DEF RefsFollow, Off
<1>3. CASE CallKept /\ UNCHANGED <<emptyFor, dwell>>
    BY <1>3 DEF CallKept, RefsFollow, Off
<1>4. CASE UNCHANGED hvars
    BY <1>4 DEF hvars, vars, RefsFollow, Off
<1> QED BY <1>1, <1>2, <1>3, <1>4

\* As long as the rule is never switched off, it dismisses only a target that has
\* been reported at one point for the whole stuck timeout.
THEOREM OnlyStuckIsDismissed == ASSUME 0 \notin StuckTimeouts PROVE HSpec => StuckNeedsDwell
<1> DEFINE A == \A i \in Slots :
                   Ticked /\ win'[i].active
                   /\ tgt'[i].dismissed # NoCell /\ tgt'[i].dismissed # tgt[i].dismissed
                   => dwell'[i] >= stuckTimeout
<1>1. ASSUME Watched, RefsFollow, Off, [HNext]_hvars PROVE A \/ UNCHANGED hvars
  <2>1. /\ IInv /\ ObserverTypes /\ Elapsed \in Nat /\ Elapsed >= now' - now
        /\ now \in Nat /\ now' \in Nat
        /\ \/ (\E e : TickTo(e)) /\ ObserveZones /\ ObserveTick
           \/ CallKept /\ ObserveZones /\ UNCHANGED <<emptyFor, dwell>> /\ Elapsed = 0
           \/ UNCHANGED hvars
      BY <1>1, HStepFacts DEF Watched
  <2>2. ASSUME CallKept PROVE ~Ticked BY <2>2 DEF CallKept, Ticked
  <2>3. ASSUME NEW e, TickTo(e), ObserveTick, NEW i \in Slots, win'[i].active,
               tgt'[i].dismissed # NoCell, tgt'[i].dismissed # tgt[i].dismissed
        PROVE  dwell'[i] >= stuckTimeout
    <3>1. StuckOut(e, i) BY <2>3 DEF TickTo, StuckOut
    <3> QED BY <3>1, <1>1, <2>1, <2>3, StuckTick
  <2>4. CASE \E e : TickTo(e) /\ ObserveTick BY <2>3, <2>4
  <2> QED BY <2>1, <2>2, <2>4
<1>2. Watched /\ RefsFollow /\ Off /\ [HNext]_hvars => [A]_hvars BY <1>1
<1>3. HInit => RefsFollow /\ Off BY DEF HInit, Init, RefsFollow, Off, Fresh, NoRef
<1>4. Watched /\ RefsFollow /\ Off /\ [HNext]_hvars => RefsFollow' /\ Off' BY RefsStep
<1> HIDE DEF A
<1>5. HSpec => [][A]_hvars BY <1>2, <1>3, <1>4, WatchedAlways, PTL DEF HSpec
<1> QED BY <1>5, PTL DEF StuckNeedsDwell, A
=============================================================================
