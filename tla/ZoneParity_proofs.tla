-------------------------- MODULE ZoneParity_proofs --------------------------
(***************************************************************************)
(* The panel's replica behaves as the firmware's engine does, for every    *)
(* grid, configuration, window set and clock that ParityAssumption admits. *)
(*                                                                         *)
(* Both ticks run through the same passes, each on a scratch record of its *)
(* own.  Twin says that the replica's context is the engine's scratch copy *)
(* in the replica's terms; every pass has a lemma that takes twins to      *)
(* twins.                                                                  *)
(***************************************************************************)
EXTENDS ZoneParity, ZoneEngine_proofs

-----------------------------------------------------------------------------
(* The engine's state in the replica's terms                               *)

\* ZoneEngineState and the context of a run, by their fields.
Engine(zn, tg, st, mo, ev, as) ==
    [zone |-> zn, target |-> tg, static |-> st, motion |-> mo, everActive |-> ev, assist |-> as]
Ctx(zn, tg, cf, was, is, p) ==
    [e |-> Engine(zn, tg, eng.static, eng.motion, eng.everActive, eng.assist),
     p |-> p, confirmed |-> cf, was |-> was, is |-> is]

\* The map zn of the zones met stands for the runtimes zo.
Of(zn, z) == IF z \in DOMAIN zn THEN zn[z] ELSE Local!NewZone
Alike(zn, zo) == DOMAIN zn \subseteq Zones /\ \A z \in Zones : Of(zn, z) = AsZone(zo[z])

Targets(tg) == [i \in Slots |-> AsTarget(tg[i])]
ZonesOf(f) == [i \in Slots |-> Unless(f[i], NoZone)]

\* What a run is handed is what the engine works with.
Fed(p, e) == /\ p.targets = e.w /\ p.now = e.ts /\ p.grid = grid /\ p.zones = cfg
             /\ p.stuckTimeout = stuckTimeout

Twin(e, k, p) ==
    /\ Fed(p, e)
    /\ \E zn : /\ Alike(zn, e.zone)
               /\ k = Ctx(zn, Targets(e.tgt), e.seen, ZonesOf(e.from), ZonesOf(e.at), p)

-----------------------------------------------------------------------------

\* null is none of the values that stand in the place of it.
LEMMA NullFacts ==
    /\ \A c \in Cells : Unless(c, NoCell) = c /\ c # Null
    /\ Unless(NoCell, NoCell) = Null
    /\ \A x \in Points : Unless(x, NoPoint) = x /\ x # Null
    /\ Unless(NoPoint, NoPoint) = Null
    /\ \A z \in Zones : Unless(z, NoZone) = z /\ z # Null
    /\ Unless(NoZone, NoZone) = Null
    /\ \A n \in Int : n # Null
    /\ \A r \in [at : Points, since : Int] : Unless(r, NoRef) = r /\ r # Null
    /\ Unless(NoRef, NoRef) = Null /\ NoRef \in [at : Points \cup {NoPoint}, since : Int]
<1>1. \A z \in Zones : z \in Int /\ z # NoZone BY DEF Zones, NoZone
<1>2. \A r \in [at : Points, since : Int] : r # NoRef BY CellsAssumption DEF NoRef
<1>3. NoRef \in [at : Points \cup {NoPoint}, since : Int] BY DEF NoRef
<1> QED BY <1>1, <1>2, <1>3, NullAssumption, CellsAssumption DEF Unless

\* The fields of a context.
LEMMA CtxFacts ==
    ASSUME NEW zn, NEW tg, NEW cf, NEW was, NEW is, NEW p, NEW k, k = Ctx(zn, tg, cf, was, is, p)
    PROVE  /\ k.e.zone = zn /\ k.e.target = tg /\ k.p = p /\ k.confirmed = cf
           /\ k.was = was /\ k.is = is
BY DEF Ctx, Engine

\* What a step of the replica makes of a context.
ZonesC(k, zm) == [k EXCEPT !.e.zone = zm]
PlacedC(k, i, a, b) == [k EXCEPT !.is[i] = a, !.was[i] = b]
GateOf(u, n) == [u EXCEPT !.gate = n]
With(s, x) == s \cup {x}
GatedC(k, i) == [k EXCEPT !.e.target[i].gate = @ + 1]
CountedC(k, i, zm, z) == [k EXCEPT !.e.target[i].gate = 0, !.e.zone = zm, !.confirmed = @ \cup {z}]

LEMMA SetTargetCtx ==
    ASSUME NEW zn, NEW tg, NEW cf, NEW was, NEW is, NEW p, NEW i, NEW t
    PROVE  Local!SetTarget(Ctx(zn, tg, cf, was, is, p), i, t)
              = Ctx(zn, [tg EXCEPT ![i] = t], cf, was, is, p)
BY DEF Ctx, Engine, Local!SetTarget

LEMMA ZonesCtx ==
    ASSUME NEW zn, NEW tg, NEW cf, NEW was, NEW is, NEW p, NEW zm
    PROVE  ZonesC(Ctx(zn, tg, cf, was, is, p), zm) = Ctx(zm, tg, cf, was, is, p)
BY DEF Ctx, Engine, ZonesC

LEMMA PlacedCtx ==
    ASSUME NEW zn, NEW tg, NEW cf, NEW was, NEW is, NEW p, NEW i, NEW a, NEW b
    PROVE  PlacedC(Ctx(zn, tg, cf, was, is, p), i, a, b)
              = Ctx(zn, tg, cf, [was EXCEPT ![i] = b], [is EXCEPT ![i] = a], p)
<1> DEFINE k == Ctx(zn, tg, cf, was, is, p)
           l == PlacedC(k, i, a, b)
<1>1. k = Ctx(zn, tg, cf, was, is, p) OBVIOUS
<1>2. l = [k EXCEPT !.is[i] = a, !.was[i] = b] BY DEF PlacedC
<1> HIDE DEF k, l
<1>3. l = Ctx(zn, tg, cf, [was EXCEPT ![i] = b], [is EXCEPT ![i] = a], p)
    BY <1>1, <1>2 DEF Ctx
<1> QED BY <1>3 DEF k, l

LEMMA CountedCtx ==
    ASSUME NEW zn, NEW tg, NEW cf, NEW was, NEW is, NEW p, NEW i, NEW zm, NEW z
    PROVE  CountedC(Ctx(zn, tg, cf, was, is, p), i, zm, z)
              = Ctx(zm, [tg EXCEPT ![i] = GateOf(tg[i], 0)], With(cf, z), was, is, p)
<1> DEFINE k == Ctx(zn, tg, cf, was, is, p)
           l == CountedC(k, i, zm, z)
<1>1. k = Ctx(zn, tg, cf, was, is, p) OBVIOUS
<1>2. l = [k EXCEPT !.e.target[i].gate = 0, !.e.zone = zm, !.confirmed = @ \cup {z}] BY DEF CountedC
<1> DEFINE x == k.e
           y == [x EXCEPT !.target[i].gate = 0, !.zone = zm]
           th == [tg EXCEPT ![i] = [tg[i] EXCEPT !.gate = 0]]
<1>3. l = [k EXCEPT !.e = y, !.confirmed = cf \cup {z}]
  <2>1. k.confirmed = cf BY <1>1 DEF Ctx
  <2> HIDE DEF k, l
  <2> QED BY <1>1, <1>2, <2>1 DEF Ctx
<1> HIDE DEF k, l
<1>4. x = Engine(zn, tg, eng.static, eng.motion, eng.everActive, eng.assist) BY <1>1 DEF Ctx
<1>5. y = [x EXCEPT !.target[i].gate = 0, !.zone = zm] OBVIOUS
<1> HIDE DEF x, y
<1>6. y = Engine(zm, th, eng.static, eng.motion, eng.everActive, eng.assist)
    BY <1>4, <1>5 DEF Engine
<1> HIDE DEF th
<1>7. l = Ctx(zm, th, cf \cup {z}, was, is, p)
  <2>1. l = [k EXCEPT !.e = y, !.confirmed = cf \cup {z}] BY <1>3
  <2> QED BY <1>1, <1>6, <2>1 DEF Ctx
<1> QED BY <1>7 DEF k, l, th, GateOf, With

LEMMA GatedCtx ==
    ASSUME NEW zn, NEW tg, NEW cf, NEW was, NEW is, NEW p, NEW i
    PROVE  GatedC(Ctx(zn, tg, cf, was, is, p), i)
              = Ctx(zn, [tg EXCEPT ![i] = GateOf(tg[i], tg[i].gate + 1)], cf, was, is, p)
<1> DEFINE k == Ctx(zn, tg, cf, was, is, p)
           l == GatedC(k, i)
<1>1. k = Ctx(zn, tg, cf, was, is, p) OBVIOUS
<1>2. l = [k EXCEPT !.e.target[i].gate = @ + 1] BY DEF GatedC
<1> HIDE DEF k, l
<1>3. l = Ctx(zn, [tg EXCEPT ![i] = [tg[i] EXCEPT !.gate = tg[i].gate + 1]], cf, was, is, p)
    BY <1>1, <1>2 DEF Ctx, Engine
<1> QED BY <1>3 DEF k, l, GateOf

LEMMA TargetsSet ==
    ASSUME NEW tg \in [Slots -> Tracking], NEW i \in Slots, NEW t
    PROVE  [Targets(tg) EXCEPT ![i] = AsTarget(t)] = Targets([tg EXCEPT ![i] = t])
BY DEF Targets

-----------------------------------------------------------------------------
(* The tracking of a slot                                                  *)

\* The replica's record of a target, by its fields.
Track(a, b, c, d, f, g, h) ==
    [prev |-> a, gate |-> b, prevXY |-> c, lastZone |-> d, lastOnOverlay |-> f,
     dismissed |-> g, stuckRef |-> h]

LEMMA AsTargetIs ==
    \A t : AsTarget(t) = Track(Unless(t.prev, NoCell), t.gate, Unless(t.xy, NoPoint),
                               Unless(t.lastZone, NoZone), t.sticky, Unless(t.dismissed, NoCell),
                               Unless(t.stuck, NoRef))
BY DEF Track, AsTarget

\* What a step of the replica makes of it.
LostT(u) == [u EXCEPT !.prev = Null, !.gate = 0]
GoneT(u) == [u EXCEPT !.prev = Null, !.gate = 0, !.stuckRef = Null]
FollowedT(u, c) == [u EXCEPT !.prev = c]
CountedT(u, c) == [u EXCEPT !.prev = c, !.gate = 0]
GatedT(u, c, d) == [u EXCEPT !.prev = c, !.gate = d]
MovedT(u) == [u EXCEPT !.dismissed = Null]
WatchedT(u, d) == [u EXCEPT !.stuckRef = d]
PlacedT(u, z, x, b) == [u EXCEPT !.lastZone = z, !.prevXY = x, !.lastOnOverlay = b]
LeftT(u, b) == [u EXCEPT !.lastZone = Null, !.lastOnOverlay = b]
DismissedC(u, c) == [Local!NoTarget EXCEPT !.prevXY = u.prevXY, !.dismissed = c]

\* ... and what the engine makes of its own.
LostE(t) == [t EXCEPT !.prev = NoCell, !.gate = 0]
GoneE(t) == [t EXCEPT !.prev = NoCell, !.gate = 0, !.stuck = NoRef]
FollowedE(t, c) == [t EXCEPT !.prev = c]
CountedE(t, c) == [t EXCEPT !.prev = c, !.gate = 0]
GatedE(t, c, d) == [t EXCEPT !.prev = c, !.gate = d]
MovedE(t) == [t EXCEPT !.dismissed = NoCell]
WatchedE(t, d) == [t EXCEPT !.stuck = d]
PlacedE(t, z, x, b) == [t EXCEPT !.sticky = b, !.lastZone = z, !.xy = x]
LeftE(t, b) == [t EXCEPT !.lastZone = NoZone, !.sticky = b]

\* A target that is lost.
LEMMA LostTrack ==
    ASSUME NEW k, NEW l, NEW m, NEW n, NEW o, NEW q, NEW r
    PROVE  LostT(Track(k, l, m, n, o, q, r)) = Track(Null, 0, m, n, o, q, r)
<1> DEFINE u == Track(k, l, m, n, o, q, r)
           v == LostT(u)
<1>1. u = Track(k, l, m, n, o, q, r) OBVIOUS
<1>2. v = [u EXCEPT !.prev = Null, !.gate = 0] BY DEF LostT
<1> HIDE DEF u, v
<1>3. v = Track(Null, 0, m, n, o, q, r) BY <1>1, <1>2 DEF Track
<1> QED BY <1>3 DEF u, v

LEMMA LostAs ==
    ASSUME NEW t \in Tracking
    PROVE  LostT(AsTarget(t)) = AsTarget(LostE(t)) /\ LostE(t) \in Tracking
<1> DEFINE s == LostE(t)
<1>0. s = [t EXCEPT !.prev = NoCell, !.gate = 0] BY DEF LostE
<1> HIDE DEF s
<1>1. /\ s.prev = NoCell /\ s.gate = 0 /\ s.xy = t.xy
      /\ s.lastZone = t.lastZone /\ s.sticky = t.sticky /\ s.dismissed = t.dismissed
      /\ s.stuck = t.stuck
    BY <1>0 DEF Tracking
<1>2. s \in Tracking BY <1>0, 0 \in 0..1 DEF Tracking
<1>3. AsTarget(s) = Track(Null, 0, Unless(t.xy, NoPoint), Unless(t.lastZone, NoZone),
                          t.sticky, Unless(t.dismissed, NoCell), Unless(t.stuck, NoRef))
    BY <1>1, NullFacts, AsTargetIs
<1>4. LostT(AsTarget(t)) = AsTarget(s)
    BY <1>3, AsTargetIs, LostTrack
<1> QED BY <1>2, <1>4 DEF s

\* A target that is out of sight.
LEMMA GoneTrack ==
    ASSUME NEW k, NEW l, NEW m, NEW n, NEW o, NEW q, NEW r
    PROVE  GoneT(Track(k, l, m, n, o, q, r)) = Track(Null, 0, m, n, o, q, Null)
<1> DEFINE u == Track(k, l, m, n, o, q, r)
           v == GoneT(u)
<1>1. u = Track(k, l, m, n, o, q, r) OBVIOUS
<1>2. v = [u EXCEPT !.prev = Null, !.gate = 0, !.stuckRef = Null] BY DEF GoneT
<1> HIDE DEF u, v
<1>3. v = Track(Null, 0, m, n, o, q, Null) BY <1>1, <1>2 DEF Track
<1> QED BY <1>3 DEF u, v

LEMMA GoneAs ==
    ASSUME NEW t \in Tracking
    PROVE  GoneT(AsTarget(t)) = AsTarget(GoneE(t)) /\ GoneE(t) \in Tracking
<1> DEFINE s == GoneE(t)
<1>0. s = [t EXCEPT !.prev = NoCell, !.gate = 0, !.stuck = NoRef] BY DEF GoneE
<1> HIDE DEF s
<1>1. /\ s.prev = NoCell /\ s.gate = 0 /\ s.xy = t.xy
      /\ s.lastZone = t.lastZone /\ s.sticky = t.sticky /\ s.dismissed = t.dismissed
      /\ s.stuck = NoRef
    BY <1>0 DEF Tracking
<1>2. s \in Tracking BY <1>0, 0 \in 0..1, NullFacts DEF Tracking
<1>3. AsTarget(s) = Track(Null, 0, Unless(t.xy, NoPoint), Unless(t.lastZone, NoZone),
                          t.sticky, Unless(t.dismissed, NoCell), Null)
    BY <1>1, NullFacts, AsTargetIs
<1>4. GoneT(AsTarget(t)) = AsTarget(s)
    BY <1>3, AsTargetIs, GoneTrack
<1> QED BY <1>2, <1>4 DEF s

\* A target that is followed.
LEMMA FollowedTrack ==
    ASSUME NEW k, NEW l, NEW m, NEW n, NEW o, NEW q, NEW r, NEW c
    PROVE  FollowedT(Track(k, l, m, n, o, q, r), c) = Track(c, l, m, n, o, q, r)
<1> DEFINE u == Track(k, l, m, n, o, q, r)
           v == FollowedT(u, c)
<1>1. u = Track(k, l, m, n, o, q, r) OBVIOUS
<1>2. v = [u EXCEPT !.prev = c] BY DEF FollowedT
<1> HIDE DEF u, v
<1>3. v = Track(c, l, m, n, o, q, r) BY <1>1, <1>2 DEF Track
<1> QED BY <1>3 DEF u, v

LEMMA FollowedAs ==
    ASSUME NEW t \in Tracking, NEW c \in Cells
    PROVE  FollowedT(AsTarget(t), c) = AsTarget(FollowedE(t, c)) /\ FollowedE(t, c) \in Tracking
<1> DEFINE s == FollowedE(t, c)
<1>0. s = [t EXCEPT !.prev = c] BY DEF FollowedE
<1> HIDE DEF s
<1>1. /\ s.prev = c /\ s.gate = t.gate /\ s.xy = t.xy
      /\ s.lastZone = t.lastZone /\ s.sticky = t.sticky /\ s.dismissed = t.dismissed
      /\ s.stuck = t.stuck
    BY <1>0 DEF Tracking
<1>2. s \in Tracking BY <1>0 DEF Tracking
<1>3. AsTarget(s) = Track(c, t.gate, Unless(t.xy, NoPoint), Unless(t.lastZone, NoZone),
                          t.sticky, Unless(t.dismissed, NoCell), Unless(t.stuck, NoRef))
    BY <1>1, NullFacts, AsTargetIs
<1>4. FollowedT(AsTarget(t), c) = AsTarget(s)
    BY <1>3, AsTargetIs, FollowedTrack
<1> QED BY <1>2, <1>4 DEF s

\* A target that is confirmed.
LEMMA CountedTrack ==
    ASSUME NEW k, NEW l, NEW m, NEW n, NEW o, NEW q, NEW r, NEW c
    PROVE  CountedT(Track(k, l, m, n, o, q, r), c) = Track(c, 0, m, n, o, q, r)
<1> DEFINE u == Track(k, l, m, n, o, q, r)
           v == CountedT(u, c)
<1>1. u = Track(k, l, m, n, o, q, r) OBVIOUS
<1>2. v = [u EXCEPT !.prev = c, !.gate = 0] BY DEF CountedT
<1> HIDE DEF u, v
<1>3. v = Track(c, 0, m, n, o, q, r) BY <1>1, <1>2 DEF Track
<1> QED BY <1>3 DEF u, v

LEMMA CountedAs ==
    ASSUME NEW t \in Tracking, NEW c \in Cells
    PROVE  CountedT(AsTarget(t), c) = AsTarget(CountedE(t, c)) /\ CountedE(t, c) \in Tracking
<1> DEFINE s == CountedE(t, c)
<1>0. s = [t EXCEPT !.prev = c, !.gate = 0] BY DEF CountedE
<1> HIDE DEF s
<1>1. /\ s.prev = c /\ s.gate = 0 /\ s.xy = t.xy
      /\ s.lastZone = t.lastZone /\ s.sticky = t.sticky /\ s.dismissed = t.dismissed
      /\ s.stuck = t.stuck
    BY <1>0 DEF Tracking
<1>2. s \in Tracking BY <1>0, 0 \in 0..1 DEF Tracking
<1>3. AsTarget(s) = Track(c, 0, Unless(t.xy, NoPoint), Unless(t.lastZone, NoZone), t.sticky,
                          Unless(t.dismissed, NoCell), Unless(t.stuck, NoRef))
    BY <1>1, NullFacts, AsTargetIs
<1>4. CountedT(AsTarget(t), c) = AsTarget(s)
    BY <1>3, AsTargetIs, CountedTrack
<1> QED BY <1>2, <1>4 DEF s

\* A target at the gate.
LEMMA GatedTrack ==
    ASSUME NEW k, NEW l, NEW m, NEW n, NEW o, NEW q, NEW r, NEW c, NEW d
    PROVE  GatedT(Track(k, l, m, n, o, q, r), c, d) = Track(c, d, m, n, o, q, r)
<1> DEFINE u == Track(k, l, m, n, o, q, r)
           v == GatedT(u, c, d)
<1>1. u = Track(k, l, m, n, o, q, r) OBVIOUS
<1>2. v = [u EXCEPT !.prev = c, !.gate = d] BY DEF GatedT
<1> HIDE DEF u, v
<1>3. v = Track(c, d, m, n, o, q, r) BY <1>1, <1>2 DEF Track
<1> QED BY <1>3 DEF u, v

LEMMA GatedAs ==
    ASSUME NEW t \in Tracking, NEW c \in Cells, NEW d \in 0..1
    PROVE  GatedT(AsTarget(t), c, d) = AsTarget(GatedE(t, c, d)) /\ GatedE(t, c, d) \in Tracking
<1> DEFINE s == GatedE(t, c, d)
<1>0. s = [t EXCEPT !.prev = c, !.gate = d] BY DEF GatedE
<1> HIDE DEF s
<1>1. /\ s.prev = c /\ s.gate = d /\ s.xy = t.xy
      /\ s.lastZone = t.lastZone /\ s.sticky = t.sticky /\ s.dismissed = t.dismissed
      /\ s.stuck = t.stuck
    BY <1>0 DEF Tracking
<1>2. s \in Tracking BY <1>0 DEF Tracking
<1>3. AsTarget(s) = Track(c, d, Unless(t.xy, NoPoint), Unless(t.lastZone, NoZone), t.sticky,
                          Unless(t.dismissed, NoCell), Unless(t.stuck, NoRef))
    BY <1>1, NullFacts, AsTargetIs
<1>4. GatedT(AsTarget(t), c, d) = AsTarget(s)
    BY <1>3, AsTargetIs, GatedTrack
<1> QED BY <1>2, <1>4 DEF s

\* A target that is dismissed no more.
LEMMA MovedTrack ==
    ASSUME NEW k, NEW l, NEW m, NEW n, NEW o, NEW q, NEW r
    PROVE  MovedT(Track(k, l, m, n, o, q, r)) = Track(k, l, m, n, o, Null, r)
<1> DEFINE u == Track(k, l, m, n, o, q, r)
           v == MovedT(u)
<1>1. u = Track(k, l, m, n, o, q, r) OBVIOUS
<1>2. v = [u EXCEPT !.dismissed = Null] BY DEF MovedT
<1> HIDE DEF u, v
<1>3. v = Track(k, l, m, n, o, Null, r) BY <1>1, <1>2 DEF Track
<1> QED BY <1>3 DEF u, v

LEMMA MovedAs ==
    ASSUME NEW t \in Tracking
    PROVE  MovedT(AsTarget(t)) = AsTarget(MovedE(t)) /\ MovedE(t) \in Tracking
<1> DEFINE s == MovedE(t)
<1>0. s = [t EXCEPT !.dismissed = NoCell] BY DEF MovedE
<1> HIDE DEF s
<1>1. /\ s.prev = t.prev /\ s.gate = t.gate /\ s.xy = t.xy
      /\ s.lastZone = t.lastZone /\ s.sticky = t.sticky /\ s.dismissed = NoCell
      /\ s.stuck = t.stuck
    BY <1>0 DEF Tracking
<1>2. s \in Tracking BY <1>0 DEF Tracking
<1>3. AsTarget(s) = Track(Unless(t.prev, NoCell), t.gate, Unless(t.xy, NoPoint),
                          Unless(t.lastZone, NoZone), t.sticky, Null, Unless(t.stuck, NoRef))
    BY <1>1, NullFacts, AsTargetIs
<1>4. MovedT(AsTarget(t)) = AsTarget(s)
    BY <1>3, AsTargetIs, MovedTrack
<1> QED BY <1>2, <1>4 DEF s

\* A target at a new position.
LEMMA WatchedTrack ==
    ASSUME NEW k, NEW l, NEW m, NEW n, NEW o, NEW q, NEW r, NEW d
    PROVE  WatchedT(Track(k, l, m, n, o, q, r), d) = Track(k, l, m, n, o, q, d)
<1> DEFINE u == Track(k, l, m, n, o, q, r)
           v == WatchedT(u, d)
<1>1. u = Track(k, l, m, n, o, q, r) OBVIOUS
<1>2. v = [u EXCEPT !.stuckRef = d] BY DEF WatchedT
<1> HIDE DEF u, v
<1>3. v = Track(k, l, m, n, o, q, d) BY <1>1, <1>2 DEF Track
<1> QED BY <1>3 DEF u, v

LEMMA WatchedAs ==
    ASSUME NEW t \in Tracking, NEW d \in [at : Points, since : Int]
    PROVE  WatchedT(AsTarget(t), d) = AsTarget(WatchedE(t, d)) /\ WatchedE(t, d) \in Tracking
<1> DEFINE s == WatchedE(t, d)
<1>0. s = [t EXCEPT !.stuck = d] BY DEF WatchedE
<1> HIDE DEF s
<1>1. /\ s.prev = t.prev /\ s.gate = t.gate /\ s.xy = t.xy
      /\ s.lastZone = t.lastZone /\ s.sticky = t.sticky /\ s.dismissed = t.dismissed
      /\ s.stuck = d
    BY <1>0 DEF Tracking
<1>2. s \in Tracking BY <1>0 DEF Tracking
<1>3. AsTarget(s) = Track(Unless(t.prev, NoCell), t.gate, Unless(t.xy, NoPoint),
                          Unless(t.lastZone, NoZone), t.sticky, Unless(t.dismissed, NoCell),
                          d)
    BY <1>1, NullFacts, AsTargetIs
<1>4. WatchedT(AsTarget(t), d) = AsTarget(s)
    BY <1>3, AsTargetIs, WatchedTrack
<1> QED BY <1>2, <1>4 DEF s

\* A target that is placed.
LEMMA PlacedTrack ==
    ASSUME NEW k, NEW l, NEW m, NEW n, NEW o, NEW q, NEW r, NEW z, NEW x, NEW b
    PROVE  PlacedT(Track(k, l, m, n, o, q, r), z, x, b) = Track(k, l, x, z, b, q, r)
<1> DEFINE u == Track(k, l, m, n, o, q, r)
           v == PlacedT(u, z, x, b)
<1>1. u = Track(k, l, m, n, o, q, r) OBVIOUS
<1>2. v = [u EXCEPT !.lastZone = z, !.prevXY = x, !.lastOnOverlay = b] BY DEF PlacedT
<1> HIDE DEF u, v
<1>3. v = Track(k, l, x, z, b, q, r) BY <1>1, <1>2 DEF Track
<1> QED BY <1>3 DEF u, v

LEMMA PlacedAs ==
    ASSUME NEW t \in Tracking, NEW z \in Zones, NEW x \in Points, NEW b \in BOOLEAN
    PROVE  PlacedT(AsTarget(t), z, x, b) = AsTarget(PlacedE(t, z, x, b)) /\ PlacedE(t, z, x, b) \in Tracking
<1> DEFINE s == PlacedE(t, z, x, b)
<1>0. s = [t EXCEPT !.sticky = b, !.lastZone = z, !.xy = x] BY DEF PlacedE
<1> HIDE DEF s
<1>1. /\ s.prev = t.prev /\ s.gate = t.gate /\ s.xy = x
      /\ s.lastZone = z /\ s.sticky = b /\ s.dismissed = t.dismissed
      /\ s.stuck = t.stuck
    BY <1>0 DEF Tracking
<1>2. s \in Tracking BY <1>0 DEF Tracking
<1>3. AsTarget(s) = Track(Unless(t.prev, NoCell), t.gate, x, z, b,
                          Unless(t.dismissed, NoCell), Unless(t.stuck, NoRef))
    BY <1>1, NullFacts, AsTargetIs
<1>4. PlacedT(AsTarget(t), z, x, b) = AsTarget(s)
    BY <1>3, AsTargetIs, PlacedTrack
<1> QED BY <1>2, <1>4 DEF s

\* A target that left through an overlay.
LEMMA LeftTrack ==
    ASSUME NEW k, NEW l, NEW m, NEW n, NEW o, NEW q, NEW r, NEW b
    PROVE  LeftT(Track(k, l, m, n, o, q, r), b) = Track(k, l, m, Null, b, q, r)
<1> DEFINE u == Track(k, l, m, n, o, q, r)
           v == LeftT(u, b)
<1>1. u = Track(k, l, m, n, o, q, r) OBVIOUS
<1>2. v = [u EXCEPT !.lastZone = Null, !.lastOnOverlay = b] BY DEF LeftT
<1> HIDE DEF u, v
<1>3. v = Track(k, l, m, Null, b, q, r) BY <1>1, <1>2 DEF Track
<1> QED BY <1>3 DEF u, v

LEMMA LeftAs ==
    ASSUME NEW t \in Tracking, NEW b \in BOOLEAN
    PROVE  LeftT(AsTarget(t), b) = AsTarget(LeftE(t, b)) /\ LeftE(t, b) \in Tracking
<1> DEFINE s == LeftE(t, b)
<1>0. s = [t EXCEPT !.lastZone = NoZone, !.sticky = b] BY DEF LeftE
<1> HIDE DEF s
<1>1. /\ s.prev = t.prev /\ s.gate = t.gate /\ s.xy = t.xy
      /\ s.lastZone = NoZone /\ s.sticky = b /\ s.dismissed = t.dismissed
      /\ s.stuck = t.stuck
    BY <1>0 DEF Tracking
<1>2. s \in Tracking BY <1>0 DEF Tracking
<1>3. AsTarget(s) = Track(Unless(t.prev, NoCell), t.gate, Unless(t.xy, NoPoint), Null, b,
                          Unless(t.dismissed, NoCell), Unless(t.stuck, NoRef))
    BY <1>1, NullFacts, AsTargetIs
<1>4. LeftT(AsTarget(t), b) = AsTarget(s)
    BY <1>3, AsTargetIs, LeftTrack
<1> QED BY <1>2, <1>4 DEF s

\* A slot as constructed.
LEMMA FreshAs == AsTarget(Fresh) = Local!NoTarget
BY NullFacts DEF AsTarget, Fresh, Local!NoTarget

\* A target that is dismissed, by hand or by the stuck rule.
LEMMA DismissedAs ==
    ASSUME NEW t \in Tracking, NEW c \in Cells
    PROVE  DismissedC(AsTarget(t), c) = AsTarget(DismissedAt(t, c)) /\ DismissedAt(t, c) \in Tracking
<1> DEFINE s == DismissedAt(t, c)
           u == AsTarget(t)
           v == DismissedC(u, c)
           x == u.prevXY
<1>1. /\ s.prev = NoCell /\ s.gate = 0 /\ s.xy = t.xy /\ s.lastZone = NoZone
      /\ s.sticky = FALSE /\ s.dismissed = c /\ s.stuck = NoRef
    BY DEF DismissedAt, Fresh
<1>2. s \in Tracking BY DismissedAtFacts
<1>3. x = Unless(t.xy, NoPoint) BY DEF AsTarget
<1>4. v = [Local!NoTarget EXCEPT !.prevXY = x, !.dismissed = c] BY DEF DismissedC
<1> HIDE DEF s, v, x
<1>5. v = Track(Null, 0, x, Null, FALSE, c, Null)
    BY <1>4 DEF Track, Local!NoTarget
<1>6. AsTarget(s) = Track(Null, 0, x, Null, FALSE, c, Null)
  <2>1. /\ Unless(s.prev, NoCell) = Null /\ s.gate = 0 /\ Unless(s.xy, NoPoint) = x
        /\ Unless(s.lastZone, NoZone) = Null /\ Unless(s.dismissed, NoCell) = c
        /\ Unless(s.stuck, NoRef) = Null
      BY <1>1, <1>3, NullFacts
  <2> QED BY <1>1, <2>1 DEF AsTarget, Track
<1> QED BY <1>2, <1>5, <1>6 DEF s, v

-----------------------------------------------------------------------------
(* The zones                                                               *)

\* The map zn with st for zone z, and the runtime of a zone as the replica keeps it.
PutIn(zn, z, st) == [x \in DOMAIN zn \cup {z} |-> IF x = z THEN st ELSE zn[x]]

LEMMA AsIdle == AsZone(Idle) = Local!NewZone
BY DEF AsZone, Idle, Local!NewZone

\* Putting the counterpart of a runtime.
LEMMA PutAlike ==
    ASSUME NEW zn, NEW zo \in [Zones -> ZoneRuntime], Alike(zn, zo), NEW z \in Zones,
           NEW r, NEW st, st = AsZone(r)
    PROVE  Alike(PutIn(zn, z, st), [zo EXCEPT ![z] = r])
BY DEF Alike, PutIn, Of

\* Changing an entry there is.
LEMMA EntryAlike ==
    ASSUME NEW zn, NEW zo \in [Zones -> ZoneRuntime], Alike(zn, zo), NEW z \in Zones,
           z \in DOMAIN zn, NEW r, NEW st, st = AsZone(r)
    PROVE  Alike([zn EXCEPT ![z] = st], [zo EXCEPT ![z] = r])
BY DEF Alike, Of

\* A runtime that is replaced by one the replica does not tell from it.
LEMMA SameAlike ==
    ASSUME NEW zn, NEW zo \in [Zones -> ZoneRuntime], Alike(zn, zo), NEW z \in Zones,
           NEW r, AsZone(r) = AsZone(zo[z])
    PROVE  Alike(zn, [zo EXCEPT ![z] = r])
BY DEF Alike, Of

\* Changing every entry, when a zone not met would not change.
LEMMA EachAlike ==
    ASSUME NEW zn, NEW zo, Alike(zn, zo), NEW zm, DOMAIN zm = DOMAIN zn, NEW zp,
           \A z \in DOMAIN zn : zm[z] = AsZone(zp[z]),
           \A z \in Zones : AsZone(zo[z]) = Local!NewZone => AsZone(zp[z]) = Local!NewZone
    PROVE  Alike(zm, zp)
BY DEF Alike, Of

\* What the replica sees of a runtime.
LEMMA ZoneFacts ==
    ASSUME NEW zn, NEW zo \in [Zones -> ZoneRuntime], Alike(zn, zo)
    PROVE  /\ \A z \in Zones : /\ Of(zn, z).occupied = (zo[z].state # "CLEAR")
                               /\ Of(zn, z).confirmed = zo[z].bits
                               /\ zo[z].state = "PENDING" => Of(zn, z).pendingSince = zo[z].since
                               /\ zo[z].state # "PENDING" => Of(zn, z).pendingSince = Null
                               /\ Local!Pending(Of(zn, z)) <=> zo[z].state = "PENDING"
           /\ \A z \in Zones : z \notin DOMAIN zn => zo[z].state = "CLEAR" /\ zo[z].bits = {}
           /\ \A z \in DOMAIN zn : z \in Zones /\ Of(zn, z) = zn[z]
<1>1. \A z \in Zones : Of(zn, z) = AsZone(zo[z]) BY DEF Alike
<1>2. \A z \in Zones : zo[z].since \in Int /\ zo[z].state \in {"CLEAR", "OCCUPIED", "PENDING"}
    BY DEF ZoneRuntime
<1>3. \A z \in Zones : /\ Of(zn, z).occupied = (zo[z].state # "CLEAR")
                       /\ Of(zn, z).confirmed = zo[z].bits
                       /\ zo[z].state = "PENDING" => Of(zn, z).pendingSince = zo[z].since
                       /\ zo[z].state # "PENDING" => Of(zn, z).pendingSince = Null
    BY <1>1 DEF AsZone
<1>4. \A z \in Zones : Local!Pending(Of(zn, z)) <=> zo[z].state = "PENDING"
    BY <1>2, <1>3, NullFacts DEF Local!Pending
<1>5. \A z \in Zones : z \notin DOMAIN zn => zo[z].state = "CLEAR" /\ zo[z].bits = {}
    BY <1>3 DEF Of, Local!NewZone
<1>6. \A z \in DOMAIN zn : z \in Zones /\ Of(zn, z) = zn[z] BY DEF Alike, Of
<1> QED BY <1>3, <1>4, <1>5, <1>6

LEMMA ZoneIs ==
    ASSUME NEW zn, NEW zo \in [Zones -> ZoneRuntime], Alike(zn, zo), NEW y \in Zones,
           NEW s, s = Of(zn, y), NEW q, q = zo[y]
    PROVE  s.occupied = (q.state # "CLEAR") /\ (Local!Pending(s) <=> q.state = "PENDING")
BY ZoneFacts

-----------------------------------------------------------------------------
(* Twins                                                                   *)

\* What a tick works on, and the ranges of it.
LEMMA TwinFacts ==
    ASSUME NEW e \in Scratch, NEW k, NEW p, Twin(e, k, p), NEW i \in Slots
    PROVE  /\ k.p = p /\ k.confirmed = e.seen
           /\ Local!Target(k, i) = AsTarget(e.tgt[i])
           /\ k.was[i] = Unless(e.from[i], NoZone) /\ k.is[i] = Unless(e.at[i], NoZone)
           /\ Alike(k.e.zone, e.zone)
           /\ k = Ctx(k.e.zone, Targets(e.tgt), e.seen, ZonesOf(e.from), ZonesOf(e.at), p)
<1>1. PICK zn : /\ Alike(zn, e.zone)
                /\ k = Ctx(zn, Targets(e.tgt), e.seen, ZonesOf(e.from), ZonesOf(e.at), p)
    BY DEF Twin
<1>2. /\ k.e.zone = zn /\ k.e.target = Targets(e.tgt) /\ k.p = p /\ k.confirmed = e.seen
      /\ k.was = ZonesOf(e.from) /\ k.is = ZonesOf(e.at)
    BY <1>1, CtxFacts
<1>3. Local!Target(k, i) = AsTarget(e.tgt[i]) BY <1>2 DEF Local!Target, Targets
<1>4. k.was[i] = Unless(e.from[i], NoZone) /\ k.is[i] = Unless(e.at[i], NoZone)
    BY <1>2 DEF ZonesOf
<1> QED BY <1>1, <1>2, <1>3, <1>4

\* A slot whose tracking is replaced.
LEMMA TargetTwin ==
    ASSUME NEW e \in Scratch, NEW k, NEW p, Twin(e, k, p), NEW i \in Slots,
           NEW t \in Tracking, NEW u, u = AsTarget(t)
    PROVE  Twin(Target(e, i, t), Local!SetTarget(k, i, u), p)
<1> DEFINE f == Target(e, i, t)
           g == Local!SetTarget(k, i, u)
<1>1. PICK zn : /\ Alike(zn, e.zone)
                /\ k = Ctx(zn, Targets(e.tgt), e.seen, ZonesOf(e.from), ZonesOf(e.at), p)
    BY DEF Twin
<1>2. g = Ctx(zn, [Targets(e.tgt) EXCEPT ![i] = u], e.seen, ZonesOf(e.from), ZonesOf(e.at), p)
    BY <1>1, SetTargetCtx
<1>3. /\ f.zone = e.zone /\ f.tgt = [e.tgt EXCEPT ![i] = t] /\ f.w = e.w /\ f.ts = e.ts
      /\ f.seen = e.seen /\ f.at = e.at /\ f.from = e.from
    BY TargetReplaced
<1> HIDE DEF f, g
<1>4. e.tgt \in [Slots -> Tracking] BY DEF Scratch
<1>5. [Targets(e.tgt) EXCEPT ![i] = u] = Targets(f.tgt) BY <1>3, <1>4, TargetsSet
<1>6. Fed(p, f) BY <1>3 DEF Twin, Fed
<1> QED BY <1>1, <1>2, <1>3, <1>5, <1>6 DEF Twin, f, g

\* The zones replaced by their counterparts.
LEMMA ZonesTwin ==
    ASSUME NEW e \in Scratch, NEW k, NEW p, Twin(e, k, p), NEW zo \in [Zones -> ZoneRuntime],
           NEW zm, Alike(zm, zo), NEW f, f = [e EXCEPT !.zone = zo]
    PROVE  Twin(f, ZonesC(k, zm), p)
<1>1. PICK zn : /\ Alike(zn, e.zone)
                /\ k = Ctx(zn, Targets(e.tgt), e.seen, ZonesOf(e.from), ZonesOf(e.at), p)
    BY DEF Twin
<1>2. ZonesC(k, zm) = Ctx(zm, Targets(e.tgt), e.seen, ZonesOf(e.from), ZonesOf(e.at), p)
    BY <1>1, ZonesCtx
<1>3. /\ f.zone = zo /\ f.tgt = e.tgt /\ f.w = e.w /\ f.ts = e.ts
      /\ f.seen = e.seen /\ f.at = e.at /\ f.from = e.from
    BY ZonesReplaced
<1>4. Fed(p, f) BY <1>3 DEF Twin, Fed
<1> QED BY <1>2, <1>3, <1>4 DEF Twin

\* The two tests of whether a slot is seen.
LEMMA PresentFacts ==
    ASSUME NEW e \in Scratch, NEW p, Fed(p, e), NEW i \in Slots
    PROVE  /\ Local!Present(p, i) <=> e.w[i].active
           /\ p.targets[i].signal = e.w[i].signal /\ e.w[i].signal \in Int
           /\ p.targets[i].pos = e.w[i].pos
           /\ p.targets[i].overlay = e.w[i].overlay /\ e.w[i].overlay \in BOOLEAN
<1>1. e.w \in Windows BY DEF Scratch
<1>2. e.w \in [Slots -> TargetWindow] BY <1>1, WindowsAssumption
<1>3. /\ e.w[i].active \in BOOLEAN /\ e.w[i].overlay \in BOOLEAN /\ e.w[i].signal \in 0..9
    BY <1>2 DEF TargetWindow
<1>4. e.w[i].active => e.w[i].signal \in 1..9 BY <1>1, WindowsAssumption
<1>5. p.targets = e.w BY DEF Fed
<1>6. e.w[i].active => e.w[i].signal > 0 BY <1>4
<1> QED BY <1>3, <1>5, <1>6 DEF Local!Present

\* The two tests of distance.
LEMMA ApartIsFar == ASSUME NEW c \in Cells, NEW d \in Cells PROVE Local!Apart(c, d) <=> Far(c, d)
<1>1. c \in Nat \X Nat /\ d \in Nat \X Nat BY CellsAssumption
<1>2. c[1] \in Nat /\ c[2] \in Nat /\ d[1] \in Nat /\ d[2] \in Nat BY <1>1
<1>3. ASSUME NEW m \in Nat, NEW n \in Nat
      PROVE  Abs(m - n) > MaxMovementCells <=> m - n > Local!MaxMovementCells \/ n - m > Local!MaxMovementCells
    BY DEF Abs, MaxMovementCells, Local!MaxMovementCells
<1>4. Local!Apart(c, d) <=> \/ \/ c[1] - d[1] > Local!MaxMovementCells
                               \/ d[1] - c[1] > Local!MaxMovementCells
                            \/ \/ c[2] - d[2] > Local!MaxMovementCells
                               \/ d[2] - c[2] > Local!MaxMovementCells
    BY DEF Local!Apart
<1> QED BY <1>2, <1>3, <1>4 DEF Far

\* Changing the gate of a target that is followed.
LEMMA GateFollowed ==
    ASSUME NEW t, NEW c, NEW n, NEW u, u = FollowedT(AsTarget(t), c)
    PROVE  /\ u.gate = t.gate
           /\ GateOf(u, 0) = CountedT(AsTarget(t), c)
           /\ GateOf(u, n) = GatedT(AsTarget(t), c, n)
<1>1. PICK k, l, m, o, q, r, x : AsTarget(t) = Track(k, l, m, o, q, r, x) /\ l = t.gate
    BY AsTargetIs
<1>2. u = Track(c, l, m, o, q, r, x) BY <1>1, FollowedTrack
<1>3. /\ CountedT(AsTarget(t), c) = Track(c, 0, m, o, q, r, x)
      /\ GatedT(AsTarget(t), c, n) = Track(c, n, m, o, q, r, x)
    BY <1>1, CountedTrack, GatedTrack
<1>4. ASSUME NEW y PROVE GateOf(u, y) = Track(c, y, m, o, q, r, x)
    BY <1>2 DEF GateOf, Track
<1>5. u.gate = l BY <1>2 DEF Track
<1> QED BY <1>1, <1>3, <1>4, <1>5

\* A target that is lost, followed or held at the gate.
LEMMA LoseTwin ==
    ASSUME NEW e \in Scratch, NEW k, NEW p, Twin(e, k, p), NEW i \in Slots
    PROVE  Twin(Lose(e, i), Local!Forget(k, i), p)
<1> DEFINE t == LostE(e.tgt[i])
<1>1. e.tgt[i] \in Tracking BY DEF Scratch
<1>2. t \in Tracking /\ LostT(AsTarget(e.tgt[i])) = AsTarget(t) BY <1>1, LostAs
<1>3. Lose(e, i) = Target(e, i, t) BY DEF Lose, LostE
<1>4. Local!Forget(k, i) = Local!SetTarget(k, i, LostT(Local!Target(k, i)))
    BY DEF Local!Forget, LostT
<1> HIDE DEF t
<1>5. Local!Target(k, i) = AsTarget(e.tgt[i]) BY TwinFacts
<1> QED BY <1>2, <1>3, <1>4, <1>5, TargetTwin

LEMMA FollowTwin ==
    ASSUME NEW e \in Scratch, NEW k, NEW p, Twin(e, k, p), NEW i \in Slots, NEW c \in Cells
    PROVE  Twin(Follow(e, i, c), Local!Keep(k, i, c), p)
<1> DEFINE t == FollowedE(e.tgt[i], c)
<1>1. e.tgt[i] \in Tracking BY DEF Scratch
<1>2. t \in Tracking /\ FollowedT(AsTarget(e.tgt[i]), c) = AsTarget(t) BY <1>1, FollowedAs
<1>3. Follow(e, i, c) = Target(e, i, t) BY DEF Follow, FollowedE
<1>4. Local!Keep(k, i, c) = Local!SetTarget(k, i, FollowedT(Local!Target(k, i), c))
    BY DEF Local!Keep, FollowedT
<1> HIDE DEF t
<1>5. Local!Target(k, i) = AsTarget(e.tgt[i]) BY TwinFacts
<1> QED BY <1>2, <1>3, <1>4, <1>5, TargetTwin

\* What the replica's context is once the target is followed.
LEMMA KeepCtx ==
    ASSUME NEW e \in Scratch, NEW k, NEW p, Twin(e, k, p), NEW i \in Slots, NEW c
    PROVE  Local!Keep(k, i, c) = Ctx(k.e.zone, [Targets(e.tgt) EXCEPT ![i] = FollowedT(AsTarget(e.tgt[i]), c)],
                                     e.seen, ZonesOf(e.from), ZonesOf(e.at), p)
<1>1. /\ Local!Target(k, i) = AsTarget(e.tgt[i])
      /\ k = Ctx(k.e.zone, Targets(e.tgt), e.seen, ZonesOf(e.from), ZonesOf(e.at), p)
    BY TwinFacts
<1>2. Local!Keep(k, i, c) = Local!SetTarget(k, i, FollowedT(Local!Target(k, i), c))
    BY DEF Local!Keep, FollowedT
<1> QED BY <1>1, <1>2, SetTargetCtx

LEMMA GateTwin ==
    ASSUME NEW e \in Scratch, NEW k, NEW p, Twin(e, k, p), NEW i \in Slots, NEW c \in Cells,
           e.tgt[i].gate = 0
    PROVE  Twin(GateOnce(e, i, c), GatedC(Local!Keep(k, i, c), i), p)
<1> DEFINE t == GatedE(e.tgt[i], c, 1)
           u == FollowedT(AsTarget(e.tgt[i]), c)
           tg == [Targets(e.tgt) EXCEPT ![i] = u]
           zn == k.e.zone
           v == GatedT(AsTarget(e.tgt[i]), c, 1)
<1>1. e.tgt[i] \in Tracking BY DEF Scratch
<1>2. t \in Tracking /\ v = AsTarget(t)
  <2>1. 1 \in 0..1 OBVIOUS
  <2> QED BY <1>1, <2>1, GatedAs
<1>3. GateOnce(e, i, c) = Target(e, i, t)
  <2>1. e.tgt[i].gate + 1 = 1 OBVIOUS
  <2> QED BY <2>1 DEF GateOnce, GatedE
<1>4. GateOf(u, 1) = v /\ u.gate = 0 BY GateFollowed
<1> HIDE DEF t, u, v
<1>5. tg[i] = u /\ [tg EXCEPT ![i] = v] = [Targets(e.tgt) EXCEPT ![i] = v] BY DEF Targets
<1>6. /\ Local!Keep(k, i, c) = Ctx(zn, tg, e.seen, ZonesOf(e.from), ZonesOf(e.at), p)
      /\ k = Ctx(zn, Targets(e.tgt), e.seen, ZonesOf(e.from), ZonesOf(e.at), p)
    BY KeepCtx, TwinFacts DEF u
<1> HIDE DEF tg, zn
<1>7. GatedC(Local!Keep(k, i, c), i)
        = Ctx(zn, [tg EXCEPT ![i] = GateOf(tg[i], tg[i].gate + 1)], e.seen, ZonesOf(e.from), ZonesOf(e.at), p)
    BY <1>6, GatedCtx
<1>8. GateOf(tg[i], tg[i].gate + 1) = v
  <2>1. tg[i].gate + 1 = 1 BY <1>4, <1>5
  <2> QED BY <2>1, <1>4, <1>5
<1>9. Local!SetTarget(k, i, v)
        = Ctx(zn, [Targets(e.tgt) EXCEPT ![i] = v], e.seen, ZonesOf(e.from), ZonesOf(e.at), p)
    BY <1>6, SetTargetCtx
<1>10. GatedC(Local!Keep(k, i, c), i) = Local!SetTarget(k, i, v) BY <1>5, <1>7, <1>8, <1>9
<1> QED BY <1>2, <1>3, <1>10, TargetTwin

\* The zones of a target confirmed.
HoldsC(st, b) == [st EXCEPT !.confirmed = b]

LEMMA BitsAs ==
    ASSUME NEW r \in ZoneRuntime, NEW b \in SUBSET Slots
    PROVE  HoldsC(AsZone(r), b) = AsZone(Bits(r, b))
<1>1. Bits(r, b).state = r.state /\ Bits(r, b).since = r.since /\ Bits(r, b).bits = b BY BitsFacts
<1> QED BY <1>1 DEF HoldsC, AsZone

\* The map of a context, and what is put in it.
LEMMA MapFacts ==
    ASSUME NEW e \in Scratch, NEW k, NEW p, Twin(e, k, p), NEW z \in Zones, NEW st
    PROVE  /\ Local!ZoneOf(k.e, z) = Of(k.e.zone, z) /\ Of(k.e.zone, z) = AsZone(e.zone[z])
           /\ Local!Put(k.e, z, st) = PutIn(k.e.zone, z, st)
           /\ e.zone \in [Zones -> ZoneRuntime] /\ e.zone[z] \in ZoneRuntime
           /\ e.zone[z].bits \in SUBSET Slots
<1>1. Alike(k.e.zone, e.zone)
  <2>1. 0 \in Slots BY DEF Slots
  <2> QED BY <2>1, TwinFacts
<1>2. Of(k.e.zone, z) = AsZone(e.zone[z]) BY <1>1 DEF Alike
<1>3. e.zone \in [Zones -> ZoneRuntime] BY DEF Scratch
<1>4. e.zone[z].bits \in SUBSET Slots BY <1>3 DEF ZoneRuntime
<1>5. Local!ZoneOf(k.e, z) = Of(k.e.zone, z) BY DEF Local!ZoneOf, Of
<1>6. Local!Put(k.e, z, st) = PutIn(k.e.zone, z, st) BY DEF Local!Put, PutIn
<1> QED BY <1>2, <1>3, <1>4, <1>5, <1>6

\* A scratch copy whose parts are the counterparts of a context's.
LEMMA TwinIs ==
    ASSUME NEW f, NEW p, Fed(p, f), NEW zn, Alike(zn, f.zone), NEW tg, tg = Targets(f.tgt),
           NEW cf, cf = f.seen, NEW was, was = ZonesOf(f.from), NEW is, is = ZonesOf(f.at),
           NEW k, k = Ctx(zn, tg, cf, was, is, p)
    PROVE  Twin(f, k, p)
BY DEF Twin

\* A target that is confirmed.
LEMMA ConfirmFields ==
    ASSUME NEW e \in Scratch, NEW i \in Slots, NEW c \in Cells, grid.zone[c] \in Zones
    PROVE  LET f == Confirm(e, i, c)   z == grid.zone[c]
           IN  /\ f \in Scratch /\ f.w = e.w /\ f.ts = e.ts /\ f.at = e.at /\ f.from = e.from
               /\ f.tgt = [e.tgt EXCEPT ![i] = CountedE(e.tgt[i], c)]
               /\ f.zone = [e.zone EXCEPT ![z] = Bits(e.zone[z], e.zone[z].bits \cup {i})]
               /\ f.seen = e.seen \cup {z}
<1> DEFINE z == grid.zone[c]
           t == CountedE(e.tgt[i], c)
           r == Bits(e.zone[z], e.zone[z].bits \cup {i})
           f == Confirm(e, i, c)
<1>1. f = [e EXCEPT !.tgt[i] = t, !.zone[z] = r, !.seen = e.seen \cup {z}] BY DEF Confirm, CountedE
<1>2. t \in Tracking
  <2>1. e.tgt[i] \in Tracking BY DEF Scratch
  <2> QED BY <2>1, CountedAs
<1>3. r \in ZoneRuntime
  <2>1. e.zone[z] \in ZoneRuntime BY DEF Scratch
  <2>2. e.zone[z].bits \cup {i} \in SUBSET Slots BY <2>1 DEF ZoneRuntime
  <2> QED BY <2>1, <2>2, BitsFacts
<1> HIDE DEF t, r, f
<1>4. /\ f \in Scratch /\ f.w = e.w /\ f.ts = e.ts /\ f.at = e.at /\ f.from = e.from
      /\ f.tgt = [e.tgt EXCEPT ![i] = t] /\ f.zone = [e.zone EXCEPT ![z] = r]
      /\ f.seen = e.seen \cup {z}
    BY <1>1, <1>2, <1>3 DEF Scratch
<1> QED BY <1>4 DEF t, r, f

LEMMA ConfirmTwin ==
    ASSUME NEW e \in Scratch, NEW k, NEW p, Twin(e, k, p), NEW i \in Slots, NEW c \in Cells,
           grid.zone[c] \in Zones
    PROVE  Twin(Confirm(e, i, c), Local!Confirm(k, i, c), p)
<1> DEFINE z == grid.zone[c]
           f == Confirm(e, i, c)
           b == e.zone[z].bits \cup {i}
           r == Bits(e.zone[z], b)
           st == AsZone(r)
           zm == PutIn(k.e.zone, z, st)
           u == FollowedT(AsTarget(e.tgt[i]), c)
           tg == [Targets(e.tgt) EXCEPT ![i] = u]
           l == Local!Confirm(k, i, c)
<1>1. z \in Zones OBVIOUS
<1>2. /\ f \in Scratch /\ f.w = e.w /\ f.ts = e.ts /\ f.at = e.at /\ f.from = e.from
      /\ f.tgt = [e.tgt EXCEPT ![i] = CountedE(e.tgt[i], c)]
      /\ f.zone = [e.zone EXCEPT ![z] = r] /\ f.seen = e.seen \cup {z}
    BY ConfirmFields
<1>3. /\ Local!ZoneOf(k.e, z) = AsZone(e.zone[z])
      /\ e.zone \in [Zones -> ZoneRuntime] /\ e.zone[z] \in ZoneRuntime /\ e.zone[z].bits \in SUBSET Slots
    BY <1>1, MapFacts
<1>4. b \in SUBSET Slots BY <1>3
<1>5. HoldsC(AsZone(e.zone[z]), b) = st BY <1>3, <1>4, BitsAs
<1>6. AsZone(e.zone[z]).confirmed = e.zone[z].bits BY DEF AsZone
<1>7. k.p = p /\ p.grid = grid /\ Alike(k.e.zone, e.zone) /\ Fed(p, e)
  <2>1. k.p = p /\ Alike(k.e.zone, e.zone) BY TwinFacts
  <2> QED BY <2>1 DEF Twin, Fed
<1>8. l = CountedC(Local!Keep(k, i, c), i, zm, z)
  <2>1. HoldsC(Local!ZoneOf(k.e, z), Local!ZoneOf(k.e, z).confirmed \cup {i}) = st
      BY <1>3, <1>5, <1>6
  <2>2. Local!Put(k.e, z, st) = zm BY <1>1, MapFacts
  <2>3. l = CountedC(Local!Keep(k, i, c), i,
                     Local!Put(k.e, z, HoldsC(Local!ZoneOf(k.e, z), Local!ZoneOf(k.e, z).confirmed \cup {i})), z)
      BY <1>7 DEF Local!Confirm, CountedC, HoldsC
  <2> QED BY <2>1, <2>2, <2>3
<1> HIDE DEF f, r, st, zm, u, tg, l, z
<1>9. Local!Keep(k, i, c) = Ctx(k.e.zone, tg, e.seen, ZonesOf(e.from), ZonesOf(e.at), p)
    BY KeepCtx DEF u, tg
<1>10. l = Ctx(zm, [tg EXCEPT ![i] = GateOf(tg[i], 0)], With(e.seen, z), ZonesOf(e.from), ZonesOf(e.at), p)
  <2> DEFINE zn == k.e.zone
             from == ZonesOf(e.from)
             at == ZonesOf(e.at)
             seen == e.seen
  <2>1. Local!Keep(k, i, c) = Ctx(zn, tg, seen, from, at, p) BY <1>9
  <2> HIDE DEF zn, from, at, seen
  <2>2. CountedC(Ctx(zn, tg, seen, from, at, p), i, zm, z)
          = Ctx(zm, [tg EXCEPT ![i] = GateOf(tg[i], 0)], With(seen, z), from, at, p)
      BY CountedCtx
  <2> QED BY <1>8, <2>1, <2>2 DEF from, at, seen
<1>11. [tg EXCEPT ![i] = GateOf(tg[i], 0)] = Targets(f.tgt)
  <2>1. e.tgt[i] \in Tracking /\ e.tgt \in [Slots -> Tracking] BY DEF Scratch
  <2>2. tg[i] = u BY DEF tg, Targets
  <2>3. GateOf(tg[i], 0) = CountedT(AsTarget(e.tgt[i]), c) BY <2>2, GateFollowed DEF u
  <2>4. GateOf(tg[i], 0) = AsTarget(CountedE(e.tgt[i], c)) BY <2>1, <2>3, CountedAs
  <2>5. [tg EXCEPT ![i] = GateOf(tg[i], 0)] = [Targets(e.tgt) EXCEPT ![i] = AsTarget(CountedE(e.tgt[i], c))]
    <3>1. tg = [Targets(e.tgt) EXCEPT ![i] = u] BY DEF tg
    <3> QED BY <2>4, <3>1 DEF Targets
  <2> QED BY <2>1, <2>5, <1>2, TargetsSet
<1>12. Alike(zm, f.zone) BY <1>1, <1>2, <1>3, <1>7, PutAlike DEF zm, st
<1>13. Fed(p, f) BY <1>2, <1>7 DEF Fed
<1>14. f.seen = With(e.seen, z) BY <1>2 DEF With
<1>15. Twin(f, l, p) BY <1>2, <1>10, <1>11, <1>12, <1>13, <1>14, TwinIs
<1> QED BY <1>15 DEF f, l

\* A target that is placed on a cell of the room.
PrevZone(t) == IF t.prev = NoCell THEN NoZone ELSE grid.zone[t.prev]
Rooted(e) == \A i \in Slots : e.tgt[i].prev \in grid.room \cup {NoCell}

LEMMA PlaceFields ==
    ASSUME Setup, NEW e \in Scratch, NEW i \in Slots, NEW c \in Cells, e.w[i].active
    PROVE  LET f == Place(e, i, c)   z == grid.zone[c]   b == e.w[i].overlay \/ grid.overlay[c] = "entry"
           IN  /\ f \in Scratch /\ f.w = e.w /\ f.ts = e.ts /\ f.zone = e.zone /\ f.seen = e.seen
               /\ f.tgt = [e.tgt EXCEPT ![i] = PlacedE(e.tgt[i], z, e.w[i].pos, b)]
               /\ f.at = [e.at EXCEPT ![i] = z]
               /\ f.from = [e.from EXCEPT ![i] = PrevZone(e.tgt[i])]
<1> DEFINE f == Place(e, i, c)
           z == grid.zone[c]
           b == e.w[i].overlay \/ grid.overlay[c] = "entry"
           t == PlacedE(e.tgt[i], z, e.w[i].pos, b)
           from == PrevZone(e.tgt[i])
<1>1. f = [e EXCEPT !.tgt[i] = t, !.at[i] = z, !.from[i] = from] BY DEF Place, PlacedE, PrevZone
<1>2. z \in Zones /\ e.tgt[i] \in Tracking /\ e.w[i].pos \in Points
    BY SetupFacts, WindowFacts DEF Scratch
<1>3. b \in BOOLEAN BY WindowFacts
<1>4. from \in Zones \cup {NoZone} BY <1>2, SetupFacts DEF Tracking, PrevZone
<1> HIDE DEF b
<1>5. t \in Tracking BY <1>2, <1>3, PlacedAs
<1> HIDE DEF f, t, from, z
<1>6. /\ f \in Scratch /\ f.w = e.w /\ f.ts = e.ts /\ f.zone = e.zone /\ f.seen = e.seen
      /\ f.tgt = [e.tgt EXCEPT ![i] = t] /\ f.at = [e.at EXCEPT ![i] = z]
      /\ f.from = [e.from EXCEPT ![i] = from]
    BY <1>1, <1>2, <1>4, <1>5 DEF Scratch
<1> QED BY <1>6 DEF f, t, from, z, b

LEMMA ZonesOfSet ==
    ASSUME NEW g \in [Slots -> Zones \cup {NoZone}], NEW i \in Slots, NEW z, NEW x, x = Unless(z, NoZone)
    PROVE  [ZonesOf(g) EXCEPT ![i] = x] = ZonesOf([g EXCEPT ![i] = z])
BY DEF ZonesOf

LEMMA PlaceTwin ==
    ASSUME Setup, NEW e \in Scratch, NEW k, NEW p, Twin(e, k, p), NEW i \in Slots, NEW c \in Cells,
           e.w[i].active, Rooted(e)
    PROVE  Twin(Place(e, i, c), Local!Place(k, i, c), p)
<1> DEFINE f == Place(e, i, c)
           z == grid.zone[c]
           b == e.w[i].overlay \/ grid.overlay[c] = "entry"
           x == e.w[i].pos
           t == PlacedE(e.tgt[i], z, x, b)
           v == AsTarget(t)
           u == AsTarget(e.tgt[i])
           wz == IF u.prev \in grid.room THEN grid.zone[u.prev] ELSE Null
           l == Local!Place(k, i, c)
<1>1. z \in Zones /\ e.tgt[i] \in Tracking /\ x \in Points
    BY SetupFacts, WindowFacts DEF Scratch
<1>2. b \in BOOLEAN BY WindowFacts
<1>3. v = PlacedT(u, z, x, b) /\ t \in Tracking
  <2> HIDE DEF b, z, x
  <2> QED BY <1>1, <1>2, PlacedAs
<1>4. /\ k.p = p /\ Local!Target(k, i) = u /\ Alike(k.e.zone, e.zone)
      /\ k = Ctx(k.e.zone, Targets(e.tgt), e.seen, ZonesOf(e.from), ZonesOf(e.at), p)
  <2> HIDE DEF f, z, b, x, t, v, wz, l
  <2> QED BY TwinFacts
<1>5. Fed(p, e) BY DEF Twin
<1>6. p.targets = e.w /\ p.grid = grid BY <1>5 DEF Fed
<1>7. l = PlacedC(Local!SetTarget(k, i, v), i, z, wz)
  <2> DEFINE q == k.p
             a == Local!Target(k, i)
  <2>1. l = PlacedC(Local!SetTarget(k, i, PlacedT(a, q.grid.zone[c], q.targets[i].pos,
                                                  q.targets[i].overlay \/ q.grid.overlay[c] = "entry")),
                    i, q.grid.zone[c], IF a.prev \in q.grid.room THEN q.grid.zone[a.prev] ELSE Null)
      BY DEF Local!Place, PlacedC, PlacedT
  <2>2. q.grid = grid /\ q.targets = e.w /\ a = u BY <1>4, <1>6
  <2> HIDE DEF q, a, l, u, v
  <2> QED BY <1>3, <2>1, <2>2
<1>8. wz = Unless(PrevZone(e.tgt[i]), NoZone)
  <2>1. u.prev = Unless(e.tgt[i].prev, NoCell) BY DEF AsTarget
  <2>2. e.tgt[i].prev \in grid.room \cup {NoCell} BY DEF Rooted
  <2>3. CASE e.tgt[i].prev = NoCell
    <3>1. u.prev = Null /\ Null \notin grid.room BY <2>1, <2>3, NullFacts, SetupFacts
    <3>2. PrevZone(e.tgt[i]) = NoZone BY <2>3 DEF PrevZone
    <3> QED BY <3>1, <3>2, NullFacts
  <2>4. CASE e.tgt[i].prev \in grid.room
    <3>1. e.tgt[i].prev \in Cells /\ e.tgt[i].prev # NoCell BY <2>4, SetupFacts
    <3>2. u.prev = e.tgt[i].prev BY <2>1, <3>1, NullFacts
    <3>3. grid.zone[u.prev] \in Zones BY <3>1, <3>2, SetupFacts
    <3>4. PrevZone(e.tgt[i]) = grid.zone[u.prev] BY <3>1, <3>2 DEF PrevZone
    <3> QED BY <2>4, <3>2, <3>3, <3>4, NullFacts
  <2> QED BY <2>2, <2>3, <2>4
<1>9. /\ f \in Scratch /\ f.w = e.w /\ f.ts = e.ts /\ f.zone = e.zone /\ f.seen = e.seen
      /\ f.tgt = [e.tgt EXCEPT ![i] = t]
      /\ f.at = [e.at EXCEPT ![i] = z]
      /\ f.from = [e.from EXCEPT ![i] = PrevZone(e.tgt[i])]
    BY PlaceFields
<1> DEFINE tg == [Targets(e.tgt) EXCEPT ![i] = v]
           zn == k.e.zone
           was == ZonesOf(e.from)
           is == ZonesOf(e.at)
<1> HIDE DEF f, z, b, x, t, u, wz, l, v
<1>10. Local!SetTarget(k, i, v) = Ctx(zn, tg, e.seen, was, is, p)
    BY <1>4, SetTargetCtx
<1> HIDE DEF tg, zn, was, is
<1>11. PlacedC(Ctx(zn, tg, e.seen, was, is, p), i, z, wz)
         = Ctx(zn, tg, e.seen, [was EXCEPT ![i] = wz], [is EXCEPT ![i] = z], p)
    BY PlacedCtx
<1>12. tg = Targets(f.tgt)
  <2>1. e.tgt \in [Slots -> Tracking] BY DEF Scratch
  <2> QED BY <2>1, <1>9, TargetsSet DEF tg, v
<1>13. [was EXCEPT ![i] = wz] = ZonesOf(f.from)
  <2>1. e.from \in [Slots -> Zones \cup {NoZone}] BY DEF Scratch
  <2> QED BY <2>1, <1>8, <1>9, ZonesOfSet DEF was
<1>14. [is EXCEPT ![i] = z] = ZonesOf(f.at)
  <2>1. e.at \in [Slots -> Zones \cup {NoZone}] BY DEF Scratch
  <2>2. z = Unless(z, NoZone) BY <1>1, NullFacts
  <2> QED BY <2>1, <2>2, <1>9, ZonesOfSet DEF is
<1>15. Fed(p, f) BY <1>5, <1>9 DEF Fed
<1>16. Alike(zn, f.zone) BY <1>4, <1>9 DEF zn
<1>17. l = Ctx(zn, Targets(f.tgt), f.seen, ZonesOf(f.from), ZonesOf(f.at), p)
    BY <1>7, <1>9, <1>10, <1>11, <1>12, <1>13, <1>14
<1>18. Twin(f, l, p) BY <1>15, <1>16, <1>17 DEF Twin
<1> QED BY <1>18 DEF f, l

\* The entry of the zone a target is in.
MetC(k, z) == ZonesC(k, Local!Put(k.e, z, Local!ZoneOf(k.e, z)))

LEMMA MetTwin ==
    ASSUME NEW e \in Scratch, NEW k, NEW p, Twin(e, k, p), NEW z \in Zones
    PROVE  Twin(e, MetC(k, z), p)
<1> DEFINE r == e.zone[z]
           st == AsZone(r)
           zm == PutIn(k.e.zone, z, st)
<1>1. Local!ZoneOf(k.e, z) = st /\ Local!Put(k.e, z, st) = zm /\ e.zone \in [Zones -> ZoneRuntime]
    BY MapFacts
<1>2. Alike(k.e.zone, e.zone)
  <2>1. 0 \in Slots BY DEF Slots
  <2> QED BY <2>1, TwinFacts
<1>3. MetC(k, z) = ZonesC(k, zm) BY <1>1 DEF MetC
<1> HIDE DEF st, zm
<1>4. Alike(zm, [e.zone EXCEPT ![z] = r]) BY <1>1, <1>2, PutAlike DEF st, zm
<1>5. [e.zone EXCEPT ![z] = r] = e.zone BY <1>1
<1>6. e = [e EXCEPT !.zone = e.zone] BY DEF Scratch
<1>7. Alike(zm, e.zone) BY <1>4, <1>5
<1> QED BY <1>1, <1>3, <1>6, <1>7, ZonesTwin

\* Whether a target walked to where it is.
LEMMA WalkedFacts ==
    ASSUME NEW t \in Tracking, NEW c \in Cells, NEW u, u = AsTarget(t)
    PROVE  /\ (u.prev # Null /\ ~Local!Apart(c, u.prev)) <=> (t.prev # NoCell /\ ~Far(c, t.prev))
           /\ u.lastOnOverlay = t.sticky /\ t.sticky \in BOOLEAN
           /\ u.gate = t.gate /\ t.gate \in 0..1
<1>1. /\ t.prev \in Cells \cup {NoCell} /\ t.sticky \in BOOLEAN /\ t.gate \in 0..1
    BY DEF Tracking
<1>2. u.prev = Unless(t.prev, NoCell) /\ u.lastOnOverlay = t.sticky /\ u.gate = t.gate BY DEF AsTarget
<1>3. CASE t.prev = NoCell BY <1>1, <1>2, <1>3, NullFacts
<1>4. CASE t.prev \in Cells BY <1>1, <1>2, <1>4, NullFacts, ApartIsFar, CellsAssumption
<1> QED BY <1>1, <1>3, <1>4

\* The thresholds of a zone, for a target already placed in it.
LEMMA JudgeTwin ==
    ASSUME Setup, NEW e \in Scratch, NEW k, NEW p, Twin(e, k, p), NEW i \in Slots, NEW c \in Cells,
           grid.zone[c] \in Configured
    PROVE  Twin(Judge(e, i, c), Local!Judge(k, i, c), p)
<1> DEFINE z == grid.zone[c]
           t == e.tgt[i]
           u == Local!Target(k, i)
           st == Local!ZoneOf(k.e, z)
           s == e.w[i].signal
           noisy == grid.overlay[c] = "interference"
           clear == e.zone[z].state = "CLEAR"
           walked == t.prev # NoCell /\ ~Far(c, t.prev)
           entered == t.sticky
           base == CASE clear /\ entered /\ ~noisy -> 1
                     [] clear /\ ~(entered /\ ~noisy) -> Clamp(cfg[z].trigger)
                     [] ~clear /\ noisy -> 9
                     [] OTHER -> Clamp(cfg[z].renew)
           renew == IF noisy THEN 9 ELSE Local!ClampThreshold(cfg[z].renew)
           trigger == IF ~st.occupied /\ u.lastOnOverlay /\ ~noisy THEN 1
                      ELSE IF st.occupied THEN renew ELSE Local!ClampThreshold(cfg[z].trigger)
           continuous == u.prev # Null /\ ~Local!Apart(c, u.prev)
           met == MetC(k, z)
<1>1. z \in Zones /\ z \in Configured BY SetupFacts
<1>2. t \in Tracking BY DEF Scratch
<1>3. k.p = p /\ u = AsTarget(t) BY TwinFacts
<1>4. p.grid = grid /\ p.zones = cfg /\ p.targets = e.w BY DEF Twin, Fed
<1>5. st.occupied = ~clear
  <2>1. Alike(k.e.zone, e.zone) BY TwinFacts
  <2>2. st = Of(k.e.zone, z) /\ e.zone \in [Zones -> ZoneRuntime] BY <1>1, MapFacts
  <2> QED BY <1>1, <2>1, <2>2, ZoneFacts
<1>6. (continuous <=> walked) /\ u.lastOnOverlay = entered /\ entered \in BOOLEAN /\ u.gate = t.gate /\ t.gate \in 0..1
    BY <1>2, <1>3, WalkedFacts
<1>7. trigger = base
  <2>1. \A n : Local!ClampThreshold(n) = Clamp(n) BY DEF Local!ClampThreshold, Clamp
  <2> HIDE DEF st, u, t
  <2> QED BY <1>5, <1>6, <2>1
<1>8. Local!Min2(trigger + 2, 8) = Gated(base) BY <1>7 DEF Local!Min2, Gated
<1>9. Judge(e, i, c) =
        CASE noisy /\ ~walked /\ clear -> Lose(e, i)
          [] ~noisy /\ ~walked /\ ~entered /\ clear ->
               IF s < Gated(base) THEN Lose(e, i)
               ELSE IF t.gate = 0 THEN GateOnce(e, i, c) ELSE Confirm(e, i, c)
          [] OTHER -> IF s >= base THEN Confirm(e, i, c) ELSE Follow(e, i, c)
    BY <1>1 DEF Judge
<1>10. Local!Judge(k, i, c) =
         CASE noisy /\ ~continuous /\ ~st.occupied -> Local!Forget(met, i)
           [] ~(noisy /\ ~continuous) /\ ~u.lastOnOverlay /\ ~continuous /\ ~st.occupied ->
                IF s < Local!Min2(trigger + 2, 8) THEN Local!Forget(met, i)
                ELSE IF u.gate + 1 >= 2 THEN Local!Confirm(met, i, c)
                ELSE GatedC(Local!Keep(met, i, c), i)
           [] OTHER -> IF s >= trigger THEN Local!Confirm(met, i, c) ELSE Local!Keep(met, i, c)
    BY <1>3, <1>4 DEF Local!Judge, MetC, ZonesC, GatedC
<1>11. Twin(e, met, p) BY <1>1, MetTwin
<1> HIDE DEF noisy, clear, walked, entered, continuous, base, trigger, renew, met, s, t, u, st
<1>12. Local!Judge(k, i, c) =
         CASE noisy /\ ~walked /\ clear -> Local!Forget(met, i)
           [] ~noisy /\ ~walked /\ ~entered /\ clear ->
                IF s < Gated(base) THEN Local!Forget(met, i)
                ELSE IF t.gate = 0 THEN GatedC(Local!Keep(met, i, c), i) ELSE Local!Confirm(met, i, c)
           [] OTHER -> IF s >= base THEN Local!Confirm(met, i, c) ELSE Local!Keep(met, i, c)
  <2>1. u.gate + 1 >= 2 <=> t.gate # 0 BY <1>6
  <2>2. clear \in BOOLEAN /\ noisy \in BOOLEAN BY DEF clear, noisy
  <2> QED BY <1>5, <1>6, <1>7, <1>8, <1>10, <2>1, <2>2
<1>13. Twin(Lose(e, i), Local!Forget(met, i), p) BY <1>11, LoseTwin
<1>14. Twin(Follow(e, i, c), Local!Keep(met, i, c), p) BY <1>11, FollowTwin
<1>15. Twin(Confirm(e, i, c), Local!Confirm(met, i, c), p) BY <1>1, <1>11, ConfirmTwin
<1>16. t.gate = 0 => Twin(GateOnce(e, i, c), GatedC(Local!Keep(met, i, c), i), p)
    BY <1>11, GateTwin DEF t
<1> QED BY <1>9, <1>12, <1>13, <1>14, <1>15, <1>16

-----------------------------------------------------------------------------
(* Dismissal                                                               *)

\* What a dismissal makes of the map of the zones met.
Rest(st, i) == st.confirmed \ {i}
EvidenceC(zn, i, c) ==
    IF c \in grid.room /\ grid.zone[c] \in DOMAIN zn
    THEN PutIn(zn, grid.zone[c], IF Rest(zn[grid.zone[c]], i) = {} THEN Local!NewZone
                                 ELSE HoldsC(zn[grid.zone[c]], Rest(zn[grid.zone[c]], i)))
    ELSE zn

LEMMA DismissedEngine ==
    ASSUME NEW zn, NEW tg, NEW st, NEW mo, NEW ev, NEW as, NEW i, NEW c
    PROVE  Local!DismissTarget(Engine(zn, tg, st, mo, ev, as), i, c, grid)
             = Engine(EvidenceC(zn, i, c), [tg EXCEPT ![i] = DismissedC(tg[i], c)], st, mo, ev, as)
<1> DEFINE x == Engine(zn, tg, st, mo, ev, as)
           y == Local!DismissTarget(x, i, c, grid)
           zm == EvidenceC(zn, i, c)
           w == DismissedC(tg[i], c)
<1>1. x = Engine(zn, tg, st, mo, ev, as) OBVIOUS
<1>2. x.zone = zn /\ x.target = tg BY DEF Engine
<1> HIDE DEF x
<1>3. y = [x EXCEPT !.target[i] = w, !.zone = zm]
    BY <1>2 DEF Local!DismissTarget, DismissedC, EvidenceC, Local!Put, PutIn, HoldsC, Rest
<1> HIDE DEF y, zm, w
<1>4. y = Engine(zm, [tg EXCEPT ![i] = w], st, mo, ev, as) BY <1>1, <1>3 DEF Engine
<1> QED BY <1>4 DEF x, y, zm, w

LEMMA EvidenceAlike ==
    ASSUME Setup, NEW zo \in [Zones -> ZoneRuntime], NEW zn, Alike(zn, zo),
           \A z \in Zones : z \notin Configured => zo[z] = Idle,
           NEW i \in Slots, NEW c
    PROVE  Alike(EvidenceC(zn, i, c), WithoutEvidence(zo, i, c))
<1> DEFINE z == grid.zone[c]
           rest == Rest(zn[z], i)
           st == IF rest = {} THEN Local!NewZone ELSE HoldsC(zn[z], rest)
           r == IF zo[z].bits \subseteq {i} THEN Idle ELSE Bits(zo[z], zo[z].bits \ {i})
<1>1. CASE c \notin grid.room BY <1>1 DEF EvidenceC, WithoutEvidence
<1>2. CASE c \in grid.room
  <2>1. z \in Zones BY <1>2, SetupFacts
  <2>2. zo[z] \in ZoneRuntime /\ zo[z].bits \ {i} \in SUBSET Slots BY <2>1 DEF ZoneRuntime
  <2>3. CASE z \in DOMAIN zn
    <3>1. zn[z] = AsZone(zo[z]) BY <2>1, <2>3 DEF Alike, Of
    <3>2. rest = zo[z].bits \ {i} BY <3>1 DEF AsZone, Rest
    <3>3. st = AsZone(r)
      <4>1. CASE zo[z].bits \subseteq {i} BY <3>2, <4>1, AsIdle
      <4>2. CASE ~(zo[z].bits \subseteq {i})
        <5>1. HoldsC(AsZone(zo[z]), zo[z].bits \ {i}) = AsZone(Bits(zo[z], zo[z].bits \ {i}))
            BY <2>2, BitsAs
        <5> QED BY <3>1, <3>2, <4>2, <5>1
      <4> QED BY <4>1, <4>2
    <3>4. EvidenceC(zn, i, c) = PutIn(zn, z, st) BY <1>2, <2>3 DEF EvidenceC
    <3> HIDE DEF st, r, z
    <3>5. Alike(PutIn(zn, z, st), [zo EXCEPT ![z] = r]) BY <2>1, <3>3, PutAlike
    <3>6. CASE z \in Configured
      <4>1. WithoutEvidence(zo, i, c) = [zo EXCEPT ![z] = r] BY <1>2, <3>6 DEF WithoutEvidence, z, r
      <4> QED BY <3>4, <3>5, <4>1
    <3>7. CASE z \notin Configured
      <4>1. zo[z] = Idle BY <2>1, <3>7
      <4>2. r = Idle BY <4>1 DEF r, Idle
      <4>3. [zo EXCEPT ![z] = r] = zo BY <4>1, <4>2
      <4>4. WithoutEvidence(zo, i, c) = zo BY <3>7 DEF WithoutEvidence, z
      <4> QED BY <3>4, <3>5, <4>3, <4>4
    <3> QED BY <3>6, <3>7
  <2>4. CASE z \notin DOMAIN zn
    <3>1. Of(zn, z) = Local!NewZone /\ AsZone(zo[z]) = Local!NewZone BY <2>1, <2>4 DEF Alike, Of
    <3>2. zo[z].bits = {} BY <3>1 DEF AsZone, Local!NewZone
    <3>3. r = Idle BY <3>2
    <3>4. EvidenceC(zn, i, c) = zn BY <2>4 DEF EvidenceC
    <3> HIDE DEF r, z
    <3>5. Alike(zn, [zo EXCEPT ![z] = r]) BY <2>1, <3>1, <3>3, AsIdle, SameAlike
    <3>6. WithoutEvidence(zo, i, c) \in {zo, [zo EXCEPT ![z] = r]} BY DEF WithoutEvidence, z, r
    <3> QED BY <3>4, <3>5, <3>6
  <2> QED BY <2>3, <2>4
<1> QED BY <1>1, <1>2

\* A slot that is dismissed in a tick.
DismissE(e, i, c) == [e EXCEPT !.zone = WithoutEvidence(e.zone, i, c),
                               !.tgt[i] = DismissedAt(e.tgt[i], c)]
EngineC(k, x) == [k EXCEPT !.e = x]

LEMMA EngineCtx ==
    ASSUME NEW zn, NEW tg, NEW cf, NEW was, NEW is, NEW p, NEW zm, NEW th
    PROVE  /\ Ctx(zn, tg, cf, was, is, p).e
                = Engine(zn, tg, eng.static, eng.motion, eng.everActive, eng.assist)
           /\ EngineC(Ctx(zn, tg, cf, was, is, p),
                      Engine(zm, th, eng.static, eng.motion, eng.everActive, eng.assist))
                = Ctx(zm, th, cf, was, is, p)
BY DEF EngineC, Ctx, Engine

LEMMA DismissFields ==
    ASSUME Setup, NEW e \in Scratch, Disabled(e), NEW i \in Slots, NEW c \in grid.room
    PROVE  LET f == DismissE(e, i, c)
           IN  /\ f \in Scratch /\ f.w = e.w /\ f.ts = e.ts /\ f.at = e.at /\ f.from = e.from
               /\ f.seen = e.seen /\ f.zone = WithoutEvidence(e.zone, i, c)
               /\ f.tgt = [e.tgt EXCEPT ![i] = DismissedAt(e.tgt[i], c)]
<1> DEFINE zn == WithoutEvidence(e.zone, i, c)
           t == DismissedAt(e.tgt[i], c)
           f == DismissE(e, i, c)
<1>1. f = [e EXCEPT !.zone = zn, !.tgt[i] = t] BY DEF DismissE
<1>2. c \in Cells /\ e.tgt[i] \in Tracking /\ e.zone \in [Zones -> ZoneRuntime]
    BY SetupFacts DEF Scratch
<1>3. t \in Tracking BY <1>2, DismissedAtFacts
<1>4. zn \in [Zones -> ZoneRuntime]
  <2>1. \A z \in Zones : z \notin Configured => e.zone[z] = Idle BY DEF Disabled
  <2> QED BY <1>2, <2>1, WithoutEvidenceFacts
<1> HIDE DEF zn, t, f
<1>5. /\ f \in Scratch /\ f.w = e.w /\ f.ts = e.ts /\ f.at = e.at /\ f.from = e.from
      /\ f.seen = e.seen /\ f.zone = zn /\ f.tgt = [e.tgt EXCEPT ![i] = t]
    BY <1>1, <1>3, <1>4 DEF Scratch
<1> QED BY <1>5 DEF zn, t, f

LEMMA DismissTwin ==
    ASSUME Setup, NEW e \in Scratch, Disabled(e), NEW k, NEW p, Twin(e, k, p), NEW i \in Slots,
           NEW c \in grid.room
    PROVE  Twin(DismissE(e, i, c), EngineC(k, Local!DismissTarget(k.e, i, c, grid)), p)
<1> DEFINE f == DismissE(e, i, c)
           l == EngineC(k, Local!DismissTarget(k.e, i, c, grid))
           zn == k.e.zone
           tg == Targets(e.tgt)
           zm == EvidenceC(zn, i, c)
           th == [tg EXCEPT ![i] = DismissedC(tg[i], c)]
           was == ZonesOf(e.from)
           is == ZonesOf(e.at)
<1>1. k = Ctx(zn, tg, e.seen, was, is, p) /\ Alike(zn, e.zone) BY TwinFacts
<1>2. Fed(p, e) BY DEF Twin
<1>3. /\ f \in Scratch /\ f.w = e.w /\ f.ts = e.ts /\ f.at = e.at /\ f.from = e.from
      /\ f.seen = e.seen /\ f.zone = WithoutEvidence(e.zone, i, c)
      /\ f.tgt = [e.tgt EXCEPT ![i] = DismissedAt(e.tgt[i], c)]
    BY DismissFields
<1>4. tg[i] = AsTarget(e.tgt[i]) BY DEF Targets
<1> HIDE DEF zn, tg, zm, th, was, is, f, l
<1>5. k.e = Engine(zn, tg, eng.static, eng.motion, eng.everActive, eng.assist)
    BY <1>1, EngineCtx
<1>6. Local!DismissTarget(k.e, i, c, grid) = Engine(zm, th, eng.static, eng.motion, eng.everActive, eng.assist)
    BY <1>5, DismissedEngine DEF zm, th
<1>7. l = Ctx(zm, th, e.seen, was, is, p) BY <1>1, <1>6, EngineCtx DEF l
<1>8. Alike(zm, f.zone)
  <2>1. e.zone \in [Zones -> ZoneRuntime] BY DEF Scratch
  <2>2. \A z \in Zones : z \notin Configured => e.zone[z] = Idle BY DEF Disabled
  <2> QED BY <1>1, <1>3, <2>1, <2>2, EvidenceAlike DEF zm
<1>9. th = Targets(f.tgt)
  <2>1. e.tgt \in [Slots -> Tracking] /\ e.tgt[i] \in Tracking BY DEF Scratch
  <2>2. c \in Cells BY SetupFacts
  <2>3. DismissedC(tg[i], c) = AsTarget(DismissedAt(e.tgt[i], c)) BY <1>4, <2>1, <2>2, DismissedAs
  <2>4. th = [Targets(e.tgt) EXCEPT ![i] = AsTarget(DismissedAt(e.tgt[i], c))] BY <2>3 DEF th, tg
  <2> QED BY <1>3, <2>1, <2>4, TargetsSet
<1>10. Fed(p, f) BY <1>2, <1>3 DEF Fed
<1>11. Twin(f, l, p) BY <1>3, <1>7, <1>8, <1>9, <1>10, TwinIs DEF was, is
<1> QED BY <1>11 DEF f, l

\* A target that is seen elsewhere than where it was dismissed.
MovedF(e, i) == Target(e, i, MovedE(e.tgt[i]))
MovedC(k, i) == Local!SetTarget(k, i, MovedT(Local!Target(k, i)))

LEMMA MovedTwin ==
    ASSUME NEW e \in Scratch, NEW k, NEW p, Twin(e, k, p), NEW i \in Slots
    PROVE  Twin(MovedF(e, i), MovedC(k, i), p) /\ MovedF(e, i) \in Scratch
<1>1. e.tgt[i] \in Tracking BY DEF Scratch
<1>2. MovedE(e.tgt[i]) \in Tracking /\ MovedT(AsTarget(e.tgt[i])) = AsTarget(MovedE(e.tgt[i])) BY <1>1, MovedAs
<1>3. Local!Target(k, i) = AsTarget(e.tgt[i]) BY TwinFacts
<1> QED BY <1>2, <1>3, TargetTwin, TargetReplaced DEF MovedF, MovedC

\* A target at a new position.
WatchC(k, i, d) == [k EXCEPT !.e.target[i].stuckRef = d]

LEMMA WatchCtx ==
    ASSUME NEW zn, NEW tg, NEW cf, NEW was, NEW is, NEW p, NEW i, NEW d
    PROVE  WatchC(Ctx(zn, tg, cf, was, is, p), i, d)
              = Ctx(zn, [tg EXCEPT ![i] = WatchedT(tg[i], d)], cf, was, is, p)
<1> DEFINE k == Ctx(zn, tg, cf, was, is, p)
           l == WatchC(k, i, d)
<1>1. k = Ctx(zn, tg, cf, was, is, p) OBVIOUS
<1>2. l = [k EXCEPT !.e.target[i].stuckRef = d] BY DEF WatchC
<1> HIDE DEF k, l
<1>3. l = Ctx(zn, [tg EXCEPT ![i] = [tg[i] EXCEPT !.stuckRef = d]], cf, was, is, p)
    BY <1>1, <1>2 DEF Ctx, Engine
<1> QED BY <1>3 DEF k, l, WatchedT

LEMMA WatchTwin ==
    ASSUME NEW e \in Scratch, NEW k, NEW p, Twin(e, k, p), NEW i \in Slots,
           NEW d \in [at : Points, since : Int]
    PROVE  Twin(Target(e, i, WatchedE(e.tgt[i], d)), WatchC(k, i, d), p)
<1>1. e.tgt[i] \in Tracking BY DEF Scratch
<1>2. /\ WatchedE(e.tgt[i], d) \in Tracking
      /\ WatchedT(AsTarget(e.tgt[i]), d) = AsTarget(WatchedE(e.tgt[i], d))
    BY <1>1, WatchedAs
<1> DEFINE u == AsTarget(WatchedE(e.tgt[i], d))
           tg == Targets(e.tgt)
           zn == k.e.zone
           was == ZonesOf(e.from)
           is == ZonesOf(e.at)
           seen == e.seen
<1>3. k = Ctx(zn, tg, seen, was, is, p) BY TwinFacts
<1>4. WatchedT(tg[i], d) = u BY <1>2 DEF Targets
<1> HIDE DEF tg, zn, was, is, u, seen
<1>5. WatchC(k, i, d) = Ctx(zn, [tg EXCEPT ![i] = u], seen, was, is, p)
    BY <1>3, <1>4, WatchCtx
<1>6. Local!SetTarget(k, i, u) = Ctx(zn, [tg EXCEPT ![i] = u], seen, was, is, p)
    BY <1>3, SetTargetCtx
<1>7. Twin(Target(e, i, WatchedE(e.tgt[i], d)), Local!SetTarget(k, i, u), p)
    BY <1>2, TargetTwin DEF u
<1> QED BY <1>5, <1>6, <1>7

-----------------------------------------------------------------------------
(* Step 1                                                                  *)

\* The two tests of a bit-identical position.
LEMMA StuckFacts ==
    ASSUME NEW t \in Tracking, NEW u, u = AsTarget(t), NEW x \in Points, NEW c \in Cells
    PROVE  /\ (u.stuckRef # Null /\ u.stuckRef.at = x) <=> t.stuck.at = x
           /\ t.stuck.at = x => u.stuckRef.since = t.stuck.since
           /\ u.dismissed = c <=> t.dismissed = c
<1>1. /\ t.stuck \in [at : Points \cup {NoPoint}, since : Int]
      /\ t.dismissed \in Cells \cup {NoCell}
    BY DEF Tracking
<1>2. u.stuckRef = Unless(t.stuck, NoRef) /\ u.dismissed = Unless(t.dismissed, NoCell) BY DEF AsTarget
<1>3. x # NoPoint BY CellsAssumption
<1>4. CASE t.stuck.at = x
  <2>1. t.stuck \in [at : Points, since : Int] BY <1>1, <1>4
  <2>2. u.stuckRef = t.stuck /\ u.stuckRef # Null BY <1>2, <2>1, NullFacts
  <2>3. u.dismissed = c <=> t.dismissed = c BY <1>1, <1>2, NullFacts
  <2> QED BY <1>4, <2>2, <2>3
<1>5. CASE t.stuck.at # x
  <2>1. CASE t.stuck = NoRef
    <3>1. u.stuckRef = Null BY <1>2, <2>1, NullFacts
    <3>2. u.dismissed = c <=> t.dismissed = c BY <1>1, <1>2, NullFacts
    <3> QED BY <1>5, <3>1, <3>2
  <2>2. CASE t.stuck # NoRef
    <3>1. u.stuckRef = t.stuck BY <1>2, <2>2 DEF Unless
    <3>2. u.dismissed = c <=> t.dismissed = c BY <1>1, <1>2, NullFacts
    <3> QED BY <1>5, <3>1, <3>2
  <2> QED BY <2>1, <2>2
<1> QED BY <1>4, <1>5

\* A target in the room.
LEMMA InRoomTwin ==
    ASSUME Setup, cfg \in ZoneConfigs, NEW e \in Scratch, Disabled(e), NEW k, NEW p, Twin(e, k, p),
           NEW i \in Slots, NEW c \in grid.room, e.w[i].active, Rooted(e)
    PROVE  Twin(InRoom(e, i, c), Local!InRoom(k, i, c), p)
<1> DEFINE t == e.tgt[i]
           x == e.w[i].pos
           u == Local!Target(k, i)
           d == [at |-> x, since |-> e.ts]
           ref == u.stuckRef
           same == ref # Null /\ ref.at = x
           moved == MovedF(e, i)
           movedC == MovedC(k, i)
           watched == WatchStuck(moved, i)
           watchedC == IF stuckTimeout = 0 \/ same THEN movedC ELSE WatchC(movedC, i, d)
           gone == DismissE(moved, i, c)
           goneC == EngineC(movedC, Local!DismissTarget(movedC.e, i, c, grid))
           placed == Place(watched, i, c)
           placedC == Local!Place(watchedC, i, c)
<1>1. c \in Cells /\ t \in Tracking /\ x \in Points /\ e.ts \in Int
    BY SetupFacts, WindowFacts DEF Scratch
<1>2. k.p = p /\ u = AsTarget(t) BY TwinFacts
<1>3. p.grid = grid /\ p.zones = cfg /\ p.targets = e.w /\ p.now = e.ts /\ p.stuckTimeout = stuckTimeout
    BY DEF Twin, Fed
<1>4. /\ same <=> t.stuck.at = x
      /\ t.stuck.at = x => ref.since = t.stuck.since
      /\ u.dismissed = c <=> t.dismissed = c
  <2> HIDE DEF t, x, u
  <2> QED BY <1>1, <1>2, StuckFacts
<1>5. /\ moved \in Scratch /\ Twin(moved, movedC, p) BY MovedTwin
<1>6. /\ moved.w = e.w /\ moved.ts = e.ts /\ moved.zone = e.zone /\ moved.seen = e.seen
      /\ moved.tgt = [e.tgt EXCEPT ![i] = MovedE(t)] /\ moved.at = e.at /\ moved.from = e.from
  <2>1. MovedE(t) \in Tracking BY <1>1, MovedAs
  <2> QED BY <2>1, TargetReplaced DEF MovedF
<1>7. /\ moved.tgt[i] = MovedE(t) /\ MovedE(t).stuck = t.stuck /\ MovedE(t).prev = t.prev /\ MovedE(t).xy = t.xy
      /\ \A j \in Slots \ {i} : moved.tgt[j] = e.tgt[j]
  <2>1. e.tgt \in [Slots -> Tracking] BY DEF Scratch
  <2>2. MovedE(t).stuck = t.stuck /\ MovedE(t).prev = t.prev /\ MovedE(t).xy = t.xy BY <1>1 DEF MovedE, Tracking
  <2> QED BY <1>6, <2>1, <2>2
<1>8. Disabled(moved) BY <1>6 DEF Disabled
<1>9. Twin(gone, goneC, p)
  <2> HIDE DEF moved, movedC
  <2> QED BY <1>5, <1>8, DismissTwin
<1>10. d \in [at : Points, since : Int] BY <1>1
<1>11. watched = IF stuckTimeout = 0 \/ t.stuck.at = x THEN moved
                 ELSE Target(moved, i, WatchedE(moved.tgt[i], d))
    BY <1>6, <1>7 DEF WatchStuck, WatchedE
<1>12. Twin(watched, watchedC, p) /\ watched \in Scratch /\ watched.w = e.w /\ Rooted(watched)
  <2>1. CASE stuckTimeout = 0 \/ t.stuck.at = x
    <3>1. watched = moved /\ watchedC = movedC BY <1>4, <1>11, <2>1
    <3>2. Rooted(moved) BY <1>7 DEF Rooted
    <3> QED BY <1>5, <1>6, <3>1, <3>2
  <2>2. CASE ~(stuckTimeout = 0 \/ t.stuck.at = x)
    <3> DEFINE v == WatchedE(moved.tgt[i], d)
    <3>1. watched = Target(moved, i, v) /\ watchedC = WatchC(movedC, i, d) BY <1>4, <1>11, <2>2
    <3>2. moved.tgt[i] \in Tracking BY <1>5 DEF Scratch
    <3> HIDE DEF d, watched, watchedC, moved, movedC
    <3>3. v \in Tracking BY <1>10, <3>2, WatchedAs
    <3>4. v.prev = t.prev BY <3>2, <1>7 DEF WatchedE, Tracking
    <3>5. Twin(watched, watchedC, p) BY <1>5, <1>10, <3>1, WatchTwin
    <3> HIDE DEF v
    <3>6. watched \in Scratch /\ watched.w = e.w /\ watched.tgt = [moved.tgt EXCEPT ![i] = v]
        BY <1>5, <1>6, <3>1, <3>3, TargetReplaced
    <3>7. Rooted(watched)
      <4>1. \A j \in Slots : watched.tgt[j].prev = e.tgt[j].prev
        <5>1. moved.tgt \in [Slots -> Tracking] BY <1>5 DEF Scratch
        <5> QED BY <1>7, <3>4, <3>6, <5>1
      <4> QED BY <4>1 DEF Rooted
    <3> QED BY <3>5, <3>6, <3>7
  <2> QED BY <2>1, <2>2
<1>13. 0 \in Configured BY ConfigsAssumption DEF Configured
<1>14. Local!IsZoneConfigured(grid.zone[c], p) <=> grid.zone[c] \in Configured
    BY <1>3, <1>13 DEF Local!IsZoneConfigured, Configured
<1>15. Stuck(moved, i) <=> stuckTimeout > 0 /\ t.stuck.at = x /\ e.ts - t.stuck.since >= stuckTimeout
    BY <1>6, <1>7 DEF Stuck
<1>16. InRoom(e, i, c) = IF t.dismissed = c THEN Lose(e, i)
                         ELSE IF stuckTimeout > 0 /\ t.stuck.at = x /\ e.ts - t.stuck.since >= stuckTimeout THEN gone
                         ELSE IF grid.overlay[c] = "suppress" THEN Lose(watched, i)
                         ELSE Judge(placed, i, c)
  <2>1. [e EXCEPT !.zone = WithoutEvidence(e.zone, i, c), !.tgt[i] = DismissedAt(t, c)] = gone
    <3>1. DismissedAt(MovedE(t), c) = DismissedAt(t, c) BY <1>7 DEF DismissedAt
    <3> DEFINE zn == WithoutEvidence(e.zone, i, c)
               s == DismissedAt(t, c)
               f == [e EXCEPT !.zone = zn, !.tgt[i] = s]
    <3>2. gone = [moved EXCEPT !.zone = zn, !.tgt[i] = s] BY <1>6, <1>7, <3>1 DEF DismissE
    <3>3. moved = [e EXCEPT !.tgt[i] = MovedE(t)] BY DEF MovedF, Target
    <3> HIDE DEF zn, s, gone, moved
    <3>4. gone = f BY <3>2, <3>3 DEF Scratch
    <3> QED BY <3>4 DEF zn, s
  <2>2. moved = Target(e, i, [e.tgt[i] EXCEPT !.dismissed = NoCell]) BY DEF MovedF, MovedE
  <2> QED BY <1>15, <2>1, <2>2 DEF InRoom
<1>17. Local!InRoom(k, i, c) =
         CASE u.dismissed = c -> Local!Forget(k, i)
           [] u.dismissed # c /\ stuckTimeout > 0 /\ same /\ e.ts - ref.since >= stuckTimeout -> goneC
           [] OTHER -> IF grid.overlay[c] = "suppress" THEN Local!Forget(watchedC, i)
                       ELSE IF Local!IsZoneConfigured(grid.zone[c], p) THEN Local!Judge(placedC, i, c)
                       ELSE Local!Keep(placedC, i, c)
    BY <1>2, <1>3 DEF Local!InRoom, MovedC, MovedT, WatchC, EngineC
<1>18. Twin(placed, placedC, p) /\ placed \in Scratch
  <2> HIDE DEF watched, watchedC
  <2> QED BY <1>1, <1>12, PlaceTwin, PlaceFields
<1> HIDE DEF moved, movedC, watched, watchedC, gone, goneC, placed, placedC, d
<1>19. Twin(Lose(e, i), Local!Forget(k, i), p) BY LoseTwin
<1>20. Twin(Lose(watched, i), Local!Forget(watchedC, i), p) BY <1>12, LoseTwin
<1>21. grid.zone[c] \in Configured => Twin(Judge(placed, i, c), Local!Judge(placedC, i, c), p)
    BY <1>1, <1>18, JudgeTwin
<1>22. grid.zone[c] \notin Configured => Twin(Judge(placed, i, c), Local!Keep(placedC, i, c), p)
  <2>1. grid.zone[c] \notin Configured => Judge(placed, i, c) = Follow(placed, i, c) BY DEF Judge
  <2> QED BY <1>1, <1>18, <2>1, FollowTwin
<1> HIDE DEF same, ref, t, u, x
<1> QED BY <1>4, <1>9, <1>14, <1>16, <1>17, <1>19, <1>20, <1>21, <1>22

\* A target that is out of sight.
LEMMA GoneIsLost == ASSUME NEW t, NEW u, u = AsTarget(t) PROVE WatchedT(LostT(u), Null) = GoneT(u)
<1>1. PICK k, l, m, n, o, q, r : u = Track(k, l, m, n, o, q, r) BY AsTargetIs
<1>2. LostT(u) = Track(Null, 0, m, n, o, q, r) BY <1>1, LostTrack
<1>3. WatchedT(LostT(u), Null) = Track(Null, 0, m, n, o, q, Null) BY <1>2, WatchedTrack
<1>4. GoneT(u) = Track(Null, 0, m, n, o, q, Null) BY <1>1, GoneTrack
<1> QED BY <1>3, <1>4

LEMMA OutOfSightTwin ==
    ASSUME NEW e \in Scratch, NEW k, NEW p, Twin(e, k, p), NEW i \in Slots
    PROVE  Twin(OutOfSight(e, i), WatchC(Local!Forget(k, i), i, Null), p)
<1> DEFINE u == Local!Target(k, i)
           v == LostT(u)
           g == GoneT(u)
           tg == Targets(e.tgt)
           th == [tg EXCEPT ![i] = v]
           zn == k.e.zone
           was == ZonesOf(e.from)
           is == ZonesOf(e.at)
           seen == e.seen
<1>1. e.tgt[i] \in Tracking BY DEF Scratch
<1>2. k = Ctx(zn, tg, seen, was, is, p) /\ u = AsTarget(e.tgt[i]) BY TwinFacts
<1>3. GoneE(e.tgt[i]) \in Tracking /\ g = AsTarget(GoneE(e.tgt[i])) BY <1>1, <1>2, GoneAs
<1>4. OutOfSight(e, i) = Target(e, i, GoneE(e.tgt[i])) BY DEF OutOfSight, GoneE
<1>5. Local!Forget(k, i) = Local!SetTarget(k, i, v) BY DEF Local!Forget, LostT
<1>6. th[i] = v /\ [th EXCEPT ![i] = g] = [tg EXCEPT ![i] = g] BY DEF Targets
<1>7. WatchedT(v, Null) = g BY <1>2, GoneIsLost
<1> HIDE DEF u, v, g, tg, th, zn, was, is, seen
<1>8. Local!Forget(k, i) = Ctx(zn, th, seen, was, is, p) BY <1>2, <1>5, SetTargetCtx DEF th
<1>9. WatchC(Ctx(zn, th, seen, was, is, p), i, Null)
        = Ctx(zn, [th EXCEPT ![i] = WatchedT(th[i], Null)], seen, was, is, p)
    BY WatchCtx
<1>10. Local!SetTarget(k, i, g) = Ctx(zn, [tg EXCEPT ![i] = g], seen, was, is, p)
    BY <1>2, SetTargetCtx
<1>11. WatchC(Local!Forget(k, i), i, Null) = Local!SetTarget(k, i, g)
    BY <1>6, <1>7, <1>8, <1>9, <1>10
<1>12. Twin(Target(e, i, GoneE(e.tgt[i])), Local!SetTarget(k, i, g), p) BY <1>3, TargetTwin
<1> QED BY <1>4, <1>11, <1>12

\* One slot of the window.
LEMMA EvaluateTwin ==
    ASSUME Setup, cfg \in ZoneConfigs, NEW e \in Scratch, Disabled(e), Rooted(e),
           NEW k, NEW p, Twin(e, k, p), NEW i \in Slots
    PROVE  Twin(Evaluate(e, i), Local!StepPerTargetEval(k, i), p)
<1> DEFINE c == grid.cell[e.w[i].pos]
<1>1. k.p = p BY TwinFacts
<1>2. p.grid = grid /\ p.targets = e.w /\ Fed(p, e) BY DEF Twin, Fed
<1>3. Local!Present(p, i) <=> e.w[i].active BY <1>2, PresentFacts
<1>4. Evaluate(e, i) = IF e.w[i].active /\ c \in grid.room THEN InRoom(e, i, c) ELSE OutOfSight(e, i)
    BY DEF Evaluate
<1>5. Local!StepPerTargetEval(k, i) =
        IF e.w[i].active /\ c \in grid.room THEN Local!InRoom(k, i, c)
        ELSE WatchC(Local!Forget(k, i), i, Null)
    BY <1>1, <1>2, <1>3 DEF Local!StepPerTargetEval, Local!Cell, WatchC
<1> HIDE DEF c
<1>6. e.w[i].active /\ c \in grid.room => Twin(InRoom(e, i, c), Local!InRoom(k, i, c), p) BY InRoomTwin
<1>7. Twin(OutOfSight(e, i), WatchC(Local!Forget(k, i), i, Null), p) BY OutOfSightTwin
<1> QED BY <1>4, <1>5, <1>6, <1>7

\* A tracked target was last in a cell of the room.
LEMMA TargetRooted ==
    ASSUME NEW e \in Scratch, Rooted(e), NEW i \in Slots, NEW f,
           f.tgt[i].prev \in grid.room \cup {NoCell}, \A j \in Slots \ {i} : f.tgt[j] = e.tgt[j]
    PROVE  Rooted(f)
BY DEF Rooted

LEMMA SetRooted ==
    ASSUME NEW e \in Scratch, Rooted(e), NEW i \in Slots, NEW t \in Tracking,
           t.prev \in grid.room \cup {NoCell}
    PROVE  Rooted(Target(e, i, t))
<1>1. Target(e, i, t).tgt = [e.tgt EXCEPT ![i] = t] BY TargetReplaced
<1>2. e.tgt \in [Slots -> Tracking] BY DEF Scratch
<1> QED BY <1>1, <1>2, TargetRooted

LEMMA JudgeRooted ==
    ASSUME Setup, NEW e \in Scratch, Rooted(e), NEW i \in Slots, NEW c \in grid.room
    PROVE  Rooted(Judge(e, i, c))
<1>1. e.tgt[i] \in Tracking /\ c \in Cells /\ grid.zone[c] \in Zones BY SetupFacts DEF Scratch
<1>2. Rooted(Lose(e, i))
  <2> DEFINE t == LostE(e.tgt[i])
  <2>1. t \in Tracking BY <1>1, LostAs
  <2>2. t.prev = NoCell BY <1>1 DEF LostE, Tracking
  <2>3. Lose(e, i) = Target(e, i, t) BY DEF Lose, LostE
  <2> HIDE DEF t
  <2> QED BY <2>1, <2>2, <2>3, SetRooted
<1>3. Rooted(Follow(e, i, c))
  <2> DEFINE t == FollowedE(e.tgt[i], c)
  <2>1. t \in Tracking BY <1>1, FollowedAs
  <2>2. t.prev = c BY <1>1 DEF FollowedE, Tracking
  <2>3. Follow(e, i, c) = Target(e, i, t) BY DEF Follow, FollowedE
  <2> HIDE DEF t
  <2> QED BY <2>1, <2>2, <2>3, SetRooted
<1>4. e.tgt[i].gate = 0 => Rooted(GateOnce(e, i, c))
  <2> SUFFICES ASSUME e.tgt[i].gate = 0 PROVE Rooted(GateOnce(e, i, c)) OBVIOUS
  <2> DEFINE t == GatedE(e.tgt[i], c, 1)
  <2>0. 1 \in 0..1 OBVIOUS
  <2>1. t \in Tracking BY <1>1, <2>0, GatedAs
  <2>2. t.prev = c BY <1>1 DEF GatedE, Tracking
  <2>3. GateOnce(e, i, c) = Target(e, i, t)
    <3>1. e.tgt[i].gate + 1 = 1 OBVIOUS
    <3> QED BY <3>1 DEF GateOnce, GatedE
  <2> HIDE DEF t
  <2> QED BY <2>1, <2>2, <2>3, SetRooted
<1>5. Rooted(Confirm(e, i, c))
  <2> DEFINE t == CountedE(e.tgt[i], c)
  <2>1. t.prev = c BY <1>1 DEF CountedE, Tracking
  <2>2. Confirm(e, i, c).tgt = [e.tgt EXCEPT ![i] = t]
    <3> DEFINE f == Confirm(e, i, c)
               z == grid.zone[c]
               r == Bits(e.zone[z], e.zone[z].bits \cup {i})
    <3>1. f = [e EXCEPT !.tgt[i] = t, !.zone[z] = r, !.seen = e.seen \cup {z}] BY DEF Confirm, CountedE
    <3> HIDE DEF f, r, t, z
    <3>2. f.tgt = [e.tgt EXCEPT ![i] = t] BY <3>1 DEF Scratch
    <3> QED BY <3>2 DEF f
  <2> HIDE DEF t
  <2>3. e.tgt \in [Slots -> Tracking] BY DEF Scratch
  <2> QED BY <2>1, <2>2, <2>3, TargetRooted
<1>6. \/ Judge(e, i, c) = Lose(e, i)
      \/ Judge(e, i, c) = Follow(e, i, c)
      \/ e.tgt[i].gate = 0 /\ Judge(e, i, c) = GateOnce(e, i, c)
      \/ Judge(e, i, c) = Confirm(e, i, c)
    BY DEF Judge
<1> QED BY <1>2, <1>3, <1>4, <1>5, <1>6

LEMMA EvaluateRooted ==
    ASSUME Setup, NEW e \in Scratch, Disabled(e), Rooted(e), NEW i \in Slots
    PROVE  /\ Rooted(Evaluate(e, i))
           /\ e.at[i] = NoZone /\ ~e.w[i].active => Evaluate(e, i).at[i] = NoZone
<1> DEFINE c == grid.cell[e.w[i].pos]
           t == e.tgt[i]
           moved == MovedF(e, i)
           watched == WatchStuck(moved, i)
           placed == Place(watched, i, c)
<1>1. t \in Tracking BY DEF Scratch
<1>2. CASE ~(e.w[i].active /\ c \in grid.room)
  <2> DEFINE s == GoneE(t)
  <2>1. s \in Tracking BY <1>1, GoneAs
  <2>2. s.prev = NoCell BY <1>1 DEF GoneE, Tracking
  <2>3. Evaluate(e, i) = Target(e, i, s) BY <1>2 DEF Evaluate, OutOfSight, GoneE
  <2> HIDE DEF s
  <2>4. Evaluate(e, i).at = e.at
    <3>1. Target(e, i, s).at = e.at BY <2>1, TargetReplaced, Zenon
    <3> QED BY <2>3, <3>1
  <2> QED BY <2>1, <2>2, <2>3, <2>4, SetRooted
<1>3. CASE e.w[i].active /\ c \in grid.room
  <2>1. Evaluate(e, i) = InRoom(e, i, c) BY <1>3 DEF Evaluate
  <2>2. c \in Cells /\ e.w[i].pos \in Points /\ e.ts \in Int BY <1>3, SetupFacts, WindowFacts DEF Scratch
  <2>3. /\ moved \in Scratch /\ moved.w = e.w /\ moved.ts = e.ts /\ Rooted(moved)
        /\ moved.zone = e.zone /\ moved.tgt[i].prev = t.prev /\ moved.tgt[i].xy = t.xy
    <3> DEFINE s == MovedE(t)
    <3>1. s \in Tracking BY <1>1, MovedAs
    <3>2. s.prev = t.prev /\ s.xy = t.xy BY <1>1 DEF MovedE, Tracking
    <3>3. moved = Target(e, i, s) BY DEF MovedF
    <3> HIDE DEF s, moved
    <3>4. /\ moved \in Scratch /\ moved.w = e.w /\ moved.ts = e.ts
          /\ moved.zone = e.zone /\ moved.tgt = [e.tgt EXCEPT ![i] = s]
        BY <3>1, <3>3, TargetReplaced
    <3>5. moved.tgt[i] = s
      <4>1. e.tgt \in [Slots -> Tracking] BY DEF Scratch
      <4> QED BY <3>4, <4>1
    <3>6. t.prev \in grid.room \cup {NoCell} BY DEF Rooted
    <3>7. Rooted(moved) BY <3>1, <3>2, <3>3, <3>6, SetRooted
    <3> QED BY <3>2, <3>4, <3>5, <3>7
  <2> HIDE DEF moved
  <2>4. watched \in Scratch /\ watched.w = e.w /\ Rooted(watched)
    <3> DEFINE d == [at |-> e.w[i].pos, since |-> e.ts]
               s == WatchedE(moved.tgt[i], d)
    <3>1. watched = moved \/ watched = Target(moved, i, s) BY <2>3 DEF WatchStuck, WatchedE
    <3>2. moved.tgt[i] \in Tracking /\ d \in [at : Points, since : Int] BY <2>2, <2>3 DEF Scratch
    <3> HIDE DEF d
    <3>3. s \in Tracking BY <3>2, WatchedAs
    <3>4. s.prev = moved.tgt[i].prev BY <3>2 DEF WatchedE, Tracking
    <3> HIDE DEF s, watched
    <3>5. CASE watched = moved BY <2>3, <3>5
    <3>6. CASE watched = Target(moved, i, s)
      <4>1. watched \in Scratch /\ watched.w = e.w /\ watched.tgt = [moved.tgt EXCEPT ![i] = s]
          BY <2>3, <3>3, <3>6, TargetReplaced
      <4>2. s.prev \in grid.room \cup {NoCell} BY <2>3, <3>4 DEF Rooted
      <4>3. Rooted(Target(moved, i, s)) BY <2>3, <3>3, <4>2, SetRooted
      <4> QED BY <3>6, <4>1, <4>3
    <3> QED BY <3>1, <3>5, <3>6
  <2> HIDE DEF watched
  <2>5. placed \in Scratch /\ Rooted(placed)
    <3>1. watched.w[i].active BY <1>3, <2>4
    <3> HIDE DEF c
    <3>2. placed = Place(watched, i, c) OBVIOUS
    <3> HIDE DEF placed
    <3>3. /\ placed \in Scratch /\ placed.tgt[i].prev = watched.tgt[i].prev
          /\ \A j \in Slots \ {i} : placed.tgt[j] = watched.tgt[j]
        BY <1>3, <2>4, <3>1, <3>2, PlaceEffect
    <3>4. placed.tgt[i].prev \in grid.room \cup {NoCell} BY <2>4, <3>3 DEF Rooted
    <3> QED BY <2>4, <3>3, <3>4, TargetRooted
  <2> HIDE DEF placed
  <2>6. Rooted(Lose(e, i)) /\ Rooted(Lose(watched, i))
    <3>1. ASSUME NEW f \in Scratch, Rooted(f) PROVE Rooted(Lose(f, i))
      <4> DEFINE s == LostE(f.tgt[i])
      <4>1. f.tgt[i] \in Tracking BY DEF Scratch
      <4>2. s \in Tracking BY <4>1, LostAs
      <4>3. s.prev = NoCell BY <4>1 DEF LostE, Tracking
      <4>4. Lose(f, i) = Target(f, i, s) BY DEF Lose, LostE
      <4> HIDE DEF s
      <4> QED BY <3>1, <4>2, <4>3, <4>4, SetRooted
    <3> QED BY <2>4, <3>1
  <2>7. Rooted(Judge(placed, i, c)) BY <1>3, <2>5, JudgeRooted
  <2>8. Rooted(DismissE(e, i, c))
    <3>1. DismissE(e, i, c).tgt = [e.tgt EXCEPT ![i] = DismissedAt(t, c)] BY <1>3, DismissFields
    <3>2. DismissedAt(t, c).prev = NoCell BY DEF DismissedAt, Fresh
    <3>3. e.tgt \in [Slots -> Tracking] BY DEF Scratch
    <3> QED BY <3>1, <3>2, <3>3, TargetRooted
  <2>9. InRoom(e, i, c) \in {Lose(e, i), Lose(watched, i), Judge(placed, i, c), DismissE(e, i, c)}
    <3>1. moved = Target(e, i, [e.tgt[i] EXCEPT !.dismissed = NoCell]) BY DEF moved, MovedF, MovedE
    <3> QED BY <3>1 DEF InRoom, DismissE, watched, placed
  <2> QED BY <1>3, <2>1, <2>6, <2>7, <2>8, <2>9
<1> QED BY <1>2, <1>3

-----------------------------------------------------------------------------
(* Step 0                                                                  *)

\* Whether a slot is held by a pending zone.
LEMMA HeldFacts ==
    ASSUME NEW x, NEW zo \in [Zones -> ZoneRuntime], Alike(x.zone, zo), NEW i
    PROVE  Local!Held(x, i) <=> \E z \in Zones : zo[z].state = "PENDING" /\ i \in zo[z].bits
<1> DEFINE zn == x.zone
<1>1. /\ \A z \in Zones : /\ Of(zn, z).confirmed = zo[z].bits
                          /\ Local!Pending(Of(zn, z)) <=> zo[z].state = "PENDING"
      /\ \A z \in Zones : z \notin DOMAIN zn => zo[z].state = "CLEAR" /\ zo[z].bits = {}
      /\ \A z \in DOMAIN zn : z \in Zones /\ Of(zn, z) = zn[z]
    BY ZoneFacts
<1>2. Local!Held(x, i) <=> \E z \in DOMAIN zn : Local!Pending(zn[z]) /\ i \in zn[z].confirmed
    BY DEF Local!Held
<1> HIDE DEF zn
<1> QED BY <1>1, <1>2

\* The slots a pending person may be parked in.
FreeC(k, i) == {j \in Local!Slots \ {i} : ~Local!Present(k.p, j)
                   /\ \A z \in DOMAIN k.e.zone : j \notin k.e.zone[z].confirmed}

LEMMA FreeFacts ==
    ASSUME NEW e \in Scratch, NEW k, NEW p, Twin(e, k, p), NEW i \in Slots
    PROVE  FreeC(k, i) = ParkSlots(e, i)
<1> DEFINE zn == k.e.zone
           zo == e.zone
<1>1. k.p = p /\ Alike(zn, zo) BY TwinFacts
<1>2. zo \in [Zones -> ZoneRuntime] /\ Fed(p, e) BY DEF Scratch, Twin
<1> HIDE DEF zn, zo
<1>3. /\ \A z \in Zones : Of(zn, z).confirmed = zo[z].bits
      /\ \A z \in Zones : z \notin DOMAIN zn => zo[z].bits = {}
      /\ \A z \in DOMAIN zn : z \in Zones /\ Of(zn, z) = zn[z]
    BY <1>1, <1>2, ZoneFacts
<1>4. \A j \in Slots : Local!Present(p, j) <=> e.w[j].active BY <1>2, PresentFacts
<1>5. \A j \in Slots : (\A z \in DOMAIN zn : j \notin zn[z].confirmed)
                          <=> \A z \in Zones : j \notin zo[z].bits
    BY <1>3
<1>6. Local!Slots = Slots BY DEF Local!Slots, Slots
<1> QED BY <1>1, <1>4, <1>5, <1>6 DEF FreeC, ParkSlots, zn, zo

\* The two tests for a newcomer.
LEMMA TakenFacts ==
    ASSUME Setup, NEW e \in Scratch, NEW k, NEW p, Twin(e, k, p), NEW i \in Slots
    PROVE  Local!Relocates(k, i) <=> TakenOver(e, i)
<1> DEFINE t == e.tgt[i]
           u == Local!Target(k, i)
           x == e.w[i].pos
<1>1. /\ k.p = p /\ u = AsTarget(t) /\ Alike(k.e.zone, e.zone) BY TwinFacts
<1>2. /\ p.grid = grid /\ p.targets = e.w /\ Fed(p, e) BY DEF Twin, Fed
<1>3. Local!Present(p, i) <=> e.w[i].active BY <1>2, PresentFacts
<1>4. t \in Tracking /\ e.zone \in [Zones -> ZoneRuntime] BY DEF Scratch
<1>5. u.prevXY = Unless(t.xy, NoPoint) /\ t.xy \in Points \cup {NoPoint} BY <1>1, <1>4 DEF AsTarget, Tracking
<1>6. Local!Held(k.e, i) <=> \E z \in Zones : e.zone[z].state = "PENDING" /\ i \in e.zone[z].bits
    BY <1>1, <1>4, HeldFacts
<1>7. Local!Relocates(k, i) <=>
        /\ e.w[i].active /\ u.prevXY # Null /\ Local!Held(k.e, i)
        /\ grid.cell[x] \in Cells /\ grid.cell[u.prevXY] \in Cells
        /\ Local!Apart(grid.cell[x], grid.cell[u.prevXY])
        /\ HasEntryOverlay => e.w[i].overlay
    BY <1>1, <1>2, <1>3 DEF Local!Relocates, Local!OnGrid, Local!Cell, HasEntryOverlay
<1>8. TakenOver(e, i) <=>
        /\ e.w[i].active /\ t.xy # NoPoint
        /\ \E z \in Zones : e.zone[z].state = "PENDING" /\ i \in e.zone[z].bits
        /\ grid.cell[x] # NoCell /\ grid.cell[t.xy] # NoCell
        /\ Far(grid.cell[x], grid.cell[t.xy])
        /\ HasEntryOverlay => e.w[i].overlay
    BY DEF TakenOver
<1>9. e.w[i].active => x \in Points BY WindowFacts
<1>10. grid.cell \in [Points -> Cells \cup {NoCell}] BY SetupFacts
<1> HIDE DEF t, u, x
<1>11. CASE t.xy = NoPoint
  <2>1. u.prevXY = Null BY <1>5, <1>11, NullFacts
  <2> QED BY <1>7, <1>8, <1>11, <2>1
<1>12. CASE ~e.w[i].active BY <1>7, <1>8, <1>12
<1>13. CASE t.xy \in Points /\ e.w[i].active
  <2>1. u.prevXY = t.xy /\ u.prevXY # Null /\ t.xy # NoPoint BY <1>5, <1>13, NullFacts, CellsAssumption
  <2>2. /\ grid.cell[x] \in Cells <=> grid.cell[x] # NoCell
        /\ grid.cell[t.xy] \in Cells <=> grid.cell[t.xy] # NoCell
      BY <1>9, <1>10, <1>13, CellsAssumption
  <2>3. grid.cell[x] \in Cells /\ grid.cell[t.xy] \in Cells =>
          (Local!Apart(grid.cell[x], grid.cell[t.xy]) <=> Far(grid.cell[x], grid.cell[t.xy]))
      BY ApartIsFar
  <2> QED BY <1>6, <1>7, <1>8, <1>13, <2>1, <2>2, <2>3
<1> QED BY <1>5, <1>11, <1>12, <1>13

\* The zones without a slot, or with another in its place.
DropC(zn, i) == [z \in DOMAIN zn |-> HoldsC(zn[z], Rest(zn[z], i))]
DropE(zo, i) == [z \in Zones |-> Bits(zo[z], zo[z].bits \ {i})]
Swap(b, i, j) == (b \ {i}) \cup {j}
HandC(zn, i, j) == [z \in DOMAIN zn |-> IF i \in zn[z].confirmed
                        THEN HoldsC(zn[z], Swap(zn[z].confirmed, i, j)) ELSE zn[z]]
HandE(zo, i, j) == [z \in Zones |-> IF i \in zo[z].bits
                        THEN Bits(zo[z], Swap(zo[z].bits, i, j)) ELSE zo[z]]

LEMMA DropAlike ==
    ASSUME NEW zo \in [Zones -> ZoneRuntime], NEW zn, Alike(zn, zo), NEW i
    PROVE  Alike(DropC(zn, i), DropE(zo, i)) /\ DropE(zo, i) \in [Zones -> ZoneRuntime]
<1> DEFINE zm == DropC(zn, i)
           zp == DropE(zo, i)
<1>1. \A z \in Zones : zo[z] \in ZoneRuntime /\ zo[z].bits \ {i} \in SUBSET Slots BY DEF ZoneRuntime
<1>2. \A z \in DOMAIN zn : z \in Zones /\ zn[z] = AsZone(zo[z]) BY DEF Alike, Of
<1>3. DOMAIN zm = DOMAIN zn BY DEF DropC
<1>4. ASSUME NEW z \in DOMAIN zn PROVE zm[z] = AsZone(zp[z])
  <2>1. zm[z] = HoldsC(zn[z], Rest(zn[z], i)) BY DEF DropC
  <2>2. Rest(zn[z], i) = zo[z].bits \ {i} BY <1>2 DEF Rest, AsZone
  <2>3. zp[z] = Bits(zo[z], zo[z].bits \ {i}) BY <1>2 DEF DropE
  <2>4. HoldsC(AsZone(zo[z]), zo[z].bits \ {i}) = AsZone(Bits(zo[z], zo[z].bits \ {i}))
      BY <1>1, <1>2, BitsAs
  <2> QED BY <1>2, <2>1, <2>2, <2>3, <2>4
<1>5. ASSUME NEW z \in Zones, AsZone(zo[z]) = Local!NewZone PROVE AsZone(zp[z]) = Local!NewZone
  <2>1. AsZone(zo[z]).confirmed = zo[z].bits BY DEF AsZone
  <2>2. zo[z].bits = {} BY <1>5, <2>1 DEF Local!NewZone
  <2>3. zp[z] = Bits(zo[z], {}) BY <2>2 DEF DropE
  <2>4. Bits(zo[z], {}).state = zo[z].state /\ Bits(zo[z], {}).since = zo[z].since /\ Bits(zo[z], {}).bits = {}
      BY <1>1, <2>2, BitsFacts
  <2> QED BY <1>5, <2>2, <2>3, <2>4 DEF AsZone
<1>6. zp \in [Zones -> ZoneRuntime]
  <2>1. \A z \in Zones : Bits(zo[z], zo[z].bits \ {i}) \in ZoneRuntime BY <1>1, BitsFacts
  <2> QED BY <2>1 DEF DropE
<1> HIDE DEF zm, zp
<1> QED BY <1>3, <1>4, <1>5, <1>6, EachAlike DEF zm, zp

LEMMA HandAlike ==
    ASSUME NEW zo \in [Zones -> ZoneRuntime], NEW zn, Alike(zn, zo), NEW i, NEW j \in Slots
    PROVE  Alike(HandC(zn, i, j), HandE(zo, i, j)) /\ HandE(zo, i, j) \in [Zones -> ZoneRuntime]
<1> DEFINE zm == HandC(zn, i, j)
           zp == HandE(zo, i, j)
<1>1. \A z \in Zones : zo[z] \in ZoneRuntime /\ Swap(zo[z].bits, i, j) \in SUBSET Slots
    BY DEF ZoneRuntime, Swap
<1>2. \A z \in DOMAIN zn : z \in Zones /\ zn[z] = AsZone(zo[z]) BY DEF Alike, Of
<1>3. DOMAIN zm = DOMAIN zn BY DEF HandC
<1>4. ASSUME NEW z \in DOMAIN zn PROVE zm[z] = AsZone(zp[z])
  <2>1. zn[z].confirmed = zo[z].bits BY <1>2 DEF AsZone
  <2>2. CASE i \in zo[z].bits
    <3>1. zm[z] = HoldsC(zn[z], Swap(zo[z].bits, i, j)) BY <2>1, <2>2 DEF HandC
    <3>2. zp[z] = Bits(zo[z], Swap(zo[z].bits, i, j)) BY <1>2, <2>2 DEF HandE
    <3>3. HoldsC(AsZone(zo[z]), Swap(zo[z].bits, i, j)) = AsZone(Bits(zo[z], Swap(zo[z].bits, i, j)))
        BY <1>1, <1>2, BitsAs
    <3> QED BY <1>2, <3>1, <3>2, <3>3
  <2>3. CASE i \notin zo[z].bits BY <1>2, <2>1, <2>3 DEF HandC, HandE
  <2> QED BY <2>2, <2>3
<1>5. ASSUME NEW z \in Zones, AsZone(zo[z]) = Local!NewZone PROVE AsZone(zp[z]) = Local!NewZone
  <2>1. AsZone(zo[z]).confirmed = zo[z].bits BY DEF AsZone
  <2>2. zo[z].bits = {} BY <1>5, <2>1 DEF Local!NewZone
  <2>3. zp[z] = zo[z] BY <2>2 DEF HandE
  <2> QED BY <1>5, <2>3
<1>6. zp \in [Zones -> ZoneRuntime]
  <2>1. \A z \in Zones : Bits(zo[z], Swap(zo[z].bits, i, j)) \in ZoneRuntime BY <1>1, BitsFacts
  <2> QED BY <1>1, <2>1 DEF HandE
<1> HIDE DEF zm, zp
<1> QED BY <1>3, <1>4, <1>5, <1>6, EachAlike DEF zm, zp

\* The engine with other zones, and with a pending person parked.
EngZ(x, zm) == [x EXCEPT !.zone = zm]
ParkedC(x, zm, i, j) == [[x EXCEPT !.zone = zm] EXCEPT !.target[j] = x.target[i], !.target[i] = Local!NoTarget]
ParkedT(tg, i, j) == [[tg EXCEPT ![j] = tg[i]] EXCEPT ![i] = Local!NoTarget]

LEMMA EngZIs ==
    ASSUME NEW zn, NEW tg, NEW st, NEW mo, NEW ev, NEW as, NEW zm
    PROVE  EngZ(Engine(zn, tg, st, mo, ev, as), zm) = Engine(zm, tg, st, mo, ev, as)
<1> DEFINE x == Engine(zn, tg, st, mo, ev, as)
           y == EngZ(x, zm)
<1>1. x = Engine(zn, tg, st, mo, ev, as) OBVIOUS
<1>2. y = [x EXCEPT !.zone = zm] BY DEF EngZ
<1> HIDE DEF x, y
<1>3. y = Engine(zm, tg, st, mo, ev, as) BY <1>1, <1>2 DEF Engine
<1> QED BY <1>3 DEF x, y

LEMMA ParkedIs ==
    ASSUME NEW zn, NEW tg, NEW st, NEW mo, NEW ev, NEW as, NEW zm, NEW i, NEW j, NEW th,
           th = ParkedT(tg, i, j)
    PROVE  ParkedC(Engine(zn, tg, st, mo, ev, as), zm, i, j) = Engine(zm, th, st, mo, ev, as)
<1> DEFINE x == Engine(zn, tg, st, mo, ev, as)
           y == ParkedC(x, zm, i, j)
           t == tg[i]
           n == Local!NoTarget
<1>1. x = Engine(zn, tg, st, mo, ev, as) OBVIOUS
<1>2. x.target = tg BY DEF Engine
<1>3. y = [[x EXCEPT !.zone = zm] EXCEPT !.target[j] = t, !.target[i] = n] BY <1>2 DEF ParkedC
<1>4. th = [[tg EXCEPT ![j] = t] EXCEPT ![i] = n] BY DEF ParkedT
<1> HIDE DEF x, y, t, n
<1>5. y = Engine(zm, th, st, mo, ev, as) BY <1>1, <1>3, <1>4 DEF Engine
<1> QED BY <1>5 DEF x, y

LEMMA Largest ==
    ASSUME NEW S, S \subseteq Slots, S # {} PROVE \E m \in S : \A other \in S : other <= m
<1>1. Slots = {0, 1, 2} BY DEF Slots
<1>2. CASE 2 \in S BY <1>1, <1>2
<1>3. CASE 2 \notin S /\ 1 \in S BY <1>1, <1>3
<1>4. CASE 2 \notin S /\ 1 \notin S
  <2>1. PICK m : m \in S OBVIOUS
  <2>2. \A other \in S : other = 0 BY <1>1, <1>4
  <2> QED BY <2>1, <2>2
<1> QED BY <1>2, <1>3, <1>4

\* A slot taken over by a newcomer.
LEMMA RelocateTwin ==
    ASSUME Setup, NEW e \in Scratch, NEW k, NEW p, Twin(e, k, p), NEW i \in Slots
    PROVE  Twin(Relocate(e, i), Local!StepPendingRelocation(k, i), p)
<1> DEFINE free == ParkSlots(e, i)
           j == CHOOSE j \in free : \A other \in free : other <= j
           zn == k.e.zone
           tg == Targets(e.tgt)
           was == ZonesOf(e.from)
           is == ZonesOf(e.at)
           seen == e.seen
           zo == e.zone
           l == Local!StepPendingRelocation(k, i)
           f == Relocate(e, i)
<1>1. k = Ctx(zn, tg, seen, was, is, p) /\ Alike(zn, zo) /\ k.p = p BY TwinFacts
<1>2. zo \in [Zones -> ZoneRuntime] /\ e.tgt \in [Slots -> Tracking] BY DEF Scratch
<1>3. k.e = Engine(zn, tg, eng.static, eng.motion, eng.everActive, eng.assist)
  <2> HIDE DEF zn, tg, was, is, seen
  <2> QED BY <1>1, EngineCtx
<1>4. Fed(p, e) BY DEF Twin
<1>5. l = IF ~TakenOver(e, i) THEN k
          ELSE IF free = {} THEN EngineC(k, EngZ(k.e, DropC(zn, i)))
          ELSE EngineC(k, ParkedC(k.e, HandC(zn, i, j), i, j))
  <2>1. FreeC(k, i) = free /\ (Local!Relocates(k, i) <=> TakenOver(e, i)) BY FreeFacts, TakenFacts
  <2>2. l = IF ~Local!Relocates(k, i) THEN k
            ELSE IF FreeC(k, i) = {} THEN EngineC(k, EngZ(k.e, DropC(zn, i)))
            ELSE LET to == CHOOSE m \in FreeC(k, i) : \A other \in FreeC(k, i) : other <= m
                 IN  EngineC(k, ParkedC(k.e, HandC(zn, i, to), i, to))
    <3> DEFINE R == Local!Relocates(k, i)
               S == FreeC(k, i)
               A == EngineC(k, EngZ(k.e, DropC(zn, i)))
               to == CHOOSE m \in S : \A other \in S : other <= m
               B == EngineC(k, ParkedC(k.e, HandC(zn, i, to), i, to))
    <3>1. l = CASE ~R -> k [] R /\ S = {} -> A [] OTHER -> B
        BY DEF Local!StepPendingRelocation, FreeC, EngineC, EngZ, ParkedC, DropC, HandC, HoldsC,
               Rest, Swap, Local!EachZone
    <3>2. l = IF ~R THEN k ELSE IF S = {} THEN A ELSE B
      <4> HIDE DEF l, R, S, A, B
      <4> QED BY <3>1
    <3> QED BY <3>2
  <2> HIDE DEF zn, free
  <2> QED BY <2>1, <2>2
<1>6. f = IF ~TakenOver(e, i) THEN e
          ELSE IF free = {} THEN Clobber(e, i) ELSE Park(e, i, j)
    BY DEF Relocate
<1>7. CASE ~TakenOver(e, i) BY <1>5, <1>6, <1>7
<1>8. CASE TakenOver(e, i) /\ free = {}
  <2> DEFINE zm == DropC(zn, i)
             zp == DropE(zo, i)
  <2>1. Alike(zm, zp) /\ zp \in [Zones -> ZoneRuntime] BY <1>1, <1>2, DropAlike
  <2>2. f = [e EXCEPT !.zone = zp] BY <1>6, <1>8 DEF Clobber, DropE
  <2>3. l = EngineC(k, EngZ(k.e, zm)) BY <1>5, <1>8
  <2> HIDE DEF zm, zp, f, l, zn, tg, was, is, seen
  <2>4. l = Ctx(zm, tg, seen, was, is, p) BY <1>1, <1>3, <2>3, EngZIs, EngineCtx
  <2>5. ZonesC(k, zm) = Ctx(zm, tg, seen, was, is, p) BY <1>1, ZonesCtx
  <2>6. Twin(f, ZonesC(k, zm), p) BY <2>1, <2>2, ZonesTwin
  <2> QED BY <2>4, <2>5, <2>6 DEF f, l
<1>9. CASE TakenOver(e, i) /\ free # {}
  <2>0. j \in free
    <3>1. free \subseteq Slots /\ free # {} BY <1>9 DEF ParkSlots
    <3> HIDE DEF free
    <3>2. \E m \in free : \A other \in free : other <= m BY <3>1, Largest
    <3> QED BY <3>2
  <2> DEFINE zm == HandC(zn, i, j)
             zp == HandE(zo, i, j)
             th == ParkedT(tg, i, j)
             ts == [e.tgt EXCEPT ![i] = Fresh, ![j] = e.tgt[i]]
  <2>1. j \in Slots /\ j # i BY <2>0 DEF ParkSlots
  <2>2. f = [e EXCEPT !.tgt = ts, !.zone = zp] BY <1>6, <1>9 DEF Park, HandE, Swap
  <2>3. l = EngineC(k, ParkedC(k.e, zm, i, j)) BY <1>5, <1>9
  <2>4. th = Targets(ts) /\ ts \in [Slots -> Tracking]
    <3> HIDE DEF j
    <3>1. /\ ts \in [Slots -> Tracking] /\ ts[i] = Fresh /\ ts[j] = e.tgt[i]
          /\ \A m \in Slots \ {i, j} : ts[m] = e.tgt[m]
        BY <1>2, <2>1, IdleTypes
    <3>2. /\ th = [m \in Slots |-> th[m]] /\ th[i] = Local!NoTarget /\ th[j] = AsTarget(e.tgt[i])
          /\ \A m \in Slots \ {i, j} : th[m] = AsTarget(e.tgt[m])
        BY <2>1 DEF Targets, ParkedT
    <3> HIDE DEF th, ts
    <3>3. \A m \in Slots : th[m] = AsTarget(ts[m]) BY <3>1, <3>2, FreshAs
    <3>4. th = [m \in Slots |-> AsTarget(ts[m])] BY <3>2, <3>3
    <3> QED BY <3>1, <3>4 DEF Targets
  <2> HIDE DEF j
  <2>5. Alike(zm, zp) /\ zp \in [Zones -> ZoneRuntime] BY <1>1, <1>2, <2>1, HandAlike
  <2>6. th = ParkedT(tg, i, j) OBVIOUS
  <2> HIDE DEF zm, zp, f, l, zn, tg, was, is, th, ts
  <2>7. l = Ctx(zm, th, e.seen, was, is, p)
    <3>1. ParkedC(k.e, zm, i, j) = Engine(zm, th, eng.static, eng.motion, eng.everActive, eng.assist)
        BY <1>3, <2>6, ParkedIs
    <3>2. l = Ctx(zm, th, seen, was, is, p) BY <1>1, <2>3, <3>1, EngineCtx
    <3> QED BY <3>2 DEF seen
  <2>8. /\ f.zone = zp /\ f.tgt = ts /\ f.w = e.w /\ f.ts = e.ts /\ f.seen = e.seen
        /\ f.at = e.at /\ f.from = e.from
      BY <2>2 DEF Scratch
  <2>9. Fed(p, f) BY <1>4, <2>8 DEF Fed
  <2>10. Twin(f, l, p) BY <2>4, <2>5, <2>7, <2>8, <2>9, TwinIs DEF was, is
  <2> QED BY <2>10 DEF f, l
<1> QED BY <1>7, <1>8, <1>9

\* Where the targets were is kept through step 0.
LEMMA RelocateRooted ==
    ASSUME NEW e \in Scratch, Rooted(e), NEW i \in Slots PROVE Rooted(Relocate(e, i))
<1> DEFINE f == Relocate(e, i)
<1>1. \A k \in Slots : f.tgt[k] = Fresh \/ \E m \in Slots : f.tgt[k] = e.tgt[m]
    BY RelocateEffect
<1>2. Fresh.prev = NoCell BY DEF Fresh
<1> HIDE DEF f
<1>3. Rooted(f) BY <1>1, <1>2 DEF Rooted
<1> QED BY <1>3 DEF f

-----------------------------------------------------------------------------
(* Steps 2 and 2b                                                          *)

\* The two tests of whether a zone is configured, and the two accelerated starts.
LEMMA ConfiguredFacts ==
    ASSUME cfg \in ZoneConfigs, NEW e, NEW p, Fed(p, e), NEW z
    PROVE  /\ Local!IsZoneConfigured(z, p) <=> z \in Configured
           /\ Local!Accelerated(p, z) = Accelerated(e, z)
<1>1. 0 \in Configured BY ConfigsAssumption DEF Configured
<1>2. p.zones = cfg /\ p.now = e.ts BY DEF Fed
<1> QED BY <1>1, <1>2 DEF Local!IsZoneConfigured, Configured, Local!Accelerated, Accelerated

ZoneC(a, b, c) == [occupied |-> a, pendingSince |-> b, confirmed |-> c]
SinceC(st, n) == [st EXCEPT !.pendingSince = n]
EntryC(k, z, st) == [k EXCEPT !.e.zone[z] = st]
SetIn(zn, z, st) == [zn EXCEPT ![z] = st]

LEMMA SinceIs ==
    ASSUME NEW a, NEW b, NEW c, NEW n PROVE SinceC(ZoneC(a, b, c), n) = ZoneC(a, n, c)
<1> DEFINE st == ZoneC(a, b, c)
           v == SinceC(st, n)
<1>0. st = ZoneC(a, b, c) OBVIOUS
<1>1. v = [st EXCEPT !.pendingSince = n] BY DEF SinceC
<1> HIDE DEF v, st
<1>2. v = ZoneC(a, n, c) BY <1>0, <1>1 DEF ZoneC
<1> QED BY <1>2 DEF v, st

LEMMA EntryCtx ==
    ASSUME NEW zn, NEW tg, NEW cf, NEW was, NEW is, NEW p, NEW z, NEW st
    PROVE  EntryC(Ctx(zn, tg, cf, was, is, p), z, st) = Ctx(SetIn(zn, z, st), tg, cf, was, is, p)
<1> DEFINE k == Ctx(zn, tg, cf, was, is, p)
           l == EntryC(k, z, st)
<1>1. k = Ctx(zn, tg, cf, was, is, p) OBVIOUS
<1>2. l = [k EXCEPT !.e.zone[z] = st] BY DEF EntryC
<1> HIDE DEF k, l
<1>3. l = Ctx([zn EXCEPT ![z] = st], tg, cf, was, is, p) BY <1>1, <1>2 DEF Ctx, Engine
<1> QED BY <1>3 DEF k, l, SetIn

\* An entry replaced by the counterpart of a runtime.
LEMMA EntryTwin ==
    ASSUME NEW e \in Scratch, NEW k, NEW p, Twin(e, k, p), NEW z \in Zones, z \in DOMAIN k.e.zone,
           NEW r \in ZoneRuntime, NEW st, st = AsZone(r), NEW f, f = [e EXCEPT !.zone[z] = r]
    PROVE  Twin(f, EntryC(k, z, st), p)
<1> DEFINE zn == k.e.zone
           zm == SetIn(zn, z, st)
           tg == Targets(e.tgt)
           seen == e.seen
           was == ZonesOf(e.from)
           is == ZonesOf(e.at)
           zo == [e.zone EXCEPT ![z] = r]
<1>1. k = Ctx(zn, tg, seen, was, is, p) /\ Alike(zn, e.zone)
  <2>1. 0 \in Slots BY DEF Slots
  <2> QED BY <2>1, TwinFacts
<1>2. e.zone \in [Zones -> ZoneRuntime] BY DEF Scratch
<1>3. Alike(zm, zo)
  <2> HIDE DEF zn
  <2>1. z \in DOMAIN zn BY DEF zn
  <2> QED BY <1>1, <1>2, <2>1, EntryAlike DEF SetIn
<1>4. zo \in [Zones -> ZoneRuntime] BY <1>2
<1>5. f = [e EXCEPT !.zone = zo] OBVIOUS
<1> HIDE DEF zn, zm, tg, seen, was, is, zo
<1>6. EntryC(k, z, st) = Ctx(zm, tg, seen, was, is, p) BY <1>1, EntryCtx DEF zm
<1>7. ZonesC(k, zm) = Ctx(zm, tg, seen, was, is, p) BY <1>1, ZonesCtx
<1>8. Twin(f, ZonesC(k, zm), p) BY <1>3, <1>4, <1>5, ZonesTwin
<1> QED BY <1>6, <1>7, <1>8

\* A runtime that no entry stands for, changed to one that none need stand for.
LEMMA UnmetTwin ==
    ASSUME NEW e \in Scratch, NEW k, NEW p, Twin(e, k, p), NEW z \in Zones,
           NEW r \in ZoneRuntime, AsZone(r) = AsZone(e.zone[z]), NEW f, f = [e EXCEPT !.zone[z] = r]
    PROVE  Twin(f, k, p)
<1> DEFINE zn == k.e.zone
           zo == [e.zone EXCEPT ![z] = r]
<1>1. k = Ctx(zn, Targets(e.tgt), e.seen, ZonesOf(e.from), ZonesOf(e.at), p) /\ Alike(zn, e.zone)
  <2>1. 0 \in Slots BY DEF Slots
  <2> QED BY <2>1, TwinFacts
<1>2. e.zone \in [Zones -> ZoneRuntime] BY DEF Scratch
<1> HIDE DEF zn
<1>3. Alike(zn, zo) BY <1>1, <1>2, SameAlike
<1>4. zo \in [Zones -> ZoneRuntime] BY <1>2
<1>5. f = [e EXCEPT !.zone = zo] OBVIOUS
<1> HIDE DEF zo
<1>6. /\ f.zone = zo /\ f.tgt = e.tgt /\ f.w = e.w /\ f.ts = e.ts
      /\ f.seen = e.seen /\ f.at = e.at /\ f.from = e.from
    BY <1>4, <1>5 DEF Scratch
<1>7. Fed(p, f) BY <1>6 DEF Twin, Fed
<1> QED BY <1>1, <1>3, <1>6, <1>7 DEF Twin

\* A target that crossed from one zone to another.
LEMMA HandoffTwin ==
    ASSUME Setup, cfg \in ZoneConfigs, NEW e \in Scratch, NEW k, NEW p, Twin(e, k, p), NEW i \in Slots
    PROVE  Twin(Handoff(e, i), Local!StepHandoffDetection(k, i), p)
<1> DEFINE z == e.from[i]
           y == e.at[i]
           r == e.zone[z]
           n == Accelerated(e, z)
           last == r.state = "OCCUPIED" /\ r.bits \subseteq {i}
           new == IF last THEN [state |-> "PENDING", since |-> n, bits |-> {}]
                  ELSE Bits(r, r.bits \ {i})
           zc == k.was[i]
           st == k.e.zone[zc]
           left == HoldsC(st, Rest(st, i))
           newC == IF left.confirmed = {} /\ st.occupied /\ ~Local!Pending(st)
                   THEN SinceC(left, Local!Accelerated(k.p, zc)) ELSE left
           f == Handoff(e, i)
           l == Local!StepHandoffDetection(k, i)
           stays == z = NoZone \/ y = NoZone \/ z = y \/ z \notin Configured
<1>1. z \in Zones \cup {NoZone} /\ y \in Zones \cup {NoZone} BY DEF Scratch
<1>2. k.p = p /\ zc = Unless(z, NoZone) /\ k.is[i] = Unless(y, NoZone) /\ Alike(k.e.zone, e.zone) /\ Fed(p, e)
    BY TwinFacts DEF Twin
<1>3. f = IF stays THEN e ELSE [e EXCEPT !.zone[z] = new] BY DEF Handoff
<1>4. l = IF zc = Null \/ k.is[i] = Null \/ zc = k.is[i] \/ zc \notin DOMAIN k.e.zone THEN k
          ELSE IF ~Local!IsZoneConfigured(zc, k.p) THEN k
          ELSE EntryC(k, zc, newC)
    BY DEF Local!StepHandoffDetection, HoldsC, Rest, SinceC, EntryC
<1>5. z = NoZone \/ y = NoZone \/ z = y <=> zc = Null \/ k.is[i] = Null \/ zc = k.is[i]
    BY <1>1, <1>2, NullFacts
<1>6. CASE stays
  <2>1. l = k
    <3>1. CASE z = NoZone \/ y = NoZone \/ z = y BY <1>4, <1>5, <3>1
    <3>2. CASE ~(z = NoZone \/ y = NoZone \/ z = y)
      <4>1. zc = z /\ z \notin Configured BY <1>1, <1>2, <1>6, <3>2, NullFacts
      <4>2. ~Local!IsZoneConfigured(zc, k.p) BY <1>2, <4>1, ConfiguredFacts
      <4> QED BY <1>4, <4>2
    <3> QED BY <3>1, <3>2
  <2> QED BY <1>3, <1>6, <2>1
<1>7. CASE ~stays
  <2>1. z \in Zones /\ zc = z /\ z \in Configured BY <1>1, <1>2, <1>7, NullFacts
  <2>2. f = [e EXCEPT !.zone[z] = new] BY <1>3, <1>7
  <2>3. /\ Local!IsZoneConfigured(zc, k.p) /\ Local!Accelerated(k.p, zc) = n
    BY <1>2, <2>1, ConfiguredFacts
  <2>4. l = IF z \notin DOMAIN k.e.zone THEN k ELSE EntryC(k, z, newC) BY <1>4, <1>5, <1>7, <2>1, <2>3
  <2>5. r \in ZoneRuntime /\ r.bits \in SUBSET Slots /\ e.zone \in [Zones -> ZoneRuntime] /\ n \in Int
    BY <2>1, AcceleratedType DEF Scratch, ZoneRuntime
  <2>6. Bits(r, r.bits \ {i}) \in ZoneRuntime /\ Bits(r, r.bits \ {i}).bits = r.bits \ {i}
        /\ Bits(r, r.bits \ {i}).state = r.state /\ Bits(r, r.bits \ {i}).since = r.since
    BY <2>5, BitsFacts
  <2>7. [state |-> "PENDING", since |-> n, bits |-> {}] \in ZoneRuntime BY <2>5 DEF ZoneRuntime
  <2>8. new \in ZoneRuntime BY <2>6, <2>7
  <2>9. CASE z \notin DOMAIN k.e.zone
    <3>1. r.state = "CLEAR" /\ r.bits = {}
      <4> DEFINE zn == k.e.zone
                 zo == e.zone
      <4>1. zo \in [Zones -> ZoneRuntime] /\ Alike(zn, zo) /\ z \in Zones /\ z \notin DOMAIN zn
          BY <1>2, <2>1, <2>5, <2>9
      <4>2. r = zo[z] OBVIOUS
      <4> HIDE DEF zn, zo, z, r
      <4> QED BY <4>1, <4>2, ZoneFacts
    <3>2. new = Bits(r, r.bits \ {i}) BY <3>1
    <3>3. AsZone(new) = AsZone(r) BY <2>6, <3>1, <3>2 DEF AsZone
    <3>4. l = k BY <2>4, <2>9
    <3> HIDE DEF new, l, f, z
    <3> QED BY <2>1, <2>2, <2>8, <3>3, <3>4, UnmetTwin DEF l, f
  <2>10. CASE z \in DOMAIN k.e.zone
    <3>1. st = AsZone(r) BY <1>2, <2>1, <2>10 DEF Alike, Of
    <3>2. Rest(st, i) = r.bits \ {i} BY <3>1 DEF Rest, AsZone
    <3>3. left = AsZone(Bits(r, r.bits \ {i}))
      <4>1. HoldsC(AsZone(r), r.bits \ {i}) = AsZone(Bits(r, r.bits \ {i}))
        <5> DEFINE bits == r.bits \ {i}
        <5>1. r \in ZoneRuntime /\ bits \in SUBSET Slots BY <2>5
        <5> HIDE DEF r, bits
        <5>2. HoldsC(AsZone(r), bits) = AsZone(Bits(r, bits)) BY <5>1, BitsAs
        <5> QED BY <5>2 DEF bits
      <4> QED BY <3>1, <3>2, <4>1
    <3>4. left.confirmed = r.bits \ {i}
      <4> DEFINE m == Bits(r, r.bits \ {i})
                 bits == r.bits \ {i}
      <4>1. left = AsZone(m) /\ m.bits = bits BY <2>6, <3>3
      <4> HIDE DEF left, m, bits, r
      <4>2. left.confirmed = bits BY <4>1 DEF AsZone
      <4> QED BY <4>2 DEF bits
    <3>5. st.occupied = (r.state # "CLEAR") /\ (Local!Pending(st) <=> r.state = "PENDING")
      <4> DEFINE zn == k.e.zone
                 zo == e.zone
      <4>1. st = Of(zn, z) BY <2>1, <2>10 DEF Of
      <4>2. r = zo[z] /\ zo \in [Zones -> ZoneRuntime] /\ Alike(zn, zo) /\ z \in Zones
          BY <1>2, <2>1, <2>5
      <4> HIDE DEF zn, zo, z, r, st
      <4> QED BY <4>1, <4>2, ZoneIs
    <3>6. r.state \in {"CLEAR", "OCCUPIED", "PENDING"} BY <2>5 DEF ZoneRuntime
    <3>7. left.confirmed = {} /\ st.occupied /\ ~Local!Pending(st) <=> last BY <3>4, <3>5, <3>6
    <3>8. newC = IF last THEN SinceC(left, n) ELSE left BY <2>3, <3>7
    <3>9. CASE last
      <4>1. left = ZoneC(TRUE, Null, {})
          BY <2>6, <3>3, <3>4, <3>9 DEF AsZone, ZoneC
      <4>2. SinceC(left, n) = ZoneC(TRUE, n, {})
        <5> HIDE DEF left, n
        <5> QED BY <4>1, SinceIs
      <4>3. AsZone(new) = ZoneC(TRUE, n, {})
          BY <3>9 DEF AsZone, ZoneC
      <4>4. newC = AsZone(new) BY <3>8, <3>9, <4>2, <4>3
      <4> HIDE DEF new, newC, l, f, z
      <4> QED BY <2>1, <2>2, <2>4, <2>8, <2>10, <4>4, EntryTwin DEF l, f
    <3>10. CASE ~last
      <4>1. newC = AsZone(new) BY <3>3, <3>8, <3>10
      <4> HIDE DEF new, newC, l, f, z
      <4> QED BY <2>1, <2>2, <2>4, <2>8, <2>10, <4>1, EntryTwin DEF l, f
    <3> QED BY <3>9, <3>10
  <2> QED BY <2>9, <2>10
<1> QED BY <1>6, <1>7

\* A target that left through an overlay.
LeaveC(k, i) == [k EXCEPT !.e.target[i].lastZone = Null, !.e.target[i].lastOnOverlay = FALSE]
SoonerC(k, z, n) == [k EXCEPT !.e.zone[z].pendingSince = n]
SetAt(tg, i, u) == [tg EXCEPT ![i] = u]

Leave(u) == LeftT(u, FALSE)

LEMMA LeaveCtx ==
    ASSUME NEW zn, NEW tg, NEW cf, NEW was, NEW is, NEW p, NEW i, i \in DOMAIN tg,
           NEW t, tg[i] = AsTarget(t)
    PROVE  LeaveC(Ctx(zn, tg, cf, was, is, p), i) = Ctx(zn, SetAt(tg, i, Leave(tg[i])), cf, was, is, p)
<1> DEFINE u == tg[i]
           x == Leave(u)
<1>0. PICK a1, a2, a3, a4, a5, a6, a7 : u = Track(a1, a2, a3, a4, a5, a6, a7) BY AsTargetIs
<1>x. x = Track(a1, a2, a3, Null, FALSE, a6, a7)
  <2> DEFINE b == FALSE
  <2>1. x = LeftT(u, b) BY DEF Leave
  <2> HIDE DEF b, x, u
  <2>2. x = Track(a1, a2, a3, Null, b, a6, a7) BY <1>0, <2>1, LeftTrack
  <2> QED BY <2>2 DEF b
<1> DEFINE k == Ctx(zn, tg, cf, was, is, p)
           l == LeaveC(k, i)
           v == [u EXCEPT !.lastZone = Null]
           w == [v EXCEPT !.lastOnOverlay = FALSE]
<1>1. k = Ctx(zn, tg, cf, was, is, p) OBVIOUS
<1>2. l = [k EXCEPT !.e.target[i].lastZone = Null, !.e.target[i].lastOnOverlay = FALSE] BY DEF LeaveC
<1>3. w = Track(a1, a2, a3, Null, FALSE, a6, a7)
  <2>1. v = Track(a1, a2, a3, Null, a5, a6, a7)
    <3>1. v = [u EXCEPT !.lastZone = Null] OBVIOUS
    <3> HIDE DEF v
    <3> QED BY <1>0, <3>1 DEF Track
  <2> HIDE DEF v
  <2>2. w = [v EXCEPT !.lastOnOverlay = FALSE] OBVIOUS
  <2> HIDE DEF w
  <2> QED BY <2>1, <2>2 DEF Track
<1>4. l = [[k EXCEPT !.e.target[i].lastZone = Null] EXCEPT !.e.target[i].lastOnOverlay = FALSE]
    BY <1>2
<1>5. v = [tg[i] EXCEPT !.lastZone = Null] /\ w = [v EXCEPT !.lastOnOverlay = FALSE] OBVIOUS
<1> HIDE DEF k, l, v, w, x
<1> DEFINE m == [k EXCEPT !.e.target[i].lastZone = Null]
           th == [tg EXCEPT ![i] = v]
           ti == [th EXCEPT ![i] = w]
<1>6. th[i] = v /\ ti = [tg EXCEPT ![i] = w] OBVIOUS
<1>7. m = [k EXCEPT !.e.target[i].lastZone = Null] /\ th = [tg EXCEPT ![i] = v] OBVIOUS
<1>8. l = [m EXCEPT !.e.target[i].lastOnOverlay = FALSE] BY <1>4
<1>9. ti = [th EXCEPT ![i] = w] OBVIOUS
<1> HIDE DEF m, th, ti
<1>10. m = Ctx(zn, th, cf, was, is, p) BY <1>1, <1>5, <1>7 DEF Ctx, Engine
<1>11. l = Ctx(zn, ti, cf, was, is, p) BY <1>5, <1>6, <1>8, <1>9, <1>10 DEF Ctx, Engine
<1>12. ti = SetAt(tg, i, w) BY <1>6 DEF SetAt
<1>13. w = x BY <1>3, <1>x
<1> QED BY <1>11, <1>12, <1>13 DEF k, l, x

LEMMA SoonerCtx ==
    ASSUME NEW zn, NEW tg, NEW cf, NEW was, NEW is, NEW p, NEW z, NEW n
    PROVE  SoonerC(Ctx(zn, tg, cf, was, is, p), z, n)
              = Ctx(SetIn(zn, z, SinceC(zn[z], n)), tg, cf, was, is, p)
<1> DEFINE k == Ctx(zn, tg, cf, was, is, p)
           l == SoonerC(k, z, n)
<1>1. k = Ctx(zn, tg, cf, was, is, p) OBVIOUS
<1>2. l = [k EXCEPT !.e.zone[z].pendingSince = n] BY DEF SoonerC
<1> HIDE DEF k, l
<1>3. l = Ctx([zn EXCEPT ![z] = [zn[z] EXCEPT !.pendingSince = n]], tg, cf, was, is, p)
    BY <1>1, <1>2 DEF Ctx, Engine
<1> QED BY <1>3 DEF k, l, SetIn, SinceC

\* A target that left through an overlay gives up its zone and its flag.
LEMMA LeaveTwin ==
    ASSUME NEW e \in Scratch, NEW k, NEW p, Twin(e, k, p), NEW i \in Slots
    PROVE  Twin(Target(e, i, LeftE(e.tgt[i], FALSE)), LeaveC(k, i), p)
<1> DEFINE t == e.tgt[i]
           s == LeftE(t, FALSE)
           u == AsTarget(t)
           v == AsTarget(s)
           tg == Targets(e.tgt)
           zn == k.e.zone
           was == ZonesOf(e.from)
           is == ZonesOf(e.at)
           seen == e.seen
<1>1. t \in Tracking BY DEF Scratch
<1>2. s \in Tracking /\ v = LeftT(u, FALSE) BY <1>1, LeftAs
<1>3. k = Ctx(zn, tg, seen, was, is, p) BY TwinFacts
<1>4. tg[i] = u /\ i \in DOMAIN tg BY DEF Targets
<1>5. tg[i] = AsTarget(t) /\ v = Leave(tg[i]) BY <1>2, <1>4 DEF Leave
<1> HIDE DEF tg, zn, was, is, seen, u, v
<1>7. LeaveC(k, i) = Ctx(zn, SetAt(tg, i, v), seen, was, is, p) BY <1>3, <1>4, <1>5, LeaveCtx
<1>8. Local!SetTarget(k, i, v) = Ctx(zn, SetAt(tg, i, v), seen, was, is, p)
    BY <1>3, SetTargetCtx DEF SetAt
<1>9. Twin(Target(e, i, s), Local!SetTarget(k, i, v), p)
  <2> HIDE DEF s
  <2> QED BY <1>2, TargetTwin DEF v
<1> QED BY <1>7, <1>8, <1>9

\* ... and starts its zone's timer, or brings it forward.
LEMMA SoonerTwin ==
    ASSUME NEW e \in Scratch, NEW k, NEW p, Twin(e, k, p), NEW z \in Zones, NEW n \in Int,
           e.zone[z].state # "CLEAR",
           NEW f, f = [e EXCEPT !.zone[z] = [e.zone[z] EXCEPT !.state = "PENDING", !.since = n]]
    PROVE  Twin(f, SoonerC(k, z, n), p)
<1> DEFINE r == e.zone[z]
           new == [r EXCEPT !.state = "PENDING", !.since = n]
           zn == k.e.zone
           tg == Targets(e.tgt)
           seen == e.seen
           was == ZonesOf(e.from)
           is == ZonesOf(e.at)
<1>1. r \in ZoneRuntime /\ e.zone \in [Zones -> ZoneRuntime] BY DEF Scratch
<1>2. /\ new \in ZoneRuntime /\ new.state = "PENDING" /\ new.since = n /\ new.bits = r.bits
    BY <1>1 DEF ZoneRuntime
<1>3. k = Ctx(zn, tg, seen, was, is, p) /\ Alike(zn, e.zone)
  <2>1. 0 \in Slots BY DEF Slots
  <2> QED BY <2>1, TwinFacts
<1>4. z \in DOMAIN zn /\ zn[z] = AsZone(r)
  <2> HIDE DEF zn
  <2>1. z \in DOMAIN zn BY <1>1, <1>3, ZoneFacts
  <2> QED BY <1>3, <2>1 DEF Alike, Of
<1>5. SinceC(zn[z], n) = AsZone(new)
  <2> DEFINE x == IF r.state = "PENDING" THEN r.since ELSE Null
             b == r.bits
  <2>1. zn[z] = ZoneC(TRUE, x, b) BY <1>4 DEF AsZone, ZoneC
  <2>2. AsZone(new) = ZoneC(TRUE, n, b) BY <1>2 DEF AsZone, ZoneC
  <2> HIDE DEF x, b, new, zn
  <2>3. SinceC(ZoneC(TRUE, x, b), n) = ZoneC(TRUE, n, b) BY SinceIs, Zenon
  <2> QED BY <2>1, <2>2, <2>3
<1>6. Twin(f, EntryC(k, z, AsZone(new)), p)
  <2> HIDE DEF new
  <2>1. f = [e EXCEPT !.zone[z] = new] BY DEF new
  <2> QED BY <1>2, <1>4, <2>1, EntryTwin DEF zn
<1> DEFINE st == AsZone(new)
<1> HIDE DEF zn, tg, seen, was, is, new, st
<1>7. SoonerC(k, z, n) = Ctx(SetIn(zn, z, st), tg, seen, was, is, p) BY <1>3, <1>5, SoonerCtx DEF st
<1>8. EntryC(k, z, st) = Ctx(SetIn(zn, z, st), tg, seen, was, is, p) BY <1>3, EntryCtx
<1> QED BY <1>6, <1>7, <1>8 DEF st

LEMMA OverlayExitTwin ==
    ASSUME Setup, cfg \in ZoneConfigs, NEW e \in Scratch, NEW k, NEW p, Twin(e, k, p), NEW i \in Slots
    PROVE  Twin(OverlayExit(e, i), Local!StepOverlayExitHandoff(k, i), p)
<1> DEFINE t == e.tgt[i]
           z == t.lastZone
           r == e.zone[z]
           n == Accelerated(e, z)
           sooner == r.state = "OCCUPIED" \/ (r.state = "PENDING" /\ r.since > n)
           s == LeftE(t, FALSE)
           goes == r.bits \subseteq {i} /\ sooner
           pend == [r EXCEPT !.state = "PENDING", !.since = n]
           new == IF goes THEN pend ELSE r
           f == OverlayExit(e, i)
           g == Target(e, i, s)
           stays == e.at[i] # NoZone \/ ~t.sticky \/ z \notin Configured
           u == Local!Target(k, i)
           zc == u.lastZone
           st == Local!ZoneOf(k.e, zc)
           nc == Local!Accelerated(k.p, zc)
           m == LeaveC(k, i)
           l == Local!StepOverlayExitHandoff(k, i)
<1>1. /\ z \in Zones \cup {NoZone} /\ e.at[i] \in Zones \cup {NoZone} /\ t \in Tracking
      /\ e.zone \in [Zones -> ZoneRuntime] /\ e.tgt \in [Slots -> Tracking]
    BY DEF Scratch, Tracking
<1>2. k.p = p /\ u = AsTarget(t) /\ k.is[i] = Unless(e.at[i], NoZone) /\ Alike(k.e.zone, e.zone) /\ Fed(p, e)
    BY TwinFacts DEF Twin
<1>3. f = IF stays THEN e
          ELSE [e EXCEPT !.tgt[i] = s, !.zone[z] = new]
    BY DEF OverlayExit, LeftE
<1>4. l = IF k.is[i] # Null \/ ~u.lastOnOverlay \/ zc = Null THEN k
          ELSE IF ~Local!IsZoneConfigured(zc, k.p) THEN k
          ELSE IF st.occupied /\ st.confirmed \subseteq {i} /\ (st.pendingSince = Null \/ st.pendingSince > nc)
          THEN SoonerC(m, zc, nc) ELSE m
    BY DEF Local!StepOverlayExitHandoff, LeaveC, SoonerC
<1>5. u.lastOnOverlay = t.sticky /\ zc = Unless(z, NoZone) BY <1>2 DEF AsTarget
<1>6. k.is[i] # Null <=> e.at[i] # NoZone BY <1>1, <1>2, NullFacts
<1>7. CASE stays
  <2>1. l = k
    <3>1. CASE e.at[i] # NoZone \/ ~t.sticky BY <1>4, <1>5, <1>6, <3>1
    <3>2. CASE z = NoZone BY <1>4, <1>5, <3>2, NullFacts
    <3>3. CASE z \in Zones /\ z \notin Configured
      <4>1. zc = z BY <1>5, <3>3, NullFacts
      <4>2. ~Local!IsZoneConfigured(zc, k.p) BY <1>2, <3>3, <4>1, ConfiguredFacts
      <4> QED BY <1>4, <4>2
    <3> QED BY <1>1, <1>7, <3>1, <3>2, <3>3
  <2> QED BY <1>3, <1>7, <2>1
<1>8. CASE ~stays
  <2>1. z \in Zones /\ zc = z /\ zc # Null /\ z \in Configured
    <3>1. z \in Configured BY <1>8
    <3>2. z \in Zones BY <3>1, SetupFacts
    <3> QED BY <1>5, <3>1, <3>2, NullFacts
  <2>2. Local!IsZoneConfigured(zc, k.p) /\ nc = n BY <1>2, <2>1, ConfiguredFacts
  <2>3. /\ st.occupied = (r.state # "CLEAR") /\ st.confirmed = r.bits
        /\ r.state = "PENDING" => st.pendingSince = r.since
        /\ r.state # "PENDING" => st.pendingSince = Null
    <3>1. st = Of(k.e.zone, z) BY <2>1 DEF Local!ZoneOf, Of
    <3> QED BY <1>1, <1>2, <2>1, <3>1, ZoneFacts
  <2>4. /\ r.state \in {"CLEAR", "OCCUPIED", "PENDING"} /\ r.since \in Int /\ n \in Int /\ r \in ZoneRuntime
    BY <1>1, <2>1, AcceleratedType DEF ZoneRuntime
  <2>5. l = IF goes THEN SoonerC(m, z, n) ELSE m
    <3>1. r.since # Null BY <2>4, NullFacts
    <3>2. st.occupied /\ st.confirmed \subseteq {i} /\ (st.pendingSince = Null \/ st.pendingSince > nc) <=> goes
        BY <2>2, <2>3, <2>4, <3>1
    <3> HIDE DEF st, goes, m
    <3> QED BY <1>4, <1>5, <1>6, <1>8, <2>1, <2>2, <3>2
  <2>6. s \in Tracking BY <1>1, LeftAs
  <2>7. Twin(g, m, p) BY LeaveTwin
  <2> HIDE DEF s
  <2>8. g \in Scratch /\ g.zone = e.zone /\ g = [e EXCEPT !.tgt[i] = s]
    <3>1. g \in Scratch /\ g.zone = e.zone BY <2>6, TargetReplaced, Zenon
    <3> QED BY <3>1 DEF Target
  <2>9. f = [e EXCEPT !.tgt[i] = s, !.zone[z] = new] BY <1>3, <1>8
  <2>10. CASE goes
    <3>1. f = [g EXCEPT !.zone[z] = [g.zone[z] EXCEPT !.state = "PENDING", !.since = n]]
      <4>1. new = pend BY <2>10
      <4>2. f = [e EXCEPT !.tgt[i] = s, !.zone[z] = pend] BY <2>9, <4>1
      <4>3. g.zone[z] = r BY <2>8
      <4> HIDE DEF f, g, new
      <4>4. f = [g EXCEPT !.zone[z] = pend]
        <5> HIDE DEF pend, s
        <5> QED BY <2>8, <4>2 DEF Scratch
      <4> QED BY <4>3, <4>4
    <3>2. g.zone[z].state # "CLEAR" BY <2>8, <2>10
    <3> HIDE DEF f, g, n, m
    <3>3. Twin(f, SoonerC(m, z, n), p) BY <2>1, <2>4, <2>7, <2>8, <3>1, <3>2, SoonerTwin
    <3>4. l = SoonerC(m, z, n) BY <2>5, <2>10
    <3> QED BY <3>3, <3>4 DEF f
  <2>11. CASE ~goes
    <3>1. new = r BY <2>11
    <3>2. f = [e EXCEPT !.tgt[i] = s, !.zone[z] = r] BY <2>9, <3>1
    <3>3. f = g
      <4> HIDE DEF f, g
      <4> QED BY <1>1, <2>1, <2>8, <3>2 DEF Scratch
    <3>4. l = m BY <2>5, <2>11
    <3> HIDE DEF f, g, m
    <3> QED BY <2>7, <3>3, <3>4 DEF f
  <2> QED BY <2>10, <2>11
<1> QED BY <1>7, <1>8

-----------------------------------------------------------------------------
(* Steps 0 to 2b in a row                                                  *)

\* A slot that stands in a zone is in the window.
InSight(e) == \A j \in Slots : e.at[j] # NoZone => e.w[j].active
Paired(e, k, p) == Twin(e, k, p) /\ Rooted(e) /\ InSight(e)

LEMMA RelocatePair ==
    ASSUME Setup, NEW e, Begun(e), NEW k, NEW p, Paired(e, k, p), NEW i \in Slots, NEW f, f = Relocate(e, i),
           NEW l, l = Local!StepPendingRelocation(k, i)
    PROVE  Begun(f) /\ Paired(f, l, p)
<1>1. e \in Scratch BY DEF Begun, Mid
<1>2. Begun(f) BY RelocateBegun
<1>3. Twin(f, l, p) BY <1>1, RelocateTwin DEF Paired
<1>4. Rooted(f) BY <1>1, RelocateRooted DEF Paired
<1>5. InSight(f) BY <1>2 DEF Begun, InSight
<1> QED BY <1>2, <1>3, <1>4, <1>5 DEF Paired

LEMMA EvaluatePair ==
    ASSUME Setup, cfg \in ZoneConfigs, zone \in [Zones -> ZoneRuntime], TrackedWell,
           NEW S \in SUBSET Slots, NEW i \in S, NEW e, Kept(e), Ready(e, S),
           NEW k, NEW p, Paired(e, k, p), NEW f, f = Evaluate(e, i),
           NEW l, l = Local!StepPerTargetEval(k, i)
    PROVE  Kept(f) /\ Ready(f, S \ {i}) /\ Paired(f, l, p)
<1>1. e \in Scratch /\ Disabled(e) /\ Mid(e) /\ i \in Slots BY DEF Kept, Mid
<1>2. Kept(f) /\ Ready(f, S \ {i}) /\ Same(e, f) BY EvaluateNext
<1>3. Twin(f, l, p) BY <1>1, EvaluateTwin DEF Paired
<1>4. Rooted(f) /\ (e.at[i] = NoZone /\ ~e.w[i].active => f.at[i] = NoZone)
    BY <1>1, EvaluateRooted DEF Paired
<1>5. e.at[i] = NoZone BY DEF Ready
<1>6. \A j \in Slots \ {i} : f.at[j] = e.at[j] BY <1>1, <1>5, EvaluateMid
<1>7. InSight(f) BY <1>2, <1>4, <1>5, <1>6 DEF InSight, Paired, Same
<1> QED BY <1>2, <1>3, <1>4, <1>7 DEF Paired

LEMMA ExitPair ==
    ASSUME Setup, cfg \in ZoneConfigs, zone \in [Zones -> ZoneRuntime], NEW i \in Slots,
           NEW e, Kept(e), Ready(e, {}), NEW k, NEW p, Paired(e, k, p), NEW f, NEW l,
           \/ f = Handoff(e, i) /\ l = Local!StepHandoffDetection(k, i)
           \/ f = OverlayExit(e, i) /\ l = Local!StepOverlayExitHandoff(k, i)
    PROVE  Kept(f) /\ Ready(f, {}) /\ Paired(f, l, p)
<1>1. e \in Scratch BY DEF Kept, Mid
<1>2. Kept(f) /\ Ready(f, {}) BY ExitNext
<1>3. Exited(e, f) BY <1>1, HandoffExits, OverlayExits
<1>4. Twin(f, l, p) BY <1>1, HandoffTwin, OverlayExitTwin DEF Paired
<1>5. Rooted(f) BY <1>3 DEF Exited, Rooted, Paired
<1>6. InSight(f) BY <1>3 DEF Exited, Same, InSight, Paired
<1> QED BY <1>2, <1>4, <1>5, <1>6 DEF Paired

\* Both ticks reach the state machine of step 3 with the same in hand.
LEMMA MovedPair ==
    ASSUME IInv, TrackedWell, cfg \in ZoneConfigs, NEW w \in Windows, NEW on \in SensorInputs, NEW ts \in Int,
           NEW p, NEW k, Paired(Begin(w, on, ts), k, p),
           NEW e, e = ForSlots(OverlayExit, ForSlots(Handoff,
                        ForSlots(Evaluate, ForSlots(Relocate, Begin(w, on, ts))))),
           NEW l, l = Local!InOrder(Local!StepOverlayExitHandoff, Local!InOrder(Local!StepHandoffDetection,
                        Local!InOrder(Local!StepPerTargetEval, Local!InOrder(Local!StepPendingRelocation, k))))
    PROVE  Kept(e) /\ Paired(e, l, p) /\ e.w = w /\ e.ts = ts
<1>s. 0 \in Slots /\ 1 \in Slots /\ 2 \in Slots /\ Slots = {0, 1, 2} BY DEF Slots
<1>t. Setup /\ zone \in [Zones -> ZoneRuntime] BY DEF IInv, TypeOK, Setup
<1> DEFINE a == Begin(w, on, ts)
           b == ForSlots(Relocate, a)
           c == ForSlots(Evaluate, b)
           d == ForSlots(Handoff, c)
           g == ForSlots(OverlayExit, d)
           bc == Local!InOrder(Local!StepPendingRelocation, k)
           cc == Local!InOrder(Local!StepPerTargetEval, bc)
           dc == Local!InOrder(Local!StepHandoffDetection, cc)
           gc == Local!InOrder(Local!StepOverlayExitHandoff, dc)
<1>0. e = g /\ l = gc OBVIOUS
<1>1. Begun(a) /\ Paired(a, k, p) BY BeginBegun
<1> HIDE DEF a
<1>2. Begun(b) /\ Paired(b, bc, p)
  <2> DEFINE b0 == Relocate(a, 0)
             b1 == Relocate(b0, 1)
             b2 == Relocate(b1, 2)
             k0 == Local!StepPendingRelocation(k, 0)
             k1 == Local!StepPendingRelocation(k0, 1)
             k2 == Local!StepPendingRelocation(k1, 2)
  <2>4. b = b2 /\ bc = k2 BY DEF ForSlots, Local!InOrder
  <2>1. Begun(b0) /\ Paired(b0, k0, p) BY <1>1, <1>s, <1>t, RelocatePair
  <2> HIDE DEF b0, k0
  <2>2. Begun(b1) /\ Paired(b1, k1, p) BY <2>1, <1>s, <1>t, RelocatePair
  <2> HIDE DEF b1, k1
  <2>3. Begun(b2) /\ Paired(b2, k2, p) BY <2>2, <1>s, <1>t, RelocatePair
  <2> QED BY <2>3, <2>4
<1> HIDE DEF b, bc
<1>3. Kept(c) /\ Ready(c, {}) /\ Paired(c, cc, p)
  <2> DEFINE c0 == Evaluate(b, 0)
             c1 == Evaluate(c0, 1)
             c2 == Evaluate(c1, 2)
             k0 == Local!StepPerTargetEval(bc, 0)
             k1 == Local!StepPerTargetEval(k0, 1)
             k2 == Local!StepPerTargetEval(k1, 2)
  <2>4. c = c2 /\ cc = k2 BY DEF ForSlots, Local!InOrder
  <2>0. Kept(b) /\ Ready(b, Slots) BY <1>2, BegunReady
  <2>1. Kept(c0) /\ Ready(c0, {1, 2}) /\ Paired(c0, k0, p)
    <3>1. Slots \ {0} = {1, 2} BY <1>s
    <3>2. Kept(c0) /\ Ready(c0, Slots \ {0}) /\ Paired(c0, k0, p)
        BY <1>2, <2>0, <1>s, <1>t, EvaluatePair
    <3> HIDE DEF c0, k0
    <3> QED BY <3>1, <3>2
  <2> HIDE DEF c0, k0
  <2>2. Kept(c1) /\ Ready(c1, {2}) /\ Paired(c1, k1, p)
    <3>1. {1, 2} \ {1} = {2} /\ {1, 2} \in SUBSET Slots BY <1>s
    <3>2. Kept(c1) /\ Ready(c1, {1, 2} \ {1}) /\ Paired(c1, k1, p)
        BY <2>1, <3>1, <1>t, EvaluatePair
    <3> HIDE DEF c1, k1
    <3> QED BY <3>1, <3>2
  <2> HIDE DEF c1, k1
  <2>3. Kept(c2) /\ Ready(c2, {}) /\ Paired(c2, k2, p)
    <3>1. {2} \ {2} = {} /\ {2} \in SUBSET Slots BY <1>s
    <3>2. Kept(c2) /\ Ready(c2, {2} \ {2}) /\ Paired(c2, k2, p)
        BY <2>2, <3>1, <1>t, EvaluatePair
    <3> HIDE DEF c2, k2
    <3> QED BY <3>1, <3>2
  <2> QED BY <2>3, <2>4
<1> HIDE DEF c, cc
<1>4. Kept(d) /\ Ready(d, {}) /\ Paired(d, dc, p)
  <2> DEFINE d0 == Handoff(c, 0)
             d1 == Handoff(d0, 1)
             d2 == Handoff(d1, 2)
             k0 == Local!StepHandoffDetection(cc, 0)
             k1 == Local!StepHandoffDetection(k0, 1)
             k2 == Local!StepHandoffDetection(k1, 2)
  <2>4. d = d2 /\ dc = k2 BY DEF ForSlots, Local!InOrder
  <2>1. Kept(d0) /\ Ready(d0, {}) /\ Paired(d0, k0, p) BY <1>3, <1>s, <1>t, ExitPair
  <2> HIDE DEF d0, k0
  <2>2. Kept(d1) /\ Ready(d1, {}) /\ Paired(d1, k1, p) BY <2>1, <1>s, <1>t, ExitPair
  <2> HIDE DEF d1, k1
  <2>3. Kept(d2) /\ Ready(d2, {}) /\ Paired(d2, k2, p) BY <2>2, <1>s, <1>t, ExitPair
  <2> QED BY <2>3, <2>4
<1> HIDE DEF d, dc
<1>5. Kept(g) /\ Ready(g, {}) /\ Paired(g, gc, p)
  <2> DEFINE d0 == OverlayExit(d, 0)
             d1 == OverlayExit(d0, 1)
             d2 == OverlayExit(d1, 2)
             k0 == Local!StepOverlayExitHandoff(dc, 0)
             k1 == Local!StepOverlayExitHandoff(k0, 1)
             k2 == Local!StepOverlayExitHandoff(k1, 2)
  <2>4. g = d2 /\ gc = k2 BY DEF ForSlots, Local!InOrder
  <2>1. Kept(d0) /\ Ready(d0, {}) /\ Paired(d0, k0, p) BY <1>4, <1>s, <1>t, ExitPair
  <2> HIDE DEF d0, k0
  <2>2. Kept(d1) /\ Ready(d1, {}) /\ Paired(d1, k1, p) BY <2>1, <1>s, <1>t, ExitPair
  <2> HIDE DEF d1, k1
  <2>3. Kept(d2) /\ Ready(d2, {}) /\ Paired(d2, k2, p) BY <2>2, <1>s, <1>t, ExitPair
  <2> QED BY <2>3, <2>4
<1>6. e.w = w /\ e.ts = ts BY MovedKept
<1> QED BY <1>0, <1>5, <1>6

\* The parts of the invariant: the two states in step, ...
AsSensor(s) == [state |-> Lower(s.state), since |-> Unless(s.since, Unset)]
Mirror ==
    /\ eng = Engine(eng.zone, Targets(tgt), AsSensor(sens.static), AsSensor(sens.motion), sens.ever, eng.assist)
    /\ Alike(eng.zone, zone)
    /\ sens.ever => eng.assist = Unless(assist.since, Unset)
\* ... and what is known of the engine: no target was last seen outside the room.
TgtRooted == \A i \in Slots : tgt[i].prev \in grid.room \cup {NoCell}

LEMMA BeginPair ==
    ASSUME IInv, Mirror, TgtRooted, NEW w, NEW on, NEW ts, NEW p, p = Params(w, on, ts),
           NEW e, e = Begin(w, on, ts), NEW k, k = Local!Context(p)
    PROVE  Paired(e, k, p)
<1>1. /\ e.tgt = tgt /\ e.zone = zone /\ e.w = w /\ e.ts = ts /\ e.seen = {}
      /\ e.at = [i \in Slots |-> NoZone] /\ e.from = [i \in Slots |-> NoZone]
    BY DEF Begin
<1>2. Fed(p, e) BY <1>1 DEF Params, Fed
<1>3. Unless(NoZone, NoZone) = Null BY NullFacts
<1>4. Local!Slots = Slots BY DEF Local!Slots, Slots
<1> DEFINE x == [i \in Slots |-> Null]
<1>5. ZonesOf(e.at) = x /\ ZonesOf(e.from) = x BY <1>1, <1>3 DEF ZonesOf
<1>6. k = [e |-> eng, p |-> p, confirmed |-> {}, was |-> x, is |-> x]
    BY <1>4 DEF Local!Context
<1>7. eng = Engine(eng.zone, Targets(tgt), eng.static, eng.motion, eng.everActive, eng.assist)
  <2> DEFINE a == eng.zone
             b == Targets(tgt)
             c == AsSensor(sens.static)
             d == AsSensor(sens.motion)
             f == sens.ever
             g == eng.assist
  <2>1. eng = Engine(a, b, c, d, f, g) BY DEF Mirror
  <2> HIDE DEF a, b, c, d, f, g
  <2>2. eng.static = c /\ eng.motion = d /\ eng.everActive = f BY <2>1 DEF Engine
  <2> QED BY <2>1, <2>2 DEF a, b, g
<1>8. k = Ctx(eng.zone, Targets(e.tgt), e.seen, ZonesOf(e.from), ZonesOf(e.at), p)
  <2> HIDE DEF x
  <2> QED BY <1>1, <1>5, <1>6, <1>7 DEF Ctx
<1>9. Alike(eng.zone, e.zone) BY <1>1 DEF Mirror
<1>10. Twin(e, k, p) BY <1>2, <1>8, <1>9 DEF Twin
<1>11. Rooted(e) BY <1>1 DEF TgtRooted, Rooted
<1>12. InSight(e) BY <1>1 DEF InSight
<1> QED BY <1>10, <1>11, <1>12 DEF Paired

-----------------------------------------------------------------------------
(* Steps 3 to 5                                                            *)

\* The state machine of one zone.
LEMMA NextAlike ==
    ASSUME NEW r \in ZoneRuntime, r.state = "PENDING" => r.since >= 0, NEW z, NEW S,
           NEW timeout \in Int, NEW ts \in Int
    PROVE  Local!NextState(AsZone(r), z \in S, timeout, ts) = AsZone(Advance(r, z \in S, timeout, ts))
<1> DEFINE st == AsZone(r)
           n == Advance(r, z \in S, timeout, ts)
           m == Local!NextState(st, z \in S, timeout, ts)
           a == r.state # "CLEAR"
           b == IF r.state = "PENDING" THEN r.since ELSE Null
           c == r.bits
<1>1. /\ r.state \in {"CLEAR", "OCCUPIED", "PENDING"} /\ r.since \in Int
      /\ r = [state |-> r.state, since |-> r.since, bits |-> r.bits]
    BY DEF ZoneRuntime
<1>2. st = [occupied |-> a, pendingSince |-> b, confirmed |-> c] BY DEF AsZone
<1>3. st.occupied = a /\ st.pendingSince = b BY <1>2
<1> HIDE DEF st
<1>4. CASE z \in S
  <2>1. n = [r EXCEPT !.state = "OCCUPIED", !.since = Unset] BY <1>4 DEF Advance
  <2>2. m = [st EXCEPT !.occupied = TRUE, !.pendingSince = Null] BY <1>4 DEF Local!NextState
  <2> HIDE DEF n, m
  <2>3. n.state = "OCCUPIED" /\ n.bits = c BY <2>1 DEF ZoneRuntime
  <2>4. m = [occupied |-> TRUE, pendingSince |-> Null, confirmed |-> c] BY <1>2, <2>2
  <2>5. (n.state # "CLEAR") = TRUE /\ n.state # "PENDING" BY <2>3
  <2>6. AsZone(n) = [occupied |-> TRUE, pendingSince |-> Null, confirmed |-> c] BY <2>3, <2>5 DEF AsZone
  <2>7. AsZone(n) = m BY <2>4, <2>6
  <2> QED BY <2>7 DEF m, n, st
<1>5. CASE z \notin S /\ r.state = "CLEAR"
  <2>1. n = r BY <1>5 DEF Advance
  <2>2. m = st BY <1>3, <1>5 DEF Local!NextState
  <2> QED BY <2>1, <2>2 DEF st
<1>6. CASE z \notin S /\ r.state = "OCCUPIED"
  <2>1. n = [r EXCEPT !.state = "PENDING", !.since = ts] BY <1>6 DEF Advance
  <2>2. m = [st EXCEPT !.pendingSince = ts] BY <1>3, <1>6 DEF Local!NextState
  <2> HIDE DEF n, m
  <2>3. n.state = "PENDING" /\ n.since = ts /\ n.bits = c BY <2>1 DEF ZoneRuntime
  <2>4. m = [occupied |-> a, pendingSince |-> ts, confirmed |-> c] BY <1>2, <2>2
  <2>5. (n.state # "CLEAR") = a BY <1>6, <2>3
  <2>6. AsZone(n) = [occupied |-> a, pendingSince |-> ts, confirmed |-> c] BY <2>3, <2>5 DEF AsZone
  <2>7. AsZone(n) = m BY <2>4, <2>6
  <2> QED BY <2>7 DEF m, n, st
<1>7. CASE z \notin S /\ r.state = "PENDING"
  <2>1. n = IF ts - r.since >= timeout THEN Idle ELSE r BY <1>7 DEF Advance
  <2>2. b = r.since /\ b # Null BY <1>1, <1>7, NullFacts
  <2>3. m = IF ts - r.since >= timeout THEN Local!NewZone ELSE st
      BY <1>3, <1>7, <2>2 DEF Local!NextState
  <2> QED BY <2>1, <2>3, AsIdle DEF st
<1> QED BY <1>1, <1>4, <1>5, <1>6, <1>7

\* The grid is one of these or, until one was pushed, blank and no zone in it wakes.
GridShown == grid \in Grids \/ (grid = BlankGrid /\ \A z \in Zones : zone[z] = Idle)

\* On a blank grid nothing happens.
LEMMA NothingSeen ==
    ASSUME NEW e, Kept(e), grid = BlankGrid, \A z \in Zones : zone[z] = Idle
    PROVE  e.seen = {} /\ \A z \in Zones : e.zone[z] = Idle
<1>1. grid.room = {} BY DEF BlankGrid
<1>2. e.seen \subseteq Zones /\ e.zone \in [Zones -> ZoneRuntime] BY DEF Kept, Mid, Scratch
<1>3. e.seen = {}
  <2>1. \A z \in e.seen : \E i \in e.zone[z].bits : Admitted(e, i, z)
      BY <1>2 DEF Kept, Earned, Idle
  <2> QED BY <1>1, <2>1 DEF Admitted
<1>4. ASSUME NEW z \in Zones PROVE e.zone[z] = Idle
  <2> DEFINE r == e.zone[z]
  <2>1. r.state = "CLEAR"
    <3>1. Went(e, z, zone[z], e.zone[z]) BY DEF Kept, Course
    <3> QED BY <3>1 DEF Went, Idle
  <2>2. r.bits = {} BY <1>3, <2>1 DEF Kept, Mid, Settled
  <2>3. r.since = Unset BY <2>1 DEF Kept, Mid, Timed
  <2>4. r \in ZoneRuntime BY <1>2
  <2> HIDE DEF r
  <2>5. r = [state |-> "CLEAR", since |-> Unset, bits |-> {}] BY <2>1, <2>2, <2>3, <2>4 DEF ZoneRuntime
  <2> QED BY <2>5 DEF Idle, r
<1> QED BY <1>3, <1>4

IdsC(p) == {z \in {p.grid.zone[c] : c \in p.grid.room} : Local!IsZoneConfigured(z, p)}
NextC(k, z) == Local!NextState(Local!ZoneOf(k.e, z), z \in k.confirmed, k.p.zones[z].timeout, k.p.now)

LEMMA AdvanceTwin ==
    ASSUME Setup, cfg \in ZoneConfigs, ZonesShown, GridShown, NEW e, Kept(e),
           \A z \in Zones : e.zone[z].state = "PENDING" => e.zone[z].since >= 0,
           NEW k, NEW p, Twin(e, k, p), NEW f, f = AdvanceZones(e), NEW l, l = Local!StepZoneStateMachine(k)
    PROVE  Twin(f, l, p) /\ f \in Scratch /\ f.w = e.w /\ f.at = e.at /\ f.tgt = e.tgt
<1> DEFINE zo == f.zone
           ids == IdsC(p)
           zm == [z \in ids |-> NextC(k, z)]
<1>1. /\ e \in Scratch /\ e.zone \in [Zones -> ZoneRuntime] /\ e.ts \in Int /\ Mid(e)
    BY DEF Kept, Mid, Scratch
<1>2. /\ k.p = p /\ k.confirmed = e.seen /\ Alike(k.e.zone, e.zone) /\ Fed(p, e)
  <2>1. 0 \in Slots BY DEF Slots
  <2> QED BY <1>1, <2>1, TwinFacts DEF Twin
<1>3. p.zones = cfg /\ p.now = e.ts /\ p.grid = grid BY <1>2 DEF Fed
<1>4. /\ zo = [z \in Zones |-> IF z \in Configured
                  THEN Advance(e.zone[z], z \in e.seen, cfg[z].timeout, e.ts) ELSE e.zone[z]]
      /\ f = [e EXCEPT !.zone = zo] /\ zo \in [Zones -> ZoneRuntime]
  <2> DEFINE zp == [z \in Zones |-> IF z \in Configured
                  THEN Advance(e.zone[z], z \in e.seen, cfg[z].timeout, e.ts) ELSE e.zone[z]]
  <2>1. f = [e EXCEPT !.zone = zp] BY DEF AdvanceZones
  <2>2. AdvanceZones(e).zone \in [Zones -> ZoneRuntime] BY <1>1, AdvancedType
  <2> HIDE DEF zp
  <2>3. f.zone = zp BY <1>1, <2>1 DEF Scratch
  <2> QED BY <2>1, <2>2, <2>3 DEF zp
<1>5. l = ZonesC(k, zm) BY <1>2 DEF Local!StepZoneStateMachine, ZonesC, IdsC, NextC
<1>6. Configured \subseteq Zones /\ \A z \in Configured : cfg[z].timeout \in Int BY SetupFacts
<1>7. ASSUME NEW z \in Configured PROVE NextC(k, z) = AsZone(zo[z])
  <2>1. z \in Zones BY <1>6
  <2>2. Local!ZoneOf(k.e, z) = AsZone(e.zone[z]) BY <1>1, <2>1, MapFacts
  <2>3. NextC(k, z) = Local!NextState(AsZone(e.zone[z]), z \in e.seen, cfg[z].timeout, e.ts)
      BY <1>2, <1>3, <2>2 DEF NextC
  <2>4. zo[z] = Advance(e.zone[z], z \in e.seen, cfg[z].timeout, e.ts) BY <1>4, <2>1
  <2>5. e.zone[z] \in ZoneRuntime /\ cfg[z].timeout \in Int BY <1>1, <1>6, <2>1
  <2> DEFINE r == e.zone[z]
             S == e.seen
             t == cfg[z].timeout
             ts == e.ts
  <2>6. r \in ZoneRuntime /\ (r.state = "PENDING" => r.since >= 0) /\ t \in Int /\ ts \in Int
      BY <1>1, <2>1, <2>5
  <2>7. NextC(k, z) = Local!NextState(AsZone(r), z \in S, t, ts) /\ zo[z] = Advance(r, z \in S, t, ts)
      BY <2>3, <2>4
  <2> HIDE DEF r, S, t, ts, zo
  <2> QED BY <2>6, <2>7, NextAlike
<1>8. \A z : z \in ids <=> (\E c \in grid.room : grid.zone[c] = z) /\ z \in Configured
  <2>1. \A z : Local!IsZoneConfigured(z, p) <=> z \in Configured BY <1>2, ConfiguredFacts
  <2> QED BY <1>3, <2>1 DEF IdsC
<1>9. \A z \in Zones : z \notin ids => AsZone(zo[z]) = Local!NewZone
  <2>1. CASE grid \in Grids
    <3>1. \A z \in Configured : z \in ids BY <1>8, <2>1 DEF ZonesShown, Configured
    <3>2. ASSUME NEW z \in Zones, z \notin Configured PROVE zo[z] = Idle
        BY <1>1, <1>4, <3>2 DEF Mid, Disabled
    <3> QED BY <3>1, <3>2, AsIdle
  <2>2. CASE grid = BlankGrid /\ \A z \in Zones : zone[z] = Idle
    <3>1. e.seen = {} /\ \A z \in Zones : e.zone[z] = Idle BY <2>2, NothingSeen
    <3>0. ASSUME NEW S, NEW z, z \notin S, NEW t, NEW ts PROVE Advance(Idle, z \in S, t, ts) = Idle
        BY <3>0 DEF Advance, Idle
    <3>2. ASSUME NEW z \in Zones PROVE zo[z] = Idle
      <4>1. z \notin e.seen /\ e.zone[z] = Idle BY <3>1
      <4>2. Advance(Idle, z \in e.seen, cfg[z].timeout, e.ts) = Idle BY <3>0, <4>1
      <4>3. zo[z] = IF z \in Configured THEN Advance(e.zone[z], z \in e.seen, cfg[z].timeout, e.ts)
                    ELSE e.zone[z]
          BY <1>4
      <4> HIDE DEF zo
      <4> QED BY <4>1, <4>2, <4>3
    <3> QED BY <3>2, AsIdle
  <2> QED BY <2>1, <2>2 DEF GridShown
<1>10. Alike(zm, zo)
  <2>1. ids \subseteq Configured BY <1>8
  <2> HIDE DEF ids, zo
  <2> QED BY <1>6, <1>7, <1>9, <2>1 DEF Alike, Of
<1>11. f \in Scratch /\ f.w = e.w /\ f.at = e.at /\ f.tgt = e.tgt
  <2> HIDE DEF zo
  <2> QED BY <1>1, <1>4 DEF Scratch
<1> HIDE DEF zo, zm
<1>12. Twin(f, ZonesC(k, zm), p) BY <1>1, <1>4, <1>10, ZonesTwin
<1> QED BY <1>5, <1>11, <1>12

\* What is published of a slot.
LEMMA StatusAlike ==
    ASSUME NEW e \in Scratch, InSight(e), NEW k, NEW p, Twin(e, k, p)
    PROVE  Local!StepTargetResults(k) = [i \in Slots |-> Status(e, i)]
<1>1. Local!Slots = Slots BY DEF Local!Slots, Slots
<1>2. e.zone \in [Zones -> ZoneRuntime] /\ Fed(p, e) BY DEF Scratch, Twin
<1>3. ASSUME NEW i \in Slots
      PROVE  (IF Local!Present(k.p, i) /\ k.is[i] # Null THEN "active"
              ELSE IF Local!Held(k.e, i) THEN "pending" ELSE "inactive") = Status(e, i)
  <2>1. k.p = p /\ k.is[i] = Unless(e.at[i], NoZone) /\ Alike(k.e.zone, e.zone) BY TwinFacts
  <2>2. Local!Present(p, i) <=> e.w[i].active BY <1>2, PresentFacts
  <2>3. e.at[i] \in Zones \cup {NoZone} BY DEF Scratch
  <2>4. k.is[i] # Null <=> e.at[i] # NoZone BY <2>1, <2>3, NullFacts
  <2>5. Local!Held(k.e, i) <=> \E z \in Zones : e.zone[z].state = "PENDING" /\ i \in e.zone[z].bits
      BY <1>2, <2>1, HeldFacts
  <2> QED BY <2>1, <2>2, <2>4, <2>5 DEF InSight, Status
<1> QED BY <1>1, <1>3 DEF Local!StepTargetResults

\* Absent slots are forgotten where nobody waits.
CleanC(k) == [z \in DOMAIN k.e.zone |->
                IF k.e.zone[z].pendingSince # Null THEN k.e.zone[z]
                ELSE HoldsC(k.e.zone[z], {i \in k.e.zone[z].confirmed : Local!Present(k.p, i)})]

LEMMA CleanupTwin ==
    ASSUME NEW e \in Scratch, NEW k, NEW p, Twin(e, k, p),
           NEW f, f = Cleanup(e), NEW l, l = Local!StepCleanupConfirmed(k)
    PROVE  Twin(f, l, p)
<1> DEFINE zn == k.e.zone
           zo == e.zone
           zm == CleanC(k)
           zp == [z \in Zones |-> IF zo[z].state = "PENDING" THEN zo[z] ELSE Bits(zo[z], PresentBits(e, z))]
           tg == Targets(e.tgt)
           was == ZonesOf(e.from)
           is == ZonesOf(e.at)
           seen == e.seen
<1>1. k = Ctx(zn, tg, seen, was, is, p) /\ Alike(zn, zo) /\ k.p = p /\ Fed(p, e)
  <2>1. 0 \in Slots BY DEF Slots
  <2> QED BY <2>1, TwinFacts DEF Twin
<1>2. zo \in [Zones -> ZoneRuntime] BY DEF Scratch
<1>3. f = [e EXCEPT !.zone = zp] BY DEF Cleanup
<1>4. l = EngineC(k, EngZ(k.e, zm))
    BY DEF Local!StepCleanupConfirmed, EngineC, EngZ, CleanC, HoldsC, Local!EachZone
<1>5. k.e = Engine(zn, tg, eng.static, eng.motion, eng.everActive, eng.assist)
  <2> HIDE DEF zn, tg, was, is, seen
  <2> QED BY <1>1, EngineCtx
<1>6. \A z \in Zones : zo[z] \in ZoneRuntime /\ PresentBits(e, z) \in SUBSET Slots
    BY <1>2 DEF PresentBits, ZoneRuntime
<1>7. zp \in [Zones -> ZoneRuntime]
  <2>1. \A z \in Zones : Bits(zo[z], PresentBits(e, z)) \in ZoneRuntime BY <1>6, BitsFacts
  <2> QED BY <1>6, <2>1
<1>9. /\ DOMAIN zm = DOMAIN zn
      /\ \A z \in DOMAIN zn : zm[z] = IF zn[z].pendingSince # Null THEN zn[z]
                ELSE HoldsC(zn[z], {i \in zn[z].confirmed : Local!Present(k.p, i)})
    BY DEF CleanC
<1>z. zo = e.zone OBVIOUS
<1> HIDE DEF zn, zo, zm
<1>8. \A z \in DOMAIN zn : z \in Zones /\ zn[z] = AsZone(zo[z]) BY <1>1 DEF Alike, Of
<1>10. ASSUME NEW z \in DOMAIN zn PROVE zm[z] = AsZone(zp[z])
  <2>0. z \in Zones BY <1>8
  <2>1. zn[z].pendingSince # Null <=> zo[z].state = "PENDING"
    <3>1. zo[z].since \in Int BY <1>6, <2>0 DEF ZoneRuntime
    <3>2. zn[z].pendingSince = IF zo[z].state = "PENDING" THEN zo[z].since ELSE Null
        BY <1>8 DEF AsZone
    <3> QED BY <3>1, <3>2, NullFacts
  <2>2. {i \in zn[z].confirmed : Local!Present(k.p, i)} = PresentBits(e, z)
    <3>1. zn[z].confirmed = zo[z].bits BY <1>8 DEF AsZone
    <3>2. zo[z].bits \subseteq Slots BY <1>6, <2>0 DEF ZoneRuntime
    <3>3. \A i \in Slots : Local!Present(p, i) <=> e.w[i].active BY <1>1, PresentFacts
    <3> QED BY <1>1, <1>z, <3>1, <3>2, <3>3 DEF PresentBits
  <2>3. zm[z] = IF zn[z].pendingSince # Null THEN zn[z] ELSE HoldsC(zn[z], PresentBits(e, z))
      BY <1>9, <2>2
  <2>4. HoldsC(AsZone(zo[z]), PresentBits(e, z)) = AsZone(Bits(zo[z], PresentBits(e, z)))
      BY <1>6, <2>0, BitsAs
  <2>5. zp[z] = IF zo[z].state = "PENDING" THEN zo[z] ELSE Bits(zo[z], PresentBits(e, z)) BY <2>0
  <2> HIDE DEF zp
  <2> QED BY <1>8, <2>1, <2>3, <2>4, <2>5
<1>11. ASSUME NEW z \in Zones, AsZone(zo[z]) = Local!NewZone PROVE AsZone(zp[z]) = Local!NewZone
  <2>1. AsZone(zo[z]).confirmed = zo[z].bits BY DEF AsZone
  <2>2. zo[z].bits = {} BY <1>11, <2>1 DEF Local!NewZone
  <2>3. PresentBits(e, z) = {} BY <1>z, <2>2 DEF PresentBits
  <2>4. zp[z] = IF zo[z].state = "PENDING" THEN zo[z] ELSE Bits(zo[z], {}) BY <2>3
  <2>5. Bits(zo[z], {}).state = zo[z].state /\ Bits(zo[z], {}).since = zo[z].since /\ Bits(zo[z], {}).bits = {}
      BY <1>6, <2>2, BitsFacts
  <2> HIDE DEF zp
  <2> QED BY <1>11, <2>2, <2>4, <2>5 DEF AsZone
<1> HIDE DEF zn, zo, zm, zp, tg, was, is, seen
<1>12. Alike(zm, zp) BY <1>1, <1>9, <1>10, <1>11, EachAlike
<1>13. l = Ctx(zm, tg, seen, was, is, p) BY <1>1, <1>4, <1>5, EngZIs, EngineCtx
<1>14. ZonesC(k, zm) = Ctx(zm, tg, seen, was, is, p) BY <1>1, ZonesCtx
<1>15. Twin(f, ZonesC(k, zm), p) BY <1>3, <1>7, <1>12, ZonesTwin
<1> QED BY <1>13, <1>14, <1>15

-----------------------------------------------------------------------------
(* Steps 5b to 6                                                           *)

\* A presence sensor.
LEMMA SenseAlike ==
    ASSUME NEW s \in SensorState, s.state = "PENDING" => s.since >= 0, NEW x, NEW S,
           NEW h \in Int, NEW ts \in Nat
    PROVE  /\ Local!Sensed(AsSensor(s), x \in S, h, ts) = AsSensor(Sense(s, x \in S, h, ts))
           /\ Sense(s, x \in S, h, ts).state = "PENDING" => Sense(s, x \in S, h, ts).since >= 0
<1> DEFINE n == Sense(s, x \in S, h, ts)
           m == Local!Sensed(AsSensor(s), x \in S, h, ts)
           a == Lower(s.state)
           b == Unless(s.since, Unset)
<1>1. s.state \in {"INACTIVE", "ACTIVE", "PENDING"} /\ s.since \in Int BY DEF SensorState
<1>2. AsSensor(s).state = a /\ AsSensor(s).since = b BY DEF AsSensor
<1>3. Lower("ACTIVE") = "active" /\ Lower("PENDING") = "pending" /\ Lower("INACTIVE") = "inactive"
    BY DEF Lower
<1>4. Unless(Unset, Unset) = Null /\ Unless(ts, Unset) = ts BY DEF Unless, Unset
<1>5. m = IF x \in S THEN [state |-> "active", since |-> Null]
          ELSE IF a = "active" THEN [state |-> "pending", since |-> ts]
          ELSE IF a = "pending" /\ ts - b >= h THEN Local!Inactive
          ELSE AsSensor(s)
    BY <1>2 DEF Local!Sensed
<1> HIDE DEF m, a, b
<1>6. CASE x \in S
  <2>1. n = [state |-> "ACTIVE", since |-> Unset] BY <1>6 DEF Sense
  <2>2. m = [state |-> "active", since |-> Null] BY <1>5, <1>6
  <2> HIDE DEF n
  <2>3. n.state = "ACTIVE" /\ AsSensor(n) = m BY <1>3, <1>4, <2>1, <2>2 DEF AsSensor
  <2> QED BY <2>3 DEF n, m
<1>7. CASE x \notin S /\ s.state = "ACTIVE"
  <2>1. n = [state |-> "PENDING", since |-> ts] BY <1>7 DEF Sense
  <2>2. m = [state |-> "pending", since |-> ts] BY <1>3, <1>5, <1>7 DEF a
  <2> HIDE DEF n
  <2>3. n.since >= 0 /\ AsSensor(n) = m BY <1>3, <1>4, <2>1, <2>2 DEF AsSensor
  <2> QED BY <2>3 DEF n, m
<1>8. CASE x \notin S /\ s.state = "PENDING"
  <2>1. n = IF ts - s.since >= h THEN QuietSensor ELSE s BY <1>8 DEF Sense
  <2>2. b = s.since BY <1>1, <1>8 DEF b, Unless, Unset
  <2>3. m = IF ts - s.since >= h THEN Local!Inactive ELSE AsSensor(s) BY <1>3, <1>5, <1>8, <2>2 DEF a
  <2>4. AsSensor(QuietSensor) = Local!Inactive /\ QuietSensor.state = "INACTIVE"
      BY <1>3, <1>4 DEF AsSensor, QuietSensor, Local!Inactive
  <2> HIDE DEF n
  <2>5. AsSensor(n) = m /\ (n.state = "PENDING" => n.since >= 0) BY <1>8, <2>1, <2>3, <2>4
  <2> QED BY <2>5 DEF n, m
<1>9. CASE x \notin S /\ s.state = "INACTIVE"
  <2>1. n = s BY <1>9 DEF Sense
  <2>2. m = AsSensor(s) BY <1>3, <1>5, <1>9 DEF a
  <2> QED BY <1>9, <2>1, <2>2 DEF m
<1> QED BY <1>1, <1>6, <1>7, <1>8, <1>9

\* A run of the replica with engine x in it, and what the last steps make of x.
Run(x, cf, was, is, p) == [e |-> x, p |-> p, confirmed |-> cf, was |-> was, is |-> is]
AssistC(x, as) == [x EXCEPT !.assist = as]
ClearC(zn) == [z \in DOMAIN zn |-> IF Local!Pending(zn[z]) THEN Local!NewZone ELSE zn[z]]
SenseC(s, x, p) == Local!Sensed(s, x \in p.sensors, p.holds[x], p.now)
SinceOf(as, p) == IF as = Null THEN p.now ELSE as

LEMMA SensorStep ==
    ASSUME NEW zn, NEW tg, NEW st, NEW mo, NEW ev, NEW as, NEW cf, NEW was, NEW is, NEW p,
           NEW k, k = Run(Engine(zn, tg, st, mo, ev, as), cf, was, is, p)
    PROVE  Local!StepSensorPresence(k)
              = Run(Engine(zn, tg, SenseC(st, "static", p), SenseC(mo, "motion", p),
                           ev \/ p.sensors # {}, as), cf, was, is, p)
<1> DEFINE a == SenseC(st, "static", p)
           b == SenseC(mo, "motion", p)
           v == ev \/ p.sensors # {}
           l == Local!StepSensorPresence(k)
<1>1. k.e.static = st /\ k.e.motion = mo /\ k.e.everActive = ev /\ k.p = p BY DEF Run, Engine
<1>2. l = [k EXCEPT !.e.static = a, !.e.motion = b, !.e.everActive = v]
    BY <1>1 DEF Local!StepSensorPresence, SenseC
<1> HIDE DEF a, b, v, l
<1>3. l = Run(Engine(zn, tg, a, b, v, as), cf, was, is, p) BY <1>2 DEF Run, Engine
<1> QED BY <1>3 DEF a, b, v, l

LEMMA AssistIs ==
    ASSUME NEW zn, NEW tg, NEW st, NEW mo, NEW ev, NEW as, NEW n
    PROVE  AssistC(Engine(zn, tg, st, mo, ev, as), n) = Engine(zn, tg, st, mo, ev, n)
<1> DEFINE x == Engine(zn, tg, st, mo, ev, as)
           y == AssistC(x, n)
<1>1. x = Engine(zn, tg, st, mo, ev, as) OBVIOUS
<1>2. y = [x EXCEPT !.assist = n] BY DEF AssistC
<1> HIDE DEF x, y
<1>3. y = Engine(zn, tg, st, mo, ev, n) BY <1>1, <1>2 DEF Engine
<1> QED BY <1>3 DEF x, y

LEMMA RunEngine ==
    ASSUME NEW x, NEW y, NEW cf, NEW was, NEW is, NEW p
    PROVE  Run(x, cf, was, is, p).e = x /\ Run(x, cf, was, is, p).p = p
           /\ EngineC(Run(x, cf, was, is, p), y) = Run(y, cf, was, is, p)
BY DEF Run, EngineC

LEMMA ForceStep ==
    ASSUME NEW zs, NEW th, NEW ss, NEW ms, NEW ev, NEW since, NEW cf, NEW was, NEW is, NEW p,
           NEW x, x = Engine(zs, th, ss, ms, ev, since), NEW k, k = Run(x, cf, was, is, p)
    PROVE  Local!StepForceClear(k).e =
              IF ~p.assist[1] \/ ~Local!Empty(x) THEN Engine(zs, th, ss, ms, ev, Null)
              ELSE IF p.now - SinceOf(since, p) < p.assist[2]
              THEN Engine(zs, th, ss, ms, ev, SinceOf(since, p))
              ELSE Engine(ClearC(zs), th, ss, ms, ev, SinceOf(since, p))
<1> DEFINE n == SinceOf(since, p)
           l == Local!StepForceClear(k)
<1>1. k.e = x /\ k.p = p BY DEF Run
<1>2. x.assist = since /\ x.zone = zs BY DEF Engine
<1>3. l = IF ~p.assist[1] \/ ~Local!Empty(x) THEN [k EXCEPT !.e.assist = Null]
          ELSE IF p.now - n < p.assist[2] THEN [k EXCEPT !.e.assist = n]
          ELSE EngineC(k, AssistC(EngZ(x, ClearC(zs)), n))
    BY <1>1, <1>2 DEF Local!StepForceClear, EngineC, AssistC, EngZ, ClearC, Local!EachZone, SinceOf
<1>4. ASSUME NEW m PROVE [k EXCEPT !.e.assist = m] = Run(AssistC(x, m), cf, was, is, p)
  <2> DEFINE j == [k EXCEPT !.e.assist = m]
  <2>1. j = [k EXCEPT !.e.assist = m] OBVIOUS
  <2> HIDE DEF j
  <2>2. j = Run(AssistC(x, m), cf, was, is, p) BY <2>1 DEF Run, AssistC
  <2> QED BY <2>1, <2>2
<1>5. EngineC(k, AssistC(EngZ(x, ClearC(zs)), n)) = Run(AssistC(EngZ(x, ClearC(zs)), n), cf, was, is, p)
    BY DEF Run, EngineC
<1>6. l = IF ~p.assist[1] \/ ~Local!Empty(x) THEN Run(AssistC(x, Null), cf, was, is, p)
          ELSE IF p.now - n < p.assist[2] THEN Run(AssistC(x, n), cf, was, is, p)
          ELSE Run(AssistC(EngZ(x, ClearC(zs)), n), cf, was, is, p)
  <2> HIDE DEF n, l
  <2> QED BY <1>3, <1>4, <1>5
<1> HIDE DEF n, l
<1>7. EngZ(x, ClearC(zs)) = Engine(ClearC(zs), th, ss, ms, ev, since)
  <2> DEFINE zc == ClearC(zs)
  <2> HIDE DEF zc
  <2>1. EngZ(x, zc) = Engine(zc, th, ss, ms, ev, since) BY EngZIs
  <2> QED BY <2>1 DEF zc
<1>8. /\ AssistC(x, Null) = Engine(zs, th, ss, ms, ev, Null)
      /\ AssistC(x, n) = Engine(zs, th, ss, ms, ev, n)
      /\ AssistC(EngZ(x, ClearC(zs)), n) = Engine(ClearC(zs), th, ss, ms, ev, n)
  <2> DEFINE zc == ClearC(zs)
             z1 == Null
             z2 == EngZ(x, zc)
  <2>1. z2 = Engine(zc, th, ss, ms, ev, since) BY <1>7
  <2> HIDE DEF zc, z1, z2
  <2>2. /\ AssistC(x, z1) = Engine(zs, th, ss, ms, ev, z1)
        /\ AssistC(x, n) = Engine(zs, th, ss, ms, ev, n)
        /\ AssistC(z2, n) = Engine(zc, th, ss, ms, ev, n)
      BY <2>1, AssistIs
  <2> QED BY <2>2 DEF zc, z1, z2
<1> DEFINE y1 == AssistC(x, Null)
           y2 == AssistC(x, n)
           y3 == AssistC(EngZ(x, ClearC(zs)), n)
           R == ~p.assist[1] \/ ~Local!Empty(x)
           Q == p.now - n < p.assist[2]
<1>9. l.e = IF R THEN y1 ELSE IF Q THEN y2 ELSE y3
  <2>1. l = IF R THEN Run(y1, cf, was, is, p) ELSE IF Q THEN Run(y2, cf, was, is, p)
            ELSE Run(y3, cf, was, is, p)
      BY <1>6
  <2> HIDE DEF y1, y2, y3, R, Q
  <2> QED BY <2>1, RunEngine
<1> QED BY <1>8, <1>9 DEF l, n

\* The zones force-cleared.
LEMMA ClearAlike ==
    ASSUME NEW zo \in [Zones -> ZoneRuntime], NEW zn, Alike(zn, zo)
    PROVE  Alike(ClearC(zn), ForceClear(zo))
<1> DEFINE zm == ClearC(zn)
           zp == ForceClear(zo)
<1>1. /\ \A z \in Zones : Local!Pending(Of(zn, z)) <=> zo[z].state = "PENDING"
      /\ \A z \in DOMAIN zn : z \in Zones /\ Of(zn, z) = zn[z]
      /\ \A z \in Zones : z \notin DOMAIN zn => zo[z].state = "CLEAR" /\ zo[z].bits = {}
    BY ZoneFacts
<1>2. \A z \in Zones : Of(zn, z) = AsZone(zo[z]) BY DEF Alike
<1>3. \A z \in Zones : zp[z] = IF zo[z].state = "PENDING" THEN Idle ELSE zo[z] BY DEF ForceClear
<1>4. DOMAIN zm = DOMAIN zn /\ \A z \in DOMAIN zn : zm[z] = IF Local!Pending(zn[z]) THEN Local!NewZone ELSE zn[z]
    BY DEF ClearC
<1> HIDE DEF zm, zp
<1>5. \A z \in DOMAIN zn : zm[z] = AsZone(zp[z]) BY <1>1, <1>2, <1>3, <1>4, AsIdle
<1>6. \A z \in Zones : AsZone(zo[z]) = Local!NewZone => AsZone(zp[z]) = Local!NewZone
    BY <1>3, AsIdle
<1>7. Alike(zm, zp) BY <1>4, <1>5, <1>6, EachAlike
<1> QED BY <1>7 DEF zm, zp

\* The two tests of an empty room.
LEMMA EmptyAlike ==
    ASSUME NEW zo \in [Zones -> ZoneRuntime], NEW zn, Alike(zn, zo),
           NEW sn, sn.static \in SensorState, sn.motion \in SensorState, NEW tg, NEW as,
           NEW x, x = Engine(zn, tg, AsSensor(sn.static), AsSensor(sn.motion), sn.ever, as)
    PROVE  /\ Local!Empty(x) <=> RoomEmpty(sn, zo)
           /\ x.static.state # "inactive" <=> sn.static.state # "INACTIVE"
           /\ x.motion.state # "inactive" <=> sn.motion.state # "INACTIVE"
<1>1. /\ x.zone = zn /\ x.static = AsSensor(sn.static) /\ x.motion = AsSensor(sn.motion)
      /\ x.everActive = sn.ever
    BY DEF Engine
<1>2. ASSUME NEW s \in SensorState PROVE AsSensor(s).state = "inactive" <=> s.state = "INACTIVE"
  <2>1. s.state \in {"INACTIVE", "ACTIVE", "PENDING"} BY DEF SensorState
  <2>2. Lower("ACTIVE") = "active" /\ Lower("PENDING") = "pending" /\ Lower("INACTIVE") = "inactive"
      BY DEF Lower
  <2>3. AsSensor(s).state = Lower(s.state) BY DEF AsSensor
  <2> QED BY <2>1, <2>2, <2>3
<1>3. /\ \A z \in Zones : Of(zn, z).occupied = (zo[z].state # "CLEAR")
      /\ \A z \in Zones : Local!Pending(Of(zn, z)) <=> zo[z].state = "PENDING"
      /\ \A z \in DOMAIN zn : z \in Zones /\ Of(zn, z) = zn[z]
      /\ \A z \in Zones : z \notin DOMAIN zn => zo[z].state = "CLEAR"
    BY ZoneFacts
<1>4. \A z \in Zones : zo[z].state \in {"CLEAR", "OCCUPIED", "PENDING"} BY DEF ZoneRuntime
<1>5. (\A z \in DOMAIN zn : zn[z].occupied => Local!Pending(zn[z]))
        <=> \A z \in Zones : zo[z].state # "OCCUPIED"
  <2>1. ASSUME NEW z \in DOMAIN zn
        PROVE  (zn[z].occupied => Local!Pending(zn[z])) <=> zo[z].state # "OCCUPIED"
      BY <1>3, <1>4
  <2> QED BY <1>3, <2>1
<1>6. AsSensor(sn.static).state = "inactive" <=> sn.static.state = "INACTIVE" BY <1>2
<1>7. AsSensor(sn.motion).state = "inactive" <=> sn.motion.state = "INACTIVE" BY <1>2
<1> QED BY <1>1, <1>5, <1>6, <1>7 DEF Local!Empty, RoomEmpty

\* The parts of the replica that are in step.
LEMMA MirrorFacts ==
    ASSUME Mirror
    PROVE  /\ eng.target = Targets(tgt) /\ eng.static = AsSensor(sens.static)
           /\ eng.motion = AsSensor(sens.motion) /\ eng.everActive = sens.ever
           /\ Alike(eng.zone, zone) /\ (sens.ever => eng.assist = Unless(assist.since, Unset))
<1> DEFINE a == eng.zone
           b == Targets(tgt)
           c == AsSensor(sens.static)
           d == AsSensor(sens.motion)
           f == sens.ever
           g == eng.assist
<1>1. eng = Engine(a, b, c, d, f, g) BY DEF Mirror
<1>2. Alike(a, zone) /\ (f => g = Unless(assist.since, Unset)) BY DEF Mirror
<1> HIDE DEF a, b, c, d, f, g
<1>3. eng.target = b /\ eng.static = c /\ eng.motion = d /\ eng.everActive = f BY <1>1 DEF Engine
<1> QED BY <1>2, <1>3 DEF a, b, c, d, f, g

\* No sensor is waiting since before the clock began.
SensorsDated == /\ sens.static.state = "PENDING" => sens.static.since >= 0
                /\ sens.motion.state = "PENDING" => sens.motion.since >= 0

LEMMA SensorsAlike ==
    ASSUME TypeOK, SensorsDated, NEW on \in SensorInputs, NEW ts \in Nat, NEW w,
           NEW p, p = Params(w, on, ts), NEW sn, sn = SensorsAfter(on, ts)
    PROVE  /\ SenseC(AsSensor(sens.static), "static", p) = AsSensor(sn.static)
           /\ SenseC(AsSensor(sens.motion), "motion", p) = AsSensor(sn.motion)
           /\ (sens.ever \/ p.sensors # {}) = sn.ever
           /\ sn.static.state = "PENDING" => sn.static.since >= 0
           /\ sn.motion.state = "PENDING" => sn.motion.since >= 0
           /\ sn \in [static : SensorState, motion : SensorState, ever : BOOLEAN]
           /\ ~sens.ever /\ sn.ever => sn.static.state = "ACTIVE" \/ sn.motion.state = "ACTIVE"
<1>1. p.sensors = on /\ p.holds = SensorTimeout /\ p.now = ts BY DEF Params
<1>2. sens.static \in SensorState /\ sens.motion \in SensorState /\ sens.ever \in BOOLEAN BY DEF TypeOK
<1>3. SensorTimeout["static"] \in Int /\ SensorTimeout["motion"] \in Int
    BY InputsAssumption DEF Kinds
<1>4. /\ sn.static = Sense(sens.static, "static" \in on, SensorTimeout["static"], ts)
      /\ sn.motion = Sense(sens.motion, "motion" \in on, SensorTimeout["motion"], ts)
      /\ sn.ever = (sens.ever \/ on # {})
    BY DEF SensorsAfter
<1>5. sn \in [static : SensorState, motion : SensorState, ever : BOOLEAN] BY SensorTypes
<1>6. /\ SenseC(AsSensor(sens.static), "static", p)
            = Local!Sensed(AsSensor(sens.static), "static" \in on, SensorTimeout["static"], ts)
      /\ SenseC(AsSensor(sens.motion), "motion", p)
            = Local!Sensed(AsSensor(sens.motion), "motion" \in on, SensorTimeout["motion"], ts)
    BY <1>1 DEF SenseC
<1>7. ASSUME NEW s \in SensorState, s.state = "PENDING" => s.since >= 0, NEW x, NEW h \in Int
      PROVE  /\ Local!Sensed(AsSensor(s), x \in on, h, ts) = AsSensor(Sense(s, x \in on, h, ts))
             /\ Sense(s, x \in on, h, ts).state = "PENDING" => Sense(s, x \in on, h, ts).since >= 0
    BY <1>7, SenseAlike
<1>8. /\ Local!Sensed(AsSensor(sens.static), "static" \in on, SensorTimeout["static"], ts) = AsSensor(sn.static)
      /\ sn.static.state = "PENDING" => sn.static.since >= 0
  <2> DEFINE s == sens.static
             x == "static"
             h == SensorTimeout["static"]
  <2>1. s \in SensorState /\ (s.state = "PENDING" => s.since >= 0) /\ h \in Int
      BY <1>2, <1>3 DEF SensorsDated
  <2>2. sn.static = Sense(s, x \in on, h, ts) BY <1>4
  <2> HIDE DEF s, x, h
  <2>3. /\ Local!Sensed(AsSensor(s), x \in on, h, ts) = AsSensor(sn.static)
        /\ sn.static.state = "PENDING" => sn.static.since >= 0
      BY <1>7, <2>1, <2>2
  <2> QED BY <2>3 DEF s, x, h
<1>9. /\ Local!Sensed(AsSensor(sens.motion), "motion" \in on, SensorTimeout["motion"], ts) = AsSensor(sn.motion)
      /\ sn.motion.state = "PENDING" => sn.motion.since >= 0
  <2> DEFINE s == sens.motion
             x == "motion"
             h == SensorTimeout["motion"]
  <2>1. s \in SensorState /\ (s.state = "PENDING" => s.since >= 0) /\ h \in Int
      BY <1>2, <1>3 DEF SensorsDated
  <2>2. sn.motion = Sense(s, x \in on, h, ts) BY <1>4
  <2> HIDE DEF s, x, h
  <2>3. /\ Local!Sensed(AsSensor(s), x \in on, h, ts) = AsSensor(sn.motion)
        /\ sn.motion.state = "PENDING" => sn.motion.since >= 0
      BY <1>7, <2>1, <2>2
  <2> QED BY <2>3 DEF s, x, h
<1>10. ASSUME ~sens.ever, sn.ever PROVE sn.static.state = "ACTIVE" \/ sn.motion.state = "ACTIVE"
  <2>1. on # {} BY <1>4, <1>10
  <2>2. "static" \in on \/ "motion" \in on BY <2>1, InputsAssumption DEF Kinds
  <2> QED BY <1>4, <2>2 DEF Sense
<1>11. (sens.ever \/ p.sensors # {}) = sn.ever BY <1>1, <1>4
<1> QED BY <1>5, <1>6, <1>8, <1>9, <1>10, <1>11

\* The replica after a tick that leaves the targets th, the zones zp, the sensors
\* sn and a room empty since then.
Remains(x, th, zp, sn, since) ==
    \E zc, n : /\ x = Engine(zc, th, AsSensor(sn.static), AsSensor(sn.motion), sn.ever, n)
               /\ Alike(zc, zp)
               /\ sn.ever => n = Unless(since, Unset)

\* What a tick leaves of the sensors, the grace timer and the zones force-cleared.
LEMMA TailAlike ==
    ASSUME TypeOK, Mirror, SensorsDated, assist.since >= Unset, NEW on \in SensorInputs, NEW ts \in Nat,
           NEW w, NEW p, p = Params(w, on, ts), NEW zo \in [Zones -> ZoneRuntime], NEW zs, Alike(zs, zo),
           NEW th, NEW c, NEW a, NEW b, NEW k, k = Ctx(zs, th, c, a, b, p),
           NEW x, x = Local!StepForceClear(Local!StepSensorPresence(k)).e,
           NEW sn, sn = SensorsAfter(on, ts), NEW since, since = GraceSince(sn, zo, ts),
           NEW zp, zp = IF GraceOver(sn, zo, ts) THEN ForceClear(zo) ELSE zo
    PROVE  Remains(x, th, zp, sn, since)
<1> SUFFICES \E zc, m : /\ x = Engine(zc, th, AsSensor(sn.static), AsSensor(sn.motion), sn.ever, m)
                        /\ Alike(zc, zp)
                        /\ sn.ever => m = Unless(since, Unset)
    BY DEF Remains
<1> DEFINE ss == AsSensor(sn.static)
           ms == AsSensor(sn.motion)
           ev == sn.ever
           old == eng.assist
           y == Engine(zs, th, ss, ms, ev, old)
           n == SinceOf(old, p)
<1>1. /\ eng.static = AsSensor(sens.static) /\ eng.motion = AsSensor(sens.motion)
      /\ eng.everActive = sens.ever /\ (sens.ever => old = Unless(assist.since, Unset))
    BY MirrorFacts
<1>2. /\ SenseC(eng.static, "static", p) = ss /\ SenseC(eng.motion, "motion", p) = ms
      /\ (eng.everActive \/ p.sensors # {}) = ev
      /\ sn.static \in SensorState /\ sn.motion \in SensorState /\ sn.ever \in BOOLEAN
      /\ ~sens.ever /\ sn.ever => sn.static.state = "ACTIVE" \/ sn.motion.state = "ACTIVE"
    BY <1>1, SensorsAlike
<1>3. p.now = ts /\ p.assist[1] = assist.enabled /\ p.assist[2] = assist.timeout BY DEF Params
<1>4. k = Run(Engine(zs, th, eng.static, eng.motion, eng.everActive, eng.assist), c, a, b, p)
    BY DEF Ctx, Run
<1>5. Local!StepSensorPresence(k) = Run(y, c, a, b, p)
  <2> DEFINE s1 == eng.static
             s2 == eng.motion
             s3 == eng.everActive
  <2>1. k = Run(Engine(zs, th, s1, s2, s3, old), c, a, b, p) BY <1>4
  <2>2. SenseC(s1, "static", p) = ss /\ SenseC(s2, "motion", p) = ms /\ (s3 \/ p.sensors # {}) = ev
      BY <1>2
  <2> HIDE DEF s1, s2, s3, ss, ms, ev, old
  <2>3. Local!StepSensorPresence(k)
          = Run(Engine(zs, th, SenseC(s1, "static", p), SenseC(s2, "motion", p),
                       s3 \/ p.sensors # {}, old), c, a, b, p)
      BY <2>1, SensorStep
  <2> QED BY <2>2, <2>3
<1>6. /\ Local!Empty(y) <=> RoomEmpty(sn, zo)
    BY <1>2, EmptyAlike
<1>7. x = IF ~p.assist[1] \/ ~Local!Empty(y) THEN Engine(zs, th, ss, ms, ev, Null)
          ELSE IF p.now - n < p.assist[2] THEN Engine(zs, th, ss, ms, ev, n)
          ELSE Engine(ClearC(zs), th, ss, ms, ev, n)
  <2> DEFINE l == Local!StepSensorPresence(k)
  <2>1. l = Run(y, c, a, b, p) /\ x = Local!StepForceClear(l).e BY <1>5
  <2>2. y = Engine(zs, th, ss, ms, ev, old) OBVIOUS
  <2> HIDE DEF l, y, ss, ms, ev, old
  <2> QED BY <2>1, <2>2, ForceStep
<1>8. assist.since \in Int /\ assist.enabled \in BOOLEAN /\ assist.timeout \in Int BY DEF TypeOK
<1>9. CASE ~assist.enabled \/ ~RoomEmpty(sn, zo)
  <2>1. x = Engine(zs, th, ss, ms, ev, Null) BY <1>3, <1>6, <1>7, <1>9
  <2>2. since = Unset /\ ~GraceOver(sn, zo, ts) BY <1>9 DEF GraceSince, GraceOver
  <2>3. zp = zo /\ Unless(since, Unset) = Null BY <2>2 DEF Unless
  <2> QED BY <2>1, <2>3
<1>10. CASE assist.enabled /\ RoomEmpty(sn, zo)
  <2>1. sens.ever BY <1>2, <1>10 DEF RoomEmpty
  <2>2. n = since /\ since \in Int /\ since # Unset
    <3>1. old = Unless(assist.since, Unset) BY <1>1, <2>1
    <3>2. since = IF assist.since < 0 THEN ts ELSE assist.since BY <1>10 DEF GraceSince
    <3>3. CASE assist.since < 0
      <4>1. old = Null BY <1>8, <3>1, <3>3 DEF Unless, Unset
      <4> QED BY <1>3, <3>2, <3>3, <4>1 DEF SinceOf, Unset
    <3>4. CASE ~(assist.since < 0)
      <4>1. old = assist.since /\ old # Null BY <1>8, <3>1, <3>4, NullFacts DEF Unless, Unset
      <4> QED BY <1>8, <3>2, <3>4, <4>1 DEF SinceOf, Unset
    <3> QED BY <3>3, <3>4
  <2>3. n = Unless(since, Unset) BY <2>2 DEF Unless
  <2>4. GraceOver(sn, zo, ts) <=> ts - since >= assist.timeout BY <1>10 DEF GraceOver
  <2>5. CASE ts - since >= assist.timeout
    <3>1. ~(p.now - n < p.assist[2]) BY <1>3, <1>8, <2>2, <2>5
    <3>2. x = Engine(ClearC(zs), th, ss, ms, ev, n) BY <1>3, <1>6, <1>7, <1>10, <3>1
    <3>3. zp = ForceClear(zo) BY <2>4, <2>5
    <3>4. Alike(ClearC(zs), zp) BY <3>3, ClearAlike
    <3> QED BY <2>3, <3>2, <3>4
  <2>6. CASE ~(ts - since >= assist.timeout)
    <3>1. p.now - n < p.assist[2] BY <1>3, <1>8, <2>2, <2>6
    <3>2. x = Engine(zs, th, ss, ms, ev, n) BY <1>3, <1>6, <1>7, <1>10, <3>1
    <3>3. zp = zo BY <2>4, <2>6
    <3> QED BY <2>3, <3>2, <3>3
  <2> QED BY <2>5, <2>6
<1> QED BY <1>9, <1>10

\* What a report r with the targets' status st tells of the zones zo and the sensors sn.
Tells(r, st, zo, sn) ==
    /\ r.occupied = {z \in Zones : zo[z].state # "CLEAR"} /\ r.status = st
    /\ r.sensorOccupancy \in BOOLEAN /\ r.mmwave \in BOOLEAN
    /\ r.sensorOccupancy <=> \/ sn.static.state # "INACTIVE" \/ sn.motion.state # "INACTIVE"
                             \/ r.occupied # {}
    /\ r.mmwave <=> \/ sn.static.state # "INACTIVE"
                    \/ \E z \in Zones : zo[z].state = "OCCUPIED"

\* What is reported of an engine.
LEMMA ReportAlike ==
    ASSUME NEW zo \in [Zones -> ZoneRuntime], NEW zs, Alike(zs, zo), NEW th, NEW n,
           NEW sn, sn.static \in SensorState, sn.motion \in SensorState,
           NEW x, x = Engine(zs, th, AsSensor(sn.static), AsSensor(sn.motion), sn.ever, n),
           NEW st, NEW r, r = Local!StepComputeOccupancy(x, st)
    PROVE  Tells(r, st, zo, sn)
<1>1. x.zone = zs BY DEF Engine
<1>2. /\ x.static.state # "inactive" <=> sn.static.state # "INACTIVE"
      /\ x.motion.state # "inactive" <=> sn.motion.state # "INACTIVE"
    BY EmptyAlike
<1>3. /\ \A z \in Zones : /\ Of(zs, z).occupied = (zo[z].state # "CLEAR")
                          /\ zo[z].state = "PENDING" => Of(zs, z).pendingSince = zo[z].since
                          /\ zo[z].state # "PENDING" => Of(zs, z).pendingSince = Null
      /\ \A z \in DOMAIN zs : z \in Zones /\ Of(zs, z) = zs[z]
      /\ \A z \in Zones : z \notin DOMAIN zs => zo[z].state = "CLEAR"
    BY ZoneFacts
<1> DEFINE occ == {z \in DOMAIN zs : zs[z].occupied}
<1>4. occ = {z \in Zones : zo[z].state # "CLEAR"} BY <1>3
<1>5. /\ r.occupied = occ /\ r.status = st
      /\ r.sensorOccupancy = (\/ x.static.state # "inactive" \/ x.motion.state # "inactive" \/ occ # {})
      /\ r.mmwave = (x.static.state # "inactive" \/ \E z \in occ : zs[z].pendingSince = Null)
    BY <1>1 DEF Local!StepComputeOccupancy
<1>6. (\E z \in occ : zs[z].pendingSince = Null) <=> \E z \in Zones : zo[z].state = "OCCUPIED"
  <2>1. \A z \in Zones : zo[z].state \in {"CLEAR", "OCCUPIED", "PENDING"} /\ zo[z].since \in Int
      BY DEF ZoneRuntime
  <2>2. \A z \in Zones : zo[z].since # Null BY <2>1, NullFacts
  <2>3. ASSUME NEW z \in DOMAIN zs
        PROVE  (zs[z].occupied /\ zs[z].pendingSince = Null) <=> zo[z].state = "OCCUPIED"
    <3>1. z \in Zones /\ Of(zs, z) = zs[z] BY <1>3
    <3>2. zs[z].occupied = (zo[z].state # "CLEAR") BY <1>3, <3>1
    <3>3. zs[z].occupied <=> zo[z].state # "CLEAR" BY <3>2
    <3>4. zs[z].pendingSince = Null <=> zo[z].state # "PENDING" BY <1>3, <2>2, <3>1
    <3> QED BY <2>1, <3>1, <3>3, <3>4
  <2>4. \A z \in Zones : zo[z].state = "OCCUPIED" => z \in DOMAIN zs BY <1>3
  <2> QED BY <1>3, <2>3, <2>4
<1> HIDE DEF occ
<1>7. r.occupied = {z \in Zones : zo[z].state # "CLEAR"} /\ r.status = st BY <1>4, <1>5
<1> DEFINE A == x.static.state # "inactive"
           B == x.motion.state # "inactive"
           C == occ # {}
           D == \E z \in occ : zs[z].pendingSince = Null
<1>8. r.occupied = occ /\ r.sensorOccupancy = (A \/ B \/ C) /\ r.mmwave = (A \/ D) BY <1>5
<1>9. /\ A <=> sn.static.state # "INACTIVE"
      /\ B <=> sn.motion.state # "INACTIVE"
      /\ D <=> \E z \in Zones : zo[z].state = "OCCUPIED"
    BY <1>2, <1>6
<1>10. /\ r.sensorOccupancy \in BOOLEAN /\ r.mmwave \in BOOLEAN
       /\ r.sensorOccupancy <=> A \/ B \/ r.occupied # {}
       /\ r.mmwave <=> A \/ D
  <2>0. C <=> r.occupied # {} BY <1>8
  <2> HIDE DEF A, B, C, D
  <2> QED BY <1>8, <2>0
<1> HIDE DEF A, B, C, D
<1> QED BY <1>7, <1>9, <1>10 DEF Tells

-----------------------------------------------------------------------------
(* The invariant                                                           *)

\* No zone is waiting since before the clock began, nor is the room empty since then.
ZonesDated == \A z \in Zones : zone[z].state = "PENDING" => zone[z].since >= 0
Stepping == cfg \in ZoneConfigs /\ GridShown /\ TgtRooted /\ ZonesDated /\ SensorsDated /\ Mirror
PInv == /\ now >= StartTime /\ assist.since >= Unset /\ grid \in Grids \cup {BlankGrid}
        /\ inStep => Stepping

LEMMA IdleIs ==
    ASSUME NEW r \in ZoneRuntime, r.state = "CLEAR", r.since = Unset, r.bits = {} PROVE r = Idle
BY DEF ZoneRuntime, Idle

\* A tick does not wind the clock back, and a handoff in it dates no timer before zero.
LEMMA HandoffDated ==
    ASSUME IInv, ParityAssumption, now >= StartTime, NEW e, e.ts \in Nat, e.ts >= now, NEW z \in Configured
    PROVE  Accelerated(e, z) >= 0
<1>1. cfg[z].timeout \in Nat /\ cfg[z].handoff \in Nat BY SettingsFacts
<1>2. cfg[z].timeout - cfg[z].handoff <= StartTime
  <2>1. cfg \in ZoneConfigs \/ cfg = NoConfig BY DEF IInv, TypeOK
  <2>2. cfg # NoConfig BY DEF NoConfig, Configured
  <2> QED BY <2>1, <2>2 DEF ParityAssumption, HandoffsDated, Configured
<1>3. StartTime \in Nat /\ now \in Nat BY ClockAssumption DEF IInv, TypeOK
<1>4. e.ts >= StartTime BY <1>3
<1>5. e.ts - (cfg[z].timeout - cfg[z].handoff) >= 0
  <2> DEFINE t == cfg[z].timeout
             h == cfg[z].handoff
             n == e.ts
  <2>1. t \in Nat /\ h \in Nat /\ n \in Nat /\ n >= StartTime /\ t - h <= StartTime BY <1>1, <1>2, <1>4
  <2> HIDE DEF t, h, n
  <2>2. n - (t - h) >= 0 BY <1>3, <2>1, BackDated
  <2> QED BY <2>2 DEF t, h, n
<1> QED BY <1>5 DEF Accelerated

\* The zones and the grid after a tick.
LEMMA TickDated ==
    ASSUME IInv, TrackedWell, ParityAssumption, now >= StartTime, TickSome
    PROVE  /\ now' \in Nat /\ now' >= now /\ now' >= StartTime
           /\ ZonesDated => ZonesDated'
           /\ GridShown => GridShown'
<1>1. PICK e : TickTo(e) BY TickSomeKept
<1>2. /\ Kept(e) /\ e.ts = now' /\ now' \in Nat /\ now' >= now /\ UNCHANGED <<grid, cfg>>
    BY <1>1 DEF TickTo, ParityAssumption
<1>3. StartTime \in Nat /\ now \in Nat BY ClockAssumption DEF IInv, TypeOK
<1>4. now' >= StartTime BY <1>2, <1>3
<1>5. IInv' BY StepInv DEF Next
<1>6. ASSUME ZonesDated, NEW z \in Zones, zone'[z].state = "PENDING" PROVE zone'[z].since >= 0
  <2>1. /\ z \in Configured
        /\ \/ zone[z].state = "OCCUPIED" /\ zone'[z].since = now'
           \/ zone[z].state = "PENDING" /\ zone'[z].since = zone[z].since
           \/ zone'[z].since = Accelerated(e, z)
      BY <1>1, <1>6, ZoneStep
  <2>2. Accelerated(e, z) >= 0 BY <1>2, <2>1, HandoffDated
  <2> QED BY <1>2, <1>6, <2>1, <2>2 DEF ZonesDated
<1>7. ASSUME GridShown PROVE GridShown'
  <2>1. CASE grid \in Grids BY <1>2, <2>1 DEF GridShown
  <2>2. CASE grid = BlankGrid /\ \A z \in Zones : zone[z] = Idle
    <3>1. e.seen = {} /\ \A z \in Zones : e.zone[z] = Idle BY <1>2, <2>2, NothingSeen
    <3>2. ASSUME NEW z \in Zones PROVE zone'[z] = Idle
      <4>1. Settles(e, z) BY <1>1 DEF TickTo
      <4>2. zone'[z].state = "CLEAR" BY <3>1, <4>1 DEF Settles, Idle
      <4>3. zone'[z] \in ZoneRuntime /\ zone'[z].since = Unset /\ zone'[z].bits = {}
          BY <1>5, <4>2 DEF IInv, TypeOK, ClearForgets
      <4> QED BY <4>2, <4>3, IdleIs
    <3>3. grid' = BlankGrid
      <4>1. BlankGrid' = BlankGrid BY DEF BlankGrid
      <4> QED BY <1>2, <2>2
    <3> QED BY <3>2, <3>3 DEF GridShown
  <2> QED BY <1>7, <2>1, <2>2 DEF GridShown
<1> QED BY <1>2, <1>4, <1>6, <1>7 DEF ZonesDated

\* The replica's run of a frame, once both have the same in hand.
LEMMA FrameRun ==
    ASSUME ParityAssumption, IInv, TrackedWell, now >= StartTime, Stepping,
           NEW w \in Windows, NEW on \in SensorInputs, NEW ts \in Int, ts >= now,
           NEW p, p = Params(w, on, ts),
           NEW moved, moved = ForSlots(OverlayExit, ForSlots(Handoff,
                          ForSlots(Evaluate, ForSlots(Relocate, Begin(w, on, ts))))),
           NEW advanced, advanced = AdvanceZones(moved), NEW cleaned, cleaned = Cleanup(advanced),
           NEW lm, lm = Local!InOrder(Local!StepOverlayExitHandoff, Local!InOrder(Local!StepHandoffDetection,
                        Local!InOrder(Local!StepPerTargetEval, Local!InOrder(Local!StepPendingRelocation,
                            Local!Context(p))))),
           NEW la, la = Local!StepZoneStateMachine(lm), NEW lc, lc = Local!StepCleanupConfirmed(la)
    PROVE  /\ Twin(cleaned, lc, p) /\ cleaned.tgt = moved.tgt /\ Rooted(moved)
           /\ cleaned.zone \in [Zones -> ZoneRuntime]
           /\ Local!StepTargetResults(la) = [i \in Slots |-> Status(advanced, i)]
<1>1. Setup BY DEF IInv, TypeOK, Setup
<1>2. cfg \in ZoneConfigs /\ ZonesShown /\ GridShown /\ TgtRooted /\ ZonesDated /\ Mirror
    BY DEF Stepping, ParityAssumption
<1> DEFINE a == Begin(w, on, ts)
           k == Local!Context(p)
<1>3. Paired(a, k, p) BY <1>2, BeginPair
<1>4. Kept(moved) /\ Paired(moved, lm, p) /\ moved.w = w /\ moved.ts = ts
  <2> HIDE DEF k
  <2>1. lm = Local!InOrder(Local!StepOverlayExitHandoff, Local!InOrder(Local!StepHandoffDetection,
                 Local!InOrder(Local!StepPerTargetEval, Local!InOrder(Local!StepPendingRelocation, k))))
      BY DEF k
  <2> QED BY <1>2, <1>3, <2>1, MovedPair
<1>5. moved \in Scratch /\ moved.zone \in [Zones -> ZoneRuntime] /\ Mid(moved)
    BY <1>4 DEF Kept, Mid, Scratch
<1>6. ASSUME NEW z \in Zones, moved.zone[z].state = "PENDING" PROVE moved.zone[z].since >= 0
  <2>1. Went(moved, z, zone[z], moved.zone[z]) BY <1>4 DEF Kept, Course
  <2>2. \/ zone[z].state = "PENDING" /\ moved.zone[z].since = zone[z].since
        \/ z \in Configured /\ moved.zone[z].since = Accelerated(moved, z)
      BY <1>6, <2>1 DEF Went
  <2>3. moved.ts \in Nat /\ moved.ts >= now
    <3>1. now \in Nat BY ClockAssumption DEF IInv, TypeOK
    <3> QED BY <1>4, <3>1
  <2>4. z \in Configured => Accelerated(moved, z) >= 0 BY <2>3, HandoffDated
  <2> QED BY <1>2, <2>2, <2>4 DEF ZonesDated
<1>7. Twin(moved, lm, p) /\ Rooted(moved) /\ InSight(moved) BY <1>4 DEF Paired
<1>8. /\ Twin(advanced, la, p) /\ advanced \in Scratch /\ advanced.w = moved.w
      /\ advanced.at = moved.at /\ advanced.tgt = moved.tgt
    BY <1>1, <1>2, <1>4, <1>6, <1>7, AdvanceTwin
<1>9. InSight(advanced) BY <1>7, <1>8 DEF InSight
<1>10. Local!StepTargetResults(la) = [i \in Slots |-> Status(advanced, i)] BY <1>8, <1>9, StatusAlike
<1>11. Twin(cleaned, lc, p) BY <1>8, CleanupTwin
<1>12. cleaned = Cleanup(AdvanceZones(moved)) OBVIOUS
<1>13. cleaned.zone \in [Zones -> ZoneRuntime] /\ cleaned.tgt = moved.tgt
    BY <1>1, <1>5, <1>12, CleanedFacts
<1> QED BY <1>7, <1>10, <1>11, <1>13

\* A frame in step: the two stay in step, and the editor shows what is published.
LEMMA FrameStep ==
    ASSUME ParityAssumption, IInv, TrackedWell, now >= StartTime, assist.since >= Unset, Stepping,
           NEW w \in Windows, NEW on \in SensorInputs, NEW d \in Steps, Tick(w, on, d),
           Local!RunLocalZoneEngine(Params(w, on, now'))
    PROVE  /\ Stepping'
           /\ res'.occupied = out'.occ /\ res'.status = out'.status
           /\ res'.sensorOccupancy = out'.occupancy /\ res'.mmwave = out'.mmwave
<1>0. TickSome BY DEF TickSome
<1>1. /\ now' \in Nat /\ now' >= now /\ ZonesDated' /\ GridShown'
  <2>1. ZonesDated /\ GridShown BY DEF Stepping
  <2> QED BY <1>0, <2>1, TickDated
<1>2. IInv' BY <1>0, StepInv DEF Next
<1> DEFINE ts == now'
           p == Params(w, on, ts)
           moved == ForSlots(OverlayExit, ForSlots(Handoff,
                          ForSlots(Evaluate, ForSlots(Relocate, Begin(w, on, ts)))))
           advanced == AdvanceZones(moved)
           cleaned == Cleanup(advanced)
           lm == Local!InOrder(Local!StepOverlayExitHandoff, Local!InOrder(Local!StepHandoffDetection,
                        Local!InOrder(Local!StepPerTargetEval, Local!InOrder(Local!StepPendingRelocation,
                            Local!Context(p)))))
           la == Local!StepZoneStateMachine(lm)
           lc == Local!StepCleanupConfirmed(la)
           x == Local!StepForceClear(Local!StepSensorPresence(lc)).e
           sn == SensorsAfter(on, ts)
           zo == cleaned.zone
           since == GraceSince(sn, zo, ts)
           zp == IF GraceOver(sn, zo, ts) THEN ForceClear(zo) ELSE zo
           st == Local!StepTargetResults(la)
           r == Local!StepComputeOccupancy(x, st)
<1>3. /\ now' = (now + d) % ClockWrap /\ tgt' = cleaned.tgt /\ zone' = zp /\ sens' = sn
      /\ assist' = [assist EXCEPT !.since = since]
      /\ out'.status = [i \in Slots |-> Status(advanced, i)]
      /\ UNCHANGED <<grid, cfg, stuckTimeout>>
  <2>1. now' = (now + d) % ClockWrap BY DEF Tick
  <2> QED BY <2>1 DEF Tick
<1>4. eng' = x /\ res' = r BY DEF Local!RunLocalZoneEngine
<1> HIDE DEF p, moved, advanced, cleaned, lm, la, lc
<1>5. /\ Twin(cleaned, lc, p) /\ cleaned.tgt = moved.tgt /\ Rooted(moved)
      /\ zo \in [Zones -> ZoneRuntime]
      /\ st = [i \in Slots |-> Status(advanced, i)]
  <2> HIDE DEF ts
  <2>1. ts \in Int /\ ts >= now BY <1>1 DEF ts
  <2>2. p = Params(w, on, ts) BY DEF p
  <2> QED BY <2>1, <2>2, FrameRun DEF moved, advanced, cleaned, lm, la, lc
<1>6. p = Params(w, on, ts) /\ ts \in Nat /\ TypeOK /\ Mirror /\ SensorsDated /\ assist.since >= Unset
    BY <1>1 DEF p, IInv, Stepping
<1>7. \E zs : Alike(zs, zo) /\ lc = Ctx(zs, Targets(cleaned.tgt), cleaned.seen, ZonesOf(cleaned.from),
                                        ZonesOf(cleaned.at), p)
    BY <1>5 DEF Twin
<1>8. PICK zs : Alike(zs, zo) /\ lc = Ctx(zs, Targets(cleaned.tgt), cleaned.seen, ZonesOf(cleaned.from),
                                          ZonesOf(cleaned.at), p)
    BY <1>7
<1> DEFINE th == Targets(cleaned.tgt)
           cf == cleaned.seen
           was == ZonesOf(cleaned.from)
           is == ZonesOf(cleaned.at)
<1>9. x = Local!StepForceClear(Local!StepSensorPresence(lc)).e OBVIOUS
<1>10. sn = SensorsAfter(on, ts) /\ since = GraceSince(sn, zo, ts)
       /\ zp = IF GraceOver(sn, zo, ts) THEN ForceClear(zo) ELSE zo
    OBVIOUS
<1>11. lc = Ctx(zs, th, cf, was, is, p) BY <1>8
<1>12. r = Local!StepComputeOccupancy(x, st) OBVIOUS
<1>13. th = Targets(tgt') BY <1>3
<1> HIDE DEF x, sn, since, zp, th, cf, was, is, st, r, ts, zo
<1>14. Remains(x, th, zp, sn, since)
    BY <1>5, <1>6, <1>8, <1>9, <1>10, <1>11, TailAlike
<1>15. PICK zc, n : /\ x = Engine(zc, th, AsSensor(sn.static), AsSensor(sn.motion), sn.ever, n)
                    /\ Alike(zc, zp)
                    /\ sn.ever => n = Unless(since, Unset)
    BY <1>14 DEF Remains
<1>16. /\ sn.static \in SensorState /\ sn.motion \in SensorState
       /\ sn.static.state = "PENDING" => sn.static.since >= 0
       /\ sn.motion.state = "PENDING" => sn.motion.since >= 0
    BY <1>6, <1>10, SensorsAlike
<1>17. zp \in [Zones -> ZoneRuntime] BY <1>2, <1>3 DEF IInv, TypeOK
<1>18. /\ r.occupied = {z \in Zones : zp[z].state # "CLEAR"} /\ r.status = st
       /\ r.sensorOccupancy \in BOOLEAN /\ r.mmwave \in BOOLEAN
       /\ r.sensorOccupancy <=> \/ sn.static.state # "INACTIVE" \/ sn.motion.state # "INACTIVE"
                                \/ r.occupied # {}
       /\ r.mmwave <=> \/ sn.static.state # "INACTIVE"
                       \/ \E z \in Zones : zp[z].state = "OCCUPIED"
  <2>1. Tells(r, st, zp, sn) BY <1>12, <1>15, <1>16, <1>17, ReportAlike
  <2> QED BY <2>1 DEF Tells
<1>19. /\ out'.occ = {z \in Zones : zp[z].state # "CLEAR"}
       /\ out'.occupancy <=> \/ out'.occ # {} \/ sn.static.state # "INACTIVE"
                             \/ sn.motion.state # "INACTIVE"
       /\ out'.mmwave <=> \/ sn.static.state # "INACTIVE"
                          \/ \E z \in Zones : zp[z].state = "OCCUPIED"
    BY <1>0, <1>3, ReportStep
<1>20. out'.occupancy \in BOOLEAN /\ out'.mmwave \in BOOLEAN BY <1>2 DEF IInv, TypeOK
<1>21. /\ res'.occupied = out'.occ /\ res'.status = out'.status
       /\ res'.sensorOccupancy = out'.occupancy /\ res'.mmwave = out'.mmwave
  <2>1. res' = r /\ out'.status = st BY <1>3, <1>4, <1>5
  <2>2. r.occupied = out'.occ BY <1>18, <1>19
  <2>3. r.sensorOccupancy <=> out'.occupancy BY <1>18, <1>19, <2>2
  <2>4. r.mmwave <=> out'.mmwave BY <1>18, <1>19
  <2>5. r.sensorOccupancy = out'.occupancy BY <1>18, <1>20, <2>3
  <2>6. r.mmwave = out'.mmwave BY <1>18, <1>20, <2>4
  <2> QED BY <1>18, <2>1, <2>2, <2>5, <2>6
<1>22. SensorsDated' BY <1>3, <1>16 DEF SensorsDated
<1>23. TgtRooted'
  <2>1. \A i \in Slots : moved.tgt[i].prev \in grid.room \cup {NoCell} BY <1>5 DEF Rooted
  <2> QED BY <1>3, <1>5, <2>1 DEF TgtRooted
<1>24. assist'.since = since BY <1>3, <1>6 DEF TypeOK
<1>25. Mirror'
  <2> DEFINE sa == AsSensor(sn.static)
             sm == AsSensor(sn.motion)
             ev == sn.ever
  <2>1. eng' = Engine(zc, th, sa, sm, ev, n) BY <1>4, <1>15
  <2>2. AsSensor(sens'.static) = sa /\ AsSensor(sens'.motion) = sm /\ sens'.ever = ev BY <1>3
  <2>3. ev => n = Unless(assist'.since, Unset) BY <1>15, <1>24
  <2>4. Alike(zc, zone') BY <1>3, <1>15
  <2> HIDE DEF sa, sm, ev
  <2>5. eng'.zone = zc /\ eng'.assist = n BY <2>1 DEF Engine
  <2>6. eng' = Engine(eng'.zone, Targets(tgt'), AsSensor(sens'.static), AsSensor(sens'.motion), sens'.ever,
                      eng'.assist)
      BY <1>13, <2>1, <2>2, <2>5
  <2>7. Alike(eng'.zone, zone') BY <2>4, <2>5
  <2>8. sens'.ever => eng'.assist = Unless(assist'.since, Unset) BY <2>2, <2>3, <2>5
  <2> QED BY <2>6, <2>7, <2>8 DEF Mirror
<1>26. cfg' \in ZoneConfigs BY <1>3 DEF Stepping
<1> QED BY <1>1, <1>21, <1>22, <1>23, <1>25, <1>26 DEF Stepping

LEMMA FrameDated == ASSUME ParityAssumption, IInv, TrackedWell, PInv, Frame PROVE PInv'
<1>1. PICK w \in Windows, on \in SensorInputs, d \in Steps :
         /\ Tick(w, on, d)
         /\ IF cfg = NoConfig THEN UNCHANGED <<eng, res>>
            ELSE Local!RunLocalZoneEngine(Params(w, on, now'))
    BY DEF Frame
<1>2. TickSome /\ inStep' = inStep BY <1>1 DEF TickSome, Frame
<1>3. now >= StartTime /\ assist.since >= Unset /\ grid \in Grids \cup {BlankGrid} BY DEF PInv
<1>4. now' \in Nat /\ now' >= StartTime BY <1>2, <1>3, TickDated
<1>5. assist'.since >= Unset /\ grid' = grid
  <2>1. PICK e : TickTo(e) BY <1>2, TickSomeKept
  <2> DEFINE since == GraceSince(sens', zone', now')
  <2>2. assist' = [assist EXCEPT !.since = since] /\ grid' = grid BY <2>1 DEF TickTo
  <2>3. since \in {Unset, now', assist.since} BY DEF GraceSince
  <2>4. since >= Unset BY <1>3, <1>4, <2>3 DEF Unset
  <2> HIDE DEF since
  <2>5. assist'.since = since BY <2>2 DEF IInv, TypeOK
  <2> QED BY <2>2, <2>4, <2>5
<1>6. grid' \in Grids \cup {BlankGrid'}
  <2>1. BlankGrid' = BlankGrid BY DEF BlankGrid
  <2> QED BY <1>3, <1>5, <2>1
<1>7. ASSUME inStep' PROVE Stepping'
  <2>1. Stepping BY <1>2, <1>7 DEF PInv
  <2>2. cfg # NoConfig
    <3>1. 0 \in DOMAIN cfg BY <2>1, ConfigsAssumption DEF Stepping
    <3> QED BY <3>1 DEF NoConfig
  <2>3. Tick(w, on, d) /\ Local!RunLocalZoneEngine(Params(w, on, now')) BY <1>1, <2>2
  <2> QED BY <1>3, <2>1, <2>3, FrameStep
<1> QED BY <1>4, <1>5, <1>6, <1>7 DEF PInv

\* A call that keeps the grid and the configuration wakes no zone of a blank grid.
LEMMA CallDated ==
    ASSUME IInv', CallKept, grid' = grid
    PROVE  (GridShown => GridShown') /\ (ZonesDated => ZonesDated')
<1>1. ASSUME NEW z \in Zones, zone[z] = Idle PROVE zone'[z] = Idle
  <2>1. zone'[z] = Idle \/ (zone'[z].state = "CLEAR" /\ zone'[z].since = Unset)
      BY <1>1 DEF CallKept, Idle
  <2>2. zone'[z].state = "CLEAR" => zone'[z].bits = {} BY DEF IInv, ClearForgets
  <2>3. zone'[z] \in ZoneRuntime BY DEF IInv, TypeOK
  <2> QED BY <2>1, <2>2, <2>3, IdleIs
<1>2. BlankGrid' = BlankGrid BY DEF BlankGrid
<1>3. GridShown => GridShown' BY <1>1, <1>2 DEF GridShown
<1>4. ZonesDated => ZonesDated' BY DEF CallKept, ZonesDated, Idle
<1> QED BY <1>3, <1>4

LEMMA DismissDated == ASSUME ParityAssumption, IInv, PInv, Dismiss PROVE PInv'
<1>1. PICK x \in Dismissals : DismissTarget(x[1], x[2]) /\ Local!DismissAt(x[1], x[2], grid)
    BY DEF Dismiss
<1> DEFINE i == x[1]
           c == x[2]
<1>2. i \in Slots /\ c \in Cells BY InputsAssumption DEF ParityAssumption
<1>3. /\ zone' = WithoutEvidence(zone, i, c) /\ tgt' = [tgt EXCEPT ![i] = DismissedAt(@, c)]
      /\ UNCHANGED <<grid, cfg, sens, assist, now>>
    BY <1>1 DEF DismissTarget
<1>4. eng' = Local!DismissTarget(eng, i, c, grid) BY <1>1 DEF Local!DismissAt
<1>5. inStep' = inStep /\ DismissSome BY <1>1 DEF Dismiss, DismissSome
<1> HIDE DEF i, c
<1>6. CallKept /\ IInv' BY <1>5, DismissKept, StepInv DEF Next
<1>7. now' >= StartTime /\ assist'.since >= Unset /\ grid' \in Grids \cup {BlankGrid'}
  <2>1. BlankGrid' = BlankGrid BY DEF BlankGrid
  <2> QED BY <1>3, <2>1 DEF PInv
<1>8. ASSUME inStep' PROVE Stepping'
  <2>1. Stepping BY <1>5, <1>8 DEF PInv
  <2>2. GridShown' /\ ZonesDated' BY <1>3, <1>6, <2>1, CallDated DEF Stepping
  <2>3. cfg' \in ZoneConfigs BY <1>3, <2>1 DEF Stepping
  <2>4. SensorsDated' BY <1>3, <2>1 DEF Stepping, SensorsDated
  <2>5. tgt \in [Slots -> Tracking] /\ zone \in [Zones -> ZoneRuntime] /\ Setup
        /\ \A z \in Zones : z \notin Configured => zone[z] = Idle
      BY DEF IInv, TypeOK, Setup, DisabledZonesClear
  <2>6. TgtRooted'
    <3>1. DismissedAt(tgt[i], c).prev = NoCell BY DEF DismissedAt, Fresh
    <3>2. \A j \in Slots : tgt'[j] = IF j = i THEN DismissedAt(tgt[i], c) ELSE tgt[j] BY <1>3, <2>5
    <3> QED BY <1>3, <2>1, <3>1, <3>2 DEF Stepping, TgtRooted
  <2>7. Mirror'
    <3> DEFINE zn == eng.zone
               tg == Targets(tgt)
               sa == AsSensor(sens.static)
               sm == AsSensor(sens.motion)
               ev == sens.ever
               n == eng.assist
               zm == EvidenceC(zn, i, c)
               th == [tg EXCEPT ![i] = DismissedC(tg[i], c)]
    <3>1. eng = Engine(zn, tg, sa, sm, ev, n) /\ Alike(zn, zone) BY <2>1 DEF Stepping, Mirror
    <3>2. ev => n = Unless(assist.since, Unset) BY <2>1 DEF Stepping, Mirror
    <3>3. Alike(zm, zone')
      <4> HIDE DEF zn
      <4> QED BY <1>2, <1>3, <2>5, <3>1, EvidenceAlike
    <3>4. th = Targets(tgt')
      <4>1. tg[i] = AsTarget(tgt[i]) BY <1>2 DEF Targets
      <4>2. DismissedC(tg[i], c) = AsTarget(DismissedAt(tgt[i], c)) BY <1>2, <2>5, <4>1, DismissedAs
      <4>3. th = [Targets(tgt) EXCEPT ![i] = AsTarget(DismissedAt(tgt[i], c))] BY <4>2
      <4> HIDE DEF th
      <4> QED BY <1>2, <1>3, <2>5, <4>3, TargetsSet
    <3>5. AsSensor(sens'.static) = sa /\ AsSensor(sens'.motion) = sm /\ sens'.ever = ev
          /\ assist'.since = assist.since
        BY <1>3
    <3> HIDE DEF zn, tg, sa, sm, ev, n, zm, th
    <3>6. eng' = Engine(zm, th, sa, sm, ev, n) BY <1>4, <3>1, DismissedEngine DEF zm, th
    <3>7. eng'.zone = zm /\ eng'.assist = n BY <3>6 DEF Engine
    <3>8. eng' = Engine(eng'.zone, Targets(tgt'), AsSensor(sens'.static), AsSensor(sens'.motion), sens'.ever,
                        eng'.assist)
        BY <3>4, <3>5, <3>6, <3>7
    <3>9. Alike(eng'.zone, zone') /\ (sens'.ever => eng'.assist = Unless(assist'.since, Unset))
        BY <3>2, <3>3, <3>5, <3>7
    <3> QED BY <3>8, <3>9 DEF Mirror
  <2> QED BY <2>2, <2>3, <2>4, <2>6, <2>7 DEF Stepping
<1> QED BY <1>7, <1>8 DEF PInv

\* An edit of the grid forgets the targets on both sides.
LEMMA EditGridDated == ASSUME IInv, PInv, EditGrid PROVE PInv'
<1>1. PICK g \in Grids : SetGrid(g) BY DEF EditGrid
<1>2. /\ grid' = g /\ tgt' = [i \in Slots |-> Fresh] /\ inStep' = inStep
      /\ UNCHANGED <<cfg, zone, sens, assist, now>>
    BY <1>1 DEF SetGrid, EditGrid
<1>3. eng' = [eng EXCEPT !.target = [i \in Slots |-> Local!NoTarget]]
  <2>1. Local!Slots = Slots BY DEF Local!Slots, Slots
  <2> QED BY <2>1 DEF EditGrid, Local!GridChanged, Local!ResetForGridChange
<1>4. now' >= StartTime /\ assist'.since >= Unset /\ grid' \in Grids \cup {BlankGrid'} BY <1>2 DEF PInv
<1>5. ASSUME inStep' PROVE Stepping'
  <2>1. Stepping BY <1>2, <1>5 DEF PInv
  <2>2. GridShown' /\ cfg' \in ZoneConfigs BY <1>2, <2>1 DEF GridShown, Stepping
  <2>3. ZonesDated' /\ SensorsDated' BY <1>2, <2>1 DEF Stepping, ZonesDated, SensorsDated
  <2>4. TgtRooted' BY <1>2 DEF TgtRooted, Fresh
  <2>5. Mirror'
    <3> DEFINE zn == eng.zone
               tg == Targets(tgt)
               sa == AsSensor(sens.static)
               sm == AsSensor(sens.motion)
               ev == sens.ever
               n == eng.assist
               th == [i \in Slots |-> Local!NoTarget]
    <3>1. eng = Engine(zn, tg, sa, sm, ev, n) /\ Alike(zn, zone) BY <2>1 DEF Stepping, Mirror
    <3>2. ev => n = Unless(assist.since, Unset) BY <2>1 DEF Stepping, Mirror
    <3>3. th = Targets(tgt') BY <1>2, FreshAs DEF Targets
    <3>4. AsSensor(sens'.static) = sa /\ AsSensor(sens'.motion) = sm /\ sens'.ever = ev
          /\ assist'.since = assist.since /\ zone' = zone
        BY <1>2
    <3> HIDE DEF zn, tg, sa, sm, ev, n, th
    <3>5. eng' = Engine(zn, th, sa, sm, ev, n) BY <1>3, <3>1 DEF Engine, th
    <3>6. eng'.zone = zn /\ eng'.assist = n BY <3>5 DEF Engine
    <3>7. eng' = Engine(eng'.zone, Targets(tgt'), AsSensor(sens'.static), AsSensor(sens'.motion), sens'.ever,
                        eng'.assist)
        BY <3>3, <3>4, <3>5, <3>6
    <3>8. Alike(eng'.zone, zone') /\ (sens'.ever => eng'.assist = Unless(assist'.since, Unset))
        BY <3>1, <3>2, <3>4, <3>6
    <3> QED BY <3>7, <3>8 DEF Mirror
  <2> QED BY <2>1, <2>2, <2>3, <2>4, <2>5 DEF Stepping
<1> QED BY <1>4, <1>5 DEF PInv

\* A new configuration resets both; the grace timers it leaves count for nothing
\* until a sensor is seen.
LEMMA EditZonesDated == ASSUME IInv, PInv, EditZones PROVE PInv'
<1>1. PICK f \in ZoneConfigs : SetZones(f) BY DEF EditZones
<1>2. /\ cfg' = f /\ zone' = [z \in Zones |-> Idle] /\ tgt' = [i \in Slots |-> Fresh]
      /\ sens' = QuietSensors /\ UNCHANGED <<grid, assist, now>>
    BY <1>1 DEF SetZones
<1> DEFINE n == eng.assist
           zn == [z \in {} |-> Local!NewZone]
           th == [i \in Slots |-> Local!NoTarget]
           ev == FALSE
<1>3. eng' = Engine(zn, th, Local!Inactive, Local!Inactive, ev, n)
  <2>1. Local!Slots = Slots BY DEF Local!Slots, Slots
  <2>2. eng' = [Local!CreateState EXCEPT !.assist = n]
      BY DEF EditZones, Local!ZoneConfigChanged, Local!ResetForZoneConfigChange
  <2>3. Local!CreateState = Engine(zn, th, Local!Inactive, Local!Inactive, ev, Null)
      BY <2>1 DEF Local!CreateState, Engine
  <2> HIDE DEF zn, th, ev, n
  <2> QED BY <2>2, <2>3 DEF Engine
<1>4. BlankGrid' = BlankGrid BY DEF BlankGrid
<1>5. now' >= StartTime /\ assist'.since >= Unset /\ grid' \in Grids \cup {BlankGrid'}
    BY <1>2, <1>4 DEF PInv
<1>6. cfg' \in ZoneConfigs BY <1>2
<1>7. GridShown' BY <1>2, <1>4 DEF PInv, GridShown
<1>8. ZonesDated' /\ SensorsDated'
    BY <1>2 DEF ZonesDated, SensorsDated, Idle, QuietSensors, QuietSensor
<1>9. TgtRooted' BY <1>2 DEF TgtRooted, Fresh
<1>10. Mirror'
  <2>1. th = Targets(tgt') BY <1>2, FreshAs DEF Targets
  <2>2. AsSensor(QuietSensor) = Local!Inactive
    <3>1. Unless(Unset, Unset) = Null BY DEF Unless
    <3> QED BY <3>1 DEF AsSensor, QuietSensor, Local!Inactive, Lower
  <2>3. sens'.static = QuietSensor /\ sens'.motion = QuietSensor /\ sens'.ever = ev
      BY <1>2 DEF QuietSensors
  <2>4. Alike(zn, zone')
    <3>1. \A z \in Zones : zone'[z] = Idle BY <1>2
    <3>2. \A z : Of(zn, z) = Local!NewZone BY DEF Of
    <3> QED BY <3>1, <3>2, AsIdle DEF Alike
  <2>5. ~sens'.ever BY <2>3
  <2> HIDE DEF zn, th, ev, n
  <2>6. eng'.zone = zn /\ eng'.assist = n BY <1>3 DEF Engine
  <2>7. eng' = Engine(eng'.zone, Targets(tgt'), AsSensor(sens'.static), AsSensor(sens'.motion), sens'.ever,
                      eng'.assist)
      BY <1>3, <2>1, <2>2, <2>3, <2>6
  <2>8. Alike(eng'.zone, zone') BY <2>4, <2>6
  <2> QED BY <2>5, <2>7, <2>8 DEF Mirror
<1> QED BY <1>5, <1>6, <1>7, <1>8, <1>9, <1>10 DEF PInv, Stepping

LEMMA PStep == ASSUME ParityAssumption, IInv, TrackedWell, PInv, [PNext]_pvars PROVE PInv'
<1>1. CASE Frame BY <1>1, FrameDated
<1>2. CASE Dismiss BY <1>2, DismissDated
<1>3. CASE EditGrid BY <1>3, EditGridDated
<1>4. CASE EditZones BY <1>4, EditZonesDated
<1>5. ASSUME UNCHANGED <<eng, inStep, grid, cfg, zone, tgt, sens, now>>, assist'.since = assist.since
      PROVE  PInv'
  <2>1. BlankGrid' = BlankGrid BY DEF BlankGrid
  <2>2. (GridShown => GridShown') /\ (TgtRooted => TgtRooted') /\ (ZonesDated => ZonesDated')
        /\ (SensorsDated => SensorsDated')
      BY <1>5, <2>1 DEF GridShown, TgtRooted, ZonesDated, SensorsDated
  <2>3. Mirror => Mirror' BY <1>5 DEF Mirror
  <2> QED BY <1>5, <2>1, <2>2, <2>3 DEF PInv, Stepping
<1>6. CASE EditSettings
  <2>1. assist'.since = assist.since
      BY <1>6 DEF EditSettings, SetStuckTargetTimeout, SetAssistedClear, IInv, TypeOK
  <2>2. UNCHANGED <<eng, inStep, grid, cfg, zone, tgt, sens, now>>
      BY <1>6 DEF EditSettings, SetStuckTargetTimeout, SetAssistedClear
  <2> QED BY <1>5, <2>1, <2>2
<1>7. CASE Reopen
  <2>1. BlankGrid' = BlankGrid BY DEF BlankGrid
  <2>2. ~inStep' /\ UNCHANGED <<grid, now, assist>> BY <1>7 DEF Reopen, vars
  <2> QED BY <2>1, <2>2 DEF PInv
<1>8. CASE UNCHANGED pvars BY <1>5, <1>8 DEF pvars, vars
<1> QED BY <1>1, <1>2, <1>3, <1>4, <1>6, <1>7, <1>8 DEF PNext

LEMMA PStart == ASSUME PInit PROVE PInv
<1>1. now = StartTime /\ assist.since = Unset /\ grid = BlankGrid /\ inStep = FALSE
    BY DEF PInit, Init
<1>2. StartTime \in Int BY ClockAssumption
<1> QED BY <1>1, <1>2 DEF PInv, Unset

LEMMA MirrorShown == ASSUME Mirror, inStep PROVE MirrorsFirmware
<1>1. /\ eng.target = Targets(tgt) /\ eng.static = AsSensor(sens.static)
      /\ eng.motion = AsSensor(sens.motion) /\ eng.everActive = sens.ever
      /\ Alike(eng.zone, zone) /\ (sens.ever => eng.assist = Unless(assist.since, Unset))
    BY MirrorFacts
<1>2. \A z \in Zones : SameZone(z) BY <1>1 DEF SameZone, Alike, Of, Local!ZoneOf
<1>3. \A i \in Slots : SameTarget(i) BY <1>1 DEF SameTarget, Targets
<1>4. SameSensor(eng.static, sens.static) /\ SameSensor(eng.motion, sens.motion)
    BY <1>1 DEF SameSensor, AsSensor
<1> QED BY <1>1, <1>2, <1>3, <1>4 DEF MirrorsFirmware

\* The run of both is a run of the engine.
LEMMA PNextIsNext == ASSUME [PNext]_pvars PROVE [Next]_vars
<1>1. CASE Frame BY <1>1 DEF Frame, Next, TickSome
<1>2. CASE Dismiss BY <1>2 DEF Dismiss, Next, DismissSome
<1>3. CASE EditGrid BY <1>3 DEF EditGrid, Next, Configure
<1>4. CASE EditZones BY <1>4 DEF EditZones, Next, Configure
<1>5. CASE EditSettings BY <1>5 DEF EditSettings, Next, Configure
<1>6. CASE Reopen BY <1>6 DEF Reopen
<1>7. CASE UNCHANGED pvars BY <1>7 DEF pvars
<1> QED BY <1>1, <1>2, <1>3, <1>4, <1>5, <1>6, <1>7 DEF PNext

\* The joint run does to the engine only what the engine can do.
THEOREM EngineRunsAlone == PSpec => Spec
<1>1. PInit => Init BY DEF PInit
<1>2. [PNext]_pvars => [Next]_vars BY PNextIsNext
<1> QED BY <1>1, <1>2, PTL DEF PSpec, Spec

\* What holds in every joint run.
Joint == IInv /\ TrackedWell /\ PInv

\* The joint run keeps that, given what the two behave alike under.
THEOREM JointAlways == ASSUME ParityAssumption PROVE PSpec => []Joint
<1>1. PInit => Joint BY InitInv, TrackedInit, PStart DEF PInit, Joint
<1>2. Joint /\ [PNext]_pvars => Joint'
  <2> SUFFICES ASSUME Joint, [PNext]_pvars PROVE Joint' OBVIOUS
  <2>1. IInv /\ TrackedWell /\ PInv /\ [Next]_vars BY PNextIsNext DEF Joint
  <2>2. IInv' /\ TrackedWell' BY <2>1, StepInv, TrackedStep
  <2>3. PInv' BY <2>1, PStep
  <2> QED BY <2>2, <2>3 DEF Joint
<1> QED BY <1>1, <1>2, PTL DEF PSpec

\* In step, the replica's zones, targets, sensors and grace timer are the
\* firmware's: no pass of the tick, dismissal or edit lets them drift apart.
THEOREM ReplicaMirrorsFirmware == ASSUME ParityAssumption PROVE PSpec => []MirrorsFirmware
<1>1. Joint => MirrorsFirmware
  <2>1. ASSUME Joint, inStep PROVE MirrorsFirmware BY <2>1, MirrorShown DEF Joint, PInv, Stepping
  <2> QED BY <2>1 DEF MirrorsFirmware
<1> QED BY <1>1, JointAlways, PTL

\* What the editor shows of a frame in step is what the device reports of it.
THEOREM ReplicaReportsAlike == ASSUME ParityAssumption PROVE PSpec => ReportsAlike
<1> DEFINE A == inStep /\ Ticked =>
                  /\ res'.occupied = out'.occ /\ res'.status = out'.status
                  /\ res'.sensorOccupancy = out'.occupancy /\ res'.mmwave = out'.mmwave
<1>1. Joint /\ [PNext]_pvars => [A]_pvars
  <2> SUFFICES ASSUME Joint, PNext, inStep, Ticked PROVE A OBVIOUS
  <2>1. IInv /\ TrackedWell /\ PInv /\ Stepping BY DEF Joint, PInv
  <2>2. CASE Frame
    <3>1. PICK w \in Windows, on \in SensorInputs, d \in Steps :
             /\ Tick(w, on, d)
             /\ IF cfg = NoConfig THEN UNCHANGED <<eng, res>>
                ELSE Local!RunLocalZoneEngine(Params(w, on, now'))
        BY <2>2 DEF Frame
    <3>2. cfg # NoConfig
      <4>1. 0 \in DOMAIN cfg BY <2>1, ConfigsAssumption DEF Stepping
      <4> QED BY <4>1 DEF NoConfig
    <3>3. now >= StartTime /\ assist.since >= Unset BY <2>1 DEF PInv
    <3>4. Tick(w, on, d) /\ Local!RunLocalZoneEngine(Params(w, on, now')) BY <3>1, <3>2
    <3> QED BY <2>1, <3>3, <3>4, FrameStep
  <2>3. CASE Dismiss \/ EditGrid \/ EditZones \/ EditSettings
    <3>1. DismissSome \/ Configure
        BY <2>3 DEF Dismiss, DismissSome, EditGrid, EditZones, EditSettings, Configure
    <3>2. CallKept BY <2>1, <3>1, DismissKept, ConfigureKept
    <3> QED BY <3>2 DEF CallKept, Ticked
  <2>4. CASE Reopen BY <2>4 DEF Reopen, vars, Ticked
  <2> QED BY <2>2, <2>3, <2>4 DEF PNext
<1> HIDE DEF A
<1>2. PSpec => [][A]_pvars BY <1>1, JointAlways, PTL DEF PSpec
<1> QED BY <1>2, PTL DEF ReportsAlike, A

=============================================================================
