---------------------------- MODULE ZoneHistory -----------------------------
(***************************************************************************)
(* The zone engine with three observers that only watch it: how long each  *)
(* zone has been waiting, how long the presence sensors have agreed that   *)
(* the room is empty, and how long each slot has stood on one point.  They *)
(* measure elapsed time, so they do not wrap with the engine's clock.      *)
(***************************************************************************)
EXTENDS ZoneEngine

VARIABLES
    quiet,     \* per zone: time since it turned PENDING, while it is PENDING
    emptyFor,  \* time since the room was first found empty, or Unset
    dwell      \* per slot: time at one identical position in consecutive ticks

hvars == <<vars, quiet, emptyFor, dwell>>

HInit == /\ Init
         /\ quiet = [z \in Zones |-> 0]
         /\ emptyFor = Unset
         /\ dwell = [i \in Slots |-> 0]

Elapsed == (now' - now) % ClockWrap

ObserveZones ==
    quiet' = [z \in Zones |->
        IF zone[z].state = "PENDING" /\ zone'[z].state = "PENDING"
        THEN quiet[z] + Elapsed ELSE 0]

ObserveTick ==
    /\ emptyFor' = IF ~RoomEmpty(sens', zone') THEN Unset
                   ELSE IF emptyFor = Unset THEN 0 ELSE emptyFor + Elapsed
    /\ dwell' = [i \in Slots |->
        IF win[i].active /\ win'[i].active /\ win[i].pos = win'[i].pos
        THEN dwell[i] + Elapsed ELSE 0]

HNext == \/ TickSome /\ ObserveZones /\ ObserveTick
         \/ (DismissSome \/ Configure) /\ ObserveZones /\ UNCHANGED <<emptyFor, dwell>>

HSpec == HInit /\ [][HNext]_hvars

-----------------------------------------------------------------------------

Least(a, b) == IF a < b THEN a ELSE b
Most(a, b) == IF a < b THEN b ELSE a

\* A zone that nobody is confirmed in clears in time: it never waits as long as
\* its hold timeout (or its handoff timeout, should that be longer), whatever
\* relocations, handoffs, overlay exits, dismissals and grid edits happen.
HoldBound ==
    \A z \in Configured : zone[z].state = "PENDING" =>
        quiet[z] < Most(cfg[z].timeout, cfg[z].handoff)

\* ... and not too early: a tick clears a zone only when it has waited for the
\* shorter of its two timeouts, or the assisted clear is on and the room has
\* been empty by both sensors for the whole grace period, or the stuck rule
\* dismissed the last target confirmed in it.
NoEarlyClear ==
    [][\A z \in Configured :
         zone[z].state # "CLEAR" /\ zone'[z].state = "CLEAR" /\ Ticked =>
           \/ quiet[z] + Elapsed >= Least(cfg[z].timeout, cfg[z].handoff)
           \/ assist.enabled /\ emptyFor' >= assist.timeout
           \/ \E i \in Slots :
                /\ tgt'[i].dismissed # NoCell /\ tgt'[i].dismissed # tgt[i].dismissed
                /\ grid.zone[tgt'[i].dismissed] = z]_hvars

\* The stuck rule dismisses only a target reported at one identical position in
\* every tick of the whole stuck timeout.
StuckNeedsDwell ==
    [][\A i \in Slots :
         Ticked /\ win'[i].active
         /\ tgt'[i].dismissed # NoCell /\ tgt'[i].dismissed # tgt[i].dismissed
         => dwell'[i] >= stuckTimeout]_hvars
=============================================================================
