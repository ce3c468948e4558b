--------------------------- MODULE MCLiveStreams ----------------------------
(***************************************************************************)
(* Instances of LiveStreams: one core stream and the overlay.              *)
(***************************************************************************)
EXTENDS LiveStreams

CONSTANTS m1, m2

\* A call may be superseded while the core stream asks again; the overlay's
\* next call waits until its last one is gone.
GridTwoHeatOne == [s \in {"grid", "heatmap"} |-> IF s = "grid" THEN {1, 2} ELSE {1}]
=============================================================================
