------------------------ MODULE MCSubscriptionStore -------------------------
(***************************************************************************)
(* Instances of SubscriptionStore.                                         *)
(***************************************************************************)
EXTENDS SubscriptionStore

CONSTANTS c1, c2, d1, d2

\* Two cards that share a device, or one card that is moved between two.
TwoDashboards == {[c \in {c1, c2} |-> {d1}], [c \in {c1, c2} |-> IF c = c1 THEN {d1, d2} ELSE {}]}
=============================================================================
