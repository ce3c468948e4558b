--------------------------- MODULE MCPanelSession ---------------------------
(***************************************************************************)
(* An instance of PanelSession for TLC: two devices to pick from and three *)
(* pipelines, so that one runs, one waits for it and one is started anew.  *)
(***************************************************************************)
EXTENDS PanelSession

CONSTANTS m1, m2
=============================================================================
