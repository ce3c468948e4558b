--------------------------- MODULE MCDeviceSession ---------------------------
(***************************************************************************)
(* Two panels and one durable stream, or a panel and a stream, on one      *)
(* device; the cfg files say which.  Panels are interchangeable.           *)
(***************************************************************************)
EXTENDS DeviceSession, TLC

AnyPanel == Permutations(Openers \ Streams)
=============================================================================
