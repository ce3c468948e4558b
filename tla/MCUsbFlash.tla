----------------------------- MODULE MCUsbFlash -----------------------------
(***************************************************************************)
(* An instance of UsbFlash for TLC; operations are interchangeable.        *)
(***************************************************************************)
EXTENDS UsbFlash, TLC

CONSTANTS f1, f2, f3

AnyOrder == Permutations(Flows)
=============================================================================
