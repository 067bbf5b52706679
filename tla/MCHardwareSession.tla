------------------------- MODULE MCHardwareSession -------------------------
(***************************************************************************)
(* HardwareSession for TLC: two operations at once.                        *)
(***************************************************************************)
EXTENDS HardwareSession

=============================================================================
