--------------------------- MODULE MCSlotAdapter ---------------------------
(***************************************************************************)
(* SlotAdapter with rings of one and two frames, a transport that takes    *)
(* two requests and connections of a few periods.                          *)
(***************************************************************************)
EXTENDS SlotAdapter

=============================================================================
