---------------------------- MODULE MCPageAudio ----------------------------
(***************************************************************************)
(* Two units, the module types the page begins and adds with.              *)
(***************************************************************************)
EXTENDS PageAudio

MCKeys == {"delay", "passthrough"}

=============================================================================
