---------------------------- MODULE MCFrameLink ----------------------------
(***************************************************************************)
(* A small line: periods of one sample.                                    *)
(***************************************************************************)
EXTENDS FrameLink

=============================================================================
