------------------------------ MODULE MCMerger ------------------------------
(***************************************************************************)
(* Merger with periods of two samples, which differ, so that a sample out  *)
(* of its place shows.                                                     *)
(***************************************************************************)
EXTENDS Merger

MCPeriod == {<<0, 1>>, <<1, 0>>}

=============================================================================
