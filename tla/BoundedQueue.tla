---------------------------- MODULE BoundedQueue ----------------------------
(***************************************************************************)
(* The queues of the simulator that let their oldest elements go: the code *)
(* appends, then shifts while the queue is too long.                       *)
(***************************************************************************)
EXTENDS Naturals, Sequences

Newest(s, n) == IF Len(s) <= n THEN s ELSE SubSeq(s, Len(s) - n + 1, Len(s))

=============================================================================
