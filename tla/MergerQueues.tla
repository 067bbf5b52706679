---------------------------- MODULE MergerQueues ----------------------------
(***************************************************************************)
(* What the merger promises of the two paths between its directions: each  *)
(* is a first-in first-out queue of samples that forgets the oldest ones   *)
(* when it is full.  A downstream period that finds too few samples plays  *)
(* silence for the missing ones and puts one period of silence in front of *)
(* what comes next.                                                        *)
(***************************************************************************)
EXTENDS Naturals, Sequences

CONSTANTS
  Capacity, BufferLen, Silence,
  Period      \* the buffers that arrive from the neighbors

VARIABLES
  toDownstream,   \* upstream input not yet mixed into downstream output
  toUpstream,     \* downstream contribution not yet mixed into upstream output
  upstreamMix,    \* what the last upstream period mixed in
  downstreamMix   \* what the last downstream period mixed in

vars == <<toDownstream, toUpstream, upstreamMix, downstreamMix>>

Quiet(n) == [i \in 1 .. n |-> Silence]
Newest(s, n) == IF Len(s) <= n THEN s ELSE SubSeq(s, Len(s) - n + 1, Len(s))
Oldest(s, n) == IF Len(s) <= n THEN s ELSE SubSeq(s, 1, n)
Rest(s, n) == IF Len(s) <= n THEN <<>> ELSE SubSeq(s, n + 1, Len(s))

Init ==
  /\ toDownstream = <<>> /\ toUpstream = <<>>
  /\ upstreamMix = <<>> /\ downstreamMix = <<>>

Upstream ==
  /\ \E xs \in Period : toDownstream' = Newest(toDownstream \o xs, Capacity)
  /\ upstreamMix' = Oldest(toUpstream, BufferLen)
  /\ toUpstream' = Rest(toUpstream, BufferLen)
  /\ UNCHANGED downstreamMix

Downstream ==
  /\ \E ys \in Period : toUpstream' = Newest(toUpstream \o ys, Capacity)
  /\ LET got == Oldest(toDownstream, BufferLen)
     IN  IF Len(got) < BufferLen
           THEN /\ downstreamMix' = got \o Quiet(BufferLen - Len(got))
                /\ toDownstream' = Quiet(BufferLen)
           ELSE /\ downstreamMix' = got
                /\ toDownstream' = Rest(toDownstream, BufferLen)
  /\ UNCHANGED upstreamMix

Setup == vars' = <<<<>>, <<>>, <<>>, <<>>>>

Next == Upstream \/ Downstream \/ Setup

Spec == Init /\ [][Next]_vars

=============================================================================
