------------------------------- MODULE Merger -------------------------------
(***************************************************************************)
(* The merger module (merger.h).  Its upstream function runs when a period *)
(* has arrived from the next module, its downstream function when one has  *)
(* arrived from the previous module: two clocks, whose order nobody fixes. *)
(* One ring carries the upstream input over to the downstream output, the  *)
(* other one the scaled downstream input to the upstream output.           *)
(*                                                                         *)
(* Of the samples only the paths are modelled, not the arithmetic: a mix   *)
(* is what a period takes from the ring, and the gain and the compressor   *)
(* turn the downstream input into any buffer.                              *)
(***************************************************************************)
EXTENDS MergerRing, Integers

CONSTANTS
  Period,   \* the buffers that arrive from the neighbors
  MaxSkew   \* bound: periods that one direction is ahead of the other

ASSUME PeriodAssumption == Period \subseteq Buffer /\ MaxSkew \in Nat

VARIABLES
  mergerRing, mergerRevRing,
  upstreamMix, downstreamMix,
  colour,             \* the colour this call has set: "none" if it set none
  skew,               \* history: upstream periods less downstream periods
  least, most,        \* history: the extremes of skew
  underruns           \* history: downstream periods that missed samples, counted
                      \* up to MaxSkew + 1

rings == <<mergerRing, mergerRevRing>>
mixes == <<upstreamMix, downstreamMix>>
history == <<skew, least, most, underruns>>
vars == <<rings, mixes, colour, history>>

Mix == {<<>>} \cup UNION {[1 .. n -> Sample] : n \in 1 .. BufferLen}

TypeOK ==
  /\ mergerRing \in Ring /\ WellFormed(mergerRing)
  /\ mergerRevRing \in Ring /\ WellFormed(mergerRevRing)
  /\ upstreamMix \in Mix /\ downstreamMix \in Mix
  /\ colour \in {"none", "red", "yellow"}
  /\ skew \in Int /\ least \in Int /\ most \in Int /\ underruns \in Nat

Init ==
  /\ mergerRing = EmptyRing /\ mergerRevRing = EmptyRing
  /\ upstreamMix = <<>> /\ downstreamMix = <<>>
  /\ colour = "none"
  /\ skew = 0 /\ least = 0 /\ most = 0 /\ underruns = 0

moduleSetup ==
  /\ mergerRing' = EmptyRing /\ mergerRevRing' = EmptyRing
  /\ upstreamMix' = <<>> /\ downstreamMix' = <<>>
  /\ colour' = "none"
  /\ skew' = 0 /\ least' = 0 /\ most' = 0 /\ underruns' = 0

Quiet(n) == [i \in 1 .. n |-> Silence]

Elapse(d) ==
  /\ skew' = skew + d
  /\ least' = IF skew' < least THEN skew' ELSE least
  /\ most' = IF skew' > most THEN skew' ELSE most

\* moduleLoopUpstream: pass the input on, keep a copy for the other direction,
\* mix in what that direction has left for this one.
FaultyLoopUpstream ==  \* faulty variant: the overrun is not shown
  /\ skew < MaxSkew
  /\ \E xs \in Period : mergerRing' = PushSamples(mergerRing, xs)
  /\ colour' = "none"
  /\ upstreamMix' = Popped(mergerRevRing, BufferLen)
  /\ mergerRevRing' = PopSamples(mergerRevRing, BufferLen)
  /\ Elapse(1) /\ UNCHANGED <<downstreamMix, underruns>>

moduleLoopUpstream ==
  /\ skew < MaxSkew
  /\ \E xs \in Period :
       /\ mergerRing' = PushSamples(mergerRing, xs)
       /\ colour' = IF Overrun(mergerRing, xs) THEN "red" ELSE "none"
  /\ upstreamMix' = Popped(mergerRevRing, BufferLen)
  /\ mergerRevRing' = PopSamples(mergerRevRing, BufferLen)
  /\ Elapse(1)
  /\ UNCHANGED <<downstreamMix, underruns>>

\* moduleLoopDownstream: one sample at a time from the ring, silence for each
\* that is missing; then, if any was, a period of silence into the ring.
FaultyLoopDownstream ==  \* faulty variant: no silence is put into the ring
  /\ skew > -MaxSkew
  /\ downstreamMix' = Popped(mergerRing, BufferLen)
                        \o Quiet(BufferLen - Lesser(BufferLen, mergerRing.count))
  /\ mergerRing' = PopSamples(mergerRing, BufferLen)
  /\ underruns' = IF mergerRing.count < BufferLen THEN Lesser(underruns + 1, MaxSkew + 1) ELSE underruns
  /\ \E ys \in Period :
       /\ mergerRevRing' = PushSamples(mergerRevRing, ys)
       /\ colour' = IF Overrun(mergerRevRing, ys) THEN "red" ELSE "none"
  /\ Elapse(-1) /\ UNCHANGED upstreamMix

moduleLoopDownstream ==
  /\ skew > -MaxSkew
  /\ LET underrunMissing == BufferLen - Lesser(BufferLen, mergerRing.count)
         drained == PopSamples(mergerRing, BufferLen)
     IN  /\ downstreamMix' = Popped(mergerRing, BufferLen) \o Quiet(underrunMissing)
         /\ mergerRing' = IF underrunMissing > 0
                            THEN PushSamples(drained, Quiet(BufferLen)) ELSE drained
         /\ underruns' = IF underrunMissing > 0 THEN Lesser(underruns + 1, MaxSkew + 1) ELSE underruns
         /\ \E ys \in Period :
              /\ mergerRevRing' = PushSamples(mergerRevRing, ys)
              /\ colour' = IF Overrun(mergerRevRing, ys) THEN "red"
                           ELSE IF underrunMissing > 0 THEN "yellow" ELSE "none"
  /\ Elapse(-1)
  /\ UNCHANGED upstreamMix

Next == moduleSetup \/ moduleLoopUpstream \/ moduleLoopDownstream

Spec == Init /\ [][Next]_vars

-----------------------------------------------------------------------------
(***************************************************************************)
(* Properties.                                                             *)
(***************************************************************************)
\* The rings are the two queues that the merger promises, whatever has been
\* pushed over the end of the arrays, dropped or padded before.
Queues == INSTANCE MergerQueues
            WITH toDownstream <- Contents(mergerRing),
                 toUpstream <- Contents(mergerRevRing)
QueuesSpec == Queues!Spec

\* The ring has room for the jitter seen since the module was set up.
Roomy == (most - least + 1) * BufferLen <= Capacity

\* "Add a frame of silence to help stabilize buffer": with room in the rings
\* the downstream direction misses samples at most once for every two periods
\* it has been ahead, however often it gets ahead again, and the sound is never
\* later than the jitter explains.
UnderrunsStop ==
  Roomy => /\ 2 * underruns <= 1 - least
           /\ mergerRing.count = (skew + 2 * underruns) * BufferLen
           /\ mergerRevRing.count <= (most - least) * BufferLen

\* A period that makes a ring forget samples shows it.
LossIsShown ==
  [][moduleSetup
     \/ /\ skew' > skew /\ mergerRing'.count < mergerRing.count + BufferLen
             => colour' = "red"
        /\ skew' < skew /\ mergerRevRing'.count < mergerRevRing.count + BufferLen
             => colour' = "red"]_vars

=============================================================================
