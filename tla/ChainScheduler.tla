--------------------------- MODULE ChainScheduler ---------------------------
(***************************************************************************)
(* The chain scheduler of the simulator (chain-scheduler.js).  processBuffer *)
(* sweeps over the units from right to left and overwrites each unit's     *)
(* previous outputs as it goes: one Step here is one turn of its loop.     *)
(* Slots are numbered from 1 (from 0 in the code); slot is the one whose   *)
(* turn is next, 0 between two calls of processBuffer.                     *)
(*                                                                         *)
(* A buffer is one of a few values.  What a unit computes is any value:    *)
(* the modules, and the device behind the adapter, have a memory of their  *)
(* own.                                                                    *)
(***************************************************************************)
EXTENDS Naturals, Sequences, BoundedQueue

CONSTANTS
  Value,          \* what a buffer may hold
  Silence,
  Layouts,        \* the chains the operator builds: sequences of kinds
  RingDepth,      \* DEFAULT_RING_DEPTH
  AdaptiveDepth   \* ADAPTIVE_RING_DEPTH

\* A slot with a compiled module; the connected hardware slot; a slot that is
\* still loading or waits for its hardware.
Kind == {"wasm", "hardware", "silent"}

ASSUME SchedulerAssumption ==
  /\ Silence \in Value
  /\ Layouts \subseteq Seq(Kind) \ {<<>>}   \* audio needs a unit to start
  /\ \A l \in Layouts : \A i, j \in 1 .. Len(l) :   \* setHardwareDesignated
       l[i] = "hardware" /\ l[j] = "hardware" => i = j
  /\ RingDepth \in Nat \ {0}
  /\ AdaptiveDepth \in Nat /\ RingDepth <= AdaptiveDepth

VARIABLES
  slots, loopbackEnabled,
  prevDsOut, prevUsOut,     \* the units' latest outputs
  hwDelayDs, hwDelayUs,     \* the delay lines of the slots
  gatewayDsOut, gatewayUsOut, playbackUs,
  slot,
  pipelineDelayPeriods,     \* of the adapter: maxInbound
  pushed,                   \* the inputs last given to the adapter
  dsIn, usIn,               \* what the units have heard in this period
  hwHeard,                  \* history: the latest inputs of a hardware slot
  last                      \* history: inputs and outputs of the last period

chain == <<slots, loopbackEnabled>>
outputs == <<prevDsOut, prevUsOut>>
lines == <<hwDelayDs, hwDelayUs, pushed, hwHeard>>
gateway == <<gatewayDsOut, gatewayUsOut, playbackUs>>
inputs == <<dsIn, usIn>>
vars == <<chain, outputs, lines, gateway, slot, pipelineDelayPeriods, inputs, last>>

Pair == [ds : Value, us : Value]
Buffers(n) == [1 .. n -> Value]
Quiet(n) == [i \in 1 .. n |-> Silence]
Whole(n) == [dsIn : Buffers(n), usIn : Buffers(n), dsOut : Buffers(n), usOut : Buffers(n)]

TypeOK ==
  /\ slots \in Layouts
  /\ loopbackEnabled \in BOOLEAN
  /\ prevDsOut \in Buffers(Len(slots)) /\ prevUsOut \in Buffers(Len(slots))
  /\ hwDelayDs \in [1 .. Len(slots) -> Seq(Value)]
  /\ hwDelayUs \in [1 .. Len(slots) -> Seq(Value)]
  /\ gatewayDsOut \in Value /\ gatewayUsOut \in Value /\ playbackUs \in Value
  /\ slot \in 0 .. Len(slots)
  /\ pipelineDelayPeriods \in {RingDepth, AdaptiveDepth}
  /\ pushed \in Pair
  /\ dsIn \in Buffers(Len(slots)) /\ usIn \in Buffers(Len(slots))
  /\ hwHeard \in [1 .. Len(slots) -> Seq(Pair)]
  /\ last \in Whole(Len(slots))

\* setSlots and resetPathDelayState: everything between the units is cleared.
Cleared(n) ==
  /\ prevDsOut' = Quiet(n) /\ prevUsOut' = Quiet(n)
  /\ hwDelayDs' = [i \in 1 .. n |-> <<>>] /\ hwDelayUs' = [i \in 1 .. n |-> <<>>]
  /\ dsIn' = Quiet(n) /\ usIn' = Quiet(n)
  /\ hwHeard' = [i \in 1 .. n |-> <<>>]
  /\ last' = [dsIn |-> Quiet(n), usIn |-> Quiet(n), dsOut |-> Quiet(n), usOut |-> Quiet(n)]

Init ==
  /\ slots \in Layouts
  /\ loopbackEnabled \in BOOLEAN
  /\ LET n == Len(slots)
     IN  /\ prevDsOut = Quiet(n) /\ prevUsOut = Quiet(n)
         /\ hwDelayDs = [i \in 1 .. n |-> <<>>] /\ hwDelayUs = [i \in 1 .. n |-> <<>>]
         /\ dsIn = Quiet(n) /\ usIn = Quiet(n)
         /\ hwHeard = [i \in 1 .. n |-> <<>>]
         /\ last = [dsIn |-> Quiet(n), usIn |-> Quiet(n),
                    dsOut |-> Quiet(n), usOut |-> Quiet(n)]
  /\ gatewayDsOut = Silence /\ gatewayUsOut = Silence /\ playbackUs = Silence
  /\ slot = 0
  /\ pipelineDelayPeriods = RingDepth
  /\ pushed = [ds |-> Silence, us |-> Silence]

-----------------------------------------------------------------------------
\* The page rebuilds the chain (syncBindingsToScheduler).  The adapter has been
\* started anew if the hardware slot has just been connected.
FaultySetSlots ==       \* faulty variant: the delay lines of added slots are missing
  /\ slot = 0
  /\ slots' \in Layouts /\ loopbackEnabled' \in BOOLEAN
  /\ LET n == Len(slots')
     IN  /\ prevDsOut' = Quiet(n) /\ prevUsOut' = Quiet(n)
         /\ dsIn' = Quiet(n) /\ usIn' = Quiet(n)
         /\ last' = [dsIn |-> Quiet(n), usIn |-> Quiet(n),
                     dsOut |-> Quiet(n), usOut |-> Quiet(n)]
  /\ hwDelayDs' = [i \in DOMAIN hwDelayDs |-> <<>>]
  /\ hwDelayUs' = [i \in DOMAIN hwDelayUs |-> <<>>]
  /\ hwHeard' = [i \in 1 .. Len(slots') |-> <<>>]
  /\ UNCHANGED <<gateway, slot, pipelineDelayPeriods, pushed>>

SetSlots ==
  /\ slot = 0
  /\ slots' \in Layouts
  /\ loopbackEnabled' \in BOOLEAN
  /\ Cleared(Len(slots'))
  /\ pipelineDelayPeriods' \in {RingDepth, pipelineDelayPeriods}
  /\ UNCHANGED <<gateway, slot, pushed>>

\* The adapter has seen too many underruns (_maybeAdaptRingDepth).
AdaptDepth ==
  /\ slot = 0
  /\ pipelineDelayPeriods' = AdaptiveDepth
  /\ UNCHANGED <<chain, outputs, lines, gateway, slot, inputs, last>>

\* processBuffer up to its loop: the microphone or silence, and the playback
\* buffer, which is taken before the loop overwrites it.
Begin ==
  /\ slot = 0
  /\ gatewayDsOut' \in Value
  /\ playbackUs' = prevUsOut[1]
  /\ slot' = Len(slots)
  /\ UNCHANGED <<chain, outputs, lines, gatewayUsOut, pipelineDelayPeriods, inputs, last>>

\* What the unit whose turn it is hears.
DsIn == IF slot = 1 THEN gatewayDsOut ELSE prevDsOut[slot - 1]
FaultyUsIn == IF slot < Len(slots) THEN prevUsOut[slot]  \* faulty variant: own output
              ELSE IF loopbackEnabled THEN prevDsOut[slot] ELSE Silence
UsIn == IF slot < Len(slots) THEN prevUsOut[slot + 1]
        ELSE IF loopbackEnabled THEN prevDsOut[slot] ELSE Silence

\* pushHardwareDelay: while the line fills up, its first buffer is repeated.
FaultyPushHardwareDelay ==  \* faulty variant: one line is cut by the default depth
  LET ds == Newest(Append(hwDelayDs[slot], DsIn), pipelineDelayPeriods)
      us == Newest(Append(hwDelayUs[slot], UsIn), RingDepth)
  IN  /\ hwDelayDs' = [hwDelayDs EXCEPT ![slot] = ds]
      /\ hwDelayUs' = [hwDelayUs EXCEPT ![slot] = us]
      /\ pushed' = [ds |-> ds[1], us |-> us[1]]

PushHardwareDelay ==
  LET ds == Newest(Append(hwDelayDs[slot], DsIn), pipelineDelayPeriods)
      us == Newest(Append(hwDelayUs[slot], UsIn), pipelineDelayPeriods)
  IN  /\ hwDelayDs' = [hwDelayDs EXCEPT ![slot] = ds]
      /\ hwDelayUs' = [hwDelayUs EXCEPT ![slot] = us]
      /\ pushed' = [ds |-> ds[1], us |-> us[1]]

Heard == [ds |-> DsIn, us |-> UsIn]

\* One turn of the loop; the last one hands the playback to the gateway.
Step ==
  /\ slot > 0
  /\ dsIn' = [dsIn EXCEPT ![slot] = DsIn]
  /\ usIn' = [usIn EXCEPT ![slot] = UsIn]
  /\ \E ds \in Value, us \in Value :
       /\ slots[slot] = "silent" => ds = Silence /\ us = Silence
       /\ prevDsOut' = [prevDsOut EXCEPT ![slot] = ds]
       /\ prevUsOut' = [prevUsOut EXCEPT ![slot] = us]
  /\ IF slots[slot] = "hardware"
       THEN /\ PushHardwareDelay
            /\ hwHeard' = [hwHeard EXCEPT ![slot] = Newest(Append(@, Heard), AdaptiveDepth)]
       ELSE UNCHANGED lines
  /\ slot' = slot - 1
  /\ IF slot = 1
       THEN /\ gatewayUsOut' = playbackUs
            /\ last' = [dsIn |-> dsIn', usIn |-> usIn', dsOut |-> prevDsOut', usOut |-> prevUsOut']
       ELSE UNCHANGED <<gatewayUsOut, last>>
  /\ UNCHANGED <<chain, gatewayDsOut, playbackUs, pipelineDelayPeriods>>

Next == SetSlots \/ AdaptDepth \/ Begin \/ Step

Spec == Init /\ [][Next]_vars

-----------------------------------------------------------------------------
(***************************************************************************)
(* Properties.                                                             *)
(***************************************************************************)
\* However the sweep overwrites the outputs of the units one by one, a whole
\* sweep is one period of the synchronous network, in which a unit hears
\* downstream what its neighbor put out a period ago and upstream what it puts
\* out in this one.  The specification of the simulator has a period between
\* them in the upstream direction too (spec.md:216).
Wiring == INSTANCE ChainWiring
            WITH layout <- slots, loopback <- loopbackEnabled,
                 dsIn <- last.dsIn, usIn <- last.usIn,
                 dsOut <- last.dsOut, usOut <- last.usOut,
                 speakers <- gatewayUsOut
WiringSpec == Wiring!Spec

\* The delay of a hardware slot: both of its lines end with what the slot has
\* heard last, in the same order and equally late, and the adapter gets the
\* oldest pair.  No period is left out, also when the depth grows.
HardwareLag ==
  \A i \in 1 .. Len(slots) :
    slots[i] = "hardware" =>
      LET k == Len(hwDelayDs[i])
          late == Len(hwHeard[i]) - k
      IN  /\ Len(hwDelayUs[i]) = k
          /\ k <= pipelineDelayPeriods
          /\ k >= RingDepth \/ k = Len(hwHeard[i])
          /\ \A j \in 1 .. k :
               [ds |-> hwDelayDs[i][j], us |-> hwDelayUs[i][j]] = hwHeard[i][late + j]
          /\ k > 0 => pushed = hwHeard[i][late + 1]

=============================================================================
