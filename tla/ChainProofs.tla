---------------------------- MODULE ChainProofs ----------------------------
(***************************************************************************)
(* Proofs about the chain scheduler, for chains of every length, ring      *)
(* depths of every size and buffers of every content.                      *)
(***************************************************************************)
EXTENDS ChainScheduler, Integers, SequenceTheorems, TLAPS

-----------------------------------------------------------------------------
(***************************************************************************)
(* What a bounded queue holds after an element was put in.                 *)
(***************************************************************************)
\* Appending to a sequence.
LEMMA AppendFacts ==
  ASSUME NEW S, NEW s \in Seq(S), NEW e \in S
  PROVE  /\ Append(s, e) \in Seq(S)
         /\ Len(Append(s, e)) = Len(s) + 1
         /\ Len(s) \in Nat
         /\ \A j \in 1 .. Len(s) + 1 : Append(s, e)[j] = IF j = Len(s) + 1 THEN e ELSE s[j]
<1>1. Len(s) \in Nat
  BY LenProperties
<1>2. Append(s, e) \in Seq(S) /\ Len(Append(s, e)) = Len(s) + 1
  OBVIOUS
<1>3. ASSUME NEW j \in 1 .. Len(s) + 1
      PROVE  Append(s, e)[j] = IF j = Len(s) + 1 THEN e ELSE s[j]
  OBVIOUS
<1> QED
  BY <1>1, <1>2, <1>3

\* Where the newest n of l elements begin.
LEMMA Cut ==
  ASSUME NEW l \in Nat, NEW n \in Nat \ {0}, n < l
  PROVE  /\ l - n + 1 \in Int /\ l \in Int /\ l - n + 1 <= l
         /\ l - (l - n + 1) + 1 = n /\ 1 <= l - n + 1
OBVIOUS

\* The newest n elements: a suffix, whose length is that of s or n.
LEMMA NewestFacts ==
  ASSUME NEW S, NEW s \in Seq(S), NEW n \in Nat \ {0}
  PROVE  /\ Newest(s, n) \in Seq(S)
         /\ Len(Newest(s, n)) = IF Len(s) <= n THEN Len(s) ELSE n
         /\ \A j \in 1 .. Len(Newest(s, n)) :
              Newest(s, n)[j] = s[(Len(s) - Len(Newest(s, n))) + j]
<1> DEFINE l == Len(s)
<1>1. l \in Nat /\ \A i \in 1 .. l : s[i] \in S
  BY LenProperties, ElementOfSeq
<1>2. CASE l <= n
  <2>1. Newest(s, n) = s
    BY <1>2 DEF Newest
  <2>2. \A j \in 1 .. l : (l - l) + j = j
    BY <1>1
  <2> QED
    BY <1>2, <2>1, <2>2
<1>3. CASE ~(l <= n)
  <2> DEFINE m == l - n + 1
  <2>3. Newest(s, n) = SubSeq(s, m, l)
    BY <1>3 DEF Newest
  <2> HIDE DEF l
  <2>1. m \in Int /\ l \in Int /\ m <= l /\ l - m + 1 = n /\ 1 <= m
    <3>1. n < l
      BY <1>1, <1>3
    <3> QED
      BY <1>1, <3>1, Cut
  <2>2. \A i \in m .. l : s[i] \in S
    BY <1>1, <2>1
  <2>4. ASSUME NEW j \in 1 .. n PROVE m + j - 1 = (l - n) + j
    BY <1>1
  <2> HIDE DEF m
  <2>5. /\ SubSeq(s, m, l) \in Seq(S)
        /\ Len(SubSeq(s, m, l)) = n
        /\ \A j \in 1 .. n : SubSeq(s, m, l)[j] = s[m + j - 1]
    BY <2>1, <2>2, SubSeqProperties
  <2> QED
    BY <1>3, <2>3, <2>4, <2>5 DEF l
<1> QED
  BY <1>2, <1>3

-----------------------------------------------------------------------------
(***************************************************************************)
(* Delay lines.                                                            *)
(***************************************************************************)
\* Two lines of the same length hold the newest pairs of a history.
Aligned(ds, us, heard) ==
  /\ Len(us) = Len(ds) /\ Len(ds) <= Len(heard)
  /\ \A j \in 1 .. Len(ds) :
       [ds |-> ds[j], us |-> us[j]] = heard[(Len(heard) - Len(ds)) + j]

\* Lengths after a push: k of h before, l of g after it.
LEMMA Lengths ==
  ASSUME NEW k \in Nat, NEW h \in Nat, k <= h,
         NEW p \in Nat \ {0}, NEW a \in Nat, p <= a,
         NEW l, l = IF k + 1 <= p THEN k + 1 ELSE p,
         NEW g, g = IF h + 1 <= a THEN h + 1 ELSE a
  PROVE  /\ l \in Nat \ {0} /\ g \in Nat
         /\ l <= k + 1 /\ l <= g /\ g <= h + 1 /\ l <= p
OBVIOUS

\* Positions before and after a push.
LEMMA Positions ==
  ASSUME NEW k \in Nat, NEW h \in Nat, k <= h,
         NEW l \in Nat, NEW g \in Nat, l <= k + 1, l <= g, g <= h + 1,
         NEW j \in 1 .. l
  PROVE  /\ ((k + 1) - l) + j \in 1 .. k + 1
         /\ (g - l) + j \in 1 .. g
         /\ ((h + 1) - g) + ((g - l) + j) = (h - k) + (((k + 1) - l) + j)
         /\ (h - k) + (((k + 1) - l) + j) \in 1 .. h + 1
OBVIOUS

\* The last position of a line is the last of the history.
LEMMA LastPosition ==
  ASSUME NEW k \in Nat, NEW h \in Nat, k <= h, NEW i \in 1 .. k + 1
  PROVE  /\ i = k + 1 <=> (h - k) + i = h + 1
         /\ i # k + 1 => i \in 1 .. k
OBVIOUS

\* A push keeps the lines aligned.
LEMMA PushAligned ==
  ASSUME NEW ds \in Seq(Value), NEW us \in Seq(Value), NEW heard \in Seq(Pair),
         Aligned(ds, us, heard), NEW d \in Value, NEW u \in Value,
         NEW p \in Nat \ {0}, NEW a \in Nat \ {0}, p <= a
  PROVE  LET ds2 == Newest(Append(ds, d), p)
             us2 == Newest(Append(us, u), p)
             heard2 == Newest(Append(heard, [ds |-> d, us |-> u]), a)
         IN  /\ Aligned(ds2, us2, heard2)
             /\ Len(ds2) = IF Len(ds) + 1 <= p THEN Len(ds) + 1 ELSE p
             /\ Len(heard2) = IF Len(heard) + 1 <= a THEN Len(heard) + 1 ELSE a
<1> DEFINE k == Len(ds)
           h == Len(heard)
           pair == [ds |-> d, us |-> u]
           ds1 == Append(ds, d)
           us1 == Append(us, u)
           heard1 == Append(heard, pair)
           ds2 == Newest(ds1, p)
           us2 == Newest(us1, p)
           heard2 == Newest(heard1, a)
           l == Len(ds2)
           g == Len(heard2)
<1>1. pair \in Pair
  BY DEF Pair
<1>2. /\ ds1 \in Seq(Value) /\ us1 \in Seq(Value) /\ heard1 \in Seq(Pair)
      /\ k \in Nat /\ h \in Nat /\ Len(us) = k /\ k <= h
      /\ Len(ds1) = k + 1 /\ Len(us1) = k + 1 /\ Len(heard1) = h + 1
      /\ \A j \in 1 .. k + 1 : ds1[j] = IF j = k + 1 THEN d ELSE ds[j]
      /\ \A j \in 1 .. k + 1 : us1[j] = IF j = k + 1 THEN u ELSE us[j]
      /\ \A j \in 1 .. h + 1 : heard1[j] = IF j = h + 1 THEN pair ELSE heard[j]
  <2>1. /\ ds1 \in Seq(Value) /\ Len(ds1) = k + 1 /\ k \in Nat
        /\ \A j \in 1 .. k + 1 : ds1[j] = IF j = k + 1 THEN d ELSE ds[j]
    BY AppendFacts
  <2>2. /\ us1 \in Seq(Value) /\ Len(us1) = Len(us) + 1
        /\ \A j \in 1 .. Len(us) + 1 : us1[j] = IF j = Len(us) + 1 THEN u ELSE us[j]
    BY AppendFacts
  <2>3. /\ heard1 \in Seq(Pair) /\ Len(heard1) = h + 1 /\ h \in Nat
        /\ \A j \in 1 .. h + 1 : heard1[j] = IF j = h + 1 THEN pair ELSE heard[j]
    BY <1>1, AppendFacts
  <2>4. Len(us) = k /\ k <= h
    BY DEF Aligned
  <2> HIDE DEF ds1, us1, heard1, k, h, pair
  <2> QED
    BY <2>1, <2>2, <2>3, <2>4
<1>3. \A j \in 1 .. k : [ds |-> ds[j], us |-> us[j]] = heard[(h - k) + j]
  BY DEF Aligned
<1> HIDE DEF ds1, us1, heard1, k, h
<1>4. ASSUME NEW j \in 1 .. k + 1
      PROVE  [ds |-> ds1[j], us |-> us1[j]] = heard1[(h - k) + j]
  <2>1. (h - k) + j \in 1 .. h + 1
    BY <1>2
  <2>2. CASE j = k + 1
    BY <1>2, <2>1, <2>2, LastPosition
  <2>3. CASE j # k + 1
    <3>1. j \in 1 .. k /\ (h - k) + j # h + 1
      BY <1>2, <2>3, LastPosition
    <3> QED
      BY <1>2, <1>3, <2>1, <2>3, <3>1
  <2> QED
    BY <2>2, <2>3
<1>5. /\ Len(us2) = l
      /\ l = IF k + 1 <= p THEN k + 1 ELSE p
      /\ g = IF h + 1 <= a THEN h + 1 ELSE a
      /\ \A j \in 1 .. l : ds2[j] = ds1[((k + 1) - l) + j]
      /\ \A j \in 1 .. l : us2[j] = us1[((k + 1) - l) + j]
      /\ \A j \in 1 .. g : heard2[j] = heard1[((h + 1) - g) + j]
  <2>0. ds1 \in Seq(Value) /\ us1 \in Seq(Value) /\ heard1 \in Seq(Pair)
    BY <1>2
  <2>1. /\ Len(ds2) = IF Len(ds1) <= p THEN Len(ds1) ELSE p
        /\ \A j \in 1 .. Len(ds2) : ds2[j] = ds1[(Len(ds1) - Len(ds2)) + j]
    BY <2>0, NewestFacts
  <2>2. /\ Len(us2) = IF Len(us1) <= p THEN Len(us1) ELSE p
        /\ \A j \in 1 .. Len(us2) : us2[j] = us1[(Len(us1) - Len(us2)) + j]
    BY <2>0, NewestFacts
  <2>3. /\ Len(heard2) = IF Len(heard1) <= a THEN Len(heard1) ELSE a
        /\ \A j \in 1 .. Len(heard2) : heard2[j] = heard1[(Len(heard1) - Len(heard2)) + j]
    BY <2>0, NewestFacts
  <2> HIDE DEF us2, ds2, heard2
  <2>4. Len(ds1) = k + 1 /\ Len(us1) = k + 1 /\ Len(heard1) = h + 1
    BY <1>2
  <2> QED
    BY <2>1, <2>2, <2>3, <2>4
<1> HIDE DEF ds2, us2, heard2, l, g
<1>6. l \in Nat \ {0} /\ g \in Nat /\ l <= k + 1 /\ l <= g /\ g <= h + 1
  BY <1>2, <1>5, Lengths
<1>7. ASSUME NEW j \in 1 .. l
      PROVE  [ds |-> ds2[j], us |-> us2[j]] = heard2[(g - l) + j]
  <2> DEFINE i == ((k + 1) - l) + j
             m == (g - l) + j
  <2>1. i \in 1 .. k + 1 /\ m \in 1 .. g /\ ((h + 1) - g) + m = (h - k) + i
    BY <1>2, <1>6, Positions
  <2>2. ds2[j] = ds1[i] /\ us2[j] = us1[i]
    BY <1>5
  <2> HIDE DEF i, m
  <2>3. heard2[m] = heard1[(h - k) + i]
    BY <1>5, <2>1
  <2> QED
    BY <1>4, <2>1, <2>2, <2>3 DEF m
<1>8. Aligned(ds2, us2, heard2)
  BY <1>5, <1>6, <1>7 DEF Aligned, l, g
<1> QED
  BY <1>5, <1>8 DEF ds2, us2, heard2, ds1, us1, heard1, l, g, k, h

-----------------------------------------------------------------------------
(***************************************************************************)
(* The inductive invariant.                                                *)
(***************************************************************************)
\* How far the sweep has come: the units it has not passed still have the last
\* period's outputs, the others have heard what the network prescribes.
Sweep ==
  /\ \A i \in 1 .. Len(slots) :
       slot = 0 \/ i <= slot => prevDsOut[i] = last.dsOut[i] /\ prevUsOut[i] = last.usOut[i]
  /\ slot > 0 =>
       /\ playbackUs = last.usOut[1]
       /\ \A i \in slot + 1 .. Len(slots) :
            /\ dsIn[i] = IF i = 1 THEN gatewayDsOut ELSE last.dsOut[i - 1]
            /\ usIn[i] = IF i < Len(slots) THEN prevUsOut[i + 1]
                         ELSE IF loopbackEnabled THEN last.dsOut[i] ELSE Silence
            /\ slots[i] = "silent" => prevDsOut[i] = Silence /\ prevUsOut[i] = Silence

\* The delay of the hardware slot.
Lag ==
  \A i \in 1 .. Len(slots) :
    slots[i] = "hardware" =>
      /\ Aligned(hwDelayDs[i], hwDelayUs[i], hwHeard[i])
      /\ Len(hwDelayDs[i]) <= pipelineDelayPeriods
      /\ Len(hwDelayDs[i]) >= RingDepth \/ Len(hwDelayDs[i]) = Len(hwHeard[i])
      /\ Len(hwDelayDs[i]) > 0 =>
           pushed = hwHeard[i][(Len(hwHeard[i]) - Len(hwDelayDs[i])) + 1]

IInv == TypeOK /\ Sweep /\ Lag

\* A chain has units.
LEMMA ChainLength ==
  ASSUME NEW l \in Layouts
  PROVE  Len(l) \in Nat \ {0} /\ l \in [1 .. Len(l) -> Kind]
BY SchedulerAssumption, EmptySeq, LenProperties

\* Silence on every link.
LEMMA QuietIsBuffers ==
  ASSUME NEW n
  PROVE  /\ Quiet(n) \in Buffers(n)
         /\ [dsIn |-> Quiet(n), usIn |-> Quiet(n), dsOut |-> Quiet(n), usOut |-> Quiet(n)]
              \in Whole(n)
<1>1. Quiet(n) \in Buffers(n)
  BY SchedulerAssumption DEF Quiet, Buffers
<1> QED
  BY <1>1 DEF Whole

\* No line holds anything.
LEMMA EmptyLines ==
  ASSUME NEW n, NEW S
  PROVE  [i \in 1 .. n |-> <<>>] \in [1 .. n -> Seq(S)]
BY EmptySeq

\* Empty lines are aligned with an empty history.
LEMMA NothingHeard ==
  /\ Aligned(<<>>, <<>>, <<>>)
  /\ Len(<<>>) = 0
  /\ \A p \in Nat : 0 <= p
  /\ ~(0 > 0)
<1>1. Len(<<>>) = 0
  OBVIOUS
<1> QED
  BY <1>1 DEF Aligned

LEMMA Initially == Init => IInv
<1> SUFFICES ASSUME Init PROVE IInv
  OBVIOUS
<1> DEFINE n == Len(slots)
<1>1. slots \in Layouts /\ n \in Nat \ {0}
  BY ChainLength DEF Init
<1>2. TypeOK
  <2>1. Quiet(n) \in Buffers(n) /\ last \in Whole(n)
    BY QuietIsBuffers DEF Init
  <2>2. hwDelayDs \in [1 .. n -> Seq(Value)] /\ hwDelayUs \in [1 .. n -> Seq(Value)]
        /\ hwHeard \in [1 .. n -> Seq(Pair)]
    BY EmptyLines DEF Init
  <2>3. slot \in 0 .. n /\ pushed \in Pair
    BY <1>1, SchedulerAssumption DEF Init, Pair
  <2> QED
    BY <2>1, <2>2, <2>3, SchedulerAssumption DEF Init, TypeOK
<1>3. Sweep
  BY <1>1 DEF Init, Sweep, Quiet
<1>4. Lag
  <2>1. ASSUME NEW i \in 1 .. n
        PROVE  hwDelayDs[i] = <<>> /\ hwDelayUs[i] = <<>> /\ hwHeard[i] = <<>>
    BY DEF Init
  <2>2. pipelineDelayPeriods \in Nat
    BY SchedulerAssumption DEF Init
  <2> QED
    BY <2>1, <2>2, NothingHeard DEF Lag
<1> QED
  BY <1>2, <1>3, <1>4 DEF IInv

\* A rebuild clears whatever the links and the lines held.
LEMMA SetSlotsKeeps == IInv /\ SetSlots => IInv'
<1> SUFFICES ASSUME IInv, SetSlots PROVE IInv'
  OBVIOUS
<1> DEFINE n == Len(slots')
<1>1. /\ slots' \in Layouts /\ loopbackEnabled' \in BOOLEAN /\ Cleared(n)
      /\ slot = 0 /\ slot' = 0
      /\ pipelineDelayPeriods' \in {RingDepth, AdaptiveDepth}
  BY DEF SetSlots, IInv, TypeOK
<1>2. n \in Nat \ {0}
  BY <1>1, ChainLength
<1>3. TypeOK'
  <2>1. prevDsOut' \in Buffers(n) /\ prevUsOut' \in Buffers(n)
        /\ dsIn' \in Buffers(n) /\ usIn' \in Buffers(n) /\ last' \in Whole(n)
    BY <1>1, QuietIsBuffers DEF Cleared
  <2>2. hwDelayDs' \in [1 .. n -> Seq(Value)] /\ hwDelayUs' \in [1 .. n -> Seq(Value)]
        /\ hwHeard' \in [1 .. n -> Seq(Pair)]
    BY <1>1, EmptyLines DEF Cleared
  <2>3. slot' \in 0 .. n
    BY <1>1, <1>2
  <2>4. /\ gatewayDsOut' \in Value /\ gatewayUsOut' \in Value /\ playbackUs' \in Value
        /\ pushed' \in Pair
    BY DEF SetSlots, gateway, IInv, TypeOK
  <2> QED
    BY <1>1, <2>1, <2>2, <2>3, <2>4 DEF TypeOK
<1>4. Sweep'
  BY <1>1 DEF Sweep, Cleared, Quiet
<1>5. Lag'
  <2>1. ASSUME NEW i \in 1 .. n
        PROVE  hwDelayDs'[i] = <<>> /\ hwDelayUs'[i] = <<>> /\ hwHeard'[i] = <<>>
    BY <1>1 DEF Cleared
  <2>2. pipelineDelayPeriods' \in Nat
    BY <1>1, SchedulerAssumption
  <2> QED
    BY <2>1, <2>2, NothingHeard DEF Lag
<1> QED
  BY <1>3, <1>4, <1>5 DEF IInv

\* The depth grows while no line is longer than the smaller one.
LEMMA AdaptDepthKeeps == IInv /\ AdaptDepth => IInv'
<1> SUFFICES ASSUME IInv, AdaptDepth PROVE IInv'
  OBVIOUS
<1> USE DEF AdaptDepth, chain, outputs, lines, gateway, inputs
<1>1. TypeOK'
  BY DEF IInv, TypeOK
<1>2. Sweep'
  BY DEF IInv, Sweep
<1>3. Lag'
  <2>1. pipelineDelayPeriods \in Nat /\ pipelineDelayPeriods <= AdaptiveDepth
        /\ pipelineDelayPeriods' = AdaptiveDepth /\ AdaptiveDepth \in Nat
    BY SchedulerAssumption DEF IInv, TypeOK
  <2>2. ASSUME NEW i \in 1 .. Len(slots), slots[i] = "hardware"
        PROVE  Len(hwDelayDs[i]) <= AdaptiveDepth
    <3>1. Len(hwDelayDs[i]) \in Nat
      BY LenProperties DEF IInv, TypeOK
    <3>2. Len(hwDelayDs[i]) <= pipelineDelayPeriods
      BY <2>2 DEF IInv, Lag
    <3> QED
      BY <2>1, <3>1, <3>2
  <2> QED
    BY <2>1, <2>2 DEF IInv, Lag
<1> QED
  BY <1>1, <1>2, <1>3 DEF IInv

\* A new period begins with every unit still to come.
LEMMA BeginKeeps == IInv /\ Begin => IInv'
<1> SUFFICES ASSUME IInv, Begin PROVE IInv'
  OBVIOUS
<1> USE DEF Begin, chain, outputs, lines, inputs
<1>1. Len(slots) \in Nat \ {0}
  BY ChainLength DEF IInv, TypeOK
<1>2. TypeOK'
  <2>1. 1 \in 1 .. Len(slots) /\ Len(slots) \in 0 .. Len(slots)
    BY <1>1
  <2>2. playbackUs' \in Value
    BY <2>1 DEF IInv, TypeOK, Buffers
  <2> QED
    BY <2>1, <2>2 DEF IInv, TypeOK
<1>3. Sweep'
  <2>1. \A i \in 1 .. Len(slots) : prevDsOut[i] = last.dsOut[i] /\ prevUsOut[i] = last.usOut[i]
    BY DEF IInv, Sweep
  <2>2. playbackUs' = last.usOut[1] /\ slot' + 1 .. Len(slots') = {}
    BY <1>1, <2>1
  <2> QED
    BY <2>1, <2>2 DEF Sweep
<1>4. Lag'
  BY DEF IInv, Lag
<1> QED
  BY <1>2, <1>3, <1>4 DEF IInv

\* What the unit whose turn it is hears.
LEMMA Inputs ==
  ASSUME IInv, slot > 0
  PROVE  /\ Len(slots) \in Nat \ {0} /\ slot \in 1 .. Len(slots)
         /\ DsIn \in Value /\ UsIn \in Value
         /\ DsIn = IF slot = 1 THEN gatewayDsOut ELSE last.dsOut[slot - 1]
         /\ UsIn = IF slot < Len(slots) THEN prevUsOut[slot + 1]
                   ELSE IF loopbackEnabled THEN last.dsOut[slot] ELSE Silence
<1>1. Len(slots) \in Nat \ {0}
  BY ChainLength DEF IInv, TypeOK
<1>2. slot \in 1 .. Len(slots)
  BY <1>1 DEF IInv, TypeOK
<1>3. /\ slot # 1 => slot - 1 \in 1 .. Len(slots) /\ slot - 1 <= slot
      /\ slot < Len(slots) => slot + 1 \in 1 .. Len(slots)
      /\ slot <= slot
  BY <1>1, <1>2
<1>4. /\ \A i \in 1 .. Len(slots) : prevDsOut[i] \in Value /\ prevUsOut[i] \in Value
      /\ gatewayDsOut \in Value /\ Silence \in Value
  BY SchedulerAssumption DEF IInv, TypeOK, Buffers
<1>5. \A i \in 1 .. Len(slots) : i <= slot => prevDsOut[i] = last.dsOut[i]
  BY DEF IInv, Sweep
<1>6. DsIn \in Value /\ UsIn \in Value
  BY <1>2, <1>3, <1>4 DEF DsIn, UsIn
<1>7. DsIn = IF slot = 1 THEN gatewayDsOut ELSE last.dsOut[slot - 1]
  BY <1>3, <1>5 DEF DsIn
<1>8. UsIn = IF slot < Len(slots) THEN prevUsOut[slot + 1]
             ELSE IF loopbackEnabled THEN last.dsOut[slot] ELSE Silence
  BY <1>2, <1>3, <1>5 DEF UsIn
<1> QED
  BY <1>1, <1>2, <1>6, <1>7, <1>8

\* The lines of the hardware slot after its turn.
LEMMA PushKeeps ==
  ASSUME IInv, Step, slots[slot] = "hardware"
  PROVE  /\ hwDelayDs' \in [1 .. Len(slots) -> Seq(Value)]
         /\ hwDelayUs' \in [1 .. Len(slots) -> Seq(Value)]
         /\ hwHeard' \in [1 .. Len(slots) -> Seq(Pair)]
         /\ pushed' \in Pair
         /\ Lag'
<1> DEFINE ds1 == Append(hwDelayDs[slot], DsIn)
           us1 == Append(hwDelayUs[slot], UsIn)
           heard1 == Append(hwHeard[slot], [ds |-> DsIn, us |-> UsIn])
           ds == Newest(ds1, pipelineDelayPeriods)
           us == Newest(us1, pipelineDelayPeriods)
           heard == Newest(heard1, AdaptiveDepth)
           k == Len(hwDelayDs[slot])
           h == Len(hwHeard[slot])
<1>1. /\ slot \in 1 .. Len(slots) /\ DsIn \in Value /\ UsIn \in Value
      /\ pipelineDelayPeriods' = pipelineDelayPeriods /\ slots' = slots
  BY Inputs DEF Step, chain
<1>2. /\ pipelineDelayPeriods \in Nat \ {0} /\ AdaptiveDepth \in Nat \ {0}
      /\ pipelineDelayPeriods <= AdaptiveDepth
      /\ RingDepth \in Nat /\ RingDepth <= pipelineDelayPeriods
  BY SchedulerAssumption DEF IInv, TypeOK
<1>3. /\ hwDelayDs \in [1 .. Len(slots) -> Seq(Value)]
      /\ hwDelayUs \in [1 .. Len(slots) -> Seq(Value)]
      /\ hwHeard \in [1 .. Len(slots) -> Seq(Pair)]
  BY DEF IInv, TypeOK
<1>4. /\ hwDelayDs[slot] \in Seq(Value) /\ hwDelayUs[slot] \in Seq(Value)
      /\ hwHeard[slot] \in Seq(Pair)
      /\ Aligned(hwDelayDs[slot], hwDelayUs[slot], hwHeard[slot])
  BY <1>1, <1>3 DEF IInv, Lag
<1>5. /\ Aligned(ds, us, heard)
      /\ Len(ds) = IF k + 1 <= pipelineDelayPeriods THEN k + 1 ELSE pipelineDelayPeriods
      /\ Len(heard) = IF h + 1 <= AdaptiveDepth THEN h + 1 ELSE AdaptiveDepth
  BY <1>1, <1>2, <1>4, PushAligned
<1>6. ds \in Seq(Value) /\ us \in Seq(Value) /\ heard \in Seq(Pair)
  <2>1. ds1 \in Seq(Value) /\ us1 \in Seq(Value)
    BY <1>1, <1>4, AppendFacts
  <2>2. [ds |-> DsIn, us |-> UsIn] \in Pair
    BY <1>1 DEF Pair
  <2>3. heard1 \in Seq(Pair)
    BY <1>4, <2>2, AppendFacts
  <2> HIDE DEF ds1, us1, heard1
  <2> QED
    BY <1>2, <2>1, <2>3, NewestFacts
<1>7. /\ hwDelayDs' = [hwDelayDs EXCEPT ![slot] = ds]
      /\ hwDelayUs' = [hwDelayUs EXCEPT ![slot] = us]
      /\ hwHeard' = [hwHeard EXCEPT ![slot] = heard]
      /\ pushed' = [ds |-> ds[1], us |-> us[1]]
  BY DEF Step, PushHardwareDelay, Heard
<1>8. k \in Nat /\ h \in Nat /\ k <= h /\ k <= pipelineDelayPeriods
      /\ (k >= RingDepth \/ k = h)
  <2>1. k \in Nat /\ h \in Nat
    BY <1>4, LenProperties
  <2> QED
    BY <1>1, <1>4, <2>1 DEF IInv, Lag, Aligned
<1> HIDE DEF ds, us, heard, k, h
<1>9. /\ Len(ds) \in Nat \ {0} /\ Len(heard) \in Nat /\ Len(ds) <= pipelineDelayPeriods
      /\ Len(ds) >= RingDepth \/ Len(ds) = Len(heard)
      /\ 1 \in 1 .. Len(ds)
  BY <1>2, <1>5, <1>8
<1>10. pushed' = heard[(Len(heard) - Len(ds)) + 1]
  BY <1>5, <1>7, <1>9 DEF Aligned
<1>11. pushed' \in Pair
  <2>1. Len(us) = Len(ds)
    BY <1>5 DEF Aligned
  <2>2. ds[1] \in Value /\ us[1] \in Value
    BY <1>6, <1>9, <2>1, ElementOfSeq
  <2> QED
    BY <1>7, <2>2 DEF Pair
<1>12. Lag'
  <2>1. \A i \in 1 .. Len(slots) : slots[i] = "hardware" => i = slot
    BY <1>1, SchedulerAssumption DEF IInv, TypeOK
  <2>2. hwDelayDs'[slot] = ds /\ hwDelayUs'[slot] = us /\ hwHeard'[slot] = heard
    BY <1>1, <1>3, <1>7
  <2> QED
    BY <1>1, <1>5, <1>9, <1>10, <2>1, <2>2 DEF Lag
<1> QED
  BY <1>1, <1>3, <1>6, <1>7, <1>11, <1>12

\* The sweep goes on: what the unit has heard and put out fits to the rest.
LEMMA StepSweep ==
  ASSUME IInv, Step
  PROVE  /\ prevDsOut' \in Buffers(Len(slots)) /\ prevUsOut' \in Buffers(Len(slots))
         /\ dsIn' \in Buffers(Len(slots)) /\ usIn' \in Buffers(Len(slots))
         /\ \A i \in 1 .. Len(slots) :
              i < slot => prevDsOut'[i] = last.dsOut[i] /\ prevUsOut'[i] = last.usOut[i]
         /\ playbackUs = last.usOut[1]
         /\ \A i \in slot .. Len(slots) :
              /\ dsIn'[i] = IF i = 1 THEN gatewayDsOut ELSE last.dsOut[i - 1]
              /\ usIn'[i] = IF i < Len(slots) THEN prevUsOut'[i + 1]
                            ELSE IF loopbackEnabled THEN last.dsOut[i] ELSE Silence
              /\ slots[i] = "silent" => prevDsOut'[i] = Silence /\ prevUsOut'[i] = Silence
<1> DEFINE n == Len(slots)
<1>1. /\ n \in Nat \ {0} /\ slot \in 1 .. n /\ slot > 0
      /\ DsIn \in Value /\ UsIn \in Value
      /\ DsIn = IF slot = 1 THEN gatewayDsOut ELSE last.dsOut[slot - 1]
      /\ UsIn = IF slot < n THEN prevUsOut[slot + 1]
                ELSE IF loopbackEnabled THEN last.dsOut[slot] ELSE Silence
  BY Inputs DEF Step
<1>2. PICK ds \in Value, us \in Value :
        /\ slots[slot] = "silent" => ds = Silence /\ us = Silence
        /\ prevDsOut' = [prevDsOut EXCEPT ![slot] = ds]
        /\ prevUsOut' = [prevUsOut EXCEPT ![slot] = us]
  BY DEF Step
<1>3. dsIn' = [dsIn EXCEPT ![slot] = DsIn] /\ usIn' = [usIn EXCEPT ![slot] = UsIn]
  BY DEF Step
<1>4. /\ prevDsOut \in Buffers(n) /\ prevUsOut \in Buffers(n)
      /\ dsIn \in Buffers(n) /\ usIn \in Buffers(n)
  BY DEF IInv, TypeOK
<1>5. /\ prevDsOut' \in Buffers(n) /\ prevUsOut' \in Buffers(n)
      /\ dsIn' \in Buffers(n) /\ usIn' \in Buffers(n)
  BY <1>1, <1>2, <1>3, <1>4 DEF Buffers
<1>6. ASSUME NEW i \in 1 .. n, i < slot
      PROVE  prevDsOut'[i] = last.dsOut[i] /\ prevUsOut'[i] = last.usOut[i]
  <2>1. i # slot /\ i <= slot
    BY <1>1, <1>6
  <2>2. prevDsOut'[i] = prevDsOut[i] /\ prevUsOut'[i] = prevUsOut[i]
    BY <1>1, <1>2, <1>4, <2>1 DEF Buffers
  <2> QED
    BY <2>1, <2>2 DEF IInv, Sweep
<1>7. ASSUME NEW i \in slot .. n
      PROVE  /\ dsIn'[i] = IF i = 1 THEN gatewayDsOut ELSE last.dsOut[i - 1]
             /\ usIn'[i] = IF i < n THEN prevUsOut'[i + 1]
                           ELSE IF loopbackEnabled THEN last.dsOut[i] ELSE Silence
             /\ slots[i] = "silent" => prevDsOut'[i] = Silence /\ prevUsOut'[i] = Silence
  <2>1. i \in 1 .. n /\ (i < n => i + 1 \in 1 .. n /\ i + 1 # slot)
        /\ (i # slot => i \in slot + 1 .. n)
    BY <1>1
  <2>2. i < n => prevUsOut'[i + 1] = prevUsOut[i + 1]
    BY <1>2, <1>4, <2>1 DEF Buffers
  <2>3. CASE i = slot
    <3>1. dsIn'[i] = DsIn /\ usIn'[i] = UsIn
      BY <1>3, <1>4, <2>1, <2>3 DEF Buffers
    <3>2. slots[i] = "silent" => prevDsOut'[i] = Silence /\ prevUsOut'[i] = Silence
      BY <1>2, <1>4, <2>1, <2>3 DEF Buffers
    <3> QED
      BY <1>1, <2>2, <2>3, <3>1, <3>2
  <2>4. CASE i # slot
    <3>1. /\ dsIn'[i] = dsIn[i] /\ usIn'[i] = usIn[i]
          /\ prevDsOut'[i] = prevDsOut[i] /\ prevUsOut'[i] = prevUsOut[i]
      BY <1>2, <1>3, <1>4, <2>1, <2>4 DEF Buffers
    <3>2. /\ dsIn[i] = IF i = 1 THEN gatewayDsOut ELSE last.dsOut[i - 1]
          /\ usIn[i] = IF i < n THEN prevUsOut[i + 1]
                       ELSE IF loopbackEnabled THEN last.dsOut[i] ELSE Silence
          /\ slots[i] = "silent" => prevDsOut[i] = Silence /\ prevUsOut[i] = Silence
      BY <1>1, <2>1, <2>4 DEF IInv, Sweep
    <3> QED
      BY <2>2, <3>1, <3>2
  <2> QED
    BY <2>3, <2>4
<1>8. playbackUs = last.usOut[1]
  BY <1>1 DEF IInv, Sweep
<1> QED
  BY <1>5, <1>6, <1>7, <1>8

LEMMA StepKeeps == IInv /\ Step => IInv'
<1> SUFFICES ASSUME IInv, Step PROVE IInv'
  OBVIOUS
<1> DEFINE n == Len(slots)
<1>1. n \in Nat \ {0} /\ slot \in 1 .. n /\ slot > 0
  BY Inputs DEF Step
<1>2. /\ slots' = slots /\ loopbackEnabled' = loopbackEnabled /\ slot' = slot - 1
      /\ gatewayDsOut' = gatewayDsOut /\ playbackUs' = playbackUs
      /\ pipelineDelayPeriods' = pipelineDelayPeriods
  BY DEF Step, chain
<1>3. /\ hwDelayDs' \in [1 .. n -> Seq(Value)] /\ hwDelayUs' \in [1 .. n -> Seq(Value)]
      /\ hwHeard' \in [1 .. n -> Seq(Pair)] /\ pushed' \in Pair
      /\ Lag'
  <2>1. CASE slots[slot] = "hardware"
    BY <2>1, PushKeeps
  <2>2. CASE slots[slot] # "hardware"
    <3>1. UNCHANGED lines
      BY <2>2 DEF Step
    <3> QED
      BY <1>2, <3>1 DEF lines, IInv, TypeOK, Lag
  <2> QED
    BY <2>1, <2>2
<1>4. CASE slot = 1
  <2>1. /\ gatewayUsOut' = playbackUs /\ slot' = 0
        /\ last' = [dsIn |-> dsIn', usIn |-> usIn', dsOut |-> prevDsOut', usOut |-> prevUsOut']
    BY <1>2, <1>4 DEF Step
  <2>2. last' \in Whole(n)
    BY <2>1, StepSweep DEF Whole
  <2>3. TypeOK'
    BY <1>1, <1>2, <1>3, <2>1, <2>2, StepSweep DEF IInv, TypeOK
  <2>4. Sweep'
    BY <1>2, <2>1 DEF Sweep
  <2> QED
    BY <1>3, <2>3, <2>4 DEF IInv
<1>5. CASE slot # 1
  <2>1. gatewayUsOut' = gatewayUsOut /\ last' = last
    BY <1>5 DEF Step
  <2>2. /\ slot' \in 0 .. n /\ slot' > 0 /\ slot' + 1 = slot
        /\ \A i \in 1 .. n : i <= slot' => i < slot
    BY <1>1, <1>2, <1>5
  <2>3. TypeOK'
    BY <1>2, <1>3, <2>1, <2>2, StepSweep DEF IInv, TypeOK
  <2>4. Sweep'
    <3>1. slot' # 0
      BY <2>2
    <3> QED
      BY <1>2, <2>1, <2>2, <3>1, StepSweep DEF Sweep
  <2> QED
    BY <1>3, <2>3, <2>4 DEF IInv
<1> QED
  BY <1>4, <1>5

LEMMA Invariance == Spec => []IInv
<1>1. IInv /\ [Next]_vars => IInv'
  <2>1. IInv /\ UNCHANGED vars => IInv'
    BY DEF vars, chain, outputs, lines, gateway, inputs, IInv, TypeOK, Sweep, Lag
  <2> QED
    BY <2>1, SetSlotsKeeps, AdaptDepthKeeps, BeginKeeps, StepKeeps DEF Next
<1> QED
  BY <1>1, Initially, PTL DEF Spec

-----------------------------------------------------------------------------
(***************************************************************************)
(* The theorems.                                                           *)
(***************************************************************************)
\* Every link, every delay line and every record of a period has its type, also
\* while the page rebuilds the chain around them.
THEOREM TypeCorrect == Spec => []TypeOK
<1>1. IInv => TypeOK
  BY DEF IInv
<1> QED
  BY <1>1, Invariance, PTL

\* The hardware slot's two lines stay together and lose no period.
THEOREM LinesAligned == Spec => []HardwareLag
<1>1. IInv => HardwareLag
  BY DEF IInv, Lag, Aligned, HardwareLag
<1> QED
  BY <1>1, Invariance, PTL

\* A sweep over the units is one period of the synchronous network.
THEOREM Refinement == Spec => WiringSpec
<1>1. Init => Wiring!Init
  BY DEF Init, Wiring!Init, Quiet, Wiring!Quiet
<1>2. IInv /\ [Next]_vars => [Wiring!Next]_Wiring!vars
  <2>1. SUFFICES ASSUME IInv, [Next]_vars PROVE [Wiring!Next]_Wiring!vars
    OBVIOUS
  <2>2. CASE SetSlots
    BY <2>2 DEF SetSlots, Cleared, gateway, Quiet, Wiring!Quiet, Wiring!Rebuild, Wiring!Next
  <2>3. CASE AdaptDepth
    BY <2>3 DEF AdaptDepth, chain, gateway, Wiring!vars
  <2>4. CASE Begin
    BY <2>4 DEF Begin, chain, Wiring!vars
  <2>5. CASE Step
    <3>1. CASE slot = 1
      <4>1. /\ gatewayUsOut' = playbackUs /\ slots' = slots
            /\ loopbackEnabled' = loopbackEnabled
            /\ last' = [dsIn |-> dsIn', usIn |-> usIn',
                        dsOut |-> prevDsOut', usOut |-> prevUsOut']
        BY <2>5, <3>1 DEF Step, chain
      <4>2. Wiring!Period
        <5>1. gatewayDsOut \in Value
          BY <2>1 DEF IInv, TypeOK
        <5>2. dsIn' = [i \in 1 .. Len(slots) |->
                         IF i = 1 THEN gatewayDsOut ELSE last.dsOut[i - 1]]
          BY <2>1, <2>5, <3>1, StepSweep DEF Buffers
        <5>3. usIn' = [i \in 1 .. Len(slots) |->
                         IF i < Len(slots) THEN prevUsOut'[i + 1]
                         ELSE IF loopbackEnabled THEN last.dsOut[i] ELSE Silence]
          BY <2>1, <2>5, <3>1, StepSweep DEF Buffers
        <5>4. /\ prevDsOut' \in [1 .. Len(slots) -> Value]
              /\ prevUsOut' \in [1 .. Len(slots) -> Value]
              /\ \A i \in 1 .. Len(slots) :
                   slots[i] = "silent" => prevDsOut'[i] = Silence /\ prevUsOut'[i] = Silence
              /\ playbackUs = last.usOut[1]
          BY <2>1, <2>5, <3>1, StepSweep DEF Buffers
        <5> QED
          BY <4>1, <5>1, <5>2, <5>3, <5>4 DEF Wiring!Period
      <4> QED
        BY <4>2 DEF Wiring!Next
    <3>2. CASE slot # 1
      BY <2>5, <3>2 DEF Step, chain, Wiring!vars
    <3> QED
      BY <3>1, <3>2
  <2>6. CASE UNCHANGED vars
    BY <2>6 DEF vars, chain, gateway, Wiring!vars
  <2> QED
    BY <2>1, <2>2, <2>3, <2>4, <2>5, <2>6 DEF Next
<1> QED
  BY <1>1, <1>2, Invariance, PTL DEF Spec, WiringSpec, Wiring!Spec

=============================================================================
