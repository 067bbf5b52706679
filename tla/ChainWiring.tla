---------------------------- MODULE ChainWiring ----------------------------
(***************************************************************************)
(* The simulated chain as a synchronous network: all units work at once,   *)
(* on what their neighbors put out.  Downstream a unit hears its left      *)
(* neighbor's previous period; upstream it hears what its right neighbor   *)
(* puts out in this very period.  Units are numbered from 1, left to       *)
(* right; the gateway is to the left of unit 1.                            *)
(***************************************************************************)
EXTENDS Naturals, Sequences

CONSTANTS
  Value,     \* what a buffer may hold
  Silence,
  Layouts    \* the chains the operator builds: sequences of kinds of units

VARIABLES
  layout, loopback,
  dsIn, usIn,      \* what the units heard in the last period
  dsOut, usOut,    \* what they put out
  speakers         \* what the gateway played

vars == <<layout, loopback, dsIn, usIn, dsOut, usOut, speakers>>

Quiet(n) == [i \in 1 .. n |-> Silence]

Init ==
  /\ layout \in Layouts
  /\ loopback \in BOOLEAN
  /\ dsIn = Quiet(Len(layout)) /\ usIn = Quiet(Len(layout))
  /\ dsOut = Quiet(Len(layout)) /\ usOut = Quiet(Len(layout))
  /\ speakers = Silence

Period ==
  /\ dsOut' \in [1 .. Len(layout) -> Value]
  /\ usOut' \in [1 .. Len(layout) -> Value]
  /\ \A i \in 1 .. Len(layout) :
       layout[i] = "silent" => dsOut'[i] = Silence /\ usOut'[i] = Silence
  /\ \E mic \in Value :
       dsIn' = [i \in 1 .. Len(layout) |-> IF i = 1 THEN mic ELSE dsOut[i - 1]]
  /\ usIn' = [i \in 1 .. Len(layout) |->
                IF i < Len(layout) THEN usOut'[i + 1]
                ELSE IF loopback THEN dsOut[i] ELSE Silence]
  /\ speakers' = usOut[1]
  /\ UNCHANGED <<layout, loopback>>

Rebuild ==
  /\ layout' \in Layouts
  /\ loopback' \in BOOLEAN
  /\ dsIn' = Quiet(Len(layout')) /\ usIn' = Quiet(Len(layout'))
  /\ dsOut' = Quiet(Len(layout')) /\ usOut' = Quiet(Len(layout'))
  /\ UNCHANGED speakers

Next == Period \/ Rebuild

Spec == Init /\ [][Next]_vars

=============================================================================
